----------------------- MODULE ActionApprovalsProofs -----------------------
(***************************************************************************)
(* Proofs about ActionApprovals, for every set of approvals, intents,      *)
(* plans and API processes and for every threshold.                        *)
(***************************************************************************)
EXTENDS ActionApprovals, TLAPS

USE ClassAssumption, TimesAssumption, NoneAssumption
    DEF Outcomes, Verdicts, Results, Decisions, PCs, Statuses, Terminal, Pending,
        Startable

Typed == TypeOK /\ SessionsWellFormed

LEMMA InitTyped == Init => Typed
  BY DEF Init, Typed, TypeOK, SessionsWellFormed, WellFormed, Attempting,
         Time, Row, NoRow, Idle, Session

\* Replacing one session by a well-formed one keeps all of them well formed.
LEMMA SessionStep ==
  ASSUME Typed, NEW s \in Servers, NEW q \in Session, WellFormed(q),
         sessions' = [sessions EXCEPT ![s] = q]
  PROVE  sessions' \in [Servers -> Session] /\ SessionsWellFormed'
  BY DEF Typed, TypeOK, SessionsWellFormed

LEMMA IdleSession == Idle \in Session /\ WellFormed(Idle)
  BY DEF Idle, Session, WellFormed, Attempting

LEMMA ClosingSession ==
  ASSUME NEW events \in SUBSET (Ids \X Events)
  PROVE  Closing(events) \in Session /\ WellFormed(Closing(events))
  BY DEF Closing, Idle, Session, WellFormed, Attempting

LEMMA StartingSession ==
  ASSUME NEW i \in Ids, NEW b \in BOOLEAN
  PROVE  LET q == [Idle EXCEPT !.pc = "gate", !.id = i, !.archived = b,
                               !.todo = {<<i, "approval_execution_started">>}]
         IN  q \in Session /\ WellFormed(q)
  <1> DEFINE events == {<<i, "approval_execution_started">>}
             q == [Idle EXCEPT !.pc = "gate", !.id = i, !.archived = b,
                               !.todo = events]
  <1>1. events \in SUBSET (Ids \X Events)
    BY DEF Events
  <1>2. q \in Session
    <2> HIDE DEF events
    <2> QED
      BY <1>1 DEF Idle, Session
  <1>3. q.pc = "gate" /\ q.id = i
    BY Zenon DEF Idle
  <1>4. WellFormed(q)
    <2> HIDE DEF q
    <2> QED
      BY <1>3 DEF WellFormed, Attempting
  <1> QED
    BY <1>2, <1>4, Zenon

LEMMA ConcludeSession ==
  ASSUME Typed, NEW s \in Servers, Attempting(sessions[s]),
         NEW verdict, NEW outcome, Conclude(s, verdict, outcome),
         \/ verdict = "executed" /\ outcome \in {"completed", "mock_executed"}
         \/ verdict = "blocked" /\ outcome \in {"unsupported", "blocked"}
  PROVE  sessions' \in [Servers -> Session] /\ SessionsWellFormed'
  <1> DEFINE q == [sessions[s] EXCEPT !.pc = "finish", !.verdict = verdict,
                                      !.outcome = outcome]
  <1>1. sessions[s] \in Session /\ WellFormed(sessions[s])
    BY DEF Typed, TypeOK, SessionsWellFormed
  <1>2. q \in Session
    BY <1>1 DEF Session
  <1>3. WellFormed(q)
    BY <1>1 DEF Session, WellFormed, Attempting
  <1>4. sessions' = [sessions EXCEPT ![s] = q]
    BY DEF Conclude
  <1> HIDE DEF q
  <1> QED
    BY <1>2, <1>3, <1>4, SessionStep

LEMMA RecordType ==
  ASSUME executions \subseteq Execution, NEW i \in Ids, NEW p \in Plans,
         NEW result \in {"mock_executed", "blocked"}, Record(i, p, result)
  PROVE  executions' \subseteq Execution
  BY DEF Record, Execution

LEMMA ProposingTyped == Typed /\ Proposing => Typed'
  <1> SUFFICES ASSUME Typed, Proposing PROVE Typed'
    OBVIOUS
  <1> USE DEF Typed, TypeOK
  <1>0. UNCHANGED sessions => SessionsWellFormed'
    BY DEF SessionsWellFormed
  <1>1. ASSUME NEW i \in Ids, NEW k \in Intents, Propose(i, k) PROVE Typed'
    <2>1. [NoRow EXCEPT !.status = "pending", !.intent = k, !.requested = clock,
                        !.settled = clock] \in Row
      BY DEF NoRow, Row, Time
    <2> QED
      BY <1>0, <1>1, <2>1 DEF Propose
  <1>2. CASE RecordProposal
    BY <1>0, <1>2 DEF RecordProposal, Events
  <1>3. CASE ProposerCrash
    BY <1>0, <1>3 DEF ProposerCrash
  <1> QED
    BY <1>1, <1>2, <1>3 DEF Proposing

LEMMA ExecutingTyped ==
  ASSUME Typed, NEW s \in Servers, Executing(s)
  PROVE  Typed'
  <1> USE DEF Typed
  <1>0. /\ sessions[s] \in Session /\ WellFormed(sessions[s])
        /\ approvals \in [Ids -> Row] /\ executions \subseteq Execution
        /\ needsReply \subseteq Ids
    BY DEF TypeOK, SessionsWellFormed
  <1>1. CASE UnsupportedAction(s)
    BY <1>1, ConcludeSession DEF UnsupportedAction, At, Attempting, TypeOK
  <1>2. CASE AddToNeedsReply(s)
    BY <1>0, <1>2, ConcludeSession DEF AddToNeedsReply, At, Attempting, WellFormed, TypeOK
  <1>3. CASE GateBlocks(s)
    <2>1. sessions[s].id \in Ids /\ Attempting(sessions[s])
      BY <1>0, <1>3 DEF GateBlocks, At, Attempting, WellFormed
    <2>2. executions' \subseteq Execution
      BY <1>0, <1>3, <2>1, RecordType DEF GateBlocks
    <2> QED
      BY <1>3, <2>1, <2>2, ConcludeSession DEF GateBlocks, TypeOK
  <1>4. CASE GatePasses(s)
    <2>1. PICK p \in Plans :
            sessions' = [sessions EXCEPT ![s].pc = "verify", ![s].plan = p]
      BY <1>4 DEF GatePasses
    <2> DEFINE q == [sessions[s] EXCEPT !.pc = "verify", !.plan = p]
    <2>2. sessions[s].id \in Ids
      BY <1>0, <1>4 DEF GatePasses, At, Attempting, WellFormed
    <2>3. q \in Session /\ WellFormed(q)
      BY <1>0, <2>2 DEF Session, WellFormed, Attempting
    <2>4. sessions' = [sessions EXCEPT ![s] = q]
      BY <2>1 DEF TypeOK
    <2> HIDE DEF q
    <2> QED
      BY <1>4, <2>3, <2>4, SessionStep DEF GatePasses, TypeOK
  <1>5. CASE VerificationBlocks(s)
    <2>1. /\ sessions[s].id \in Ids /\ sessions[s].plan \in Plans
          /\ Attempting(sessions[s])
      BY <1>0, <1>5 DEF VerificationBlocks, At, Attempting, WellFormed
    <2>2. executions' \subseteq Execution
      BY <1>0, <1>5, <2>1, RecordType DEF VerificationBlocks
    <2> QED
      BY <1>5, <2>1, <2>2, ConcludeSession DEF VerificationBlocks, TypeOK
  <1>6. CASE VerificationPasses(s)
    <2>1. sessions[s].id \in Ids /\ sessions[s].plan \in Plans
      BY <1>0, <1>6 DEF VerificationPasses, At, Attempting, WellFormed
    <2>2. executions' \subseteq Execution
      BY <1>0, <1>6, <2>1, RecordType DEF VerificationPasses
    <2> DEFINE q == [sessions[s] EXCEPT !.pc = "attest"]
    <2>3. q \in Session /\ WellFormed(q)
      BY <1>0, <2>1 DEF Session, WellFormed, Attempting
    <2>4. sessions' = [sessions EXCEPT ![s] = q]
      BY <1>6 DEF VerificationPasses, TypeOK
    <2> HIDE DEF q
    <2> QED
      BY <1>6, <2>2, <2>3, <2>4, SessionStep DEF VerificationPasses, TypeOK
  <1>7. CASE Attest(s)
    BY <1>7, ConcludeSession DEF Attest, At, Attempting, TypeOK
  <1>8. CASE ExecutionRaises(s)
    <2> DEFINE q == [Idle EXCEPT !.pc = "fail", !.id = sessions[s].id,
                                 !.verdict = "failed", !.outcome = "failed"]
    <2>1. q \in Session /\ WellFormed(q)
      BY <1>0, <1>8 DEF ExecutionRaises, Idle, Session, WellFormed, Attempting
    <2>2. sessions' = [sessions EXCEPT ![s] = q]
      BY <1>8 DEF ExecutionRaises
    <2> HIDE DEF q
    <2> QED
      BY <1>8, <2>1, <2>2, SessionStep DEF ExecutionRaises, TypeOK
  <1>9. CASE FinishExecution(s)
    <2> DEFINE i == sessions[s].id
    <2>1. /\ i \in Ids
          /\ sessions[s].verdict \in {"executed", "blocked", "failed"}
          /\ sessions[s].outcome \in Results
      BY <1>0, <1>9 DEF FinishExecution, At, Attempting, WellFormed
    <2>2. approvals' \in [Ids -> Row]
      BY <1>0, <1>9, <2>1 DEF FinishExecution, TypeOK, Row
    <2>3. EventOf(sessions[s].verdict) \in Events
      BY <2>1 DEF EventOf, Events
    <2>4. sessions' \in [Servers -> Session] /\ SessionsWellFormed'
      <3>1. \/ sessions' = [sessions EXCEPT ![s] = Idle]
            \/ sessions' = [sessions EXCEPT ![s] =
                              Closing({<<i, EventOf(sessions[s].verdict)>>})]
        BY <1>9 DEF FinishExecution
      <3>2. {<<i, EventOf(sessions[s].verdict)>>} \in SUBSET (Ids \X Events)
        BY <2>1, <2>3
      <3> QED
        BY <3>1, <3>2, IdleSession, ClosingSession, SessionStep
    <2> QED
      BY <1>9, <2>2, <2>4 DEF FinishExecution, TypeOK
  <1> QED
    BY <1>1, <1>2, <1>3, <1>4, <1>5, <1>6, <1>7, <1>8, <1>9 DEF Executing

LEMMA SelectExpiredTyped ==
  ASSUME Typed, NEW s \in Servers, NEW i, NEW verdict,
         \/ i = None /\ verdict = None
         \/ i \in Ids /\ verdict \in {"approved", "rejected"},
         SelectExpired(s, i, verdict)
  PROVE  Typed'
  <1> DEFINE q == [Idle EXCEPT !.pc = "expire", !.id = i, !.verdict = verdict,
                               !.expire = PendingOlderThan(ExpireAfter)]
  <1>1. q \in Session /\ WellFormed(q)
    BY DEF Idle, Session, WellFormed, Attempting, PendingOlderThan
  <1>2. sessions' = [sessions EXCEPT ![s] = q]
    BY DEF SelectExpired
  <1> HIDE DEF q
  <1> QED
    BY <1>1, <1>2, SessionStep DEF SelectExpired, Typed, TypeOK

\* A request that changes rows and then only has events left to write.
LEMMA ClosingTyped ==
  ASSUME Typed, NEW s \in Servers, NEW events \in SUBSET (Ids \X Events),
         sessions' = [sessions EXCEPT ![s] = Closing(events)],
         approvals' \in [Ids -> Row],
         UNCHANGED <<clock, executions, needsReply, audit, proposer>>
  PROVE  Typed'
  BY ClosingSession, SessionStep DEF Typed, TypeOK

\* The updates of one row that the handlers perform give a row.
LEMMA ArchivedType ==
  ASSUME NEW row \in Row
  PROVE  row.archived \in BOOLEAN
  BY Zenon DEF Row

LEMMA ArchiveRow ==
  ASSUME NEW row \in Row, NEW b \in BOOLEAN
  PROVE  [row EXCEPT !.archived = b] \in Row
  BY SMT DEF Row

LEMMA StatusRow ==
  ASSUME NEW row \in Row, NEW status \in Statuses
  PROVE  [row EXCEPT !.status = status] \in Row
  BY DEF Row

LEMMA FailedRow ==
  ASSUME NEW row \in Row, NEW t \in Time
  PROVE  [row EXCEPT !.status = "failed", !.outcome = "failed", !.settled = t] \in Row
  BY DEF Row

LEMMA StartedRow ==
  ASSUME NEW row \in Row, NEW t \in Time
  PROVE  [row EXCEPT !.outcome = "started", !.started = t] \in Row
  BY DEF Row

LEMMA RowUpdateType ==
  ASSUME Typed, NEW i \in Ids, NEW row \in Row
  PROVE  [approvals EXCEPT ![i] = row] \in [Ids -> Row]
  BY DEF Typed, TypeOK

LEMMA ServingTyped ==
  ASSUME Typed, NEW s \in Servers, Serving(s)
  PROVE  Typed'
  <1>0. /\ sessions[s] \in Session /\ WellFormed(sessions[s])
        /\ approvals \in [Ids -> Row] /\ clock \in Time
    BY DEF Typed, TypeOK, SessionsWellFormed
  <1>1. CASE List(s)
    BY <1>1, SelectExpiredTyped DEF List
  <1>2. CASE ApplyExpiry(s)
    <2> DEFINE due == sessions[s].expire
               events == due \X {"approval_expired"}
               q == [sessions[s] EXCEPT !.pc = "decide", !.expire = {},
                                        !.todo = events]
    <2>1. events \in SUBSET (Ids \X Events)
      BY <1>0 DEF Session, Events
    <2>2. approvals' \in [Ids -> Row]
      BY <1>0, <1>2 DEF ApplyExpiry, Row
    <2>3. CASE sessions[s].verdict = None
      <3>1. sessions' = [sessions EXCEPT ![s] = Closing(events)]
        BY <1>2, <2>3 DEF ApplyExpiry
      <3> HIDE DEF events
      <3> QED
        BY <1>2, <2>1, <2>2, <3>1, ClosingTyped DEF ApplyExpiry
    <2>4. CASE sessions[s].verdict # None
      <3>1. q \in Session /\ WellFormed(q)
        BY <1>0, <1>2, <2>1, <2>4 DEF ApplyExpiry, At, Session, WellFormed, Attempting
      <3>2. sessions' = [sessions EXCEPT ![s] = q]
        BY <1>2, <2>4 DEF ApplyExpiry
      <3> HIDE DEF q
      <3> QED
        BY <1>2, <2>2, <3>1, <3>2, SessionStep DEF ApplyExpiry, Typed, TypeOK
    <2> QED
      BY <2>3, <2>4
  <1>3. CASE Decide(s)
    <2>1. /\ sessions[s].id \in Ids
          /\ sessions[s].verdict \in {"approved", "rejected"}
      BY <1>0, <1>3 DEF Decide, At, WellFormed
    <2>2. approvals' \in [Ids -> Row]
      BY <1>0, <1>3, <2>1 DEF Decide, Row
    <2> DEFINE events == {<<sessions[s].id, EventOf(sessions[s].verdict)>>}
    <2>3. events \in SUBSET (Ids \X Events)
      BY <2>1 DEF EventOf, Events
    <2>4. \/ sessions' = [sessions EXCEPT ![s] = Idle]
          \/ sessions' = [sessions EXCEPT ![s] = Closing(events)]
      BY <1>3 DEF Decide
    <2>5. sessions' \in [Servers -> Session] /\ SessionsWellFormed'
      BY <2>3, <2>4, IdleSession, ClosingSession, SessionStep
    <2> QED
      BY <1>3, <2>2, <2>5 DEF Decide, Typed, TypeOK
  <1>4. CASE CleanupSelect(s)
    <2> DEFINE expire == {i \in PendingOlderThan(AutoExpireAfter) :
                            approvals[i].outcome = None}
               archive == {i \in Ids :
                             /\ Archivable(i)
                             /\ ~ approvals[i].archived
                             /\ approvals[i].settled + ArchiveAfter < clock}
               q == [Idle EXCEPT !.pc = "sweep", !.expire = expire,
                                 !.archive = archive]
    <2>1. expire \subseteq Ids /\ archive \subseteq Ids
      BY DEF PendingOlderThan
    <2>2. sessions' = [sessions EXCEPT ![s] = q]
      BY <1>4 DEF CleanupSelect
    <2> HIDE DEF expire, archive
    <2>3. q \in Session /\ WellFormed(q)
      BY <2>1 DEF Idle, Session, WellFormed, Attempting
    <2> HIDE DEF q
    <2> QED
      BY <1>4, <2>2, <2>3, SessionStep DEF CleanupSelect, Typed, TypeOK
  <1>5. CASE CleanupApply(s)
    <2> DEFINE events == (sessions[s].expire \X {"approval_cleanup_expired"})
                           \cup (sessions[s].archive \X {"approval_cleanup_archived"})
    <2>1. events \in SUBSET (Ids \X Events)
      BY <1>0 DEF Session, Events
    <2>2. approvals' \in [Ids -> Row]
      <3> DEFINE row(i) ==
            IF /\ i \in sessions[s].expire /\ approvals[i].status = "pending"
               /\ approvals[i].outcome = None
            THEN [approvals[i] EXCEPT !.status = "expired"]
            ELSE IF i \in sessions[s].archive /\ Archivable(i)
            THEN [approvals[i] EXCEPT !.archived = TRUE]
            ELSE approvals[i]
      <3>1. ASSUME NEW i \in Ids PROVE row(i) \in Row
        <4>1. /\ [approvals[i] EXCEPT !.status = "expired"] \in Row
              /\ [approvals[i] EXCEPT !.archived = TRUE] \in Row
          BY <1>0, StatusRow, ArchiveRow
        <4> QED
          BY <1>0, <4>1, Zenon
      <3>2. approvals' = [i \in Ids |-> row(i)]
        BY <1>5, Zenon DEF CleanupApply
      <3> HIDE DEF row
      <3> QED
        BY <3>1, <3>2
    <2>3. sessions' = [sessions EXCEPT ![s] = Closing(events)]
      BY <1>5 DEF CleanupApply
    <2> HIDE DEF events
    <2> QED
      BY <1>5, <2>1, <2>2, <2>3, ClosingTyped DEF CleanupApply
  <1>6. CASE Executing(s)
    BY <1>6, ExecutingTyped
  <1>7. CASE WriteEvent(s)
    <2>1. PICK e \in sessions[s].todo :
            /\ audit' = [audit EXCEPT ![e[1]] = @ \cup {e[2]}]
            /\ sessions' = [sessions EXCEPT ![s].todo = @ \ {e}]
      BY <1>7 DEF WriteEvent
    <2>2. e[1] \in Ids /\ e[2] \in Events
      BY <1>0, <2>1 DEF Session
    <2>3. audit' \in [Ids -> SUBSET Events]
      BY <2>1, <2>2 DEF Typed, TypeOK
    <2> DEFINE q == [sessions[s] EXCEPT !.todo = @ \ {e}]
    <2>4. q \in Session /\ WellFormed(q)
      BY <1>0 DEF Session, WellFormed, Attempting
    <2>5. sessions' = [sessions EXCEPT ![s] = q]
      BY <2>1
    <2> HIDE DEF q
    <2> QED
      BY <1>7, <2>3, <2>4, <2>5, SessionStep DEF WriteEvent, Typed, TypeOK
  <1>8. ASSUME NEW i \in Ids, Approve(s, i) \/ Reject(s, i) PROVE Typed'
    BY <1>8, SelectExpiredTyped DEF Approve, Reject
  <1>9. ASSUME NEW i \in Ids, StartExecution(s, i) PROVE Typed'
    <2> DEFINE q == [Idle EXCEPT !.pc = "gate", !.id = i,
                                 !.archived = approvals[i].archived,
                                 !.todo = {<<i, "approval_execution_started">>}]
    <2>1. q \in Session /\ WellFormed(q)
      BY <1>0, ArchivedType, StartingSession
    <2>2. sessions' = [sessions EXCEPT ![s] = q]
      BY <1>9 DEF StartExecution
    <2>3. approvals' \in [Ids -> Row]
      <3>1. approvals' = [approvals EXCEPT ![i] =
              [approvals[i] EXCEPT !.outcome = "started", !.started = clock]]
        BY <1>9 DEF StartExecution
      <3> QED
        BY <1>0, <3>1, StartedRow, RowUpdateType
    <2> HIDE DEF q
    <2> QED
      BY <1>9, <2>1, <2>2, <2>3, SessionStep DEF StartExecution, Typed, TypeOK
  <1>10. ASSUME NEW i \in Ids, StartRaises(s, i) PROVE Typed'
    <2> DEFINE q == [Idle EXCEPT !.pc = "fail", !.id = i, !.verdict = "failed",
                                 !.outcome = "failed"]
    <2>1. q \in Session /\ WellFormed(q)
      BY DEF Idle, Session, WellFormed, Attempting
    <2>2. sessions' = [sessions EXCEPT ![s] = q]
      BY <1>10 DEF StartRaises
    <2> HIDE DEF q
    <2> QED
      BY <1>10, <2>1, <2>2, SessionStep DEF StartRaises, Typed, TypeOK
  <1>11. ASSUME NEW i \in Ids,
                \/ Expire(s, i) \/ MarkFailed(s, i)
                \/ Archive(s, i) \/ Unarchive(s, i)
         PROVE  Typed'
    <2>1. approvals' \in [Ids -> Row]
      <3>1. CASE Expire(s, i)
        <4>1. approvals' = [approvals EXCEPT ![i] =
                [approvals[i] EXCEPT !.status = "expired"]]
          BY <3>1 DEF Expire
        <4> QED
          BY <1>0, <4>1, StatusRow, RowUpdateType
      <3>2. CASE MarkFailed(s, i)
        <4>1. approvals' = [approvals EXCEPT ![i] =
                [approvals[i] EXCEPT !.status = "failed", !.outcome = "failed",
                                     !.settled = clock]]
          BY <3>2 DEF MarkFailed
        <4> QED
          BY <1>0, <4>1, FailedRow, RowUpdateType
      <3>3. CASE Archive(s, i) \/ Unarchive(s, i)
        <4>1. PICK b \in BOOLEAN :
                approvals' = [approvals EXCEPT ![i] =
                                [approvals[i] EXCEPT !.archived = b]]
          BY <3>3 DEF Archive, Unarchive
        <4> DEFINE row == [approvals[i] EXCEPT !.archived = b]
        <4>2. row \in Row
          BY <1>0, ArchiveRow
        <4>3. approvals' = [approvals EXCEPT ![i] = row]
          BY <4>1
        <4> HIDE DEF row
        <4> QED
          BY <4>2, <4>3, RowUpdateType
      <3> QED
        BY <1>11, <3>1, <3>2, <3>3
    <2>2. \E e \in Events : sessions' = [sessions EXCEPT ![s] = Closing({<<i, e>>})]
      BY <1>11 DEF Expire, MarkFailed, Archive, Unarchive, Events
    <2>3. UNCHANGED <<clock, executions, needsReply, audit, proposer>>
      BY <1>11 DEF Expire, MarkFailed, Archive, Unarchive
    <2>4. \A e \in Events : {<<i, e>>} \in SUBSET (Ids \X Events)
      OBVIOUS
    <2> QED
      BY <2>1, <2>2, <2>3, <2>4, ClosingTyped
  <1> QED
    BY <1>1, <1>2, <1>3, <1>4, <1>5, <1>6, <1>7, <1>8, <1>9, <1>10, <1>11 DEF Serving

LEMMA NextTyped == Typed /\ [Next]_vars => Typed'
  <1> SUFFICES ASSUME Typed, [Next]_vars PROVE Typed'
    OBVIOUS
  <1>0. UNCHANGED sessions => SessionsWellFormed'
    BY DEF SessionsWellFormed, Typed
  <1>1. CASE Proposing
    BY <1>1, ProposingTyped
  <1>2. CASE Tick
    BY <1>0, <1>2 DEF Tick, Typed, TypeOK, Time
  <1>3. ASSUME NEW s \in Servers, Serving(s) PROVE Typed'
    BY <1>3, ServingTyped
  <1>4. ASSUME NEW s \in Servers, Crash(s) PROVE Typed'
    BY <1>4, IdleSession, SessionStep DEF Crash, Typed, TypeOK
  <1>5. CASE UNCHANGED vars
    BY <1>0, <1>5 DEF vars, Typed, TypeOK
  <1> QED
    BY <1>1, <1>2, <1>3, <1>4, <1>5 DEF Next

(***************************************************************************)
(* Every reachable state is well typed, and every request remembers what   *)
(* its next step needs: the state of data/agent.db and of the handlers.    *)
(***************************************************************************)
THEOREM TypeCorrect == Spec => [](TypeOK /\ SessionsWellFormed)
  <1>1. Init => Typed
    BY InitTyped
  <1>2. Typed /\ [Next]_vars => Typed'
    BY NextTyped
  <1> QED
    BY <1>1, <1>2, PTL DEF Spec, Typed
-----------------------------------------------------------------------------
(***************************************************************************)
(* What one step may do to one row, whichever handler takes it.  The       *)
(* properties of the rows follow from this alone.                          *)
(***************************************************************************)
Created(i) ==
  /\ approvals[i].status = "absent"
  /\ approvals'[i].status = "pending"
  /\ approvals'[i].started = None /\ approvals'[i].outcome = None
  /\ ~ approvals'[i].archived

Settled(i) ==
  /\ approvals[i].status = "pending"
  /\ approvals'[i].status \in {"approved", "rejected", "expired"}
  /\ approvals'[i].started = approvals[i].started
  /\ approvals'[i].outcome = approvals[i].outcome
  /\ approvals'[i].archived = approvals[i].archived

Started(i) ==
  /\ approvals[i].status = "approved" /\ approvals[i].outcome = None
  /\ approvals'[i].status = "approved" /\ approvals'[i].outcome = "started"
  /\ approvals'[i].started \in Time
  /\ approvals'[i].archived = approvals[i].archived

Finished(i) ==
  /\ InProgress(i)
  /\ approvals'[i].status \in {"executed", "blocked", "failed"}
  /\ approvals'[i].outcome \in Results \ {"started"}
  /\ approvals'[i].started = approvals[i].started
  /\ approvals'[i].archived = approvals[i].archived

Shelved(i) ==
  /\ Archivable(i) \/ ~ approvals'[i].archived
  /\ approvals'[i].status = approvals[i].status
  /\ approvals'[i].started = approvals[i].started
  /\ approvals'[i].outcome = approvals[i].outcome

RowStep(i) == \/ approvals'[i] = approvals[i] \/ Created(i) \/ Settled(i)
              \/ Started(i) \/ Finished(i) \/ Shelved(i)

LEMMA FinishSession ==
  ASSUME Typed, NEW s \in Servers, At(s, "finish") \/ At(s, "fail")
  PROVE  /\ sessions[s].id \in Ids
         /\ sessions[s].verdict \in {"executed", "blocked", "failed"}
         /\ sessions[s].outcome \in Results \ {"started"}
  BY DEF Typed, SessionsWellFormed, WellFormed, Attempting, At

LEMMA ServingRowStep ==
  ASSUME Typed, NEW s \in Servers, Serving(s), NEW i \in Ids
  PROVE  RowStep(i)
  <1>0. /\ sessions[s] \in Session /\ WellFormed(sessions[s])
        /\ approvals \in [Ids -> Row] /\ clock \in Time
    BY DEF Typed, TypeOK, SessionsWellFormed
  <1>1. CASE UNCHANGED approvals
    BY <1>1 DEF RowStep
  <1>2. CASE ApplyExpiry(s)
    BY <1>0, <1>2 DEF ApplyExpiry, RowStep, Settled, Row
  <1>3. CASE Decide(s)
    <2>1. sessions[s].verdict \in {"approved", "rejected"}
      BY <1>0, <1>3 DEF Decide, At, WellFormed
    <2> QED
      BY <1>0, <1>3, <2>1 DEF Decide, RowStep, Settled, Row
  <1>4. CASE CleanupApply(s)
    BY <1>0, <1>4 DEF CleanupApply, RowStep, Settled, Shelved, Row
  <1>5. CASE FinishExecution(s)
    BY <1>0, <1>5, FinishSession DEF FinishExecution, RowStep, Finished, Row
  <1>6. ASSUME NEW j \in Ids,
               \/ Expire(s, j) \/ MarkFailed(s, j) \/ StartExecution(s, j)
               \/ Archive(s, j) \/ Unarchive(s, j)
        PROVE  RowStep(i)
    <2>1. CASE Expire(s, j)
      BY <1>0, <2>1 DEF Expire, RowStep, Settled, Row
    <2>2. CASE MarkFailed(s, j)
      BY <1>0, <2>2 DEF MarkFailed, RowStep, Finished, Row
    <2>3. CASE StartExecution(s, j)
      BY <1>0, <2>3 DEF StartExecution, RowStep, Started, Row
    <2>4. CASE Archive(s, j)
      BY <1>0, <2>4 DEF Archive, RowStep, Shelved, Row
    <2>5. CASE Unarchive(s, j)
      BY <1>0, <2>5 DEF Unarchive, RowStep, Shelved, Row
    <2> QED
      BY <1>6, <2>1, <2>2, <2>3, <2>4, <2>5
  <1> QED
    BY <1>1, <1>2, <1>3, <1>4, <1>5, <1>6
    DEF Serving, Executing, List, SelectExpired, Approve, Reject, CleanupSelect,
        WriteEvent, StartRaises, UnsupportedAction, AddToNeedsReply, GateBlocks,
        GatePasses, VerificationBlocks, VerificationPasses, Attest, ExecutionRaises

LEMMA NextRowStep ==
  ASSUME Typed, [Next]_vars, NEW i \in Ids
  PROVE  RowStep(i)
  <1>1. CASE UNCHANGED approvals
    BY <1>1 DEF RowStep
  <1>2. ASSUME NEW j \in Ids, NEW k \in Intents, Propose(j, k) PROVE RowStep(i)
    BY <1>2 DEF Propose, RowStep, Created, NoRow, Typed, TypeOK
  <1>3. ASSUME NEW s \in Servers, Serving(s) PROVE RowStep(i)
    BY <1>3, ServingRowStep
  <1> QED
    BY <1>1, <1>2, <1>3
    DEF Next, Proposing, RecordProposal, ProposerCrash, Tick, Crash, vars

LEMMA RowsInit == Init => RowsConsistent
  <1> SUFFICES ASSUME Init, NEW i \in Ids
               PROVE  /\ approvals[i].started = None /\ approvals[i].outcome = None
                      /\ approvals[i].status = "absent" /\ ~ approvals[i].archived
    BY DEF RowsConsistent
  <1>1. approvals[i] = NoRow
    BY DEF Init
  <1>2. /\ NoRow.started = None /\ NoRow.outcome = None
        /\ NoRow.status = "absent"
    BY DEF NoRow
  <1>3. ~ NoRow.archived
    BY Zenon DEF NoRow
  <1> QED
    BY <1>1, <1>2, <1>3, Zenon

LEMMA RowsNext == Typed /\ RowsConsistent /\ [Next]_vars => RowsConsistent'
  <1> SUFFICES ASSUME Typed, RowsConsistent, [Next]_vars, NEW i \in Ids
               PROVE  LET row == approvals'[i] IN
                      /\ row.started = None <=> row.outcome = None
                      /\ row.status \in {"absent", "pending", "rejected", "expired"}
                           => row.outcome = None
                      /\ row.status \in {"executed", "blocked", "failed"}
                           => row.outcome \notin {None, "started"}
                      /\ row.status = "approved" => row.outcome \in {None, "started"}
                      /\ row.archived => row.status \in Terminal
    BY DEF RowsConsistent
  <1>1. RowStep(i)
    BY NextRowStep
  <1>2. approvals[i] \in Row
    BY DEF Typed, TypeOK
  <1> QED
    BY <1>1, <1>2 DEF RowsConsistent, RowStep, Created, Settled, Started, Finished,
                      Shelved, InProgress, Archivable, IsTerminal, Time

LEMMA RowsAlways == Spec => [](Typed /\ RowsConsistent)
  <1>1. Init => Typed /\ RowsConsistent
    BY InitTyped, RowsInit
  <1>2. Typed /\ RowsConsistent /\ [Next]_vars => (Typed /\ RowsConsistent)'
    BY NextTyped, RowsNext
  <1> QED
    BY <1>1, <1>2, PTL DEF Spec

(***************************************************************************)
(* No approval that is still to be decided, executed or reviewed is hidden *)
(* in the archive, whatever the clean-up and the operators do.             *)
(***************************************************************************)
THEOREM ArchiveHidesOnlyHistory == Spec => []ArchivedIsTerminal
  <1>1. RowsConsistent => ArchivedIsTerminal
    BY DEF RowsConsistent, ArchivedIsTerminal, Archivable, IsTerminal
  <1> QED
    BY <1>1, RowsAlways, PTL

(***************************************************************************)
(* Rejected, expired, executed, blocked and failed are final.              *)
(***************************************************************************)
THEOREM ClosedStaysClosed == Spec => ClosedIsFinal
  <1>1. Typed /\ [Next]_vars
          => [\A i \in Ids : IsTerminal(i) => approvals'[i].status = approvals[i].status]_vars
    BY NextRowStep DEF RowStep, Created, Settled, Started, Finished, Shelved,
                       InProgress, IsTerminal
  <1> QED
    BY <1>1, RowsAlways, PTL DEF Spec, ClosedIsFinal

(***************************************************************************)
(* An approval whose execution was started is never started again.         *)
(***************************************************************************)
THEOREM StartedOnce == Spec => AttemptedOnce
  <1>1. Typed /\ RowsConsistent /\ [Next]_vars
          => [\A i \in Ids : approvals[i].started # None
                => approvals'[i].started = approvals[i].started]_vars
    BY NextRowStep DEF RowStep, Created, Settled, Started, Finished, Shelved,
                       RowsConsistent
  <1> QED
    BY <1>1, RowsAlways, PTL DEF Spec, AttemptedOnce
-----------------------------------------------------------------------------
(***************************************************************************)
(* The attempt invariant.  Three kinds of step: those that leave the       *)
(* effects alone and take no row to executed or blocked (QuietStep), those *)
(* by which the owner of an attempt advances it (AttemptStep), and the     *)
(* start and the finish of an attempt.                                     *)
(***************************************************************************)
SameEffect(j) == /\ Performed(j)' <=> Performed(j)
                 /\ HasRecord(j)' <=> HasRecord(j)

\* The per-session part of AttemptsConsistent.
AttemptOK(t) ==
  LET q == sessions[t] IN
  /\ Owns(t) => /\ approvals[q.id].started # None
                /\ approvals[q.id].status \in {"approved", "failed"}
  /\ q.pc \in {"gate", "verify"} => ~ Performed(q.id) /\ ~ HasRecord(q.id)
  /\ q.pc = "attest" => Performed(q.id)
  /\ q.pc = "finish" => (Performed(q.id) <=> q.verdict = "executed")

LEMMA UntouchedEffects ==
  ASSUME UNCHANGED <<executions, needsReply>>, NEW j
  PROVE  SameEffect(j)
  BY DEF SameEffect, Performed, HasRecord

LEMMA QuietStep ==
  ASSUME IInv, [Next]_vars, UNCHANGED <<executions, needsReply>>,
         \A i \in Ids : approvals'[i].status \in {"executed", "blocked"}
                          => approvals'[i].status = approvals[i].status,
         \A s \in Servers : Attempting(sessions'[s]) =>
            /\ sessions'[s].pc = sessions[s].pc
            /\ sessions'[s].id = sessions[s].id
            /\ sessions'[s].verdict = sessions[s].verdict
  PROVE  IInv'
  <1>1. Typed' /\ RowsConsistent'
    BY NextTyped, RowsNext DEF IInv, Typed
  <1>2. \A i \in Ids : RowStep(i) /\ SameEffect(i)
    BY NextRowStep, UntouchedEffects DEF IInv, Typed
  <1>3. \A i \in Ids : approvals[i].started # None =>
          /\ approvals'[i].started # None
          /\ approvals[i].status = "approved" => approvals'[i].status \in {"approved", "failed"}
          /\ approvals[i].status = "failed" => approvals'[i].status = "failed"
          /\ approvals[i].status \in {"approved", "executed", "blocked", "failed"}
               => approvals'[i].status \in {"approved", "executed", "blocked", "failed"}
    BY <1>1, <1>2 DEF RowStep, Created, Settled, Started, Finished, Shelved, IInv,
                      RowsConsistent
  <1>4. \A s \in Servers : Owns(s)' =>
          /\ Owns(s) /\ sessions[s].id \in Ids
          /\ sessions'[s].pc = sessions[s].pc /\ sessions'[s].id = sessions[s].id
          /\ sessions'[s].verdict = sessions[s].verdict
    BY DEF Owns, Attempting, IInv, SessionsWellFormed, WellFormed
  <1>5. AttemptsConsistent'
    BY <1>2, <1>3, <1>4 DEF AttemptsConsistent, IInv, Owns, Attempting, SameEffect
  <1>6. ExecutionIsAuthorised'
    BY <1>2, <1>3 DEF ExecutionIsAuthorised, IInv, SameEffect, HasRecord
  <1>7. OneExecutionPerApproval'
    BY DEF OneExecutionPerApproval, IInv
  <1>8. VerdictMatchesEffect'
    BY <1>2 DEF VerdictMatchesEffect, IInv, SameEffect
  <1> QED
    BY <1>1, <1>5, <1>6, <1>7, <1>8 DEF IInv, Typed

LEMMA AttemptStep ==
  ASSUME IInv, [Next]_vars, UNCHANGED approvals,
         NEW s \in Servers, NEW q,
         Owns(s), q.id = sessions[s].id,
         sessions' = [sessions EXCEPT ![s] = q],
         \A j \in Ids \ {q.id} : SameEffect(j),
         /\ q.pc \in {"gate", "verify"} => ~ Performed(q.id)' /\ ~ HasRecord(q.id)'
         /\ q.pc = "attest" => Performed(q.id)'
         /\ q.pc = "finish" => (Performed(q.id)' <=> q.verdict = "executed"),
         OneExecutionPerApproval'
  PROVE  IInv'
  <1>1. Typed' /\ RowsConsistent'
    BY NextTyped, RowsNext DEF IInv, Typed
  <1>2. /\ q.id \in Ids
        /\ approvals[q.id].started # None
        /\ approvals[q.id].status \in {"approved", "failed"}
    BY DEF IInv, AttemptsConsistent, SessionsWellFormed, WellFormed, Owns
  <1>3. /\ sessions'[s] = q
        /\ \A t \in Servers \ {s} : sessions'[t] = sessions[t]
    BY DEF IInv, TypeOK
  <1>4. \A t \in Servers \ {s} : Owns(t) => sessions[t].id \in Ids \ {q.id}
    BY DEF IInv, AttemptsConsistent, SessionsWellFormed, WellFormed, Owns
  <1>5. AttemptsConsistent'
    <2>1. ASSUME NEW t \in Servers, NEW u \in Servers,
                 Owns(t)', Owns(u)', sessions'[t].id = sessions'[u].id
          PROVE  t = u
      BY <1>3, <1>4, <2>1 DEF IInv, AttemptsConsistent, Owns
    <2>2. ASSUME NEW t \in Servers PROVE AttemptOK(t)'
      <3>1. CASE t = s
        BY <1>2, <1>3, <3>1 DEF AttemptOK
      <3>2. CASE t # s
        <4>1. AttemptOK(t)
          BY DEF IInv, AttemptsConsistent, AttemptOK
        <4>2. Owns(t) => SameEffect(sessions[t].id)
          BY <1>4, <3>2
        <4> QED
          BY <1>3, <3>2, <4>1, <4>2 DEF AttemptOK, Owns, Attempting, SameEffect
      <3> QED
        BY <3>1, <3>2
    <2> QED
      BY <2>1, <2>2 DEF AttemptsConsistent, AttemptOK
  <1>6. ExecutionIsAuthorised'
    BY <1>2 DEF ExecutionIsAuthorised, IInv, SameEffect, HasRecord
  <1>7. VerdictMatchesEffect'
    BY <1>2 DEF VerdictMatchesEffect, IInv, SameEffect
  <1> QED
    BY <1>1, <1>5, <1>6, <1>7 DEF IInv, Typed

\* Recording the result of the approval's plan, when it has no record yet.
LEMMA RecordEffect ==
  ASSUME IInv, UNCHANGED needsReply, NEW i \in Ids, ~ HasRecord(i), ~ Performed(i),
         NEW p \in Plans, NEW result \in {"mock_executed", "blocked"},
         Record(i, p, result)
  PROVE  /\ \A j \in Ids \ {i} : SameEffect(j)
         /\ Performed(i)' <=> result = "mock_executed"
         /\ OneExecutionPerApproval'
  <1>1. executions' = executions \cup {[id |-> i, plan |-> p, status |-> result]}
    BY DEF Record, Recorded, HasRecord
  <1>2. \A j \in Ids \ {i} : SameEffect(j)
    BY <1>1 DEF SameEffect, Performed, HasRecord
  <1>3. Performed(i)' <=> result = "mock_executed"
    <2> DEFINE new == [id |-> i, plan |-> p, status |-> result]
    <2>1. new.id = i /\ new.status = result
      OBVIOUS
    <2>2. i \notin needsReply'
          /\ \A e \in executions : ~ (e.id = i /\ e.status = "mock_executed")
      BY DEF Performed
    <2>3. executions' = executions \cup {new}
      BY <1>1
    <2> HIDE DEF new
    <2> QED
      BY <2>1, <2>2, <2>3 DEF Performed
  <1>4. OneExecutionPerApproval'
    BY <1>1 DEF OneExecutionPerApproval, IInv, HasRecord
  <1> QED
    BY <1>2, <1>3, <1>4

\* The attempt of s has reached its outcome.
LEMMA ConcludeFields ==
  ASSUME sessions \in [Servers -> Session], NEW s \in Servers,
         NEW verdict \in Verdicts, NEW outcome \in Outcomes,
         Conclude(s, verdict, outcome)
  PROVE  \E q : /\ sessions' = [sessions EXCEPT ![s] = q]
                /\ q.pc = "finish" /\ q.id = sessions[s].id /\ q.verdict = verdict
  <1> DEFINE q == [sessions[s] EXCEPT !.pc = "finish", !.verdict = verdict,
                                      !.outcome = outcome]
  <1>1. sessions[s] \in Session
    OBVIOUS
  <1>2. q.pc = "finish" /\ q.id = sessions[s].id /\ q.verdict = verdict
    BY <1>1 DEF Session
  <1>3. sessions' = [sessions EXCEPT ![s] = q]
    BY DEF Conclude
  <1> QED
    BY <1>2, <1>3

LEMMA ConcludeStep ==
  ASSUME IInv, [Next]_vars, UNCHANGED approvals, NEW s \in Servers, Owns(s),
         NEW i \in Ids, i = sessions[s].id,
         NEW verdict \in Verdicts, NEW outcome \in Outcomes,
         Conclude(s, verdict, outcome),
         \A j \in Ids \ {i} : SameEffect(j),
         Performed(i)' <=> verdict = "executed",
         OneExecutionPerApproval'
  PROVE  IInv'
  <1>1. PICK q : /\ sessions' = [sessions EXCEPT ![s] = q]
                 /\ q.pc = "finish" /\ q.id = i /\ q.verdict = verdict
    BY ConcludeFields DEF IInv, TypeOK
  <1> QED
    BY <1>1, AttemptStep

LEMMA ExecutingInductive ==
  ASSUME IInv, NEW s \in Servers, Executing(s), ~ FinishExecution(s),
         ~ ExecutionRaises(s)
  PROVE  IInv'
  <1>0. sessions[s] \in Session /\ WellFormed(sessions[s]) /\ [Next]_vars
    BY DEF IInv, TypeOK, SessionsWellFormed, Next, Serving
  <1>1. UNCHANGED <<executions, needsReply>> =>
          /\ \A j \in Ids : SameEffect(j)
          /\ OneExecutionPerApproval'
    BY UntouchedEffects DEF IInv, OneExecutionPerApproval
  <1>2. PICK i \in Ids : i = sessions[s].id
    BY <1>0 DEF Executing, UnsupportedAction, AddToNeedsReply, GateBlocks, GatePasses,
                VerificationBlocks, VerificationPasses, Attest, At, WellFormed,
                Attempting
  <1>3. Owns(s)
    BY DEF Executing, UnsupportedAction, AddToNeedsReply, GateBlocks, GatePasses,
           VerificationBlocks, VerificationPasses, Attest, At, Owns, Attempting
  <1>4. At(s, "gate") \/ At(s, "verify") => ~ Performed(i) /\ ~ HasRecord(i)
    BY <1>2 DEF At, IInv, AttemptsConsistent
  <1>5. CASE UnsupportedAction(s)
    <2>1. /\ UNCHANGED <<approvals, executions, needsReply>>
          /\ Conclude(s, "blocked", "unsupported") /\ At(s, "gate")
      BY <1>5 DEF UnsupportedAction
    <2>2. ~ Performed(i)'
      BY <1>1, <1>4, <2>1 DEF SameEffect
    <2> QED
      BY <1>0, <1>1, <1>2, <1>3, <2>1, <2>2, ConcludeStep
  <1>6. CASE AddToNeedsReply(s)
    <2>1. /\ UNCHANGED <<approvals, executions>> /\ Conclude(s, "executed", "completed")
          /\ needsReply' = needsReply \cup {i}
      BY <1>2, <1>6 DEF AddToNeedsReply
    <2>2. /\ \A j \in Ids \ {i} : SameEffect(j)
          /\ Performed(i)' /\ OneExecutionPerApproval'
      BY <2>1 DEF SameEffect, Performed, HasRecord, OneExecutionPerApproval, IInv
    <2> QED
      BY <1>0, <1>2, <1>3, <2>1, <2>2, ConcludeStep
  <1>7. CASE GateBlocks(s) \/ VerificationBlocks(s)
    <2>1. /\ UNCHANGED <<approvals, needsReply>> /\ Conclude(s, "blocked", "blocked")
          /\ At(s, "gate") \/ At(s, "verify")
      BY <1>7 DEF GateBlocks, VerificationBlocks
    <2>2. \E p \in Plans : Record(i, p, "blocked")
      BY <1>0, <1>2, <1>7 DEF GateBlocks, VerificationBlocks, At, WellFormed
    <2>3. /\ \A j \in Ids \ {i} : SameEffect(j)
          /\ ~ Performed(i)' /\ OneExecutionPerApproval'
      BY <1>4, <2>1, <2>2, RecordEffect
    <2> QED
      BY <1>0, <1>2, <1>3, <2>1, <2>3, ConcludeStep
  <1>8. CASE GatePasses(s)
    <2>1. PICK p \in Plans :
            sessions' = [sessions EXCEPT ![s].pc = "verify", ![s].plan = p]
      BY <1>8 DEF GatePasses
    <2> DEFINE q == [sessions[s] EXCEPT !.pc = "verify", !.plan = p]
    <2>2. sessions' = [sessions EXCEPT ![s] = q]
      BY <2>1 DEF IInv, TypeOK
    <2>3. q.pc = "verify" /\ q.id = i
      BY <1>0, <1>2 DEF Session
    <2>4. /\ UNCHANGED <<approvals, executions, needsReply>> /\ At(s, "gate")
      BY <1>8 DEF GatePasses
    <2> HIDE DEF q
    <2>5. ~ Performed(i)' /\ ~ HasRecord(i)'
      BY <1>1, <1>4, <2>4 DEF SameEffect
    <2> QED
      BY <1>0, <1>1, <1>2, <1>3, <2>2, <2>3, <2>4, <2>5, AttemptStep
  <1>9. CASE VerificationPasses(s)
    <2> DEFINE q == [sessions[s] EXCEPT !.pc = "attest"]
    <2>1. sessions' = [sessions EXCEPT ![s] = q]
      BY <1>9 DEF VerificationPasses, IInv, TypeOK
    <2>2. q.pc = "attest" /\ q.id = i
      BY <1>0, <1>2 DEF Session
    <2>3. /\ UNCHANGED <<approvals, needsReply>> /\ At(s, "verify")
          /\ \E p \in Plans : Record(i, p, "mock_executed")
      BY <1>0, <1>2, <1>9 DEF VerificationPasses, At, WellFormed
    <2> HIDE DEF q
    <2>4. /\ \A j \in Ids \ {i} : SameEffect(j)
          /\ Performed(i)' /\ OneExecutionPerApproval'
      BY <1>4, <2>3, RecordEffect
    <2> QED
      BY <1>0, <1>2, <1>3, <2>1, <2>2, <2>3, <2>4, AttemptStep
  <1>10. CASE Attest(s)
    <2>1. /\ UNCHANGED <<approvals, executions, needsReply>>
          /\ Conclude(s, "executed", "mock_executed") /\ At(s, "attest")
      BY <1>10 DEF Attest
    <2>2. Performed(i)
      BY <1>2, <2>1 DEF At, IInv, AttemptsConsistent
    <2>3. Performed(i)'
      BY <1>1, <2>1, <2>2 DEF SameEffect
    <2> QED
      BY <1>0, <1>1, <1>2, <1>3, <2>1, <2>3, ConcludeStep
  <1> QED
    BY <1>5, <1>6, <1>7, <1>8, <1>9, <1>10 DEF Executing

LEMMA StartInductive ==
  ASSUME IInv, NEW s \in Servers, NEW i \in Ids, StartExecution(s, i)
  PROVE  IInv'
  <1>0. [Next]_vars /\ UNCHANGED <<executions, needsReply>>
    BY DEF Next, Serving, StartExecution
  <1>1. Typed' /\ RowsConsistent'
    BY <1>0, NextTyped, RowsNext DEF IInv, Typed
  <1>2. /\ approvals[i].started = None /\ approvals'[i].started # None
        /\ approvals'[i].status = "approved"
        /\ \A j \in Ids \ {i} : approvals'[j] = approvals[j]
    BY DEF StartExecution, IInv, RowsConsistent, TypeOK, Row, Time
  <1>3. ~ Performed(i) /\ ~ HasRecord(i)
    BY <1>2 DEF IInv, ExecutionIsAuthorised, HasRecord
  <1>4. /\ sessions'[s].pc = "gate" /\ sessions'[s].id = i
        /\ \A t \in Servers \ {s} : sessions'[t] = sessions[t]
    BY DEF StartExecution, IInv, TypeOK, Idle
  <1>5. \A t \in Servers : Owns(t) => sessions[t].id \in Ids \ {i}
    BY <1>2 DEF IInv, AttemptsConsistent, SessionsWellFormed, WellFormed, Owns
  <1>6. \A j \in Ids : SameEffect(j)
    BY <1>0, UntouchedEffects
  <1>7. AttemptsConsistent'
    <2>1. ASSUME NEW t \in Servers, NEW u \in Servers,
                 Owns(t)', Owns(u)', sessions'[t].id = sessions'[u].id
          PROVE  t = u
      BY <1>4, <1>5, <2>1 DEF IInv, AttemptsConsistent, Owns
    <2>2. ASSUME NEW t \in Servers PROVE AttemptOK(t)'
      <3>1. CASE t = s
        BY <1>2, <1>3, <1>4, <1>6, <3>1 DEF AttemptOK, SameEffect
      <3>2. CASE t # s
        <4>1. AttemptOK(t)
          BY DEF IInv, AttemptsConsistent, AttemptOK
        <4>2. Owns(t) => /\ SameEffect(sessions[t].id)
                         /\ approvals'[sessions[t].id] = approvals[sessions[t].id]
          BY <1>2, <1>5, <1>6
        <4> QED
          BY <1>4, <3>2, <4>1, <4>2 DEF AttemptOK, Owns, Attempting, SameEffect
      <3> QED
        BY <3>1, <3>2
    <2> QED
      BY <2>1, <2>2 DEF AttemptsConsistent, AttemptOK
  <1>8. ExecutionIsAuthorised'
    BY <1>2, <1>3, <1>6 DEF ExecutionIsAuthorised, IInv, SameEffect, HasRecord
  <1>9. OneExecutionPerApproval'
    BY <1>0 DEF OneExecutionPerApproval, IInv
  <1>10. VerdictMatchesEffect'
    BY <1>2, <1>6 DEF VerdictMatchesEffect, IInv, SameEffect
  <1> QED
    BY <1>1, <1>7, <1>8, <1>9, <1>10 DEF IInv, Typed

LEMMA FinishInductive ==
  ASSUME IInv, NEW s \in Servers, FinishExecution(s)
  PROVE  IInv'
  <1>0. [Next]_vars /\ UNCHANGED <<executions, needsReply>>
    BY DEF Next, Serving, Executing, FinishExecution
  <1>1. Typed' /\ RowsConsistent'
    BY <1>0, NextTyped, RowsNext DEF IInv, Typed
  <1>2. PICK i \in Ids : i = sessions[s].id
    BY FinishSession DEF FinishExecution, IInv, Typed
  <1>3. \A t \in Servers : Owns(t)' => t # s /\ sessions'[t] = sessions[t]
    BY DEF FinishExecution, IInv, TypeOK, Owns, Attempting, Closing, Idle
  <1>4. \A j \in Ids : SameEffect(j)
    BY <1>0, UntouchedEffects
  <1>5. /\ \A j \in Ids \ {i} : approvals'[j] = approvals[j]
        /\ \/ approvals'[i] = approvals[i]
           \/ /\ approvals[i].status = "approved"
              /\ approvals[i].started # None
              /\ approvals'[i].started = approvals[i].started
              /\ approvals'[i].status = sessions[s].verdict
    BY <1>2 DEF FinishExecution, InProgress, IInv, TypeOK, Row, RowsConsistent
  <1>6. /\ At(s, "fail") => sessions[s].verdict = "failed"
        /\ At(s, "finish") => /\ sessions[s].verdict \in {"executed", "blocked"}
                              /\ Performed(i) <=> sessions[s].verdict = "executed"
    BY <1>2 DEF At, IInv, SessionsWellFormed, WellFormed, AttemptsConsistent
  <1>7. At(s, "fail") \/ At(s, "finish")
    BY DEF FinishExecution
  <1>8. AttemptsConsistent'
    <2>1. ASSUME NEW t \in Servers, NEW u \in Servers,
                 Owns(t)', Owns(u)', sessions'[t].id = sessions'[u].id
          PROVE  t = u
      BY <1>3, <2>1 DEF IInv, AttemptsConsistent, Owns
    <2>2. ASSUME NEW t \in Servers, Owns(t)' PROVE AttemptOK(t)'
      <3>1. AttemptOK(t) /\ Owns(t) /\ sessions'[t] = sessions[t]
            /\ sessions[t].id \in Ids
        BY <1>3, <2>2 DEF IInv, AttemptsConsistent, AttemptOK, Owns, SessionsWellFormed,
                          WellFormed
      <3>2. SameEffect(sessions[t].id)
        BY <1>4, <3>1
      <3>3. CASE At(s, "finish")
        <4>1. sessions[t].id # i
          BY <1>2, <1>3, <2>2, <3>1, <3>3
          DEF IInv, AttemptsConsistent, Owns, Attempting, At
        <4> QED
          BY <1>5, <3>1, <3>2, <4>1 DEF AttemptOK, Owns, SameEffect
      <3>4. CASE At(s, "fail")
        <4>1. /\ approvals'[sessions[t].id].started # None
              /\ approvals'[sessions[t].id].status \in {"approved", "failed"}
          BY <1>5, <1>6, <3>1, <3>4 DEF AttemptOK
        <4> QED
          BY <3>1, <3>2, <4>1 DEF AttemptOK, Owns, SameEffect
      <3> QED
        BY <1>7, <3>3, <3>4
    <2> QED
      BY <2>1, <2>2 DEF AttemptsConsistent, AttemptOK, Owns, Attempting
  <1>9. ExecutionIsAuthorised'
    BY <1>4, <1>5, <1>6, <1>7 DEF ExecutionIsAuthorised, IInv, SameEffect, HasRecord
  <1>10. OneExecutionPerApproval'
    BY <1>0 DEF OneExecutionPerApproval, IInv
  <1>11. VerdictMatchesEffect'
    BY <1>4, <1>5, <1>6, <1>7 DEF VerdictMatchesEffect, IInv, SameEffect
  <1> QED
    BY <1>1, <1>8, <1>9, <1>10, <1>11 DEF IInv, Typed

\* A quiet step of one API process: its attempt, if any, stays where it is.
LEMMA QuietServer ==
  ASSUME IInv, [Next]_vars, UNCHANGED <<executions, needsReply>>,
         \A i \in Ids : approvals'[i].status \in {"executed", "blocked"}
                          => approvals'[i].status = approvals[i].status,
         NEW s \in Servers, NEW q, sessions' = [sessions EXCEPT ![s] = q],
         \/ ~ Attempting(q)
         \/ /\ q.pc = sessions[s].pc /\ q.id = sessions[s].id
            /\ q.verdict = sessions[s].verdict
  PROVE  IInv'
  <1>1. \A t \in Servers : sessions'[t] = IF t = s THEN q ELSE sessions[t]
    BY DEF IInv, TypeOK
  <1> QED
    BY <1>1, QuietStep

LEMMA NotAttempting ==
  /\ ~ Attempting(Idle)
  /\ \A events : ~ Attempting(Closing(events))
  /\ \A i, verdict, due :
       ~ Attempting([Idle EXCEPT !.pc = "expire", !.id = i, !.verdict = verdict,
                                 !.expire = due])
  /\ \A due, old :
       ~ Attempting([Idle EXCEPT !.pc = "sweep", !.expire = due, !.archive = old])
  /\ \A i : ~ Attempting([Idle EXCEPT !.pc = "fail", !.id = i, !.verdict = "failed",
                                      !.outcome = "failed"])
  BY DEF Attempting, Idle, Closing

LEMMA ServingInductive ==
  ASSUME IInv, NEW s \in Servers, Serving(s)
  PROVE  IInv'
  <1>0. sessions[s] \in Session /\ WellFormed(sessions[s]) /\ [Next]_vars
    BY DEF IInv, TypeOK, SessionsWellFormed, Next
  <1>1. ASSUME NEW i, NEW verdict, SelectExpired(s, i, verdict) PROVE IInv'
    BY <1>0, <1>1, NotAttempting, QuietServer DEF SelectExpired
  <1>2. CASE ApplyExpiry(s)
    <2> DEFINE events == sessions[s].expire \X {"approval_expired"}
               q == [sessions[s] EXCEPT !.pc = "decide", !.expire = {}, !.todo = events]
    <2>1. \A i \in Ids : approvals'[i].status \in {"executed", "blocked"}
                           => approvals'[i].status = approvals[i].status
      BY <1>2 DEF ApplyExpiry, IInv, TypeOK, Row
    <2>2. \/ sessions' = [sessions EXCEPT ![s] = Closing(events)]
          \/ sessions' = [sessions EXCEPT ![s] = q]
      BY <1>2 DEF ApplyExpiry
    <2>3. ~ Attempting(q)
      BY <1>0 DEF Attempting, Session
    <2> HIDE DEF events, q
    <2> QED
      BY <1>0, <1>2, <2>1, <2>2, <2>3, NotAttempting, QuietServer DEF ApplyExpiry
  <1>3. CASE Decide(s)
    <2>1. sessions[s].verdict \in {"approved", "rejected"}
      BY <1>0, <1>3 DEF Decide, At, WellFormed
    <2>2. \A i \in Ids : approvals'[i].status \in {"executed", "blocked"}
                           => approvals'[i].status = approvals[i].status
      BY <1>3, <2>1 DEF Decide, IInv, TypeOK, Row
    <2>3. \E q : ~ Attempting(q) /\ sessions' = [sessions EXCEPT ![s] = q]
      BY <1>3, NotAttempting DEF Decide
    <2> QED
      BY <1>0, <1>3, <2>2, <2>3, QuietServer DEF Decide
  <1>4. CASE CleanupSelect(s)
    BY <1>0, <1>4, NotAttempting, QuietServer DEF CleanupSelect
  <1>5. CASE CleanupApply(s)
    <2>1. \A i \in Ids : approvals'[i].status \in {"executed", "blocked"}
                           => approvals'[i].status = approvals[i].status
      BY <1>5 DEF CleanupApply, IInv, TypeOK, Row
    <2> QED
      BY <1>0, <1>5, <2>1, NotAttempting, QuietServer DEF CleanupApply
  <1>6. CASE ExecutionRaises(s)
    BY <1>0, <1>6, NotAttempting, QuietServer DEF ExecutionRaises
  <1>7. CASE WriteEvent(s)
    <2>1. PICK e \in sessions[s].todo : sessions' = [sessions EXCEPT ![s].todo = @ \ {e}]
      BY <1>7 DEF WriteEvent
    <2> DEFINE q == [sessions[s] EXCEPT !.todo = @ \ {e}]
    <2>2. sessions' = [sessions EXCEPT ![s] = q]
      BY <2>1
    <2>3. /\ q.pc = sessions[s].pc /\ q.id = sessions[s].id
          /\ q.verdict = sessions[s].verdict
      BY <1>0 DEF Session
    <2> HIDE DEF q
    <2> QED
      BY <1>0, <1>7, <2>2, <2>3, QuietServer DEF WriteEvent
  <1>8. ASSUME NEW i \in Ids,
               \/ Expire(s, i) \/ StartRaises(s, i) \/ MarkFailed(s, i)
               \/ Archive(s, i) \/ Unarchive(s, i)
        PROVE  IInv'
    <2>1. \A j \in Ids : approvals'[j].status \in {"executed", "blocked"}
                           => approvals'[j].status = approvals[j].status
      BY <1>8 DEF Expire, StartRaises, MarkFailed, Archive, Unarchive, IInv, TypeOK, Row
    <2>2. \E q : ~ Attempting(q) /\ sessions' = [sessions EXCEPT ![s] = q]
      BY <1>8, NotAttempting DEF Expire, StartRaises, MarkFailed, Archive, Unarchive
    <2> QED
      BY <1>0, <1>8, <2>1, <2>2, QuietServer
      DEF Expire, StartRaises, MarkFailed, Archive, Unarchive
  <1>9. CASE Executing(s)
    BY <1>6, <1>9, ExecutingInductive, FinishInductive
  <1> QED
    BY <1>1, <1>2, <1>3, <1>4, <1>5, <1>7, <1>8, <1>9, StartInductive
    DEF Serving, List, Approve, Reject

LEMMA InitInductive == Init => IInv
  <1> SUFFICES ASSUME Init PROVE IInv
    OBVIOUS
  <1>1. Typed /\ RowsConsistent
    BY InitTyped, RowsInit
  <1>2. \A i \in Ids : ~ Performed(i) /\ ~ HasRecord(i)
    BY DEF Init, Performed, HasRecord
  <1>3. \A s \in Servers : sessions[s].pc = "idle"
    BY DEF Init, Idle
  <1>4. \A i \in Ids : approvals[i].status = "absent"
    BY DEF Init, NoRow
  <1>5. AttemptsConsistent
    BY <1>3 DEF AttemptsConsistent, Owns, Attempting
  <1>6. ExecutionIsAuthorised
    BY <1>2 DEF ExecutionIsAuthorised, HasRecord
  <1>7. OneExecutionPerApproval
    BY DEF Init, OneExecutionPerApproval
  <1>8. VerdictMatchesEffect
    BY <1>4 DEF VerdictMatchesEffect
  <1> QED
    BY <1>1, <1>5, <1>6, <1>7, <1>8 DEF IInv, Typed

LEMMA NextInductive == IInv /\ [Next]_vars => IInv'
  <1> SUFFICES ASSUME IInv, [Next]_vars PROVE IInv'
    OBVIOUS
  <1>1. ASSUME NEW s \in Servers, Serving(s) PROVE IInv'
    BY <1>1, ServingInductive
  <1>2. ASSUME NEW s \in Servers, Crash(s) PROVE IInv'
    BY <1>2, NotAttempting, QuietServer DEF Crash
  <1>3. CASE Proposing \/ Tick \/ UNCHANGED vars
    <2>1. UNCHANGED <<executions, needsReply, sessions>>
      BY <1>3 DEF Proposing, Propose, RecordProposal, ProposerCrash, Tick, vars
    <2>2. \A i \in Ids : approvals'[i].status \in {"executed", "blocked"}
                           => approvals'[i].status = approvals[i].status
      <3>1. ASSUME NEW i \in Ids, NEW k \in Intents, Propose(i, k)
            PROVE  \A j \in Ids : \/ approvals'[j] = approvals[j]
                                  \/ approvals'[j].status = "pending"
        BY <3>1 DEF Propose, IInv, TypeOK, NoRow
      <3> QED
        BY <1>3, <3>1 DEF Proposing, RecordProposal, ProposerCrash, Tick, vars
    <2> QED
      BY <2>1, <2>2, QuietStep
  <1> QED
    BY <1>1, <1>2, <1>3 DEF Next

(***************************************************************************)
(* The inductive invariant, and the three promises of the execution path   *)
(* that rest on it, for any number of approvals and API processes: an      *)
(* execution needs a decision and a start, happens at most once, and the   *)
(* status an approval is closed with tells whether it happened.            *)
(***************************************************************************)
THEOREM Inductive == Spec => []IInv
  BY InitInductive, NextInductive, PTL DEF Spec

THEOREM AuthorisedExecution == Spec => []ExecutionIsAuthorised
  BY Inductive, PTL DEF IInv

THEOREM ExecutedOnce == Spec => []OneExecutionPerApproval
  BY Inductive, PTL DEF IInv

THEOREM VerdictsTellTheTruth == Spec => []VerdictMatchesEffect
  BY Inductive, PTL DEF IInv

\* Two processes never carry out attempts on the same approval, and an attempt
\* that is still running has had exactly the effect its step implies.
THEOREM AttemptsExclusive == Spec => []AttemptsConsistent
  BY Inductive, PTL DEF IInv
-----------------------------------------------------------------------------
(***************************************************************************)
(* One API process, as deployed.  Between two steps of its request only    *)
(* the AI worker and the clock move, and the worker only adds rows: what   *)
(* the request selected or started still stands when it comes back to it.  *)
(***************************************************************************)
OneServer == \A s, t \in Servers : s = t

\* What an audit event says of the row it is about.
Told(i, event) ==
  LET status == approvals[i].status IN
  /\ event \in {"approval_expired", "approval_cleanup_expired"} => status = "expired"
  /\ event = "approval_rejected" => status = "rejected"
  /\ event = "approval_approved"
       => status \in {"approved", "executed", "blocked", "failed"}
  /\ event = "approval_executed" => status = "executed"
  /\ event = "approval_blocked" => status = "blocked"
  /\ event = "approval_cleanup_archived" => status \in Terminal

EventsTold == \A i \in Ids : \A event \in audit[i] : Told(i, event)

\* The attempt a request carries out is in progress, the rows it selected are
\* as it selected them, and the events it still owes are true.
Undisturbed(s) ==
  LET q == sessions[s] IN
  /\ Attempting(q) => InProgress(q.id)
  /\ q.pc \in {"expire", "sweep"} => \A i \in q.expire : Pending(i)
  /\ q.pc = "sweep" => \A i \in q.archive : Archivable(i)
  /\ \A e \in q.todo : Told(e[1], e[2])

SInv == IInv /\ EventsTold /\ \A s \in Servers : Undisturbed(s)

LEMMA ToldStands ==
  ASSUME IInv, [Next]_vars, NEW i \in Ids, NEW event, Told(i, event)
  PROVE  Told(i, event)'
  <1>1. RowStep(i)
    BY NextRowStep DEF IInv, Typed
  <1> QED
    BY <1>1 DEF Told, RowStep, Created, Settled, Started, Finished, Shelved, InProgress

\* A step that leaves the row of every attempt and selection alone.
LEMMA ElsewhereUndisturbed ==
  ASSUME SInv, [Next]_vars, UNCHANGED sessions, NEW s \in Servers,
         \A i \in Ids : approvals[i].status # "absent" => approvals'[i] = approvals[i]
  PROVE  Undisturbed(s)'
  <1>1. sessions[s] \in Session /\ WellFormed(sessions[s]) /\ Undisturbed(s)
    BY DEF SInv, IInv, TypeOK, SessionsWellFormed
  <1>2. \A e \in sessions[s].todo : Told(e[1], e[2])'
    BY <1>1, ToldStands DEF Undisturbed, SInv, Session
  <1>3. Attempting(sessions[s]) => InProgress(sessions[s].id)'
    BY <1>1 DEF Undisturbed, WellFormed, InProgress
  <1>4. sessions[s].pc \in {"expire", "sweep"} => \A i \in sessions[s].expire : Pending(i)'
    BY <1>1 DEF Undisturbed, Session
  <1>5. sessions[s].pc = "sweep" => \A i \in sessions[s].archive : Archivable(i)'
    BY <1>1 DEF Undisturbed, Session, Archivable, IsTerminal
  <1> QED
    BY <1>2, <1>3, <1>4, <1>5 DEF Undisturbed

LEMMA ClosingUndisturbed ==
  ASSUME SInv, NEW s \in Servers, NEW events,
         sessions' = [sessions EXCEPT ![s] = Closing(events)],
         \A e \in events : Told(e[1], e[2])'
  PROVE  Undisturbed(s)'
  <1>1. sessions'[s] = Closing(events)
    BY DEF SInv, IInv, TypeOK
  <1>2. Closing(events).pc = "idle" /\ Closing(events).todo = events
    BY DEF Closing, Idle
  <1> QED
    BY <1>1, <1>2 DEF Undisturbed, Attempting

LEMMA ClosingOne ==
  ASSUME SInv, NEW s \in Servers, NEW i, NEW event,
         sessions' = [sessions EXCEPT ![s] = Closing({<<i, event>>})],
         Told(i, event)'
  PROVE  Undisturbed(s)'
  <1> DEFINE events == {<<i, event>>}
  <1>1. \A e \in events : Told(e[1], e[2])'
    BY SMT
  <1>2. sessions' = [sessions EXCEPT ![s] = Closing(events)]
    OBVIOUS
  <1> HIDE DEF events
  <1> QED
    BY <1>1, <1>2, ClosingUndisturbed

\* The request goes on with the attempt it is carrying out.
LEMMA AttemptUndisturbed ==
  ASSUME SInv, NEW s \in Servers, NEW q, sessions' = [sessions EXCEPT ![s] = q],
         UNCHANGED approvals, Owns(s), q.id = sessions[s].id, q.pc \notin {"expire", "sweep"},
         q.todo \subseteq sessions[s].todo
  PROVE  Undisturbed(s)'
  <1>1. sessions'[s] = q
    BY DEF SInv, IInv, TypeOK
  <1>2. Undisturbed(s)
    BY DEF SInv
  <1>3. InProgress(q.id)'
    BY <1>2 DEF Undisturbed, Owns, InProgress
  <1>4. \A e \in q.todo : Told(e[1], e[2])'
    BY <1>2 DEF Undisturbed, Told
  <1> QED
    BY <1>1, <1>3, <1>4 DEF Undisturbed

LEMMA ExecutingUndisturbed ==
  ASSUME SInv, NEW s \in Servers, Executing(s)
  PROVE  Undisturbed(s)'
  <1>0. /\ sessions[s] \in Session /\ WellFormed(sessions[s]) /\ Undisturbed(s)
        /\ approvals \in [Ids -> Row] /\ sessions \in [Servers -> Session]
    BY DEF SInv, IInv, TypeOK, SessionsWellFormed
  <1>1. ASSUME NEW verdict, NEW outcome, Conclude(s, verdict, outcome),
               UNCHANGED approvals, Owns(s)
        PROVE  Undisturbed(s)'
    <2> DEFINE q == [sessions[s] EXCEPT !.pc = "finish", !.verdict = verdict,
                                        !.outcome = outcome]
    <2>1. sessions' = [sessions EXCEPT ![s] = q]
      BY <1>1 DEF Conclude
    <2>2. q.id = sessions[s].id /\ q.pc = "finish" /\ q.todo = sessions[s].todo
      BY <1>0 DEF Session
    <2> HIDE DEF q
    <2> QED
      BY <1>1, <2>1, <2>2, AttemptUndisturbed
  <1>2. CASE \/ UnsupportedAction(s) \/ AddToNeedsReply(s) \/ GateBlocks(s)
             \/ VerificationBlocks(s) \/ Attest(s)
    BY <1>1, <1>2 DEF UnsupportedAction, AddToNeedsReply, GateBlocks,
                      VerificationBlocks, Attest, At, Owns, Attempting
  <1>3. CASE GatePasses(s)
    <2>1. PICK p \in Plans :
            sessions' = [sessions EXCEPT ![s].pc = "verify", ![s].plan = p]
      BY <1>3 DEF GatePasses
    <2> DEFINE q == [sessions[s] EXCEPT !.pc = "verify", !.plan = p]
    <2>2. sessions' = [sessions EXCEPT ![s] = q]
      BY <1>0, <2>1
    <2>3. q.pc = "verify" /\ q.id = sessions[s].id /\ q.todo = sessions[s].todo
      BY <1>0 DEF Session
    <2>4. UNCHANGED approvals /\ Owns(s)
      BY <1>3 DEF GatePasses, At, Owns, Attempting
    <2> HIDE DEF q
    <2> QED
      BY <2>2, <2>3, <2>4, AttemptUndisturbed
  <1>4. CASE VerificationPasses(s)
    <2> DEFINE q == [sessions[s] EXCEPT !.pc = "attest"]
    <2>1. sessions' = [sessions EXCEPT ![s] = q]
      BY <1>0, <1>4 DEF VerificationPasses
    <2>2. q.pc = "attest" /\ q.id = sessions[s].id /\ q.todo = sessions[s].todo
      BY <1>0 DEF Session
    <2>3. UNCHANGED approvals /\ Owns(s)
      BY <1>4 DEF VerificationPasses, At, Owns, Attempting
    <2> HIDE DEF q
    <2> QED
      BY <2>1, <2>2, <2>3, AttemptUndisturbed
  <1>5. CASE ExecutionRaises(s)
    <2>1. sessions'[s].pc = "fail" /\ sessions'[s].todo = {}
      BY <1>0, <1>5 DEF ExecutionRaises, Idle
    <2> QED
      BY <2>1 DEF Undisturbed, Attempting
  <1>6. CASE FinishExecution(s)
    <2>1. CASE sessions' = [sessions EXCEPT ![s] = Idle]
      BY <1>0, <2>1 DEF Undisturbed, Attempting, Idle
    <2>2. CASE InProgress(sessions[s].id)
      <3>1. PICK i \in Ids, verdict \in {"executed", "blocked", "failed"} :
              i = sessions[s].id /\ verdict = sessions[s].verdict
        BY <1>6, FinishSession DEF FinishExecution, SInv, IInv, Typed
      <3>2. /\ sessions' = [sessions EXCEPT ![s] = Closing({<<i, EventOf(verdict)>>})]
            /\ approvals'[i].status = verdict
        BY <1>0, <1>6, <2>2, <3>1 DEF FinishExecution, Row
      <3>3. Told(i, EventOf(verdict))'
        BY <3>2 DEF Told, EventOf
      <3> QED
        BY <3>2, <3>3, ClosingOne
    <2> QED
      BY <1>6, <2>1, <2>2 DEF FinishExecution
  <1> QED
    BY <1>2, <1>3, <1>4, <1>5, <1>6 DEF Executing

LEMMA ServingUndisturbed ==
  ASSUME SInv, NEW s \in Servers, Serving(s)
  PROVE  Undisturbed(s)'
  <1>0. /\ sessions[s] \in Session /\ WellFormed(sessions[s]) /\ Undisturbed(s)
        /\ approvals \in [Ids -> Row] /\ sessions \in [Servers -> Session]
        /\ IInv /\ [Next]_vars
    BY DEF SInv, IInv, TypeOK, SessionsWellFormed, Next
  <1>1. ASSUME NEW i, NEW verdict, SelectExpired(s, i, verdict) PROVE Undisturbed(s)'
    <2>1. /\ sessions'[s].pc = "expire" /\ sessions'[s].todo = {}
          /\ sessions'[s].expire = PendingOlderThan(ExpireAfter)
          /\ UNCHANGED approvals
      BY <1>0, <1>1 DEF SelectExpired, Idle
    <2> QED
      BY <2>1 DEF Undisturbed, Attempting, PendingOlderThan
  <1>2. CASE ApplyExpiry(s)
    <2> DEFINE due == sessions[s].expire
               events == due \X {"approval_expired"}
               q == [sessions[s] EXCEPT !.pc = "decide", !.expire = {}, !.todo = events]
    <2>1. \A e \in events : Told(e[1], e[2])'
      <3>1. \A i \in due : i \in Ids /\ Pending(i)
        BY <1>0, <1>2 DEF ApplyExpiry, At, Undisturbed, Session
      <3>2. \A i \in due : approvals'[i].status = "expired"
        BY <1>0, <1>2, <3>1 DEF ApplyExpiry, Row
      <3> QED
        BY <3>2 DEF Told
    <2>2. \/ sessions' = [sessions EXCEPT ![s] = Closing(events)]
          \/ sessions' = [sessions EXCEPT ![s] = q]
      BY <1>2 DEF ApplyExpiry
    <2>3. q.pc = "decide" /\ q.todo = events
      BY <1>0 DEF Session
    <2> HIDE DEF events, q
    <2>4. CASE sessions' = [sessions EXCEPT ![s] = q]
      BY <1>0, <2>1, <2>3, <2>4 DEF Undisturbed, Attempting
    <2> QED
      BY <2>1, <2>2, <2>4, ClosingUndisturbed
  <1>3. CASE Decide(s)
    <2>0. PICK i \in Ids, verdict \in {"approved", "rejected"} :
            i = sessions[s].id /\ verdict = sessions[s].verdict
      BY <1>0, <1>3 DEF Decide, At, WellFormed
    <2>1. CASE sessions' = [sessions EXCEPT ![s] = Idle]
      BY <1>0, <2>1 DEF Undisturbed, Attempting, Idle
    <2>2. CASE Pending(i)
      <3>1. /\ sessions' = [sessions EXCEPT ![s] = Closing({<<i, EventOf(verdict)>>})]
            /\ approvals'[i].status = verdict
        BY <1>0, <1>3, <2>0, <2>2 DEF Decide, Row
      <3>2. Told(i, EventOf(verdict))'
        BY <3>1 DEF Told, EventOf
      <3> QED
        BY <3>1, <3>2, ClosingOne
    <2> QED
      BY <1>3, <2>0, <2>1, <2>2 DEF Decide
  <1>4. CASE CleanupSelect(s)
    <2>1. /\ sessions'[s].pc = "sweep" /\ sessions'[s].todo = {} /\ UNCHANGED approvals
          /\ \A i \in sessions'[s].expire : Pending(i)
          /\ \A i \in sessions'[s].archive : Archivable(i)
      BY <1>0, <1>4 DEF CleanupSelect, Idle, PendingOlderThan
    <2> QED
      BY <2>1 DEF Undisturbed, Attempting, Archivable, IsTerminal
  <1>5. CASE CleanupApply(s)
    <2> DEFINE expire == sessions[s].expire
               archive == sessions[s].archive
               events == (expire \X {"approval_cleanup_expired"})
                           \cup (archive \X {"approval_cleanup_archived"})
    <2>1. /\ \A i \in expire : i \in Ids /\ Pending(i)
          /\ \A i \in archive : i \in Ids /\ Archivable(i)
      BY <1>0, <1>5 DEF CleanupApply, At, Undisturbed, Session
    <2>2. \A i \in expire : approvals[i].outcome = None
      BY <1>0, <2>1 DEF IInv, RowsConsistent
    <2>3. /\ \A i \in expire : approvals'[i].status = "expired"
          /\ \A i \in archive : approvals'[i].status \in Terminal
      BY <1>0, <1>5, <2>1, <2>2 DEF CleanupApply, Row, Archivable, IsTerminal
    <2>4. \A e \in events : Told(e[1], e[2])'
      BY <2>3 DEF Told
    <2>5. sessions' = [sessions EXCEPT ![s] = Closing(events)]
      BY <1>5 DEF CleanupApply
    <2> HIDE DEF events
    <2> QED
      BY <2>4, <2>5, ClosingUndisturbed
  <1>6. CASE WriteEvent(s)
    <2>1. PICK e \in sessions[s].todo : sessions' = [sessions EXCEPT ![s].todo = @ \ {e}]
      BY <1>6 DEF WriteEvent
    <2> DEFINE q == [sessions[s] EXCEPT !.todo = @ \ {e}]
    <2>2. sessions'[s] = q
      BY <1>0, <2>1
    <2>3. /\ q.pc = sessions[s].pc /\ q.id = sessions[s].id
          /\ q.expire = sessions[s].expire /\ q.archive = sessions[s].archive
          /\ q.todo \subseteq sessions[s].todo
      BY <1>0 DEF Session
    <2>4. UNCHANGED approvals
      BY <1>6 DEF WriteEvent
    <2> HIDE DEF q
    <2> QED
      BY <1>0, <2>2, <2>3, <2>4
      DEF Undisturbed, Attempting, InProgress, Archivable, IsTerminal, Told
  <1>7. ASSUME NEW i \in Ids, StartExecution(s, i) PROVE Undisturbed(s)'
    <2>1. /\ sessions'[s].pc = "gate" /\ sessions'[s].id = i
          /\ sessions'[s].todo = {<<i, "approval_execution_started">>}
      BY <1>0, <1>7 DEF StartExecution, Idle
    <2>2. InProgress(i)'
      BY <1>0, <1>7 DEF StartExecution, InProgress, Row
    <2> QED
      BY <2>1, <2>2 DEF Undisturbed, Told
  <1>8. ASSUME NEW i \in Ids, StartRaises(s, i) PROVE Undisturbed(s)'
    <2>1. sessions'[s].pc = "fail" /\ sessions'[s].todo = {}
      BY <1>0, <1>8 DEF StartRaises, Idle
    <2> QED
      BY <2>1 DEF Undisturbed, Attempting
  <1>9. ASSUME NEW i \in Ids,
               Expire(s, i) \/ MarkFailed(s, i) \/ Archive(s, i) \/ Unarchive(s, i)
        PROVE  Undisturbed(s)'
    <2>1. PICK event \in {"approval_expired", "approval_marked_failed",
                          "approval_archived", "approval_unarchived"} :
            /\ sessions' = [sessions EXCEPT ![s] = Closing({<<i, event>>})]
            /\ event = "approval_expired" => approvals'[i].status = "expired"
      BY <1>0, <1>9 DEF Expire, MarkFailed, Archive, Unarchive, Row
    <2>2. Told(i, event)'
      BY <2>1 DEF Told
    <2> QED
      BY <2>1, <2>2, ClosingOne
  <1> QED
    BY <1>1, <1>2, <1>3, <1>4, <1>5, <1>6, <1>7, <1>8, <1>9, ExecutingUndisturbed
    DEF Serving, List, Approve, Reject

LEMMA InitSound == Init => SInv
  <1> SUFFICES ASSUME Init PROVE SInv
    OBVIOUS
  <1>1. IInv
    BY InitInductive
  <1>2. EventsTold
    BY DEF Init, EventsTold
  <1>3. ASSUME NEW s \in Servers PROVE Undisturbed(s)
    BY DEF Init, Idle, Undisturbed, Attempting
  <1> QED
    BY <1>1, <1>2, <1>3 DEF SInv

LEMMA NextSound == OneServer /\ SInv /\ [Next]_vars => SInv'
  <1> SUFFICES ASSUME OneServer, SInv, [Next]_vars PROVE SInv'
    OBVIOUS
  <1>1. IInv'
    BY NextInductive DEF SInv
  <1>2. \A i \in Ids : \A event : Told(i, event) => Told(i, event)'
    BY ToldStands DEF SInv
  <1>3. EventsTold'
    <2>1. CASE UNCHANGED audit
      BY <1>2, <2>1 DEF SInv, EventsTold
    <2>2. CASE RecordProposal
      <3>1. \A i \in Ids : audit'[i] \subseteq audit[i] \cup {"approval_created"}
        BY <2>2 DEF RecordProposal, SInv, IInv, TypeOK
      <3>2. \A i \in Ids : Told(i, "approval_created")'
        BY DEF Told
      <3> QED
        BY <1>2, <3>1, <3>2 DEF SInv, EventsTold
    <2>3. ASSUME NEW s \in Servers, WriteEvent(s) PROVE EventsTold'
      <3>1. PICK e \in sessions[s].todo : audit' = [audit EXCEPT ![e[1]] = @ \cup {e[2]}]
        BY <2>3 DEF WriteEvent
      <3>2. e[1] \in Ids /\ Told(e[1], e[2])
        BY <3>1 DEF SInv, Undisturbed, IInv, TypeOK, Session
      <3>3. \A i \in Ids : \A event \in audit'[i] :
              event \in audit[i] \/ (i = e[1] /\ event = e[2])
        BY <3>1, <3>2 DEF SInv, IInv, TypeOK
      <3> QED
        BY <1>2, <3>2, <3>3 DEF SInv, EventsTold
    <2>4. ASSUME NEW s \in Servers, Serving(s) PROVE UNCHANGED audit \/ WriteEvent(s)
      <3>1. Executing(s) => UNCHANGED audit
        BY DEF Executing, UnsupportedAction, AddToNeedsReply, GateBlocks, GatePasses,
               VerificationBlocks, VerificationPasses, Attest, ExecutionRaises, FinishExecution
      <3> QED
        BY <2>4, <3>1
        DEF Serving, List, SelectExpired, ApplyExpiry, Decide, CleanupSelect, CleanupApply,
            Approve, Reject, Expire, StartExecution, StartRaises, MarkFailed, Archive, Unarchive
    <2>5. Proposing => UNCHANGED audit \/ RecordProposal
      BY DEF Proposing, Propose, ProposerCrash
    <2> QED
      BY <2>1, <2>2, <2>3, <2>4, <2>5 DEF Next, Tick, Crash, vars
  <1>4. ASSUME NEW s \in Servers PROVE Undisturbed(s)'
    <2>1. ASSUME NEW t \in Servers, Serving(t) PROVE Undisturbed(s)'
      BY <2>1, ServingUndisturbed DEF OneServer
    <2>2. ASSUME NEW t \in Servers, Crash(t) PROVE Undisturbed(s)'
      <3>1. sessions'[s] = Idle
        BY <2>2 DEF OneServer, Crash, SInv, IInv, TypeOK
      <3> QED
        BY <3>1 DEF Undisturbed, Attempting, Idle
    <2>3. CASE Proposing \/ Tick \/ UNCHANGED vars
      <3>1. /\ UNCHANGED sessions
            /\ \A i \in Ids : approvals[i].status # "absent" => approvals'[i] = approvals[i]
        BY <2>3 DEF Proposing, Propose, RecordProposal, ProposerCrash, Tick, vars, SInv,
                    IInv, TypeOK
      <3> QED
        BY <3>1, ElsewhereUndisturbed
    <2> QED
      BY <2>1, <2>2, <2>3 DEF Next
  <1> QED
    BY <1>1, <1>3, <1>4 DEF SInv

LEMMA SoundAlways == ASSUME OneServer PROVE Spec => []SInv
  <1>1. SInv /\ [Next]_vars => SInv'
    BY OneServer, NextSound
  <1> QED
    BY <1>1, InitSound, PTL DEF Spec

(***************************************************************************)
(* With one API process, every expiry, decision, verdict and archiving the *)
(* audit trail of mail_processing_events reports is what the row says: the *)
(* events are written after the rows, over another transaction, and a      *)
(* crash only leaves some of them out.                                     *)
(***************************************************************************)
THEOREM AuditTellsTheTruth == ASSUME OneServer PROVE Spec => []AuditIsSound
  <1>1. SInv => AuditIsSound
    <2> SUFFICES ASSUME SInv, NEW i \in Ids
                 PROVE  LET status == approvals[i].status IN
                    /\ audit[i] \cap {"approval_expired", "approval_cleanup_expired"} # {}
                         => status = "expired"
                    /\ "approval_rejected" \in audit[i] => status = "rejected"
                    /\ "approval_approved" \in audit[i]
                         => status \in {"approved", "executed", "blocked", "failed"}
                    /\ "approval_executed" \in audit[i]
                         => status = "executed" /\ Performed(i)
                    /\ "approval_blocked" \in audit[i]
                         => status = "blocked" /\ ~ Performed(i)
                    /\ "approval_cleanup_archived" \in audit[i] => IsTerminal(i)
      BY DEF AuditIsSound
    <2>1. \A event \in audit[i] : Told(i, event)
      BY DEF SInv, EventsTold
    <2>2. /\ approvals[i].status = "executed" => Performed(i)
          /\ approvals[i].status = "blocked" => ~ Performed(i)
      BY DEF SInv, IInv, VerdictMatchesEffect
    <2> QED
      BY <2>1, <2>2 DEF Told, IsTerminal
  <1> QED
    BY <1>1, SoundAlways, PTL
-----------------------------------------------------------------------------
(***************************************************************************)
(* The refinement of ApprovalLedger.  A step of the tables that leaves     *)
(* every phase and every effect as they are is a stutter of the ledger.    *)
(***************************************************************************)
SamePhase(i) == Phase(i)' = Phase(i)
Unmoved(i) == SamePhase(i) /\ (Performed(i)' <=> Performed(i))

phase == [i \in Ids |-> Phase(i)]
effect == [i \in Ids |-> Performed(i)]

LEMMA EffectStutters ==
  ASSUME \A i \in Ids : Performed(i)' <=> Performed(i)
  PROVE  effect' = effect
  <1>1. \A i \in Ids : Performed(i)' = Performed(i)
    BY Zenon DEF Performed
  <1> QED
    BY <1>1, Zenon DEF effect

LEMMA LedgerStutters ==
  ASSUME \A i \in Ids : Unmoved(i)
  PROVE  UNCHANGED <<phase, effect>>
  <1>1. effect' = effect
    BY EffectStutters DEF Unmoved
  <1>2. phase' = phase
    BY DEF Unmoved, SamePhase, phase
  <1> QED
    BY <1>1, <1>2

LEMMA LedgerMoves ==
  ASSUME NEW i \in Ids, NEW from, NEW to, Phase(i) = from, Phase(i)' = to,
         \A j \in Ids \ {i} : SamePhase(j), \A j \in Ids : Performed(j)' <=> Performed(j)
  PROVE  Ledger!Move(i, from, to)
  <1>1. effect' = effect
    BY EffectStutters
  <1>2. phase[i] = from
    BY DEF phase
  <1>3. phase' = [phase EXCEPT ![i] = to]
    BY DEF phase, SamePhase
  <1> QED
    BY <1>1, <1>2, <1>3 DEF Ledger!Move, phase, effect

LEMMA LedgerLapses ==
  ASSUME NEW S \in SUBSET Ids, \A i \in S : Phase(i) = "pending" /\ Phase(i)' = "expired",
         \A i \in Ids \ S : SamePhase(i), \A i \in Ids : Performed(i)' <=> Performed(i)
  PROVE  Ledger!Next
  <1>1. effect' = effect
    BY EffectStutters
  <1>2. \A i \in S : phase[i] = "pending"
    BY DEF phase
  <1>3. phase' = [i \in Ids |-> IF i \in S THEN "expired" ELSE phase[i]]
    BY DEF phase, SamePhase
  <1>4. Ledger!Lapse(S)
    BY <1>1, <1>2, <1>3 DEF Ledger!Lapse, phase, effect
  <1> QED
    BY <1>4 DEF Ledger!Next

LEMMA LedgerPerforms ==
  ASSUME NEW i \in Ids, Phase(i) = "running", \A j \in Ids : SamePhase(j),
         ~ Performed(i), Performed(i)', \A j \in Ids \ {i} : SameEffect(j)
  PROVE  Ledger!Next
  <1>1. phase' = phase /\ phase[i] = "running"
    BY DEF phase, SamePhase
  <1>2. ~ effect[i]
    BY Zenon DEF effect
  <1>3. effect' = [effect EXCEPT ![i] = TRUE]
    <2>1. \A j \in Ids : Performed(j)' = IF j = i THEN TRUE ELSE Performed(j)
      BY Zenon DEF Performed, SameEffect
    <2>2. effect' = [j \in Ids |-> IF j = i THEN TRUE ELSE effect[j]]
      BY <2>1, Zenon DEF effect
    <2>3. DOMAIN effect = Ids
      BY Zenon DEF effect
    <2> QED
      BY <2>2, <2>3
  <1>4. Ledger!Perform(i)
    BY <1>1, <1>2, <1>3 DEF Ledger!Perform, phase, effect
  <1> QED
    BY <1>4 DEF Ledger!Next

LEMMA ExecutingRefines ==
  ASSUME SInv, NEW s \in Servers, Executing(s)
  PROVE  [Ledger!Next]_(Ledger!ledger)
  <1>0. /\ sessions[s] \in Session /\ WellFormed(sessions[s]) /\ Undisturbed(s)
        /\ approvals \in [Ids -> Row] /\ IInv
    BY DEF SInv, IInv, TypeOK, SessionsWellFormed
  <1>1. UNCHANGED approvals => \A j \in Ids : SamePhase(j)
    BY DEF SamePhase, Phase, InProgress
  <1>2. ASSUME \A j \in Ids : Unmoved(j) PROVE UNCHANGED Ledger!ledger
    BY <1>2, LedgerStutters DEF Ledger!ledger, phase, effect
  <1>3. CASE UNCHANGED <<approvals, executions, needsReply>>
    BY <1>1, <1>2, <1>3, UntouchedEffects DEF Unmoved, SameEffect
  <1>4. PICK i \in Ids : i = sessions[s].id
    BY <1>0 DEF Executing, UnsupportedAction, AddToNeedsReply, GateBlocks, GatePasses,
                VerificationBlocks, VerificationPasses, Attest, ExecutionRaises,
                FinishExecution, At, WellFormed, Attempting
  <1>5. At(s, "gate") \/ At(s, "verify")
          => ~ Performed(i) /\ ~ HasRecord(i) /\ Phase(i) = "running"
    BY <1>0, <1>4 DEF At, IInv, AttemptsConsistent, Undisturbed, Attempting, Phase
  <1>6. CASE AddToNeedsReply(s)
    <2>1. /\ At(s, "gate") /\ UNCHANGED <<approvals, executions>>
          /\ needsReply' = needsReply \cup {i}
      BY <1>4, <1>6 DEF AddToNeedsReply
    <2>2. Performed(i)' /\ \A j \in Ids \ {i} : SameEffect(j)
      BY <2>1 DEF SameEffect, Performed, HasRecord
    <2> QED
      BY <1>1, <1>5, <2>1, <2>2, LedgerPerforms
  <1>7. CASE GateBlocks(s) \/ VerificationBlocks(s)
    <2>1. /\ At(s, "gate") \/ At(s, "verify")
          /\ UNCHANGED <<approvals, needsReply>>
          /\ \E p \in Plans : Record(i, p, "blocked")
      BY <1>0, <1>4, <1>7 DEF GateBlocks, VerificationBlocks, At, WellFormed
    <2>2. \A j \in Ids : Performed(j)' <=> Performed(j)
      BY <1>0, <1>5, <2>1, RecordEffect DEF SameEffect
    <2> QED
      BY <1>1, <1>2, <2>1, <2>2 DEF Unmoved
  <1>8. CASE VerificationPasses(s)
    <2>1. /\ At(s, "verify") /\ UNCHANGED <<approvals, needsReply>>
          /\ \E p \in Plans : Record(i, p, "mock_executed")
      BY <1>0, <1>4, <1>8 DEF VerificationPasses, At, WellFormed
    <2>2. Performed(i)' /\ \A j \in Ids \ {i} : SameEffect(j)
      BY <1>0, <1>5, <2>1, RecordEffect
    <2> QED
      BY <1>1, <1>5, <2>1, <2>2, LedgerPerforms
  <1>9. CASE FinishExecution(s) /\ InProgress(i)
    <2> DEFINE verdict == sessions[s].verdict
    <2>1. /\ UNCHANGED <<executions, needsReply>>
          /\ \A j \in Ids \ {i} : approvals'[j] = approvals[j]
          /\ approvals'[i].status = verdict
      BY <1>0, <1>4, <1>9 DEF FinishExecution, Row
    <2>2. /\ verdict \in {"executed", "blocked", "failed"}
          /\ verdict = "executed" => Performed(i)
          /\ verdict = "blocked" => ~ Performed(i)
      BY <1>0, <1>4, <1>9 DEF FinishExecution, At, WellFormed, IInv, AttemptsConsistent
    <2>3. /\ Phase(i) = "running" /\ Phase(i)' = verdict
          /\ \A j \in Ids \ {i} : SamePhase(j)
      BY <1>9, <2>1, <2>2 DEF Phase, InProgress, SamePhase
    <2>4. \A j \in Ids : Performed(j)' <=> Performed(j)
      BY <2>1, UntouchedEffects DEF SameEffect
    <2>5. PICK to \in {"executed", "blocked", "failed"} : to = verdict
      BY <2>2
    <2>6. Ledger!Move(i, "running", to)
      BY <2>3, <2>4, <2>5, LedgerMoves
    <2>7. /\ to = "executed" => effect[i]
          /\ to = "blocked" => ~ effect[i]
      BY <2>2, <2>5, Zenon DEF effect
    <2>8. Ledger!Close(i)
      BY <2>5, <2>6, <2>7 DEF Ledger!Close, effect
    <2> QED
      BY <2>8 DEF Ledger!Next
  <1> QED
    BY <1>3, <1>4, <1>6, <1>7, <1>8, <1>9
    DEF Executing, UnsupportedAction, GatePasses, Attest, ExecutionRaises, FinishExecution

LEMMA ServingRefines ==
  ASSUME SInv, NEW s \in Servers, Serving(s)
  PROVE  [Ledger!Next]_(Ledger!ledger)
  <1>0. /\ sessions[s] \in Session /\ WellFormed(sessions[s]) /\ Undisturbed(s)
        /\ approvals \in [Ids -> Row] /\ RowsConsistent
    BY DEF SInv, IInv, TypeOK, SessionsWellFormed
  <1>1. CASE Executing(s)
    BY <1>1, ExecutingRefines
  <1>2. UNCHANGED <<executions, needsReply>> => \A j \in Ids : Performed(j)' <=> Performed(j)
    BY UntouchedEffects DEF SameEffect
  <1>3. ASSUME UNCHANGED <<executions, needsReply>>,
               \A j \in Ids : /\ approvals'[j].status = approvals[j].status
                              /\ approvals'[j].outcome = approvals[j].outcome
        PROVE  UNCHANGED Ledger!ledger
    <2>1. \A j \in Ids : Unmoved(j)
      BY <1>2, <1>3 DEF Unmoved, SamePhase, Phase, InProgress
    <2> QED
      BY <2>1, LedgerStutters DEF Ledger!ledger, phase, effect
  <1>4. CASE UNCHANGED <<approvals, executions, needsReply>>
    BY <1>3, <1>4
  <1>5. ASSUME NEW S \in SUBSET Ids, UNCHANGED <<executions, needsReply>>,
               \A j \in S : Pending(j) /\ approvals'[j].status = "expired",
               \A j \in Ids \ S : /\ approvals'[j].status = approvals[j].status
                                  /\ approvals'[j].outcome = approvals[j].outcome
        PROVE  Ledger!Next
    <2>1. /\ \A j \in S : Phase(j) = "pending" /\ Phase(j)' = "expired"
          /\ \A j \in Ids \ S : SamePhase(j)
      BY <1>5 DEF SamePhase, Phase, InProgress
    <2> QED
      BY <1>2, <1>5, <2>1, LedgerLapses
  <1>6. CASE ApplyExpiry(s)
    <2> DEFINE S == {i \in Ids : i \in sessions[s].expire /\ Pending(i)}
    <2>1. /\ UNCHANGED <<executions, needsReply>>
          /\ \A j \in S : Pending(j) /\ approvals'[j].status = "expired"
          /\ \A j \in Ids \ S : approvals'[j] = approvals[j]
      BY <1>0, <1>6 DEF ApplyExpiry, Row
    <2> HIDE DEF S
    <2>2. S \in SUBSET Ids
      BY DEF S
    <2> QED
      BY <1>5, <2>1, <2>2
  <1>7. CASE CleanupApply(s)
    <2> DEFINE S == {i \in Ids : /\ i \in sessions[s].expire /\ Pending(i)
                                 /\ approvals[i].outcome = None}
    <2>1. /\ UNCHANGED <<executions, needsReply>>
          /\ \A j \in S : Pending(j) /\ approvals'[j].status = "expired"
          /\ \A j \in Ids \ S : /\ approvals'[j].status = approvals[j].status
                                /\ approvals'[j].outcome = approvals[j].outcome
      BY <1>0, <1>7 DEF CleanupApply, Row
    <2> HIDE DEF S
    <2>2. S \in SUBSET Ids
      BY DEF S
    <2> QED
      BY <1>5, <2>1, <2>2
  <1>8. ASSUME NEW i \in Ids, NEW from, NEW to, UNCHANGED <<executions, needsReply>>,
               \A j \in Ids \ {i} : approvals'[j] = approvals[j],
               Phase(i) = from, Phase(i)' = to
        PROVE  Ledger!Move(i, from, to)
    <2>1. \A j \in Ids \ {i} : SamePhase(j)
      BY <1>8 DEF SamePhase, Phase, InProgress
    <2> QED
      BY <1>2, <1>8, <2>1, LedgerMoves
  <1>9. CASE Decide(s) /\ Pending(sessions[s].id)
    <2>1. PICK i \in Ids, verdict \in {"approved", "rejected"} :
            i = sessions[s].id /\ verdict = sessions[s].verdict
      BY <1>0, <1>9 DEF Decide, At, WellFormed
    <2>2. /\ UNCHANGED <<executions, needsReply>>
          /\ \A j \in Ids \ {i} : approvals'[j] = approvals[j]
          /\ approvals'[i].status = verdict
          /\ approvals'[i].outcome = approvals[i].outcome
          /\ approvals[i].status = "pending" /\ approvals[i].outcome = None
      BY <1>0, <1>9, <2>1 DEF Decide, Row, RowsConsistent
    <2>3. Phase(i) = "pending" /\ Phase(i)' = verdict
      BY <2>2 DEF Phase, InProgress
    <2>4. Ledger!Move(i, "pending", verdict)
      BY <1>8, <2>2, <2>3
    <2>5. Ledger!Decide(i)
      BY <2>4 DEF Ledger!Decide
    <2> QED
      BY <2>5 DEF Ledger!Next
  <1>10. ASSUME NEW i \in Ids, Expire(s, i) PROVE Ledger!Next
    <2>1. /\ UNCHANGED <<executions, needsReply>> /\ Pending(i)
          /\ approvals'[i].status = "expired"
          /\ \A j \in Ids \ {i} : approvals'[j] = approvals[j]
      BY <1>0, <1>10 DEF Expire, Row
    <2>2. PICK S \in SUBSET Ids : S = {i}
      OBVIOUS
    <2> QED
      BY <1>5, <2>1, <2>2
  <1>11. ASSUME NEW i \in Ids, StartExecution(s, i) PROVE Ledger!Next
    <2>1. /\ UNCHANGED <<executions, needsReply>>
          /\ approvals[i].status = "approved" /\ approvals[i].outcome = None
          /\ approvals'[i].status = "approved" /\ approvals'[i].outcome = "started"
          /\ \A j \in Ids \ {i} : approvals'[j] = approvals[j]
      BY <1>0, <1>11 DEF StartExecution, Row
    <2>2. Phase(i) = "approved" /\ Phase(i)' = "running"
      BY <2>1 DEF Phase, InProgress
    <2>3. Ledger!Attempt(i)
      BY <1>8, <2>1, <2>2 DEF Ledger!Attempt
    <2> QED
      BY <2>3 DEF Ledger!Next
  <1>12. ASSUME NEW i \in Ids, MarkFailed(s, i) PROVE Ledger!Next
    <2>1. /\ UNCHANGED <<executions, needsReply>> /\ InProgress(i)
          /\ approvals'[i].status = "failed"
          /\ \A j \in Ids \ {i} : approvals'[j] = approvals[j]
      BY <1>0, <1>12 DEF MarkFailed, Row
    <2>2. Phase(i) = "running" /\ Phase(i)' = "failed"
      BY <2>1 DEF Phase, InProgress
    <2>3. Ledger!Close(i)
      BY <1>8, <2>1, <2>2 DEF Ledger!Close
    <2> QED
      BY <2>3 DEF Ledger!Next
  <1>13. ASSUME NEW i \in Ids, Archive(s, i) \/ Unarchive(s, i)
         PROVE  UNCHANGED Ledger!ledger
    BY <1>0, <1>3, <1>13 DEF Archive, Unarchive, Row
  <1> QED
    BY <1>1, <1>4, <1>6, <1>7, <1>9, <1>10, <1>11, <1>12, <1>13
    DEF Serving, List, SelectExpired, Approve, Reject, CleanupSelect, Decide, WriteEvent,
        StartRaises

LEMMA NextRefines ==
  ASSUME SInv, [Next]_vars
  PROVE  [Ledger!Next]_(Ledger!ledger)
  <1>1. ASSUME NEW s \in Servers, Serving(s) PROVE [Ledger!Next]_(Ledger!ledger)
    BY <1>1, ServingRefines
  <1>2. ASSUME NEW i \in Ids, NEW k \in Intents, Propose(i, k) PROVE Ledger!Next
    <2>1. /\ UNCHANGED <<executions, needsReply>>
          /\ approvals[i].status = "absent" /\ approvals'[i].status = "pending"
          /\ \A j \in Ids \ {i} : approvals'[j] = approvals[j]
      BY <1>2 DEF Propose, NoRow, SInv, IInv, TypeOK
    <2>2. /\ Phase(i) = "absent" /\ Phase(i)' = "pending"
          /\ \A j \in Ids \ {i} : SamePhase(j)
      BY <2>1 DEF Phase, InProgress, SamePhase
    <2>3. \A j \in Ids : Performed(j)' <=> Performed(j)
      BY <2>1, UntouchedEffects DEF SameEffect
    <2>4. Ledger!Propose(i)
      BY <2>2, <2>3, LedgerMoves DEF Ledger!Propose
    <2> QED
      BY <2>4 DEF Ledger!Next
  <1>3. CASE UNCHANGED <<approvals, executions, needsReply>>
    <2>1. \A j \in Ids : Unmoved(j)
      BY <1>3, UntouchedEffects DEF Unmoved, SameEffect, SamePhase, Phase, InProgress
    <2> QED
      BY <2>1, LedgerStutters DEF Ledger!ledger, phase, effect
  <1> QED
    BY <1>1, <1>2, <1>3
    DEF Next, Proposing, RecordProposal, ProposerCrash, Tick, Crash, vars

LEMMA InitRefines == Init => Ledger!Init
  <1> SUFFICES ASSUME Init PROVE Ledger!Init
    OBVIOUS
  <1>1. \A i \in Ids : Phase(i) = "absent"
    BY DEF Init, NoRow, Phase, InProgress
  <1>2. \A i \in Ids : Performed(i) = FALSE
    BY Zenon DEF Init, Performed
  <1> QED
    BY <1>1, <1>2, Zenon DEF Ledger!Init

(***************************************************************************)
(* With one API process the tables and handlers implement the abstract     *)
(* ledger: decided once, attempted once and only when approved, carried    *)
(* out at most once, and closed with a verdict that fits the effect.       *)
(***************************************************************************)
THEOREM LedgerImplemented == ASSUME OneServer PROVE Spec => ImplementsLedger
  BY SoundAlways, InitRefines, NextRefines, PTL DEF Spec, ImplementsLedger, Ledger!Spec
=============================================================================
