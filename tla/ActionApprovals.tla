-------------------------- MODULE ActionApprovals --------------------------
(***************************************************************************)
(* Operator approvals of the mail agent: the mail_action_approvals and     *)
(* mail_action_executions tables of data/agent.db, the finance-api         *)
(* handlers that decide, execute, expire, archive and clean up approvals,  *)
(* and the AI worker of the agent container that proposes them.            *)
(*                                                                         *)
(* Every method of AgentState opens a connection of its own and commits    *)
(* before it returns, so one action below is one committed transaction (or *)
(* one read); a request is a sequence of such actions and may be cut short *)
(* between any two of them (Crash).  Servers is the set of API processes   *)
(* that share the database file: one in the deployment, where the handlers *)
(* never await and so never interleave with each other; larger sets show   *)
(* what the conditions in the SQL statements guarantee by themselves.      *)
(***************************************************************************)
EXTENDS Integers

CONSTANTS Ids,              \* approval_id values still to be generated
          Intents,          \* (source, message, action, target, value) keys
          Class,            \* how _execute_approved_action treats an intent
          Plans,            \* dry-run plan hashes
          Servers,          \* finance-api processes on data/agent.db
          None,             \* SQL NULL / no value
          MaxTime,          \* bound on the coarse clock
          StaleAfter,       \* started_stale_after_minutes
          AutoExpireAfter,  \* auto_expire_pending_after_hours
          ExpireAfter,      \* approval_expiry_hours
          ArchiveAfter      \* archive_terminal_after_days

Classes == {"mutation", "needs_reply", "unsupported"}

ASSUME ClassAssumption == Class \in [Intents -> Classes]
ASSUME TimesAssumption ==
  /\ MaxTime \in Nat /\ StaleAfter \in Nat /\ AutoExpireAfter \in Nat
  /\ ExpireAfter \in Nat /\ ArchiveAfter \in Nat

Results == {"started", "unsupported", "completed", "blocked", "mock_executed",
            "failed"}
Decisions == {"approved", "rejected", "executed", "blocked", "failed"}

ASSUME NoneAssumption ==
  None \notin Ids \cup Intents \cup Plans \cup Nat \cup Results \cup Decisions

VARIABLES clock,        \* wall clock, in units of the thresholds above
          approvals,    \* rows of mail_action_approvals
          executions,   \* rows of mail_action_executions
          needsReply,   \* approvals whose mail_needs_reply upsert committed
          audit,        \* approval events in mail_processing_events
          proposer,     \* the row whose "approval_created" event is due
          sessions      \* the request each API process is serving

vars == <<clock, approvals, executions, needsReply, audit, proposer, sessions>>
-----------------------------------------------------------------------------
Terminal == {"rejected", "expired", "executed", "blocked", "failed"}
Statuses == {"absent", "pending", "approved"} \cup Terminal
Outcomes == Results \cup {None}
Verdicts == Decisions \cup {None}
Events == {"approval_created", "approval_approved", "approval_rejected",
           "approval_expired", "approval_execution_started",
           "approval_executed", "approval_blocked", "approval_failed",
           "approval_marked_failed", "approval_archived",
           "approval_unarchived", "approval_cleanup_expired",
           "approval_cleanup_archived"}

Time == 0 .. MaxTime

Row == [status : Statuses, intent : Intents \cup {None},
        requested : Time,                \* requested_at
        settled : Time,                  \* COALESCE(executed, decided, requested)
        started : Time \cup {None},      \* execution_started_at
        outcome : Outcomes,              \* execution_status
        archived : BOOLEAN]              \* archived_at IS NOT NULL

Execution == [id : Ids, plan : Plans, status : {"mock_executed", "blocked"}]

PCs == {"idle", "expire", "decide", "sweep", "gate", "verify", "attest",
        "finish", "fail"}

Session == [pc : PCs, id : Ids \cup {None}, verdict : Verdicts,
            outcome : Outcomes, plan : Plans \cup {None},
            archived : BOOLEAN,          \* archived_at in the row read at start
            expire : SUBSET Ids, archive : SUBSET Ids,
            todo : SUBSET (Ids \X Events)]  \* events not yet written

NoRow == [status |-> "absent", intent |-> None, requested |-> 0, settled |-> 0,
          started |-> None, outcome |-> None, archived |-> FALSE]

Idle == [pc |-> "idle", id |-> None, verdict |-> None, outcome |-> None,
         plan |-> None, archived |-> FALSE, expire |-> {}, archive |-> {},
         todo |-> {}]

\* The request has nothing left to do but to write these audit events.
Closing(events) == [Idle EXCEPT !.todo = events]

\* Server s is between two commits, at step pc, with its events written.
At(s, pc) == sessions[s].pc = pc /\ sessions[s].todo = {}

IsTerminal(i) == approvals[i].status \in Terminal

PendingOlderThan(age) ==
  {i \in Ids : /\ approvals[i].status = "pending"
               /\ approvals[i].requested + age < clock}

EventOf(verdict) ==
  CASE verdict = "approved" -> "approval_approved"
    [] verdict = "rejected" -> "approval_rejected"
    [] verdict = "executed" -> "approval_executed"
    [] verdict = "blocked"  -> "approval_blocked"
    [] OTHER                -> "approval_failed"

Init == /\ clock = 0
        /\ approvals = [i \in Ids |-> NoRow]
        /\ executions = {}
        /\ needsReply = {}
        /\ audit = [i \in Ids |-> {}]
        /\ proposer = None
        /\ sessions = [s \in Servers |-> Idle]
-----------------------------------------------------------------------------
(***************************************************************************)
(* The AI worker: create_action_approval.  INSERT OR IGNORE against the    *)
(* partial unique index on pending rows; the event is a second transaction.*)
(***************************************************************************)
Propose(i, k) ==
  /\ proposer = None
  /\ approvals[i].status = "absent"
  /\ ~ \E j \in Ids : approvals[j].status = "pending" /\ approvals[j].intent = k
  /\ approvals' = [approvals EXCEPT ![i] =
                     [NoRow EXCEPT !.status = "pending", !.intent = k,
                                   !.requested = clock, !.settled = clock]]
  /\ proposer' = i
  /\ UNCHANGED <<clock, executions, needsReply, audit, sessions>>

RecordProposal ==
  /\ proposer # None
  /\ audit' = [audit EXCEPT ![proposer] = @ \cup {"approval_created"}]
  /\ proposer' = None
  /\ UNCHANGED <<clock, approvals, executions, needsReply, sessions>>

ProposerCrash ==
  /\ proposer # None
  /\ proposer' = None
  /\ UNCHANGED <<clock, approvals, executions, needsReply, audit, sessions>>
-----------------------------------------------------------------------------
(***************************************************************************)
(* Requests.  write_approval_event commits one event at a time, after the  *)
(* transaction that changed the row.                                       *)
(***************************************************************************)
WriteEvent(s) ==
  /\ \E e \in sessions[s].todo :
       /\ audit' = [audit EXCEPT ![e[1]] = @ \cup {e[2]}]
       /\ sessions' = [sessions EXCEPT ![s].todo = @ \ {e}]
  /\ UNCHANGED <<clock, approvals, executions, needsReply, proposer>>

\* The process stops, or SQLite raises: what was not committed is lost.
Crash(s) ==
  /\ sessions[s] # Idle
  /\ sessions' = [sessions EXCEPT ![s] = Idle]
  /\ UNCHANGED <<clock, approvals, executions, needsReply, audit, proposer>>

\* GET /approvals and /approvals/export, and the first half of approve and
\* reject: expire_pending_approvals selects the rows older than 72 h ...
SelectExpired(s, i, verdict) ==
  /\ At(s, "idle")
  /\ sessions' = [sessions EXCEPT ![s] =
                    [Idle EXCEPT !.pc = "expire", !.id = i, !.verdict = verdict,
                                 !.expire = PendingOlderThan(ExpireAfter)]]
  /\ UNCHANGED <<clock, approvals, executions, needsReply, audit, proposer>>

List(s) == SelectExpired(s, None, None)

Approve(s, i) == approvals[i].status # "absent" /\ SelectExpired(s, i, "approved")
Reject(s, i) == approvals[i].status # "absent" /\ SelectExpired(s, i, "rejected")

\* ... updates those still pending, and owes an event to every selected row.
ApplyExpiry(s) ==
  LET due == sessions[s].expire IN
  /\ At(s, "expire")
  /\ approvals' = [i \in Ids |->
                     IF i \in due /\ approvals[i].status = "pending"
                     THEN [approvals[i] EXCEPT !.status = "expired"]
                     ELSE approvals[i]]
  /\ sessions' = [sessions EXCEPT ![s] =
                    IF @.verdict = None
                    THEN Closing(due \X {"approval_expired"})
                    ELSE [@ EXCEPT !.pc = "decide", !.expire = {},
                                   !.todo = due \X {"approval_expired"}]]
  /\ UNCHANGED <<clock, executions, needsReply, audit, proposer>>

\* The guard of every decision: UPDATE ... WHERE status = 'pending', else 409.
Overridable(i) == approvals[i].status # "absent"  \* a mutation: the guard dropped
Pending(i) == approvals[i].status = "pending"

\* _decide_action_approval
Decide(s) ==
  LET i == sessions[s].id
      verdict == sessions[s].verdict IN
  /\ At(s, "decide")
  /\ \/ /\ Pending(i)
        /\ approvals' = [approvals EXCEPT ![i].status = verdict,
                                          ![i].settled = clock]
        /\ sessions' = [sessions EXCEPT ![s] = Closing({<<i, EventOf(verdict)>>})]
     \/ /\ ~ Pending(i)
        /\ sessions' = [sessions EXCEPT ![s] = Idle]
        /\ UNCHANGED approvals
  /\ UNCHANGED <<clock, executions, needsReply, audit, proposer>>

\* POST /approvals/{id}/expire
Expire(s, i) ==
  /\ At(s, "idle")
  /\ Pending(i)
  /\ approvals' = [approvals EXCEPT ![i].status = "expired"]
  /\ sessions' = [sessions EXCEPT ![s] = Closing({<<i, "approval_expired">>})]
  /\ UNCHANGED <<clock, executions, needsReply, audit, proposer>>
-----------------------------------------------------------------------------
(***************************************************************************)
(* POST /approvals/{id}/execute: mark_approval_execution_started, then     *)
(* _execute_approved_action on the row as it was read at the start, then   *)
(* finish_action_approval_execution.                                       *)
(***************************************************************************)
\* WHERE status = 'approved' AND execution_status IS NULL, and a mutation of it.
Restartable(i) == approvals[i].status = "approved"
Startable(i) == approvals[i].status = "approved" /\ approvals[i].outcome = None

StartExecution(s, i) ==
  /\ At(s, "idle")
  /\ Startable(i)
  /\ approvals' = [approvals EXCEPT ![i].outcome = "started",
                                    ![i].started = clock]
  /\ sessions' = [sessions EXCEPT ![s] =
                    [Idle EXCEPT !.pc = "gate", !.id = i,
                                 !.archived = approvals[i].archived,
                                 !.todo = {<<i, "approval_execution_started">>}]]
  /\ UNCHANGED <<clock, executions, needsReply, audit, proposer>>

\* The conditional UPDATE itself raises (database locked past its timeout):
\* the handler fails any approved row, whoever started it.
StartRaises(s, i) ==
  /\ At(s, "idle")
  /\ approvals[i].status = "approved"
  /\ sessions' = [sessions EXCEPT ![s] =
                    [Idle EXCEPT !.pc = "fail", !.id = i, !.verdict = "failed",
                                 !.outcome = "failed"]]
  /\ UNCHANGED <<clock, approvals, executions, needsReply, audit, proposer>>

ClassOf(s) == Class[approvals[sessions[s].id].intent]

\* A mutation: status and execution_status swapped.
Conclude(s, verdict, outcome) ==
  sessions' = [sessions EXCEPT ![s] = [@ EXCEPT !.pc = "finish",
                                                !.verdict = verdict,
                                                !.outcome = outcome]]

UnsupportedAction(s) ==
  /\ At(s, "gate")
  /\ ClassOf(s) = "unsupported"
  /\ Conclude(s, "blocked", "unsupported")
  /\ UNCHANGED <<clock, approvals, executions, needsReply, audit, proposer>>

\* rules._execute_action: upsert of mail_needs_reply and its event, one commit.
AddToNeedsReply(s) ==
  /\ At(s, "gate")
  /\ ClassOf(s) = "needs_reply"
  /\ needsReply' = needsReply \cup {sessions[s].id}
  /\ Conclude(s, "executed", "completed")
  /\ UNCHANGED <<clock, approvals, executions, audit, proposer>>

\* The idempotency key hashes the approval id and the plan.
Recorded(i, p) == \E e \in executions : e.id = i /\ e.plan = p

\* INSERT OR IGNORE on the unique idempotency key.
Record(i, p, result) ==
  executions' = IF Recorded(i, p) THEN executions
                ELSE executions \cup {[id |-> i, plan |-> p, status |-> result]}

\* evaluate_execution_gate finds a blocker: mode, configuration, account,
\* folder state, capability cache or plan (any of them, at any time), ...
GateBlocks(s) ==
  /\ At(s, "gate")
  /\ ClassOf(s) = "mutation"
  /\ \E p \in Plans : Record(sessions[s].id, p, "blocked")
  /\ Conclude(s, "blocked", "blocked")
  /\ UNCHANGED <<clock, approvals, needsReply, audit, proposer>>

\* ... or none of them, and the row read at start is fresh and not archived.
GatePasses(s) ==
  LET i == sessions[s].id IN
  /\ At(s, "gate")
  /\ ClassOf(s) = "mutation"
  /\ ~ sessions[s].archived
  /\ ~ (approvals[i].requested + ExpireAfter < clock)
  /\ \E p \in Plans :
       /\ ~ Recorded(i, p)
       /\ sessions' = [sessions EXCEPT ![s].pc = "verify", ![s].plan = p]
  /\ UNCHANGED <<clock, approvals, executions, needsReply, audit, proposer>>

\* verify_action_plan_readonly compares the mailbox with the approved message.
VerificationBlocks(s) ==
  /\ At(s, "verify")
  /\ Record(sessions[s].id, sessions[s].plan, "blocked")
  /\ Conclude(s, "blocked", "blocked")
  /\ UNCHANGED <<clock, approvals, needsReply, audit, proposer>>

VerificationPasses(s) ==
  /\ At(s, "verify")
  /\ Record(sessions[s].id, sessions[s].plan, "mock_executed")
  /\ sessions' = [sessions EXCEPT ![s].pc = "attest"]
  /\ UNCHANGED <<clock, approvals, needsReply, audit, proposer>>

\* The two execution events that follow the record.
Attest(s) ==
  /\ At(s, "attest")
  /\ Conclude(s, "executed", "mock_executed")
  /\ UNCHANGED <<clock, approvals, executions, needsReply, audit, proposer>>

\* An exception after the start: the handler turns to failing the row.
ExecutionRaises(s) ==
  /\ sessions[s].pc \in {"gate", "verify", "attest", "finish"}
  /\ sessions' = [sessions EXCEPT ![s] =
                    [Idle EXCEPT !.pc = "fail", !.id = sessions[s].id,
                                 !.verdict = "failed", !.outcome = "failed"]]
  /\ UNCHANGED <<clock, approvals, executions, needsReply, audit, proposer>>

\* WHERE status = 'approved' AND execution_status = 'started', and a mutation.
Finishable(i) == approvals[i].outcome # None
InProgress(i) == approvals[i].status = "approved" /\ approvals[i].outcome = "started"

FinishExecution(s) ==
  LET i == sessions[s].id IN
  /\ At(s, "finish") \/ At(s, "fail")
  /\ \/ /\ InProgress(i)
        /\ approvals' = [approvals EXCEPT ![i].status = sessions[s].verdict,
                                          ![i].outcome = sessions[s].outcome,
                                          ![i].settled = clock]
        /\ sessions' = [sessions EXCEPT ![s] =
                          Closing({<<i, EventOf(sessions[s].verdict)>>})]
     \/ /\ ~ InProgress(i)
        /\ sessions' = [sessions EXCEPT ![s] = Idle]
        /\ UNCHANGED approvals
  /\ UNCHANGED <<clock, executions, needsReply, audit, proposer>>

\* POST /approvals/{id}/mark-failed, for an attempt that never finished.
MarkFailed(s, i) ==
  /\ At(s, "idle")
  /\ InProgress(i)
  /\ clock - approvals[i].started >= StaleAfter
  /\ approvals' = [approvals EXCEPT ![i].status = "failed",
                                    ![i].outcome = "failed",
                                    ![i].settled = clock]
  /\ sessions' = [sessions EXCEPT ![s] = Closing({<<i, "approval_marked_failed">>})]
  /\ UNCHANGED <<clock, executions, needsReply, audit, proposer>>
-----------------------------------------------------------------------------
(***************************************************************************)
(* Lifecycle hygiene: archive, unarchive and the explicit clean-up, which  *)
(* reads its candidates over one connection and updates them over another. *)
(***************************************************************************)
Archivable(i) == IsTerminal(i) /\ approvals[i].outcome # "started"

Archive(s, i) ==
  /\ At(s, "idle")
  /\ Archivable(i)
  /\ approvals' = [approvals EXCEPT ![i].archived = TRUE]
  /\ sessions' = [sessions EXCEPT ![s] = Closing({<<i, "approval_archived">>})]
  /\ UNCHANGED <<clock, executions, needsReply, audit, proposer>>

Unarchive(s, i) ==
  /\ At(s, "idle")
  /\ approvals[i].archived
  /\ approvals' = [approvals EXCEPT ![i].archived = FALSE]
  /\ sessions' = [sessions EXCEPT ![s] = Closing({<<i, "approval_unarchived">>})]
  /\ UNCHANGED <<clock, executions, needsReply, audit, proposer>>

CleanupSelect(s) ==
  /\ At(s, "idle")
  /\ sessions' = [sessions EXCEPT ![s] =
       [Idle EXCEPT
          !.pc = "sweep",
          !.expire = {i \in PendingOlderThan(AutoExpireAfter) :
                        approvals[i].outcome = None},
          !.archive = {i \in Ids : /\ Archivable(i)
                                   /\ ~ approvals[i].archived
                                   /\ approvals[i].settled + ArchiveAfter < clock}]]
  /\ UNCHANGED <<clock, approvals, executions, needsReply, audit, proposer>>

CleanupApply(s) ==
  LET expire == sessions[s].expire
      archive == sessions[s].archive IN
  /\ At(s, "sweep")
  /\ approvals' = [i \in Ids |->
       IF i \in expire /\ approvals[i].status = "pending" /\ approvals[i].outcome = None
       THEN [approvals[i] EXCEPT !.status = "expired"]
       ELSE IF i \in archive /\ Archivable(i)
       THEN [approvals[i] EXCEPT !.archived = TRUE]
       ELSE approvals[i]]
  /\ sessions' = [sessions EXCEPT ![s] =
       Closing((expire \X {"approval_cleanup_expired"})
                 \cup (archive \X {"approval_cleanup_archived"}))]
  /\ UNCHANGED <<clock, executions, needsReply, audit, proposer>>

Tick == /\ clock < MaxTime
        /\ clock' = clock + 1
        /\ UNCHANGED <<approvals, executions, needsReply, audit, proposer, sessions>>
-----------------------------------------------------------------------------
Proposing == \/ \E i \in Ids, k \in Intents : Propose(i, k)
             \/ RecordProposal
             \/ ProposerCrash

Executing(s) == \/ UnsupportedAction(s) \/ AddToNeedsReply(s)
                \/ GateBlocks(s) \/ GatePasses(s)
                \/ VerificationBlocks(s) \/ VerificationPasses(s)
                \/ Attest(s) \/ ExecutionRaises(s) \/ FinishExecution(s)

Serving(s) == \/ List(s) \/ ApplyExpiry(s) \/ Decide(s)
              \/ CleanupSelect(s) \/ CleanupApply(s)
              \/ Executing(s) \/ WriteEvent(s)
              \/ \E i \in Ids : \/ Approve(s, i) \/ Reject(s, i) \/ Expire(s, i)
                                \/ StartExecution(s, i) \/ StartRaises(s, i)
                                \/ MarkFailed(s, i)
                                \/ Archive(s, i) \/ Unarchive(s, i)

Next == Proposing \/ Tick \/ \E s \in Servers : Serving(s) \/ Crash(s)

Spec == Init /\ [][Next]_vars
-----------------------------------------------------------------------------
TypeOK == /\ clock \in Time
          /\ approvals \in [Ids -> Row]
          /\ executions \subseteq Execution
          /\ needsReply \subseteq Ids
          /\ audit \in [Ids -> SUBSET Events]
          /\ proposer \in Ids \cup {None}
          /\ sessions \in [Servers -> Session]

Performed(i) ==
  \/ i \in needsReply
  \/ \E e \in executions : e.id = i /\ e.status = "mock_executed"

(***************************************************************************)
(* Nothing is executed, and no execution is recorded, for an approval that *)
(* the operator did not approve and that did not go through the execution  *)
(* start: rejected, expired and undecided approvals stay without effect.   *)
(***************************************************************************)
ExecutionIsAuthorised ==
  \A i \in Ids :
    Performed(i) \/ (\E e \in executions : e.id = i) =>
      /\ approvals[i].started # None
      /\ approvals[i].status \in {"approved", "executed", "blocked", "failed"}

(***************************************************************************)
(* A crash, a repeated click or an exception between start and finish does *)
(* not lead to a second execution record, even under another plan hash.    *)
(***************************************************************************)
OneExecutionPerApproval ==
  \A e, f \in executions : e.id = f.id => e = f

(***************************************************************************)
(* The closing status tells the truth: "executed" is only reached with the *)
(* action carried out, "blocked" only with nothing carried out.  ("failed" *)
(* promises neither: a crash may fall between the effect and the finish.)  *)
(***************************************************************************)
VerdictMatchesEffect ==
  \A i \in Ids : /\ approvals[i].status = "executed" => Performed(i)
                 /\ approvals[i].status = "blocked" => ~ Performed(i)

(***************************************************************************)
(* The archive only hides history: no approval an operator still has to    *)
(* decide, execute or review is hidden from the active view.               *)
(***************************************************************************)
ArchivedIsTerminal ==
  \A i \in Ids : approvals[i].archived => Archivable(i)

(***************************************************************************)
(* A closed approval keeps its status, whoever acts on it afterwards: the  *)
(* clean-up, a late finish, a second operator, the exception handler.      *)
(***************************************************************************)
ClosedIsFinal ==
  [][\A i \in Ids : IsTerminal(i) => approvals'[i].status = approvals[i].status]_vars

\* An approval is attempted once: no step starts it again.
AttemptedOnce ==
  [][\A i \in Ids : approvals[i].started # None
                      => approvals'[i].started = approvals[i].started]_vars

(***************************************************************************)
(* What the audit trail says happened did happen.  (One API process: with  *)
(* several, expire_pending_approvals and the clean-up write an event for   *)
(* every row they selected, also for those another process decided since.) *)
(***************************************************************************)
AuditIsSound ==
  \A i \in Ids :
    LET status == approvals[i].status IN
    /\ audit[i] \cap {"approval_expired", "approval_cleanup_expired"} # {}
         => status = "expired"
    /\ "approval_rejected" \in audit[i] => status = "rejected"
    /\ "approval_approved" \in audit[i]
         => status \in {"approved", "executed", "blocked", "failed"}
    /\ "approval_executed" \in audit[i] => status = "executed" /\ Performed(i)
    /\ "approval_blocked" \in audit[i] => status = "blocked" /\ ~ Performed(i)
    /\ "approval_cleanup_archived" \in audit[i] => IsTerminal(i)

(***************************************************************************)
(* The tables, driven by one API process, implement the abstract ledger:   *)
(* an approval that is approved and started is "running", and its effect   *)
(* is a needs-reply row or a mock execution record.  (With several         *)
(* processes the exception handler of one may close, as failed, the        *)
(* attempt another is still carrying out.)                                 *)
(***************************************************************************)
Phase(i) == IF InProgress(i) THEN "running" ELSE approvals[i].status

Ledger == INSTANCE ApprovalLedger WITH phase <- [i \in Ids |-> Phase(i)],
                                       effect <- [i \in Ids |-> Performed(i)]

ImplementsLedger == Ledger!Spec
-----------------------------------------------------------------------------
(***************************************************************************)
(* The strengthening that makes the safety properties inductive.  A server *)
(* owns the attempt on a row from its execution start to its finish.       *)
(***************************************************************************)
Attempting(q) == q.pc \in {"gate", "verify", "attest", "finish"}
Owns(s) == Attempting(sessions[s])

HasRecord(i) == \E e \in executions : e.id = i

RowsConsistent ==
  \A i \in Ids :
    LET row == approvals[i] IN
    /\ row.started = None <=> row.outcome = None
    /\ row.status \in {"absent", "pending", "rejected", "expired"}
         => row.outcome = None
    /\ row.status \in {"executed", "blocked", "failed"}
         => row.outcome \notin {None, "started"}
    /\ row.status = "approved" => row.outcome \in {None, "started"}
    /\ row.archived => row.status \in Terminal

\* What a request remembers suffices for the step it is at.
WellFormed(q) ==
  /\ Attempting(q) \/ q.pc = "fail" => q.id \in Ids
  /\ q.pc = "decide" \/ (q.pc = "expire" /\ q.verdict # None)
       => q.id \in Ids /\ q.verdict \in {"approved", "rejected"}
  /\ q.pc = "fail" => q.verdict = "failed" /\ q.outcome = "failed"
  /\ q.pc = "finish" => \/ /\ q.verdict = "executed"
                           /\ q.outcome \in {"completed", "mock_executed"}
                        \/ /\ q.verdict = "blocked"
                           /\ q.outcome \in {"unsupported", "blocked"}
  /\ q.pc = "verify" => q.plan \in Plans

SessionsWellFormed == \A s \in Servers : WellFormed(sessions[s])

(***************************************************************************)
(* The attempt is exclusive, its row is either in progress or was failed   *)
(* under it, and the effect it had so far is the one its step implies.     *)
(***************************************************************************)
AttemptsConsistent ==
  /\ \A s, t \in Servers :
       Owns(s) /\ Owns(t) /\ sessions[s].id = sessions[t].id => s = t
  /\ \A s \in Servers :
       LET q == sessions[s] IN
       /\ Owns(s) => /\ approvals[q.id].started # None
                     /\ approvals[q.id].status \in {"approved", "failed"}
       /\ q.pc \in {"gate", "verify"} => ~ Performed(q.id) /\ ~ HasRecord(q.id)
       /\ q.pc = "attest" => Performed(q.id)
       /\ q.pc = "finish" => (Performed(q.id) <=> q.verdict = "executed")

IInv == /\ TypeOK /\ SessionsWellFormed /\ RowsConsistent /\ AttemptsConsistent
        /\ ExecutionIsAuthorised /\ OneExecutionPerApproval /\ VerdictMatchesEffect
=============================================================================
