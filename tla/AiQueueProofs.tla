---------------------------- MODULE AiQueueProofs ----------------------------
(***************************************************************************)
(* Proofs about AiQueue, for any number of rows, messages and triggers and *)
(* for any limit of attempts, in faulty behaviours and in sound ones.      *)
(***************************************************************************)
EXTENDS AiQueue, TLAPS

USE RowsAssumption, AttemptsAssumption, RegimesAssumption, NoRowAssumption

(***************************************************************************)
(* The worker's row has an attempt left: Claim looked at its attempts, and *)
(* nothing but the worker itself counts them.                              *)
(***************************************************************************)
AttemptIsLeft ==
  worker.pc # "idle" => queue[worker.row].attempts < MaxAttempts

\* What the status of a row says of the rest of it, and of its classifications.
RowsConsistent ==
  \A i \in Rows :
    /\ queue[i].status # "absent" => queue[i].message \in Messages
    /\ queue[i].status = "absent" => queue[i].attempts = 0
    /\ queue[i].status = "completed" => classifications[i] > 0

IInv == QueueIsSound /\ AttemptIsLeft /\ RowsConsistent

USE DEF Statuses, Idle

LEMMA InitInductive == Init => IInv
  BY DEF Init, IInv, QueueIsSound, TypeOK, Row, Worker, PendingIsClaimable,
         WorkerHoldsRow, ClassificationsArePaid, SuggestionsAreGrounded,
         AttemptIsLeft, RowsConsistent

-----------------------------------------------------------------------------
(***************************************************************************)
(* The steps of everyone but the worker. None touches the worker's row.    *)
(***************************************************************************)
LEMMA WorkerRow ==
  ASSUME IInv, worker.pc # "idle"
  PROVE  /\ worker.row \in Rows /\ worker \in Worker
         /\ queue[worker.row] \in Row
         /\ queue[worker.row].status \in {"running", "completed"}
         /\ queue[worker.row].attempts < MaxAttempts
         /\ queue[worker.row].message \in Messages
  BY DEF IInv, QueueIsSound, TypeOK, Worker, WorkerHoldsRow, AttemptIsLeft,
         RowsConsistent

LEMMA InsertInductive ==
  ASSUME IInv, NEW i \in Rows, NEW m \in Messages, NEW manual \in BOOLEAN,
         Insert(i, m, manual)
  PROVE  IInv'
  <1> DEFINE row == [status |-> "pending", message |-> m, manual |-> manual,
                     attempts |-> 0, due |-> TRUE]
  <1>1. /\ queue' = [queue EXCEPT ![i] = row] /\ queue[i].status = "absent"
        /\ UNCHANGED <<results, worker, enabled, faulty>>
    BY DEF Insert, Fresh
  <1>2. queue \in [Rows -> Row] /\ row \in Row
    BY DEF IInv, QueueIsSound, TypeOK, Row
  <1>3. \A j \in Rows : queue'[j] = IF j = i THEN row ELSE queue[j]
    BY <1>1, <1>2
  <1>4. /\ row.status = "pending" /\ row.message = m /\ row.attempts = 0
    OBVIOUS
  <1>5. queue[i].attempts = 0 /\ classifications[i] = 0
    <2>1. queue[i].attempts = 0
      BY <1>1 DEF IInv, RowsConsistent
    <2>2. classifications[i] <= queue[i].attempts /\ classifications[i] \in Nat
      BY <1>1, <2>1 DEF IInv, QueueIsSound, TypeOK, ClassificationsArePaid
    <2> QED
      BY <2>1, <2>2
  <1>6. worker.pc # "idle" => worker.row \in Rows /\ worker.row # i
    BY <1>1, WorkerRow
  <1> HIDE DEF row
  <1>7. TypeOK'
    BY <1>1, <1>2 DEF IInv, QueueIsSound, TypeOK, results
  <1>8. PendingIsClaimable'
    BY <1>3, <1>4 DEF IInv, QueueIsSound, PendingIsClaimable
  <1>9. WorkerHoldsRow'
    BY <1>1, <1>3, <1>6 DEF IInv, QueueIsSound, WorkerHoldsRow, results
  <1>10. ClassificationsArePaid'
    BY <1>1, <1>3, <1>4, <1>5 DEF IInv, QueueIsSound, ClassificationsArePaid, results
  <1>11. SuggestionsAreGrounded'
    <2>1. \A t \in Triggers : <<i, t>> \notin matches
      BY <1>5 DEF IInv, QueueIsSound, SuggestionsAreGrounded
    <2> QED
      BY <1>1, <1>3, <2>1 DEF IInv, QueueIsSound, SuggestionsAreGrounded, results
  <1>12. AttemptIsLeft' /\ RowsConsistent'
    BY <1>1, <1>3, <1>4, <1>6 DEF IInv, AttemptIsLeft, RowsConsistent, results
  <1> QED
    BY <1>7, <1>8, <1>9, <1>10, <1>11, <1>12 DEF IInv, QueueIsSound

LEMMA BecomeDueInductive ==
  ASSUME IInv, NEW i \in Rows, BecomeDue(i)
  PROVE  IInv'
  <1> DEFINE row == [queue[i] EXCEPT !.due = TRUE]
  <1>1. /\ queue \in [Rows -> Row] /\ queue' = [queue EXCEPT ![i] = row]
        /\ UNCHANGED <<results, worker, enabled, faulty>>
    BY DEF IInv, QueueIsSound, TypeOK, BecomeDue
  <1>2. /\ row \in Row /\ row.status = queue[i].status
        /\ row.message = queue[i].message /\ row.attempts = queue[i].attempts
    BY <1>1 DEF Row
  <1> HIDE DEF row
  <1>3. /\ queue' \in [Rows -> Row]
        /\ \A j \in Rows : /\ queue'[j].status = queue[j].status
                           /\ queue'[j].message = queue[j].message
                           /\ queue'[j].attempts = queue[j].attempts
    BY <1>1, <1>2
  <1>4. worker.pc # "idle" => worker.row \in Rows
    BY WorkerRow
  <1> QED
    BY <1>1, <1>3, <1>4 DEF IInv, QueueIsSound, TypeOK, PendingIsClaimable, WorkerHoldsRow,
         ClassificationsArePaid, SuggestionsAreGrounded, AttemptIsLeft, RowsConsistent, results

LEMMA OutsideInductive ==
  ASSUME IInv, SetEnabled \/ \E k \in pending : CloseSuggestion(k)
  PROVE  IInv'
  BY DEF IInv, QueueIsSound, TypeOK, PendingIsClaimable, WorkerHoldsRow,
         ClassificationsArePaid, SuggestionsAreGrounded, AttemptIsLeft, RowsConsistent,
         SetEnabled, CloseSuggestion, results
-----------------------------------------------------------------------------
(***************************************************************************)
(* The worker. Its steps that leave the queue alone lead to a state of the *)
(* worker that the status of its row allows.                               *)
(***************************************************************************)
LEMMA QuietStep ==
  ASSUME IInv, UNCHANGED <<queue, classifications, enabled, faulty>>,
         worker' \in Worker,
         worker'.pc # "idle" => worker.pc # "idle" /\ worker'.row = worker.row,
         worker'.pc \in {"classify", "save"} => queue[worker.row].status = "running",
         worker'.pc \in {"evaluate", "suggest", "audit"}
           => queue[worker.row].status = "completed",
         worker'.pc = "suggest" => {worker.row} \X worker'.todo \subseteq matches',
         matches' \subseteq Rows \X Triggers, unevaluated' \subseteq Rows,
         pending' \subseteq Messages \X Triggers,
         suggested' \subseteq Messages \X Triggers,
         SuggestionsAreGrounded'
  PROVE  IInv'
  <1>1. worker'.pc # "idle" => /\ worker.row \in Rows
                              /\ queue[worker.row].status \in {"running", "completed"}
                              /\ queue[worker.row].attempts < MaxAttempts
    BY WorkerRow
  <1>2. TypeOK'
    BY DEF IInv, QueueIsSound, TypeOK
  <1>3. WorkerHoldsRow' /\ AttemptIsLeft'
    BY <1>1 DEF Worker, WorkerHoldsRow, AttemptIsLeft
  <1>4. PendingIsClaimable' /\ ClassificationsArePaid' /\ RowsConsistent'
    BY DEF IInv, QueueIsSound, PendingIsClaimable, ClassificationsArePaid, RowsConsistent
  <1> QED
    BY <1>2, <1>3, <1>4 DEF IInv, QueueIsSound

LEMMA IdleWorker == Idle \in Worker /\ Idle.pc = "idle"
  BY DEF Worker

\* An exception is a step to "fail" that writes nothing.
LEMMA RaiseInductive ==
  ASSUME IInv, NEW retryable \in BOOLEAN, worker.pc # "idle", Raise(retryable),
         UNCHANGED <<queue, results, enabled, faulty>>
  PROVE  IInv'
  <1> DEFINE q == [worker EXCEPT !.pc = "fail", !.retryable = retryable, !.todo = {}]
  <1>1. worker' = q
    BY DEF Raise
  <1>2. q \in Worker /\ q.pc = "fail" /\ q.row = worker.row
    BY DEF IInv, QueueIsSound, TypeOK, Worker
  <1> HIDE DEF q
  <1>3. SuggestionsAreGrounded'
    BY DEF IInv, QueueIsSound, SuggestionsAreGrounded, results
  <1> QED
    BY <1>1, <1>2, <1>3, QuietStep DEF IInv, QueueIsSound, TypeOK, results

LEMMA RestInductive ==
  ASSUME IInv, worker' = Idle, UNCHANGED <<queue, results, enabled, faulty>>
  PROVE  IInv'
  <1>1. SuggestionsAreGrounded'
    BY DEF IInv, QueueIsSound, SuggestionsAreGrounded, results
  <1> QED
    BY <1>1, IdleWorker, QuietStep DEF IInv, QueueIsSound, TypeOK, results

LEMMA ClaimInductive ==
  ASSUME IInv, NEW i \in Rows, Claim(i)
  PROVE  IInv'
  <1> DEFINE row == [queue[i] EXCEPT !.status = "running"]
             q == [Idle EXCEPT !.pc = "classify", !.row = i]
  <1>1. /\ queue \in [Rows -> Row] /\ queue' = [queue EXCEPT ![i] = row] /\ worker' = q
        /\ queue[i].status = "pending" /\ queue[i].attempts < MaxAttempts
        /\ UNCHANGED <<results, enabled, faulty>>
    BY DEF IInv, QueueIsSound, TypeOK, Claim, Claimable
  <1>2. /\ row \in Row /\ row.status = "running"
        /\ row.message = queue[i].message /\ row.attempts = queue[i].attempts
    BY <1>1 DEF Row
  <1>3. q \in Worker /\ q.pc = "classify" /\ q.row = i
    BY DEF Worker
  <1> HIDE DEF row, q
  <1>4. \A j \in Rows : queue'[j] = IF j = i THEN row ELSE queue[j]
    BY <1>1
  <1>5. TypeOK'
    BY <1>1, <1>2, <1>3 DEF IInv, QueueIsSound, TypeOK, results
  <1>6. WorkerHoldsRow' /\ AttemptIsLeft'
    BY <1>1, <1>2, <1>3, <1>4 DEF WorkerHoldsRow, AttemptIsLeft
  <1>7. PendingIsClaimable' /\ ClassificationsArePaid' /\ RowsConsistent' /\ SuggestionsAreGrounded'
    BY <1>1, <1>2, <1>4 DEF IInv, QueueIsSound, PendingIsClaimable, ClassificationsArePaid,
         SuggestionsAreGrounded, RowsConsistent, results
  <1> QED
    BY <1>5, <1>6, <1>7 DEF IInv, QueueIsSound

LEMMA ClassifyInductive == IInv /\ Classify => IInv'
  <1> SUFFICES ASSUME IInv, Classify PROVE IInv'
    OBVIOUS
  <1>1. CASE \E retryable \in BOOLEAN : Raise(retryable)
    BY <1>1, RaiseInductive DEF Classify
  <1>2. CASE worker' = [worker EXCEPT !.pc = "save"]
    <2> DEFINE q == [worker EXCEPT !.pc = "save"]
    <2>1. q \in Worker /\ q.pc = "save" /\ q.row = worker.row
      BY DEF IInv, QueueIsSound, TypeOK, Worker
    <2> HIDE DEF q
    <2>2. SuggestionsAreGrounded' /\ queue[worker.row].status = "running" /\ worker' = q
      BY <1>2 DEF IInv, QueueIsSound, SuggestionsAreGrounded, WorkerHoldsRow, Classify, results, q
    <2> QED
      BY <2>1, <2>2, QuietStep DEF IInv, QueueIsSound, TypeOK, Classify, results
  <1> QED
    BY <1>1, <1>2 DEF Classify

LEMMA SaveInductive == IInv /\ Save => IInv'
  <1> SUFFICES ASSUME IInv, Save PROVE IInv'
    OBVIOUS
  <1> DEFINE i == worker.row
             row == [queue[i] EXCEPT !.status = "completed"]
             q == [worker EXCEPT !.pc = "evaluate"]
  <1>0. /\ i \in Rows /\ queue[i] \in Row /\ queue[i].status = "running"
        /\ queue[i].attempts < MaxAttempts
    BY WorkerRow DEF Save, IInv, QueueIsSound, WorkerHoldsRow
  <1>1. /\ queue \in [Rows -> Row] /\ queue' = [queue EXCEPT ![i] = row] /\ worker' = q
        /\ classifications \in [Rows -> Nat]
        /\ classifications' = [classifications EXCEPT ![i] = @ + 1]
        /\ UNCHANGED <<matches, unevaluated, pending, suggested, enabled, faulty>>
    BY DEF IInv, QueueIsSound, TypeOK, Save
  <1>2. /\ row \in Row /\ row.status = "completed"
        /\ row.message = queue[i].message /\ row.attempts = queue[i].attempts
    BY <1>0 DEF Row
  <1>3. q \in Worker /\ q.pc = "evaluate" /\ q.row = i
    BY DEF Worker, IInv, QueueIsSound, TypeOK
  <1> HIDE DEF row, q, i
  <1>4. \A j \in Rows : queue'[j] = IF j = i THEN row ELSE queue[j]
    BY <1>0, <1>1
  <1>5. \A j \in Rows : classifications'[j] = IF j = i THEN classifications[i] + 1 ELSE classifications[j]
    BY <1>0, <1>1
  <1>6. TypeOK'
    BY <1>0, <1>1, <1>2, <1>3, <1>5 DEF IInv, QueueIsSound, TypeOK
  <1>7. WorkerHoldsRow' /\ AttemptIsLeft'
    BY <1>0, <1>1, <1>2, <1>3, <1>4 DEF WorkerHoldsRow, AttemptIsLeft
  <1>8. ClassificationsArePaid'
    BY <1>0, <1>1, <1>2, <1>4, <1>5 DEF IInv, QueueIsSound, TypeOK, ClassificationsArePaid, Row
  <1>9. SuggestionsAreGrounded'
    BY <1>0, <1>1, <1>2, <1>4, <1>5 DEF IInv, QueueIsSound, SuggestionsAreGrounded
  <1>10. PendingIsClaimable' /\ RowsConsistent'
    BY <1>0, <1>1, <1>2, <1>4 DEF IInv, QueueIsSound, PendingIsClaimable, RowsConsistent
  <1> QED
    BY <1>6, <1>7, <1>8, <1>9, <1>10 DEF IInv, QueueIsSound

LEMMA EvaluateInductive == IInv /\ Evaluate => IInv'
  <1> SUFFICES ASSUME IInv, Evaluate PROVE IInv'
    OBVIOUS
  <1>1. PICK matched \in SUBSET Triggers :
          /\ matches' = matches \cup ({worker.row} \X matched)
          /\ worker' = IF matched = {} THEN Idle
                       ELSE [worker EXCEPT !.pc = "suggest", !.todo = matched]
    BY DEF Evaluate
  <1> DEFINE q == [worker EXCEPT !.pc = "suggest", !.todo = matched]
  <1>2. q \in Worker /\ q.pc = "suggest" /\ q.row = worker.row /\ q.todo = matched
    BY DEF IInv, QueueIsSound, TypeOK, Worker
  <1>3. worker' = Idle \/ worker' = q
    BY <1>1
  <1> HIDE DEF q
  <1>4. /\ worker.pc = "evaluate" /\ worker.row \in Rows /\ queue[worker.row].status = "completed"
        /\ UNCHANGED <<queue, classifications, unevaluated, pending, suggested, enabled, faulty>>
    BY WorkerRow DEF Evaluate, IInv, QueueIsSound, WorkerHoldsRow
  \* A completed row is a classified one: the last match of a row comes from it.
  <1>5. classifications[worker.row] > 0
    BY <1>4 DEF IInv, RowsConsistent
  <1>6. SuggestionsAreGrounded'
    BY <1>1, <1>4, <1>5 DEF IInv, QueueIsSound, SuggestionsAreGrounded
  <1>7. matches' \subseteq Rows \X Triggers
    BY <1>1, <1>4 DEF IInv, QueueIsSound, TypeOK
  <1> QED
    BY <1>1, <1>2, <1>3, <1>4, <1>6, <1>7, IdleWorker, QuietStep DEF IInv, QueueIsSound, TypeOK

LEMMA SuggestInductive ==
  ASSUME IInv, NEW t \in Triggers, Suggest(t)
  PROVE  IInv'
  <1> DEFINE k == <<queue[worker.row].message, t>>
             rest == worker.todo \ {t}
             q == [worker EXCEPT !.todo = rest]
  <1>1. /\ worker.pc = "suggest" /\ t \in worker.todo
        /\ pending' = pending \cup {k} /\ suggested' = suggested \cup {k}
        /\ worker' = Idle \/ worker' = q
        /\ UNCHANGED <<queue, classifications, matches, unevaluated, enabled, faulty>>
    BY DEF Suggest
  <1>2. q \in Worker /\ q.pc = "suggest" /\ q.row = worker.row /\ q.todo = rest
    BY <1>1 DEF IInv, QueueIsSound, TypeOK, Worker
  <1>3. /\ worker.row \in Rows /\ queue[worker.row].message \in Messages
        /\ queue[worker.row].status = "completed"
        /\ {worker.row} \X worker.todo \subseteq matches
    BY <1>1, WorkerRow DEF IInv, QueueIsSound, WorkerHoldsRow
  <1> HIDE DEF q
  <1>4. SuggestionsAreGrounded'
    <2>1. <<worker.row, t>> \in matches
      BY <1>1, <1>3
    <2> QED
      BY <1>1, <1>3, <2>1 DEF IInv, QueueIsSound, SuggestionsAreGrounded
  <1>5. pending' \subseteq Messages \X Triggers /\ suggested' \subseteq Messages \X Triggers
    BY <1>1, <1>3 DEF IInv, QueueIsSound, TypeOK
  <1>6. {worker.row} \X rest \subseteq matches /\ matches \subseteq Rows \X Triggers /\ unevaluated \subseteq Rows
    BY <1>3 DEF IInv, QueueIsSound, TypeOK
  <1> HIDE DEF k, rest
  <1> QED
    BY <1>1, <1>2, <1>3, <1>4, <1>5, <1>6, IdleWorker, QuietStep

LEMMA EvaluationRaisesInductive == IInv /\ EvaluationRaises => IInv'
  <1> SUFFICES ASSUME IInv, EvaluationRaises PROVE IInv'
    OBVIOUS
  <1> DEFINE q == [worker EXCEPT !.pc = "audit", !.todo = {}]
  <1>1. q \in Worker /\ q.pc = "audit" /\ q.row = worker.row
    BY DEF IInv, QueueIsSound, TypeOK, Worker
  <1>2. /\ worker.pc \in {"evaluate", "suggest"} /\ worker' = q
        /\ queue[worker.row].status = "completed"
        /\ UNCHANGED <<queue, results, enabled, faulty>>
    BY DEF EvaluationRaises, IInv, QueueIsSound, WorkerHoldsRow
  <1> HIDE DEF q
  <1>3. SuggestionsAreGrounded'
    BY <1>2 DEF IInv, QueueIsSound, SuggestionsAreGrounded, results
  <1> QED
    BY <1>1, <1>2, <1>3, QuietStep DEF IInv, QueueIsSound, TypeOK, results

LEMMA AuditInductive == IInv /\ Audit => IInv'
  <1> SUFFICES ASSUME IInv, Audit PROVE IInv'
    OBVIOUS
  <1>1. /\ worker.row \in Rows /\ worker' = Idle /\ unevaluated' = unevaluated \cup {worker.row}
        /\ UNCHANGED <<queue, classifications, matches, pending, suggested, enabled, faulty>>
    BY WorkerRow DEF Audit
  <1>2. SuggestionsAreGrounded'
    BY <1>1 DEF IInv, QueueIsSound, SuggestionsAreGrounded
  <1> QED
    BY <1>1, <1>2, IdleWorker, QuietStep DEF IInv, QueueIsSound, TypeOK

LEMMA FailInductive == IInv /\ Fail => IInv'
  <1> SUFFICES ASSUME IInv, Fail PROVE IInv'
    OBVIOUS
  <1> DEFINE i == worker.row
             attempts == queue[i].attempts + 1
             row == [queue[i] EXCEPT !.status = IF Retried(attempts) THEN "pending" ELSE "failed",
                                     !.attempts = attempts, !.due = ~ Retried(attempts)]
  <1>0. /\ i \in Rows /\ queue[i] \in Row /\ queue[i].status \in {"running", "completed"}
        /\ queue[i].attempts < MaxAttempts /\ queue[i].message \in Messages
    BY WorkerRow DEF Fail
  <1>1. /\ queue \in [Rows -> Row] /\ queue' = [queue EXCEPT ![i] = row] /\ worker' = Idle
        /\ UNCHANGED <<results, enabled, faulty>>
    BY DEF IInv, QueueIsSound, TypeOK, Fail
  <1>2. attempts \in 0 .. MaxAttempts
    BY <1>0 DEF Row
  <1>3. Retried(attempts) \in BOOLEAN
    BY DEF Retried, IInv, QueueIsSound, TypeOK, Worker
  <1>4. /\ row \in Row /\ row.message = queue[i].message /\ row.attempts = attempts
        /\ row.status \in {"pending", "failed"}
    <2> HIDE DEF attempts
    <2> QED
      BY <1>0, <1>2, <1>3 DEF Row
  <1>5. row.status = "pending" => attempts < MaxAttempts
    <2>1. row.status = IF Retried(attempts) THEN "pending" ELSE "failed"
      <3> HIDE DEF attempts
      <3> QED
        BY <1>0 DEF Row
    <2> QED
      BY <2>1 DEF Retried
  <1> HIDE DEF row, i
  <1>6. \A j \in Rows : queue'[j] = IF j = i THEN row ELSE queue[j]
    BY <1>0, <1>1
  <1>7. TypeOK'
    BY <1>0, <1>1, <1>4, IdleWorker DEF IInv, QueueIsSound, TypeOK, results
  <1>8. PendingIsClaimable' /\ RowsConsistent'
    <2> HIDE DEF attempts
    <2>1. PendingIsClaimable'
      BY <1>4, <1>5, <1>6 DEF IInv, QueueIsSound, PendingIsClaimable
    <2>2. RowsConsistent'
      BY <1>0, <1>1, <1>4, <1>6 DEF IInv, RowsConsistent, results
    <2> QED
      BY <2>1, <2>2
  <1>9. ClassificationsArePaid'
    BY <1>0, <1>1, <1>2, <1>4, <1>6 DEF IInv, QueueIsSound, TypeOK, ClassificationsArePaid, Row, results
  <1>10. SuggestionsAreGrounded'
    BY <1>0, <1>1, <1>4, <1>6 DEF IInv, QueueIsSound, SuggestionsAreGrounded, results
  <1>11. WorkerHoldsRow' /\ AttemptIsLeft'
    BY <1>1 DEF WorkerHoldsRow, AttemptIsLeft
  <1> QED
    BY <1>7, <1>8, <1>9, <1>10, <1>11 DEF IInv, QueueIsSound
-----------------------------------------------------------------------------
LEMMA NextInductive == IInv /\ [Next]_vars => IInv'
  <1> SUFFICES ASSUME IInv, [Next]_vars PROVE IInv'
    OBVIOUS
  <1>1. CASE UNCHANGED vars
    BY <1>1 DEF vars, results, IInv, QueueIsSound, TypeOK, PendingIsClaimable, WorkerHoldsRow,
         ClassificationsArePaid, SuggestionsAreGrounded, AttemptIsLeft, RowsConsistent
  <1>2. ASSUME NEW i \in Rows, NEW m \in Messages, Enqueue(i, m) \/ Reprocess(i, m)
        PROVE IInv'
    BY <1>2, InsertInductive DEF Enqueue, Reprocess
  <1>3. ASSUME NEW i \in Rows, BecomeDue(i) PROVE IInv'
    BY <1>3, BecomeDueInductive
  <1>4. CASE SetEnabled \/ \E k \in pending : CloseSuggestion(k)
    BY <1>4, OutsideInductive
  <1>5. ASSUME NEW i \in Rows, Claim(i) PROVE IInv'
    BY <1>5, ClaimInductive
  <1>6. ASSUME NEW t \in Triggers, Suggest(t) PROVE IInv'
    BY <1>6, SuggestInductive
  <1>7. CASE SaveRaises \/ AuditRaises
    BY <1>7, RaiseInductive DEF SaveRaises, AuditRaises
  <1>8. CASE FailRaises \/ Crash
    BY <1>8, RestInductive DEF FailRaises, Crash
  <1> QED
    BY <1>1, <1>2, <1>3, <1>4, <1>5, <1>6, <1>7, <1>8, ClassifyInductive, SaveInductive,
       EvaluateInductive, EvaluationRaisesInductive, AuditInductive, FailInductive
       DEF Next, Working

(***************************************************************************)
(* Whatever Ollama, SQLite and the operator do, and wherever the process   *)
(* stops: rows are claimed, retried and counted as claim_next_ai_item and  *)
(* fail_ai_item should, a message costs at most MaxAttempts calls of the   *)
(* model, and a suggestion stands on a classification that matched.        *)
(***************************************************************************)
THEOREM QueueSound == Spec => []QueueIsSound
  <1>1. IInv => QueueIsSound
    BY DEF IInv
  <1> QED
    BY <1>1, InitInductive, NextInductive, PTL DEF Spec
=============================================================================
