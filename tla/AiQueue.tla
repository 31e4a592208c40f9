------------------------------ MODULE AiQueue ------------------------------
(***************************************************************************)
(* AI enrichment in the mail agent: the mail_ai_queue, filled by the mail  *)
(* scan (enqueue_ai_work) and by the operator (manual reprocess), and the  *)
(* single AiQueueWorker thread that claims a row, asks Ollama outside any  *)
(* transaction, saves the classification, evaluates the trigger rules and  *)
(* suggests the planned actions to the operator.                           *)
(*                                                                         *)
(* Each step below is one committed transaction of AgentState, or a call   *)
(* that ends in an exception.  Trigger evaluation and Ollama may always    *)
(* fail; in a faulty behaviour SQLite may fail too, and the process stop.  *)
(***************************************************************************)
EXTENDS Integers

CONSTANTS Rows,         \* ids of mail_ai_queue rows, in insertion order
          Messages,     \* (account, folder, uidvalidity, uid, body) keys
          Triggers,     \* planned actions of the enabled trigger rules
          MaxAttempts,  \* max_attempts of claim_next_ai_item and fail_ai_item
          None,
          Regimes       \* faulty behaviours, sound ones, or both

ASSUME RowsAssumption == Rows \subseteq Nat
ASSUME AttemptsAssumption == MaxAttempts \in Nat \ {0}
ASSUME RegimesAssumption == Regimes \subseteq BOOLEAN
ASSUME NoRowAssumption == None \notin Rows \cup Messages

VARIABLES queue,            \* mail_ai_queue
          classifications,  \* number of mail_ai_classifications rows per row
          matches,          \* ai_trigger_matched events, as (row, trigger)
          unevaluated,      \* rows with an ai_trigger_evaluation_failed event
          pending,          \* pending suggestions, as (message, trigger)
          suggested,        \* every suggestion made so far
          worker,           \* where run_forever stands
          enabled,          \* [mail.ai].enabled in orch.settings
          faulty            \* the regime of this behaviour, fixed

vars == <<queue, classifications, matches, unevaluated, pending, suggested,
          worker, enabled, faulty>>
results == <<classifications, matches, unevaluated, pending, suggested>>
-----------------------------------------------------------------------------
Statuses == {"absent", "pending", "running", "completed", "failed"}

Row == [status : Statuses, message : Messages \cup {None},
        manual : BOOLEAN,               \* manual_nonce is set
        attempts : 0 .. MaxAttempts,
        due : BOOLEAN]                  \* next_attempt_at is NULL or past

Worker == [pc : {"idle", "classify", "save", "evaluate", "suggest", "audit", "fail"},
           row : Rows \cup {None}, retryable : BOOLEAN, todo : SUBSET Triggers]

Idle == [pc |-> "idle", row |-> None, retryable |-> TRUE, todo |-> {}]

Init == /\ queue = [i \in Rows |-> [status |-> "absent", message |-> None,
                                    manual |-> FALSE, attempts |-> 0, due |-> TRUE]]
        /\ classifications = [i \in Rows |-> 0]
        /\ matches = {} /\ unevaluated = {} /\ pending = {} /\ suggested = {}
        /\ worker = Idle
        /\ enabled = TRUE
        /\ faulty \in Regimes
-----------------------------------------------------------------------------
\* AUTOINCREMENT: the next id.
Fresh(i) == /\ queue[i].status = "absent"
            /\ \A j \in Rows : j < i => queue[j].status # "absent"

Insert(i, m, manual) ==
  /\ Fresh(i)
  /\ queue' = [queue EXCEPT ![i] = [status |-> "pending", message |-> m,
                                    manual |-> manual, attempts |-> 0, due |-> TRUE]]
  /\ UNCHANGED <<results, worker, enabled, faulty>>

\* The mail scan; INSERT OR IGNORE on the unique message key.
Enqueue(i, m) ==
  /\ enabled
  /\ ~ \E j \in Rows : queue[j].message = m /\ ~ queue[j].manual
  /\ Insert(i, m, FALSE)

\* POST /messages/{id}/reprocess: a nonce of its own, whatever is queued.
Reprocess(i, m) == Insert(i, m, TRUE)

\* reload_config replaces orch.settings, which scan and worker both read.
SetEnabled == /\ enabled' = ~ enabled
              /\ UNCHANGED <<queue, results, worker, faulty>>

\* Sixty seconds after a failed attempt.
BecomeDue(i) == /\ queue[i].status = "pending" /\ ~ queue[i].due
                /\ queue' = [queue EXCEPT ![i].due = TRUE]
                /\ UNCHANGED <<results, worker, enabled, faulty>>

\* The operator decides a suggestion, or it expires.
CloseSuggestion(k) == /\ k \in pending
                      /\ pending' = pending \ {k}
                      /\ UNCHANGED <<queue, classifications, matches, unevaluated,
                                     suggested, worker, enabled, faulty>>
-----------------------------------------------------------------------------
(***************************************************************************)
(* The worker.  i is the row it has claimed.                               *)
(***************************************************************************)
ClaimableOnceLess(i) ==  \* a mutation: the last attempt is never made
  queue[i].status = "pending" /\ queue[i].attempts + 1 < MaxAttempts /\ queue[i].due

Claimable(i) == /\ queue[i].status = "pending"
                /\ queue[i].attempts < MaxAttempts
                /\ queue[i].due

Claim(i) ==
  /\ worker.pc = "idle" /\ enabled
  /\ Claimable(i)
  /\ \A j \in Rows : Claimable(j) => i <= j
  /\ queue' = [queue EXCEPT ![i].status = "running"]
  /\ worker' = [Idle EXCEPT !.pc = "classify", !.row = i]
  /\ UNCHANGED <<results, enabled, faulty>>

\* An exception reaches run_forever: schema violations are not retried.
Raise(retryable) ==
  worker' = [worker EXCEPT !.pc = "fail", !.retryable = retryable, !.todo = {}]

\* Ollama answers, answers nonsense, or does not answer.
Classify == /\ worker.pc = "classify"
            /\ \/ worker' = [worker EXCEPT !.pc = "save"]
               \/ \E retryable \in BOOLEAN : Raise(retryable)
            /\ UNCHANGED <<queue, results, enabled, faulty>>

\* complete_ai_item, its transaction: the row is not looked at.
Save ==
  /\ worker.pc = "save"
  /\ classifications' = [classifications EXCEPT ![worker.row] = @ + 1]
  /\ queue' = [queue EXCEPT ![worker.row].status = "completed"]
  /\ worker' = [worker EXCEPT !.pc = "evaluate"]
  /\ UNCHANGED <<matches, unevaluated, pending, suggested, enabled, faulty>>

SaveRaises == /\ faulty /\ worker.pc = "save"
              /\ Raise(TRUE)
              /\ UNCHANGED <<queue, results, enabled, faulty>>

\* evaluate_ai_triggers_for_queue: the matched events, then the suggestions.
Evaluate ==
  /\ worker.pc = "evaluate"
  /\ \E matched \in SUBSET Triggers :
       /\ matches' = matches \cup ({worker.row} \X matched)
       /\ worker' = IF matched = {} THEN Idle
                    ELSE [worker EXCEPT !.pc = "suggest", !.todo = matched]
  /\ UNCHANGED <<queue, classifications, unevaluated, pending, suggested, enabled, faulty>>

\* create_action_approval ignores what is pending already.
Suggest(t) ==
  LET k == <<queue[worker.row].message, t>>
      rest == worker.todo \ {t} IN
  /\ worker.pc = "suggest" /\ t \in worker.todo
  /\ pending' = pending \cup {k}
  /\ suggested' = suggested \cup {k}
  /\ worker' = IF rest = {} THEN Idle ELSE [worker EXCEPT !.todo = rest]
  /\ UNCHANGED <<queue, classifications, matches, unevaluated, enabled, faulty>>

\* A trigger rule that does not validate, or SQLite: complete_ai_item catches it ...
EvaluationRaises ==
  /\ worker.pc \in {"evaluate", "suggest"}
  /\ worker' = [worker EXCEPT !.pc = "audit", !.todo = {}]
  /\ UNCHANGED <<queue, results, enabled, faulty>>

\* ... and writes an event ...
AuditUnwritten ==  \* a mutation: the exception is swallowed
  /\ worker.pc = "audit"
  /\ worker' = Idle
  /\ UNCHANGED <<queue, results, enabled, faulty>>

Audit ==
  /\ worker.pc = "audit"
  /\ unevaluated' = unevaluated \cup {worker.row}
  /\ worker' = Idle
  /\ UNCHANGED <<queue, classifications, matches, pending, suggested, enabled, faulty>>

\* ... which may raise in turn, out of complete_ai_item.
AuditRaises == /\ faulty /\ worker.pc = "audit"
               /\ Raise(TRUE)
               /\ UNCHANGED <<queue, results, enabled, faulty>>

\* fail_ai_item, whatever status the row has by now.
Retried(attempts) == worker.retryable /\ attempts < MaxAttempts

FailUncounted ==  \* a mutation: the attempt is not counted
  /\ worker.pc = "fail"
  /\ queue' = [queue EXCEPT
                 ![worker.row].status = IF worker.retryable THEN "pending" ELSE "failed",
                 ![worker.row].due = ~ worker.retryable]
  /\ worker' = Idle
  /\ UNCHANGED <<results, enabled, faulty>>

Fail ==
  LET i == worker.row
      attempts == queue[i].attempts + 1 IN
  /\ worker.pc = "fail"
  /\ queue' = [queue EXCEPT
                 ![i].status = IF Retried(attempts) THEN "pending" ELSE "failed",
                 ![i].attempts = attempts,
                 ![i].due = ~ Retried(attempts)]
  /\ worker' = Idle
  /\ UNCHANGED <<results, enabled, faulty>>

\* The outer handler logs the exception and goes on.
FailRaises == /\ faulty /\ worker.pc = "fail"
              /\ worker' = Idle
              /\ UNCHANGED <<queue, results, enabled, faulty>>

\* The agent container stops; nothing looks at the claimed row on restart.
Crash == /\ faulty /\ worker.pc # "idle"
         /\ worker' = Idle
         /\ UNCHANGED <<queue, results, enabled, faulty>>
-----------------------------------------------------------------------------
Working == \/ \E i \in Rows : Claim(i)
           \/ Classify \/ Save \/ Evaluate \/ EvaluationRaises \/ Audit \/ Fail
           \/ \E t \in Triggers : Suggest(t)

Next == \/ \E i \in Rows, m \in Messages : Enqueue(i, m) \/ Reprocess(i, m)
        \/ \E i \in Rows : BecomeDue(i)
        \/ SetEnabled
        \/ \E k \in pending : CloseSuggestion(k)
        \/ Working
        \/ SaveRaises \/ AuditRaises \/ FailRaises \/ Crash

Spec == Init /\ [][Next]_vars

\* The worker thread is scheduled (its waits end) and time passes.
Fairness == WF_vars(Working) /\ \A i \in Rows : WF_vars(BecomeDue(i))

FairSpec == Spec /\ Fairness
-----------------------------------------------------------------------------
TypeOK == /\ queue \in [Rows -> Row]
          /\ classifications \in [Rows -> Nat]
          /\ matches \subseteq Rows \X Triggers
          /\ unevaluated \subseteq Rows
          /\ pending \subseteq Messages \X Triggers
          /\ suggested \subseteq Messages \X Triggers
          /\ worker \in Worker
          /\ enabled \in BOOLEAN /\ faulty \in Regimes

(***************************************************************************)
(* No row waits for a worker that will not take it: claim_next_ai_item     *)
(* skips rows that used up their attempts, fail_ai_item must close them.   *)
(***************************************************************************)
PendingIsClaimable ==
  \A i \in Rows : queue[i].status = "pending" => queue[i].attempts < MaxAttempts

(***************************************************************************)
(* A row is classified again only at the price of an attempt, so a message *)
(* costs at most MaxAttempts calls of the model, whatever fails in between *)
(* (a completed row goes back to the queue if a failure handler fails).    *)
(***************************************************************************)
ClassificationsArePaid ==
  \A i \in Rows :
    classifications[i] <=
      queue[i].attempts + (IF queue[i].status = "completed" THEN 1 ELSE 0)

(***************************************************************************)
(* Nothing is suggested to the operator but what a saved classification    *)
(* of that message matched, with the match in the audit trail first.       *)
(***************************************************************************)
SuggestionsAreGrounded ==
  /\ \A i \in Rows, t \in Triggers : <<i, t>> \in matches => classifications[i] > 0
  /\ \A m \in Messages, t \in Triggers :
       <<m, t>> \in suggested =>
         \E i \in Rows : queue[i].message = m /\ <<i, t>> \in matches

\* While the model runs or its answer is saved, the claimed row is "running".
WorkerHoldsRow ==
  /\ worker.pc # "idle" => worker.row \in Rows
  /\ worker.pc \in {"classify", "save"} => queue[worker.row].status = "running"
  /\ worker.pc \in {"evaluate", "suggest", "audit"}
       => queue[worker.row].status = "completed"
  /\ worker.pc = "fail" => queue[worker.row].status \in {"running", "completed"}
  /\ worker.pc = "suggest" => {worker.row} \X worker.todo \subseteq matches

Stranded(i) == queue[i].status = "running" /\ worker.row # i
Settled(i) == queue[i].status \in {"completed", "failed"}

(***************************************************************************)
(* As long as AI stays enabled, every queued message is classified or      *)
(* given up: retries end and no row starves behind another.  In a faulty   *)
(* behaviour a restart may leave it running for good.                      *)
(***************************************************************************)
EveryRowSettles ==
  <>[]enabled => \A i \in Rows :
    queue[i].status = "pending" ~> Settled(i) \/ (faulty /\ Stranded(i))

(***************************************************************************)
(* Without faults, a match in the audit trail reaches the operator, as a   *)
(* suggestion or as a failure of the evaluation in the log.                *)
(***************************************************************************)
EveryMatchIsAnswered ==
  \A i \in Rows, t \in Triggers :
    ~ faulty /\ <<i, t>> \in matches
      ~> \/ <<queue[i].message, t>> \in suggested
         \/ i \in unevaluated

(***************************************************************************)
(* The queue in every state: rows are claimed, retried and counted as they *)
(* should, the worker's row is its own, each model call is paid for by a   *)
(* request or a failure, and a suggestion stands on a saved classification *)
(* that matched.                                                           *)
(***************************************************************************)
QueueIsSound ==
  /\ TypeOK
  /\ PendingIsClaimable
  /\ WorkerHoldsRow
  /\ ClassificationsArePaid
  /\ SuggestionsAreGrounded
=============================================================================
