------------------------------- MODULE MailScan -------------------------------
(***************************************************************************)
(* The mail scan through the bridge: the bridge reads new mail from Mail's *)
(* database or from IMAP, the agent classifies each mail, has the bridge   *)
(* send an alert, records the result and acknowledges the last row.        *)
(*                                                                         *)
(* Requests may be lost on the way back and are then repeated; the agent   *)
(* and the bridge may stop between any two steps.                          *)
(***************************************************************************)
EXTENDS Integers, Sequences, FiniteSets, FiniteSetsExt, SequencesExt

CONSTANTS
  None,
  MessageIds,     \* values of the Message-ID header
  Accounts,       \* IMAP accounts; Mail's database is read as one
  Providers,      \* provider_order
  Fallible,       \* the providers that may raise
  MaxFailures,    \* failures after which a provider is left alone (3)
  MaxBatch,       \* mails per request (25)
  MaxPerCycle,    \* mails per scan (50)
  MaxAlerts,      \* max_alerts_per_hour
  Attempts,       \* times a request is tried (3)
  Regimes         \* circumstances: source and bounds

Sources == {"mailapp", "imap"}
\* What the mail is: matching no rule, Apple's promotion, without interest,
\* or of a category that is alerted.
Classes == {"unlisted", "promotion", "other", "alerting"}

ASSUME ScanAssumption ==
  /\ {MaxBatch, MaxPerCycle, MaxFailures, Attempts} \subseteq Nat \ {0} /\ MaxAlerts \in Nat
  /\ None \notin MessageIds
  /\ Providers \in Seq(STRING) /\ Fallible \subseteq STRING
  /\ Regimes \subseteq [source : Sources, mails : Nat, faults : Nat, accounts : Seq(Accounts), classes : SUBSET Classes, olds : SUBSET BOOLEAN]
  /\ \A r \in Regimes : r.source = "mailapp" => Len(r.accounts) = 1

VARIABLES
  box,        \* [account -> mails received, by ROWID or UID]
  ack,        \* the bridge's checkpoint of the mail stream
  lateAcks,   \* acknowledgements that were given up and may still be served
  sending,    \* the alert the bridge is sending, not yet logged
  hour,       \* what became of the alerts sent within the last hour
  phone,      \* [Message-ID -> alerts that reached the phone]
  blind,      \* [Message-ID -> alerts sent the agent has no record of]
  results,    \* processed_messages: set of [bid, mid, alerted]
  breaker,    \* [provider -> failures and whether it is left alone]
  online,     \* the network probe would succeed
  scan,       \* where the agent's scan stands
  faults,     \* counted for the bound
  regime

bridge == <<ack, lateAcks>>
alerts == <<sending, hour, phone, blind>>
vars == <<box, bridge, alerts, results, breaker, online, scan, faults, regime>>

Mail(mid, class, old, deleted) == [mid |-> mid, class |-> class, old |-> old, deleted |-> deleted]
At(pc) == scan.pc = pc
Idle == [pc |-> "idle", batch |-> {}, acked |-> 0, total |-> 0, before |-> 0, alerted |-> FALSE, class |-> "other", tries |-> 0]
MailOf(bid) == box[bid[1]][bid[2]]

\* Rows are read one account after the other, in the order of their numbers.
Place(a) == CHOOSE i \in DOMAIN regime.accounts : regime.accounts[i] = a
Before(b, c) == Place(b[1]) < Place(c[1]) \/ (b[1] = c[1] /\ b[2] < c[2])
First(bids) == CHOOSE b \in bids : \A c \in bids \ {b} : Before(b, c)
Earliest(bids, n) == {b \in bids : Cardinality({c \in bids : Before(c, b)}) < n}
Current == First(scan.batch)

Init ==
  /\ regime \in Regimes
  /\ box = [a \in Accounts |-> <<>>]
  /\ ack = 0 /\ lateAcks = {}
  /\ sending = None /\ hour = <<>>
  /\ phone = [m \in MessageIds |-> 0] /\ blind = [m \in MessageIds |-> 0]
  /\ results = {}
  /\ breaker = [p \in ToSet(Providers) |-> [failures |-> 0, open |-> FALSE]]
  /\ online = TRUE
  /\ scan = Idle
  /\ faults = 0
-----------------------------------------------------------------------------
(* The mailbox.  A mail may arrive again under another row (a second folder, a *)
(* copy); some are older than the first scan looks back.  The scan sees what   *)
(* happens while it works on a batch at its next request only, and no other    *)
(* step can tell, so it happens between batches here.                          *)
BetweenBatches == At("idle") \/ At("fetch")
Arrive ==
  /\ BetweenBatches
  /\ MapThenSumSet(LAMBDA a : Len(box[a]), Accounts) < regime.mails
  /\ \E a \in ToSet(regime.accounts), mid \in MessageIds, class \in regime.classes, old \in regime.olds :
       /\ \A b \in Accounts : \A i \in DOMAIN box[b] : box[b][i].mid = mid => box[b][i].class = class
       /\ box' = [box EXCEPT ![a] = Append(@, Mail(mid, class, old, FALSE))]
  /\ UNCHANGED <<bridge, alerts, results, breaker, online, scan, faults, regime>>

Delete ==
  /\ \E a \in Accounts : \E i \in DOMAIN box[a] :
       /\ BetweenBatches /\ ~ box[a][i].deleted /\ regime.source = "mailapp"
       /\ box' = [box EXCEPT ![a][i].deleted = TRUE]
  /\ faults < regime.faults /\ faults' = faults + 1
  /\ UNCHANGED <<bridge, alerts, results, breaker, online, scan, regime>>

Fault == faults < regime.faults /\ faults' = faults + 1 /\ UNCHANGED regime
Fine == UNCHANGED <<faults, regime>>

GoOffline == online /\ Fault /\ online' = FALSE /\ UNCHANGED <<box, bridge, alerts, results, breaker, scan>>
GoOnline == ~ online /\ online' = TRUE /\ Fine /\ UNCHANGED <<box, bridge, alerts, results, breaker, scan>>

\* The oldest alert is an hour old; a provider's cooldown ends.
Age ==
  /\ hour # <<>> /\ Head(hour) # "sent"
  /\ hour' = Tail(hour)
  /\ Fine /\ UNCHANGED <<box, bridge, sending, phone, blind, results, breaker, online, scan>>
CoolDown(p) ==
  /\ breaker[p].open
  /\ breaker' = [breaker EXCEPT ![p] = [failures |-> 0, open |-> FALSE]]
  /\ Fine /\ UNCHANGED <<box, bridge, alerts, results, online, scan>>
-----------------------------------------------------------------------------
(* What the bridge answers.  Mail's rows after the acknowledged one, or within *)
(* the days looked back, in the order of their rows.                           *)
Rows(a) == {<<a, i>> : i \in DOMAIN box[a]}
AllRows == UNION {Rows(a) : a \in ToSet(regime.accounts)}
Wanted(bid) == /\ ~ MailOf(bid).deleted
               /\ IF ack > 0 THEN bid[2] > ack ELSE ~ MailOf(bid).old
FromMail == Earliest({bid \in AllRows : Wanted(bid)}, MaxBatch)

(* IMAP takes a map of UIDs for its token; the number the agent acknowledges   *)
(* is none, so that every request looks back from the start of the window.     *)
Recent(bid) == ~ MailOf(bid).old
PerAccount == LET n == MaxBatch \div Len(regime.accounts) IN IF n > 1 THEN n ELSE 1
FromImap(failed) ==
  LET new(a) == Earliest({bid \in Rows(a) : Recent(bid)}, PerAccount)
  IN Earliest(UNION {new(a) : a \in ToSet(regime.accounts) \ failed}, MaxBatch)

(* A scan that cannot reach the network ends at once.                          *)
StartScan ==
  /\ At("idle") /\ online
  /\ scan' = [Idle EXCEPT !.pc = "fetch"]
  /\ Fine /\ UNCHANGED <<box, bridge, alerts, results, breaker, online>>

Fetched(batch) ==
  scan' = IF batch = {} THEN Idle
          ELSE [scan EXCEPT !.pc = "item", !.batch = batch, !.acked = 0, !.before = scan.total]
Fetch ==
  /\ At("fetch") /\ online
  /\ IF scan.total >= MaxPerCycle THEN scan' = Idle /\ Fine
     ELSE IF regime.source = "mailapp" THEN Fetched(FromMail) /\ Fine
     ELSE \E failed \in SUBSET ToSet(regime.accounts) :
            /\ Fetched(FromImap(failed))
            /\ IF failed = {} THEN Fine ELSE Fault
  /\ UNCHANGED <<box, bridge, alerts, results, breaker, online>>

(* The bridge does not answer, or the five minutes of a scan are over.         *)
FetchFails ==
  /\ At("fetch") /\ (online => faults < regime.faults)
  /\ IF online THEN Fault ELSE Fine
  /\ scan' = Idle
  /\ UNCHANGED <<box, bridge, alerts, results, breaker, online>>
-----------------------------------------------------------------------------
(* One mail after the other.  Saving a result replaces the row of the same     *)
(* bridge id and, by the unique index, the one of the same Message-ID.         *)
Saved(bid, alerted) ==
  {r \in results : r.bid # bid /\ r.mid # MailOf(bid).mid} \cup {[bid |-> bid, mid |-> MailOf(bid).mid, alerted |-> alerted]}
Processed(bid) == \E r \in results : r.bid = bid
MessageProcessed(mid) == \E r \in results : r.mid = mid
IsCopy == MessageProcessed(MailOf(Current).mid)
NextItem(s) == [s EXCEPT !.pc = "item", !.batch = @ \ {Current}, !.acked = Current[2], !.alerted = FALSE, !.tries = 0]

Known ==
  /\ At("item") /\ scan.batch # {} /\ Processed(Current)
  /\ scan' = NextItem(scan)
  /\ Fine /\ UNCHANGED <<box, bridge, alerts, results, breaker, online>>

Copy ==
  /\ At("item") /\ scan.batch # {} /\ ~ Processed(Current) /\ IsCopy
  /\ results' = Saved(Current, FALSE)
  /\ scan' = NextItem(scan)
  /\ Fine /\ UNCHANGED <<box, bridge, alerts, breaker, online>>

(* The providers are asked in their order; one that keeps failing is left      *)
(* alone for a while.  If none answers the mail is alerted as financial.       *)
Asked == SelectSeq(Providers, LAMBDA p : ~ breaker[p].open)
Answering(failing) == SelectInSeq(Asked, LAMBDA p : p \notin failing)
Tried(failing) == LET n == Answering(failing) IN IF n = 0 THEN Asked ELSE SubSeq(Asked, 1, n)
Failure(b) == [failures |-> IF b.failures < MaxFailures THEN b.failures + 1 ELSE b.failures, open |-> b.failures + 1 >= MaxFailures]
Answered(failing) ==
  [p \in DOMAIN breaker |->
     IF p \notin ToSet(Tried(failing)) THEN breaker[p]
     ELSE IF p \in failing THEN Failure(breaker[p]) ELSE [failures |-> 0, open |-> FALSE]]

Filtered == MailOf(Current).class \in {"unlisted", "promotion"}
Classify ==
  /\ At("item") /\ scan.batch # {} /\ ~ Processed(Current) /\ ~ IsCopy
  /\ \E failing \in IF Filtered THEN {{}} ELSE SUBSET Fallible :
       LET class == IF Filtered THEN "other" ELSE IF Answering(failing) = 0 THEN "alerting" ELSE MailOf(Current).class
       IN /\ IF failing = {} THEN Fine ELSE Fault
          /\ breaker' = IF Filtered THEN breaker ELSE Answered(failing)
          /\ \E quiet \in BOOLEAN :    \* or alerts are not allowed in this mode
               scan' = [scan EXCEPT !.pc = IF class = "alerting" /\ ~ quiet THEN "alert" ELSE "save", !.class = class]
  /\ UNCHANGED <<box, bridge, alerts, results, online>>

ClassifyRaises ==
  /\ At("item") /\ scan.batch # {} /\ ~ Processed(Current) /\ ~ IsCopy
  /\ Fault
  /\ scan' = [scan EXCEPT !.pc = "ack", !.batch = {}]
  /\ UNCHANGED <<box, bridge, alerts, results, breaker, online>>
-----------------------------------------------------------------------------
(* The alert.  A refused one is not tried again; an error or a lost answer is. *)
(* The bridge is done with one alert before it gets the next, of an agent that *)
(* has started again too.                                                      *)
Again(s) == IF s.tries + 1 < Attempts THEN [s EXCEPT !.pc = "alert", !.tries = @ + 1] ELSE [s EXCEPT !.pc = "save"]

InHour(outcomes) == {i \in DOMAIN hour : hour[i] \in outcomes}
Allowed == Cardinality(InHour({"logged"})) < MaxAlerts

Refuse ==
  /\ At("alert") /\ sending = None /\ ~ Allowed
  /\ scan' = [scan EXCEPT !.pc = "save"]
  /\ Fine /\ UNCHANGED <<box, bridge, alerts, results, breaker, online>>

SendAlert ==
  /\ At("alert") /\ sending = None /\ Allowed /\ online
  /\ sending' = MailOf(Current).mid
  /\ phone' = [phone EXCEPT ![MailOf(Current).mid] = @ + 1]
  /\ hour' = Append(hour, "sent")
  /\ scan' = [scan EXCEPT !.pc = "sending"]
  /\ Fine /\ UNCHANGED <<box, bridge, blind, results, breaker, online>>

(* The bridge logs the request and answers; the answer may be lost.            *)
Became(outcome) == [hour EXCEPT ![Len(hour)] = outcome]
LogRequest == Became("logged")

LogAlert(answered) ==
  /\ sending # None /\ (At("sending") \/ answered)
  /\ hour' = LogRequest /\ sending' = None
  /\ IF answered THEN Fine ELSE Fault
  /\ blind' = IF answered THEN blind ELSE [blind EXCEPT ![sending] = @ + 1]
  /\ scan' = IF ~ At("sending") THEN scan
             ELSE IF answered THEN [scan EXCEPT !.alerted = TRUE, !.pc = "save"] ELSE Again(scan)
  /\ UNCHANGED <<box, bridge, phone, results, breaker, online>>

(* Messages is not reached: nothing is sent and the bridge answers 500.        *)
AlertFails ==
  /\ At("alert") /\ sending = None /\ (online => faults < regime.faults)
  /\ IF online THEN Fault ELSE Fine
  /\ scan' = Again(scan)
  /\ UNCHANGED <<box, bridge, alerts, results, breaker, online>>

(* The bridge stops before it has logged what it sent.                         *)
BridgeStops ==
  /\ sending # None /\ Fault
  /\ sending' = None /\ hour' = Became("stopped")
  /\ blind' = IF At("sending") THEN [blind EXCEPT ![sending] = @ + 1] ELSE blind
  /\ scan' = IF At("sending") THEN Again(scan) ELSE scan
  /\ UNCHANGED <<box, bridge, phone, results, breaker, online>>

Save ==
  /\ At("save")
  /\ results' = Saved(Current, scan.alerted)
  /\ scan' = [NextItem(scan) EXCEPT !.total = @ + 1]
  /\ Fine /\ UNCHANGED <<box, bridge, alerts, breaker, online>>
-----------------------------------------------------------------------------
(* The acknowledgement is a plain write: the last to be served stays.          *)
Finished == At("item") /\ scan.batch = {}
\* The next batch, unless nothing of this one was new.
NextBatch == IF scan.total = scan.before THEN Idle ELSE [scan EXCEPT !.pc = "fetch"]

AckUnlessKnown ==      \* a mutation: a batch without a new mail is not acknowledged
  /\ Finished \/ At("ack")
  /\ IF scan.acked = 0 \/ scan.total = scan.before THEN UNCHANGED ack ELSE online /\ ack' = scan.acked
  /\ scan' = NextBatch
  /\ Fine /\ UNCHANGED <<box, lateAcks, alerts, results, breaker, online>>

AckWholeBatch ==       \* a mutation: what was fetched is acknowledged
  /\ Finished \/ At("ack")
  /\ IF scan.acked = 0 THEN UNCHANGED ack ELSE online /\ ack' = scan.acked + IF At("ack") THEN 1 ELSE 0
  /\ scan' = NextBatch
  /\ Fine /\ UNCHANGED <<box, lateAcks, alerts, results, breaker, online>>

Ack ==
  /\ Finished \/ At("ack")
  /\ IF scan.acked = 0 THEN UNCHANGED ack ELSE online /\ ack' = scan.acked
  /\ scan' = NextBatch
  /\ Fine /\ UNCHANGED <<box, lateAcks, alerts, results, breaker, online>>

(* The request fails: the scan ends with an error.                             *)
AckFails ==
  /\ Finished \/ At("ack")
  /\ scan.acked # 0
  /\ IF online THEN Fault /\ lateAcks' = lateAcks \cup {scan.acked} ELSE Fine /\ UNCHANGED lateAcks
  /\ scan' = Idle
  /\ UNCHANGED <<box, ack, alerts, results, breaker, online>>

LateAck ==
  /\ \E row \in lateAcks : ack' = row /\ lateAcks' = lateAcks \ {row}
  /\ Fine /\ UNCHANGED <<box, alerts, results, breaker, online, scan>>

(* The agent stops; what it was about to record of an alert is lost.           *)
AgentStops ==
  /\ ~ At("idle") /\ Fault
  /\ blind' = IF scan.alerted THEN [blind EXCEPT ![MailOf(Current).mid] = @ + 1]
              ELSE IF At("sending") THEN [blind EXCEPT ![sending] = @ + 1] ELSE blind
  /\ scan' = Idle
  /\ breaker' = [p \in DOMAIN breaker |-> [failures |-> 0, open |-> FALSE]]
  /\ UNCHANGED <<box, bridge, sending, hour, phone, results, online>>

AgentStep ==
  \/ StartScan \/ Fetch \/ FetchFails \/ Known \/ Copy \/ Classify \/ ClassifyRaises
  \/ Refuse \/ SendAlert \/ AlertFails \/ Save \/ Ack \/ AckFails
BridgeStep == LateAck \/ \E answered \in BOOLEAN : LogAlert(answered)
Next ==
  \/ AgentStep \/ BridgeStep
  \/ Arrive \/ Delete \/ GoOffline \/ GoOnline \/ Age \/ BridgeStops \/ AgentStops
  \/ \E p \in DOMAIN breaker : CoolDown(p)

(* The main loop scans again and again, the network comes back, the bridge     *)
(* ends its requests.                                                          *)
Spec == Init /\ [][Next]_vars /\ WF_vars(AgentStep) /\ WF_vars(BridgeStep) /\ WF_vars(GoOnline)
-----------------------------------------------------------------------------
MTypeOK ==
  /\ ack \in Nat /\ lateAcks \subseteq Nat /\ faults \in Nat /\ hour \in Seq({"sent", "logged", "stopped"})
  /\ sending \in MessageIds \cup {None} /\ online \in BOOLEAN
  /\ \A a \in Accounts : box[a] \in Seq([mid : MessageIds, class : Classes, old : BOOLEAN, deleted : BOOLEAN])
  /\ phone \in [MessageIds -> Nat] /\ blind \in [MessageIds -> Nat]
  /\ \A r \in results : r.bid[1] \in Accounts /\ r.bid[2] \in DOMAIN box[r.bid[1]] /\ r.mid = MailOf(r.bid).mid
  /\ \A bid \in scan.batch : bid[2] \in DOMAIN box[bid[1]]

(* AckedAreProcessed: every mail in Mail's database up to the acknowledged row *)
(* is recorded as processed, itself or under its Message-ID, unless it was     *)
(* deleted or lay outside the days looked back - in whatever order             *)
(* acknowledgements are served and wherever a scan was cut off                 *)
(* (orchestrator.py:216).                                                      *)
AckedAreProcessed == regime.source = "mailapp" =>
  \A a \in Accounts : \A i \in DOMAIN box[a] :
    (i <= ack /\ ~ box[a][i].old /\ ~ box[a][i].deleted) => MessageProcessed(box[a][i].mid)

(* AlertedOnce: a mail, its copies included, raises one alert, and one more    *)
(* only for each alert whose answer or record was lost (orchestrator.py:147).  *)
AlertedOnce == \A mid \in MessageIds : phone[mid] <= 1 + blind[mid]

(* AlertBudget: no more alerts in an hour than the limit, beside those the     *)
(* bridge stopped over before logging them (rate_limit.py:33).                 *)
AlertBudget == Cardinality(InHour({"sent", "logged"})) <= MaxAlerts

(* MailIsProcessed: every mail is processed in the end.  By IMAP only the      *)
(* first mails of the window are ever fetched: claimed for those.              *)
Fetchable(a, i) ==
  /\ ~ box[a][i].old /\ ~ box[a][i].deleted
  /\ regime.source = "imap" => Cardinality({j \in 1 .. i : ~ box[a][j].old}) <= PerAccount
Waiting(mid) ==
  /\ ~ MessageProcessed(mid)
  /\ \E a \in Accounts : \E i \in DOMAIN box[a] : box[a][i].mid = mid /\ Fetchable(a, i)
MailIsProcessed == \A mid \in MessageIds : Waiting(mid) ~> ~ Waiting(mid)

(***************************************************************************)
(* The scan in every state: what is acknowledged was processed, no mail is *)
(* announced twice without a fault, and the alerts of an hour stay within  *)
(* the limit.                                                              *)
(***************************************************************************)
ScanIsSound ==
  /\ MTypeOK
  /\ AckedAreProcessed
  /\ AlertedOnce
  /\ AlertBudget
===============================================================================
