----------------------------- MODULE ImapIntake -----------------------------
(***************************************************************************)
(* The IMAP scan of the mail agent: IMAPPoller._poll_folder fetches what   *)
(* lies beyond the checkpoint of a folder, _scan_imap_once takes the       *)
(* messages one by one through deduplication, rules and classification,    *)
(* alerts the operator, saves the result and advances the checkpoint.      *)
(*                                                                         *)
(* One account and folder; every message is within the lookback window.    *)
(* The IMAP server is external: UIDs only grow while UIDVALIDITY stays,    *)
(* and start again, over any part of the mailbox, when it changes.         *)
(***************************************************************************)
EXTENDS Integers, Sequences

CONSTANTS Messages,      \* mails; two copies of one mail share a Message-ID
          WithId,        \* those that have a Message-ID header
          Oversized,     \* those beyond max_message_mb
          Regimes,       \* the circumstances to consider
          None,
          MaxUid, MaxValidity, MaxFaults, MaxAlerts  \* bounds

Uids == 1 .. MaxUid
Validities == 1 .. MaxValidity

ASSUME MessagesAssumption ==
  /\ WithId \subseteq Messages /\ Oversized \subseteq Messages
  /\ None \notin Messages \cup Nat
ASSUME BoundsAssumption ==
  /\ MaxUid \in Nat
  /\ MaxValidity \in Nat \ {0} /\ MaxFaults \in Nat /\ MaxAlerts \in Nat

Disturbances == {"renumber",   \* the server changes UIDVALIDITY
                 "fetch",      \* the fetch of a UID, or STATUS, fails
                 "write"}      \* SQLite refuses the result of a message

ASSUME RegimesAssumption ==
  Regimes \subseteq [may : SUBSET Disturbances, perCycle : Nat \ {0}]

VARIABLES box,         \* the folder: box[uid] is a message
          validity,    \* its UIDVALIDITY
          checkpoint,  \* imap_folder_state
          processed,   \* processed_messages
          alerts,      \* alerts sent per message
          scan,        \* where _scan_imap_once stands
          faults,      \* crashes, exceptions and refused writes so far
          regime       \* what may go wrong in this behaviour, and MAX_PER_CYCLE

server == <<box, validity>>
vars == <<server, checkpoint, processed, alerts, scan, faults, regime>>
-----------------------------------------------------------------------------
\* _get_uidvalidity answers 0 when STATUS fails.
Unreadable == 0

Item == [uid : Uids, message : Messages, validity : Validities \cup {Unreadable}]

Key == [message : Messages \cup {None}, validity : Nat, uid : Nat]
MessageKey(m) == [message |-> m, validity |-> 0, uid |-> 0]
FallbackKey(v, u) == [message |-> None, validity |-> v, uid |-> u]

HasMessageKey(e) == e.message \in WithId \ Oversized

Keys(e) == {FallbackKey(e.validity, e.uid)}
             \cup (IF HasMessageKey(e) THEN {MessageKey(e.message)} ELSE {})

RowKey(e) == IF HasMessageKey(e) THEN MessageKey(e.message)
             ELSE FallbackKey(e.validity, e.uid)

\* The bridge_id is made of account, folder and UID.
Processed == [bridge : Uids, key : Key]

Done == [pc |-> "idle", items |-> <<>>]

Init == /\ box = <<>> /\ validity = 1
        /\ checkpoint = [uid |-> 0, validity |-> None]
        /\ processed = {}
        /\ alerts = [m \in Messages |-> 0]
        /\ scan = Done
        /\ faults = 0
        /\ regime \in Regimes
-----------------------------------------------------------------------------
(***************************************************************************)
(* The server.                                                             *)
(***************************************************************************)
Arrive(m) == /\ Len(box) < MaxUid
             /\ box' = Append(box, m)
             /\ UNCHANGED <<validity, checkpoint, processed, alerts, scan, faults, regime>>

Renumber ==
  /\ "renumber" \in regime.may /\ validity < MaxValidity
  /\ validity' = validity + 1
  /\ \E n \in 0 .. Len(box) : \E old \in [1 .. n -> 1 .. Len(box)] :
       /\ \A i, j \in 1 .. n : old[i] = old[j] => i = j
       /\ box' = [u \in 1 .. n |-> box[old[u]]]
  /\ UNCHANGED <<checkpoint, processed, alerts, scan, faults, regime>>
-----------------------------------------------------------------------------
(***************************************************************************)
(* _poll_folder.                                                           *)
(***************************************************************************)
\* After a change of UIDVALIDITY the folder is read from the start.
Start(v) == IF checkpoint.validity \in {None, v} THEN checkpoint.uid ELSE 0

BeyondSkippingOne(u, v) == u > Start(v) + 1  \* a mutation
Beyond(u, v) == u > Start(v)

\* The UIDs SEARCH answers and FETCH does not lose.
Wanted(v, lost) == {u \in 1 .. Len(box) : Beyond(u, v) /\ u \notin lost}

\* uids are the first MAX_PER_CYCLE of them, in the order of the mailbox.
Fetch(uids, v, lost) ==
  LET n == Len(uids) IN
  /\ n <= regime.perCycle
  /\ \A i, j \in 1 .. n : i < j => uids[i] < uids[j]
  /\ \A u \in Wanted(v, lost) :
       \/ \E i \in 1 .. n : uids[i] = u
       \/ n = regime.perCycle /\ \A i \in 1 .. n : uids[i] < u

Poll ==
  /\ scan.pc = "idle"
  /\ \E v \in {validity} \cup (IF "fetch" \in regime.may THEN {Unreadable} ELSE {}),
        lost \in IF "fetch" \in regime.may THEN SUBSET Uids ELSE {{}} :
       \E n \in 0 .. Len(box) : \E uids \in [1 .. n -> Wanted(v, lost)] :
         /\ Fetch(uids, v, lost)
         /\ scan' = IF n = 0 THEN Done
                    ELSE [pc |-> "next",
                          items |-> [k \in 1 .. n |-> [uid |-> uids[k],
                                                      message |-> box[uids[k]],
                                                      validity |-> v]]]
  /\ UNCHANGED <<server, checkpoint, processed, alerts, faults, regime>>
-----------------------------------------------------------------------------
(***************************************************************************)
(* _scan_imap_once, for the first of the items that are left.              *)
(***************************************************************************)
Current == Head(scan.items)

SeenAtThisUid(e) ==  \* a mutation: only the fallback key is looked up
  \E row \in processed : row.key = FallbackKey(e.validity, e.uid)
Seen(e) == \E row \in processed : row.key \in Keys(e)

At(pc) == scan.pc = pc
Goto(pc) == scan' = [scan EXCEPT !.pc = pc]
Untouched == UNCHANGED <<server, checkpoint, processed, alerts, faults, regime>>

Duplicate == At("next") /\ Seen(Current) /\ Goto("checkpoint") /\ Untouched

Oversize == /\ At("next") /\ ~ Seen(Current) /\ Current.message \in Oversized
            /\ Goto("save") /\ Untouched

\* Rules and classifier; an alert is due for some categories, unless quiet.
Classify == /\ At("next") /\ ~ Seen(Current) /\ Current.message \notin Oversized
            /\ Goto("alert") \/ Goto("save")
            /\ Untouched

Fault == /\ faults < MaxFaults
         /\ faults' = faults + 1

\* Rules or classifier raise: the scan gives up, at this message.
ClassifyRaisesOnward ==  \* a mutation: it goes on with the next message
  /\ At("next") /\ ~ Seen(Current) /\ Current.message \notin Oversized
  /\ Fault
  /\ scan' = IF Len(scan.items) = 1 THEN Done ELSE [scan EXCEPT !.items = Tail(@)]
  /\ UNCHANGED <<server, checkpoint, processed, alerts, regime>>

ClassifyRaises ==
  /\ At("next") /\ ~ Seen(Current) /\ Current.message \notin Oversized
  /\ Fault
  /\ scan' = Done
  /\ UNCHANGED <<server, checkpoint, processed, alerts, regime>>

\* The bridge sends the alert, or the call fails; either way the scan goes on.
Alert == /\ At("alert") /\ Goto("save")
         /\ \/ /\ alerts[Current.message] < MaxAlerts
               /\ alerts' = [alerts EXCEPT ![Current.message] = @ + 1]
            \/ UNCHANGED alerts
         /\ UNCHANGED <<server, checkpoint, processed, faults, regime>>

\* INSERT OR IGNORE: bridge_id and message_id are both unique.
Save ==
  /\ At("save") /\ Goto("checkpoint")
  /\ processed' =
       IF \E row \in processed : row.bridge = Current.uid \/ row.key = RowKey(Current)
       THEN processed
       ELSE processed \cup {[bridge |-> Current.uid, key |-> RowKey(Current)]}
  /\ UNCHANGED <<server, checkpoint, alerts, faults, regime>>

\* Any exception of the INSERT is swallowed.
SaveFails == /\ "write" \in regime.may
             /\ At("save") /\ Goto("checkpoint")
             /\ Fault
             /\ UNCHANGED <<server, checkpoint, processed, alerts, regime>>

Checkpoint ==
  /\ At("checkpoint")
  /\ checkpoint' = [uid |-> Current.uid, validity |-> Current.validity]
  /\ scan' = IF Len(scan.items) = 1 THEN Done
             ELSE [pc |-> "next", items |-> Tail(scan.items)]
  /\ UNCHANGED <<server, processed, alerts, faults, regime>>

\* A crash, or a database error outside the INSERT: main's loop starts again.
Interrupt == /\ ~ At("idle")
             /\ Fault
             /\ scan' = Done
             /\ UNCHANGED <<server, checkpoint, processed, alerts, regime>>
-----------------------------------------------------------------------------
Scanning == Poll \/ Duplicate \/ Oversize \/ Classify \/ Alert \/ Save \/ Checkpoint

Next == \/ \E m \in Messages : Arrive(m)
        \/ Renumber
        \/ Scanning
        \/ ClassifyRaises \/ SaveFails \/ Interrupt

Spec == Init /\ [][Next]_vars

\* The main loop comes back to the scan after every outcome.
FairSpec == Spec /\ WF_vars(Scanning)
-----------------------------------------------------------------------------
TypeOK ==
  /\ \A u \in 1 .. Len(box) : u \in Uids /\ box[u] \in Messages
  /\ validity \in Validities
  /\ checkpoint \in [uid : 0 .. MaxUid, validity : Validities \cup {Unreadable, None}]
  /\ processed \subseteq Processed
  /\ alerts \in [Messages -> 0 .. MaxAlerts]
  /\ scan.pc \in {"idle", "next", "alert", "save", "checkpoint"}
  /\ \A k \in 1 .. Len(scan.items) : scan.items[k] \in Item
  /\ At("idle") <=> scan.items = <<>>
  /\ faults \in 0 .. MaxFaults /\ regime \in Regimes

Filed(u) == [uid |-> u, message |-> box[u], validity |-> validity]

(***************************************************************************)
(* docs/MAIL_AGENT.md: "Advance IMAP checkpoint only after message result  *)
(* is persisted".  Every message the checkpoint has passed has a row in    *)
(* processed_messages, so none is lost.                                    *)
(***************************************************************************)
CheckpointIsDurable ==
  checkpoint.validity = validity =>
    \A u \in 1 .. Len(box) : u <= checkpoint.uid => Seen(Filed(u))

(***************************************************************************)
(* The same, for crashes and exceptions of rules and classifier only, over *)
(* copies and batches of any size.                                         *)
(***************************************************************************)
NothingIsLost == regime.may = {} => CheckpointIsDurable

(***************************************************************************)
(* Alerts go out before the result is saved, so a message may be announced *)
(* again, but each repetition costs a crash, an exception or a refused     *)
(* write; copies of a mail and an unreadable UIDVALIDITY repeat nothing.   *)
(***************************************************************************)
AlertsArePaid ==
  "renumber" \notin regime.may => \A m \in WithId : alerts[m] <= 1 + faults

(***************************************************************************)
(* Once the result of a mail with a Message-ID is saved, nothing announces *)
(* it again: no copy, no re-scan after a UIDVALIDITY change, no restart.   *)
(***************************************************************************)
SavedIsQuiet ==
  [][\A m \in WithId :
       (\E row \in processed : row.key = MessageKey(m)) => alerts'[m] = alerts[m]]_vars

(***************************************************************************)
(* Every message in the folder is saved in the end, although an exception  *)
(* ends the whole scan and a scan takes MAX_PER_CYCLE messages at most.      *)
(***************************************************************************)
EveryMessageIsSaved ==
  \A u \in Uids : regime.may = {} /\ u <= Len(box) ~> u <= Len(box) /\ Seen(Filed(u))

(***************************************************************************)
(* The intake in every state: what the checkpoint has passed is saved, and *)
(* repeated alerts are paid for by faults, each in the regimes it names.   *)
(***************************************************************************)
IntakeIsSound ==
  /\ TypeOK
  /\ NothingIsLost
  /\ AlertsArePaid
=============================================================================
