----------------------------- MODULE OfflineEdits -----------------------------
(***************************************************************************)
(* The PWA's queue of offline writes (pwa/src/db/index.js, client.js and   *)
(* composables/useOfflineSync.js) in front of the transaction ledger.      *)
(*                                                                         *)
(* A category edit that meets a network error is queued, whether or not    *)
(* the server acted on it.  When the app comes to believe that it is       *)
(* online again, a drain reads the queue and sends its items one by one;   *)
(* an item leaves the queue only on an answer of success, and what a drain *)
(* could not deliver waits for the next drain.  The belief changes before  *)
(* the drain ends, so drains may overlap.                                  *)
(***************************************************************************)
EXTENDS TransactionLedger

CONSTANT Drains    \* drains of the queue under way at once

VARIABLES
  online,     \* what the app believes
  queue,      \* syncQueue, oldest first
  drains,     \* items each drain has yet to send
  latest,     \* history: the last edit of each row
  made,       \* history: all the edits made
  served,     \* history: edits the server has acted on
  refused,    \* history: edits whose refusal the operator was shown
  troubled    \* history: a drain met an error or another drain

ovars == <<online, queue, drains, latest, made, served, refused, troubled>>

OInit ==
  /\ TInit
  /\ online = TRUE /\ queue = <<>> /\ drains = [d \in Drains |-> <<>>]
  /\ latest = [h \in Lines |-> None] /\ made = {} /\ served = {} /\ refused = {}
  /\ troubled = FALSE
-----------------------------------------------------------------------------
Edit(h, c) == [id |-> edits + 1, hash |-> h, category |-> c]
Draining == \E d \in Drains : drains[d] # <<>>

\* PATCH /api/transaction/{hash}/category, answered or not.
Accepts(e) == e.hash \in Present /\ e.category \in categories \cup {Reserved.ignored}
Served(e) ==
  /\ Relabel({e.hash}, e.category) /\ served' = served \cup {e}
  /\ UNCHANGED <<aliases, categories, requests, imported, regime, imports>>
NotServed == UNCHANGED <<tables, requests, history, regime, imports, served>>

\* Mutant: the newest edit is put first.
Prepend(e) == queue' = <<e>> \o queue

\* patchQueued: only a network error puts the edit into the queue.
Enqueue(e) == queue' = Append(queue, e)

MakeEdit(h, c) ==
  /\ regime.offline /\ Edited /\ h \in Present
  /\ LET e == Edit(h, c)
     IN  /\ latest' = [latest EXCEPT ![h] = e] /\ made' = made \cup {e}
         /\ \/ Accepts(e) /\ Served(e) /\ UNCHANGED <<queue, refused>>
            \/ Accepts(e) /\ Served(e) /\ Enqueue(e) /\ UNCHANGED refused
            \/ NotServed /\ Enqueue(e) /\ UNCHANGED refused
            \/ ~Accepts(e) /\ NotServed /\ refused' = refused \cup {e} /\ UNCHANGED queue
         \* an edit that goes out while older ones wait overtakes them
         /\ troubled' = (troubled \/ (queue # <<>> /\ served' # served))
  /\ UNCHANGED <<online, drains>>

LoseConnection ==
  /\ regime.offline /\ online /\ online' = FALSE
  /\ UNCHANGED <<tvars, queue, drains, latest, made, served, refused, troubled>>

\* handleOnline does nothing for an app that believes itself online.
Reconnect(d) ==
  /\ ~online /\ drains[d] = <<>> /\ online' = TRUE
  /\ drains' = [drains EXCEPT ![d] = queue]
  /\ troubled' = (troubled \/ (Draining /\ queue # <<>>))
  /\ UNCHANGED <<tvars, queue, latest, made, served, refused>>

\* One round of the loop of drainSyncQueue; deleting an item that another
\* drain has deleted does nothing.
Delivered(e) ==
  queue' = IF e \in ToSet(queue) THEN RemoveAt(queue, CHOOSE i \in DOMAIN queue : queue[i] = e)
           ELSE queue

Replay(d) ==
  /\ drains[d] # <<>> /\ AllIdle
  /\ drains' = [drains EXCEPT ![d] = Tail(@)]
  /\ LET e == Head(drains[d])
     IN  \/ Accepts(e) /\ Served(e) /\ Delivered(e) /\ UNCHANGED troubled
         \/ Accepts(e) /\ Served(e) /\ UNCHANGED queue /\ troubled' = TRUE
         \/ NotServed /\ UNCHANGED queue /\ troubled' = TRUE
  /\ UNCHANGED <<edits, online, latest, made, refused>>

Client ==
  \/ \E h \in Lines, c \in Names : MakeEdit(h, c)
  \/ LoseConnection
  \/ \E d \in Drains : Reconnect(d) \/ Replay(d)

\* In an offline regime the operator works in the app alone.
Server ==
  /\ Imports \/ Sweeps \/ (~regime.offline /\ Edits)
  /\ UNCHANGED ovars

ONext == Client \/ Server
OSpec == OInit /\ [][ONext]_<<tvars, ovars>>
-----------------------------------------------------------------------------
\* No edit disappears: each one was served, or its refusal was shown, or it
\* still waits in the queue, through lost requests and lost answers, drains
\* that overlap and drains that fail half way.
NoEditLost ==
  \A e \in made : e \in served \cup refused \/ e \in ToSet(queue)

\* When every drain found the connection working and its queue to itself,
\* each row shows the last edit made of it, as soon as the queue is empty.
LastEditWins ==
  (~troubled /\ queue = <<>> /\ ~Draining) => \A h \in Lines :
    (latest[h] # None /\ latest[h] \notin refused) => Resolved(h) = latest[h].category

(***************************************************************************)
(* An edit made without a connection arrives, waits or was shown as        *)
(* refused, and is not overtaken by an earlier one.                        *)
(***************************************************************************)
EditsArrive == NoEditLost /\ LastEditWins
=============================================================================
