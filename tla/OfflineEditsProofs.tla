-------------------------- MODULE OfflineEditsProofs --------------------------
(***************************************************************************)
(* Proofs about TransactionLedger behind the queue of OfflineEdits, for    *)
(* every set of lines, names, requests and drains: the operator's word     *)
(* stands, and an edit made without a connection arrives.                  *)
(***************************************************************************)
EXTENDS OfflineEdits, TLAPS, FiniteSetTheorems, WellFoundedInduction

EditsMade == [id : 1 .. edits, hash : Lines, category : Names]

OTyped ==
  /\ decided = overrides
  /\ edits \in Nat /\ troubled \in BOOLEAN
  /\ made \subseteq EditsMade /\ served \subseteq made
  /\ queue \in Seq(made)
  /\ \A i, j \in 1 .. Len(queue) : queue[i] = queue[j] => i = j
  /\ drains \in [Drains -> Seq(made)]
  /\ latest \in [Lines -> made \cup {None}]
  /\ \A h \in Lines : latest[h] # None => latest[h].hash = h
  /\ ~ regime.offline => made = {}

\* The one drain under way has yet to send the first items of the queue.
OneDrain ==
  /\ \A d, f \in Drains : drains[d] # <<>> /\ drains[f] # <<>> => d = f
  /\ \A d \in Drains :
       /\ Len(drains[d]) <= Len(queue)
       /\ \A j \in 1 .. Len(drains[d]) : drains[d][j] = queue[j]

\* The last edit of a row is the last of the queue about this row.
LastWaits(h) ==
  \E i \in 1 .. Len(queue) :
    /\ queue[i] = latest[h]
    /\ \A j \in 1 .. Len(queue) : j > i => queue[j].hash # h

NoneWaits(h) == \A i \in 1 .. Len(queue) : queue[i].hash # h

(***************************************************************************)
(* Of every row, the last edit waits behind all others, or none waits and  *)
(* the row shows it.                                                       *)
(***************************************************************************)
LastOrShown ==
  \A h \in Lines : latest[h] # None /\ latest[h] \notin refused =>
    LastWaits(h) \/ (NoneWaits(h) /\ overrides[h] = latest[h].category)

OInv == OTyped /\ NoEditLost /\ (~ troubled => OneDrain /\ LastOrShown)

LEMMA OInitInductive == OInit => OInv
  <1> SUFFICES ASSUME OInit PROVE OInv
    OBVIOUS
  <1> USE DEF OInit, TInit
  <1>1. OTyped
    <2>1. edits = 0 /\ made = {} /\ served = {} /\ queue = <<>> /\ decided = overrides
      OBVIOUS
    <2>2. drains \in [Drains -> Seq(made)]
      OBVIOUS
    <2>3. latest \in [Lines -> made \cup {None}] /\ \A h \in Lines : latest[h] = None
      OBVIOUS
    <2>4. queue \in Seq(made)
      OBVIOUS
    <2>6. troubled \in BOOLEAN
      OBVIOUS
    <2>5. 1 .. Len(queue) = {}
      OBVIOUS
    <2> HIDE DEF OInit, TInit
    <2> QED
      BY <2>1, <2>2, <2>3, <2>4, <2>5, <2>6 DEF OTyped
  <1>2. NoEditLost
    BY DEF NoEditLost
  <1>3. OneDrain /\ LastOrShown
    BY DEF OneDrain, LastOrShown
  <1> QED
    BY <1>1, <1>2, <1>3 DEF OInv
-----------------------------------------------------------------------------
(***************************************************************************)
(* What the steps do to the operator's word.                               *)
(***************************************************************************)
LEMMA Relabelled ==
  ASSUME OTyped, NEW hs, NEW c, Relabel(hs, c)
  PROVE  /\ decided' = overrides'
         /\ \A h \in Lines : overrides'[h] = IF h \in hs THEN c ELSE overrides[h]
  <1>1. overrides' = [h \in Lines |-> IF h \in hs THEN c ELSE overrides[h]]
    BY DEF Relabel
  <1>2. decided' = [h \in Lines |-> IF h \in hs THEN c ELSE overrides[h]]
    BY DEF Relabel, OTyped
  <1> QED
    BY <1>1, <1>2

LEMMA Renamings ==
  ASSUME OTyped, NEW old \in Names, NEW new \in Names, RenameCategory(old, new)
  PROVE  /\ decided' = overrides'
         /\ edits' = edits + 1 /\ UNCHANGED regime
  <1> DEFINE Renamed(c) == IF c = old THEN new ELSE c
  <1>1. overrides' = [h \in Lines |-> Renamed(overrides[h])]
    BY DEF RenameCategory
  <1>2. decided' = [h \in Lines |-> Renamed(overrides[h])]
    BY DEF RenameCategory, OTyped
  <1>3. edits' = edits + 1 /\ UNCHANGED regime
    BY DEF RenameCategory, Edited
  <1> QED
    BY <1>1, <1>2, <1>3

\* Imports and sweeps leave it alone; so do the server's own edits the queue.
LEMMA ServerStep ==
  ASSUME OTyped, Server
  PROVE  /\ decided' = overrides'
         /\ edits' \in {edits, edits + 1} /\ UNCHANGED <<ovars, regime>>
         /\ regime.offline => UNCHANGED overrides
  <1>1. CASE Imports
    BY <1>1 DEF Server, Imports, StartImport, FinishImport, OTyped, tables, history, counters
  <1>2. CASE Sweeps
    BY <1>2 DEF Server, Sweeps, StartSweep, ReadSweep, WriteBackfill, WriteSuggest, Edited,
                OTyped, tables, history, counters
  <1>3. CASE ~ regime.offline /\ Edits
    <2> DEFINE Goal == /\ decided' = overrides'
                       /\ edits' \in {edits, edits + 1} /\ UNCHANGED regime
    <2>1. ASSUME NEW h \in Lines, NEW c \in Names, NEW key, NEW similar, PostAlias(h, c, key, similar)
          PROVE  Goal
      <3>1. Edited /\ UNCHANGED regime
            /\ Relabel({h} \cup IF similar THEN Alike(h, key) \cap Uncategorised ELSE {}, c)
        BY <2>1 DEF PostAlias
      <3> QED
        BY <3>1, Relabelled DEF Edited
    <2>2. ASSUME NEW r \in Requests, NEW h \in Lines, NEW c \in Names, NEW learn, StartPatch(r, h, c, learn)
          PROVE  Goal
      BY <2>2 DEF StartPatch, Edited, OTyped, tables, history
    <2>3. ASSUME NEW c \in Names, AddCategory(c)
          PROVE  Goal
      BY <2>3 DEF AddCategory, Edited, OTyped, history
    <2>4. ASSUME NEW old \in Names, NEW new \in Names, RenameCategory(old, new)
          PROVE  Goal
      BY <2>4, Renamings
    <2>5. ASSUME NEW r \in Requests, FinishPatch(r)
          PROVE  Goal
      <3>1. /\ UNCHANGED <<regime, edits>>
            /\ \E hs : Relabel(hs, requests[r].category)
        BY <2>5 DEF FinishPatch, counters
      <3> QED
        BY <3>1, Relabelled
    <2> QED
      BY <1>3, <2>1, <2>2, <2>3, <2>4, <2>5 DEF Edits, Server
  <1> QED
    BY <1>1, <1>2, <1>3 DEF Server
-----------------------------------------------------------------------------
(***************************************************************************)
(* The queue as a sequence.                                                *)
(***************************************************************************)
LEMMA Queued ==
  ASSUME NEW S, NEW q \in Seq(S), NEW e \in S
  PROVE  /\ Append(q, e) \in Seq(S) /\ Len(Append(q, e)) = Len(q) + 1
         /\ Append(q, e)[Len(q) + 1] = e
         /\ \A i \in 1 .. Len(q) : Append(q, e)[i] = q[i]
  OBVIOUS

LEMMA Joined ==
  ASSUME NEW S, NEW a \in Seq(S), NEW b \in Seq(S)
  PROVE  /\ a \o b \in Seq(S) /\ Len(a \o b) = Len(a) + Len(b)
         /\ \A k \in 1 .. Len(a) + Len(b) :
              (a \o b)[k] = IF k <= Len(a) THEN a[k] ELSE b[k - Len(a)]
  OBVIOUS

LEMMA Removed ==
  ASSUME NEW S, NEW q \in Seq(S), NEW i \in 1 .. Len(q)
  PROVE  /\ RemoveAt(q, i) \in Seq(S) /\ Len(RemoveAt(q, i)) = Len(q) - 1
         /\ \A j \in 1 .. Len(q) - 1 :
              RemoveAt(q, i)[j] = IF j < i THEN q[j] ELSE q[j + 1]
  <1> DEFINE front == SubSeq(q, 1, i - 1)
             back == SubSeq(q, i + 1, Len(q))
  <1>1. Len(q) \in Nat /\ i \in Nat
    OBVIOUS
  <1>2. /\ front \in Seq(S) /\ Len(front) = i - 1
        /\ \A j \in 1 .. i - 1 : front[j] = q[j]
    BY <1>1
  <1>3. /\ back \in Seq(S) /\ Len(back) = Len(q) - i
        /\ \A j \in 1 .. Len(q) - i : back[j] = q[j + i]
    BY <1>1
  <1> HIDE DEF front, back
  <1>4. RemoveAt(q, i) = front \o back
    BY DEF RemoveAt, front, back
  <1>5. front \o back \in Seq(S) /\ Len(front \o back) = Len(front) + Len(back)
    BY <1>2, <1>3, Joined
  <1>6. Len(front) + Len(back) = Len(q) - 1
    BY <1>1, <1>2, <1>3
  <1>7. ASSUME NEW j \in 1 .. Len(q) - 1
        PROVE  (front \o back)[j] = IF j < i THEN q[j] ELSE q[j + 1]
    <2>1. (front \o back)[j] = IF j <= Len(front) THEN front[j] ELSE back[j - Len(front)]
      BY <1>2, <1>3, <1>6, Joined
    <2>2. CASE j < i
      BY <1>1, <1>2, <2>1, <2>2
    <2>3. CASE j >= i
      <3>1. j - (i - 1) \in 1 .. Len(q) - i /\ (j - (i - 1)) + i = j + 1 /\ ~ (j <= i - 1)
        BY <1>1, <2>3
      <3> QED
        BY <1>2, <1>3, <2>1, <2>3, <3>1
    <2>4. j < i \/ j >= i
      BY <1>1
    <2> QED
      BY <2>2, <2>3, <2>4
  <1> QED
    BY <1>4, <1>5, <1>6, <1>7

\* An item that is deleted is no longer there, and every other still is.
LEMMA DeliveredLeaves ==
  ASSUME OTyped, NEW e \in made, Delivered(e)
  PROVE  /\ queue' \in Seq(made)
         /\ \A i, j \in 1 .. Len(queue') : queue'[i] = queue'[j] => i = j
         /\ \A x \in ToSet(queue) : x = e \/ x \in ToSet(queue')
         /\ queue # <<>> /\ queue[1] = e =>
              Len(queue') = Len(queue) - 1 /\ \A j \in 1 .. Len(queue') : queue'[j] = queue[j + 1]
  <1>1. /\ queue \in Seq(made) /\ Len(queue) \in Nat /\ DOMAIN queue = 1 .. Len(queue)
        /\ \A i, j \in 1 .. Len(queue) : queue[i] = queue[j] => i = j
    BY DEF OTyped
  <1>2. \A s \in Seq(made) : ToSet(s) = {s[k] : k \in 1 .. Len(s)}
    BY DEF ToSet
  <1>3. CASE e \notin ToSet(queue)
    <2>1. queue # <<>> => queue[1] # e
      BY <1>1, <1>2, <1>3
    <2>2. queue' = queue
      BY <1>3 DEF Delivered
    <2> QED
      BY <1>1, <2>1, <2>2
  <1>4. CASE e \in ToSet(queue)
    <2> DEFINE at == CHOOSE i \in DOMAIN queue : queue[i] = e
    <2>1. at \in 1 .. Len(queue) /\ queue[at] = e
      BY <1>1, <1>2, <1>4
    <2>2. queue' = RemoveAt(queue, at)
      BY <1>4 DEF Delivered
    <2> HIDE DEF at
    <2>7. Len(queue) \in Nat /\ at \in Nat /\ at <= Len(queue) /\ at >= 1
      BY <1>1, <2>1
    <2>3. /\ queue' \in Seq(made) /\ Len(queue') = Len(queue) - 1
          /\ \A j \in 1 .. Len(queue) - 1 : queue'[j] = IF j < at THEN queue[j] ELSE queue[j + 1]
      <3>1. queue \in Seq(made) /\ at \in 1 .. Len(queue)
        BY <1>1, <2>1
      <3>2. /\ RemoveAt(queue, at) \in Seq(made)
            /\ Len(RemoveAt(queue, at)) = Len(queue) - 1
            /\ \A j \in 1 .. Len(queue) - 1 :
                 RemoveAt(queue, at)[j] = IF j < at THEN queue[j] ELSE queue[j + 1]
        BY <3>1, Removed
      <3> QED
        BY <2>2, <3>2
    <2>4. ASSUME NEW i \in 1 .. Len(queue'), NEW j \in 1 .. Len(queue'), queue'[i] = queue'[j]
          PROVE  i = j
      <3> DEFINE Was(k) == IF k < at THEN k ELSE k + 1
      <3>1. \A k \in 1 .. Len(queue') : Was(k) \in 1 .. Len(queue) /\ queue'[k] = queue[Was(k)]
        BY <2>3, <2>7
      <3>2. Was(i) = Was(j)
        BY <1>1, <2>4, <3>1
      <3> QED
        BY <2>3, <2>7, <3>2
    <2>5. ASSUME NEW x \in ToSet(queue), x # e
          PROVE  x \in ToSet(queue')
      <3>1. PICK k \in 1 .. Len(queue) : queue[k] = x
        BY <1>1, <1>2
      <3>2. k # at
        BY <2>1, <2>5, <3>1
      <3>3. CASE k < at
        <4>1. k \in 1 .. Len(queue) - 1
          BY <2>7, <3>3
        <4>2. queue'[k] = x
          BY <2>3, <3>1, <3>3, <4>1
        <4> QED
          BY <1>2, <2>3, <4>1, <4>2
      <3>4. CASE k > at
        <4>1. k - 1 \in 1 .. Len(queue) - 1 /\ ~ (k - 1 < at) /\ (k - 1) + 1 = k
          BY <1>1, <2>1, <3>1, <3>4
        <4>2. queue'[k - 1] = x
          BY <2>3, <3>1, <4>1
        <4> QED
          BY <1>2, <2>3, <4>1, <4>2
      <3> QED
        BY <1>1, <2>1, <3>1, <3>2, <3>3, <3>4
    <2>6. queue[1] = e /\ queue # <<>> => at = 1
      BY <1>1, <2>1
    <2>8. queue # <<>> /\ queue[1] = e =>
            Len(queue') = Len(queue) - 1 /\ \A j \in 1 .. Len(queue') : queue'[j] = queue[j + 1]
      <3>1. \A j \in 1 .. Len(queue) - 1 : ~ (j < 1)
        BY <2>7
      <3> QED
        BY <2>3, <2>6, <3>1
    <2> QED
      BY <2>3, <2>4, <2>5, <2>8
  <1> QED
    BY <1>3, <1>4
-----------------------------------------------------------------------------
(***************************************************************************)
(* An edit made in the app.                                                *)
(***************************************************************************)
LEMMA Fresh ==
  ASSUME OTyped, edits' = edits + 1, NEW h \in Lines, NEW c \in Names
  PROVE  /\ Edit(h, c) \notin made /\ Edit(h, c).hash = h /\ Edit(h, c).category = c
         /\ made \cup {Edit(h, c)} \subseteq [id : 1 .. edits + 1, hash : Lines, category : Names]
  <1>1. made \subseteq [id : 1 .. edits, hash : Lines, category : Names] /\ edits \in Nat
    BY DEF OTyped, EditsMade
  <1>2. Edit(h, c) = [id |-> edits + 1, hash |-> h, category |-> c]
    BY DEF Edit
  <1>3. \A x \in made : x.id # edits + 1
    BY <1>1
  <1>4. Edit(h, c).id = edits + 1
    BY <1>2
  <1>5. Edit(h, c) \in [id : 1 .. edits + 1, hash : Lines, category : Names]
    BY <1>1, <1>2
  <1>6. made \subseteq [id : 1 .. edits + 1, hash : Lines, category : Names]
    BY <1>1
  <1> QED
    BY <1>2, <1>3, <1>4, <1>5, <1>6

\* What became of an edit: it was served, is queued, or both, or was refused.
LEMMA EditMade ==
  ASSUME OTyped, NEW h \in Lines, NEW c \in Names, MakeEdit(h, c)
  PROVE  LET e == Edit(h, c) IN
         /\ edits' = edits + 1 /\ regime.offline /\ regime' = regime /\ UNCHANGED drains
         /\ latest' = [latest EXCEPT ![h] = e] /\ made' = made \cup {e}
         /\ \/ Served(e) \/ (NotServed /\ UNCHANGED <<overrides, decided>>)
         /\ queue' = queue \/ queue' = Append(queue, e)
         /\ \/ e \in served' \/ queue' = Append(queue, e) \/ e \in refused'
         /\ served' = served \cup {e} \/ served' = served
         /\ refused' = refused \cup {e} \/ refused' = refused
         /\ queue' = Append(queue, e) \/ e \in refused' \/ (Served(e) /\ queue' = queue)
         /\ Served(e) => served' # served
         /\ troubled' = (troubled \/ (queue # <<>> /\ served' # served))
  <1> DEFINE e == Edit(h, c)
  <1>1. /\ edits' = edits + 1 /\ regime.offline /\ UNCHANGED drains
        /\ latest' = [latest EXCEPT ![h] = e] /\ made' = made \cup {e}
        /\ troubled' = (troubled \/ (queue # <<>> /\ served' # served))
    BY DEF MakeEdit, Edited
  <1>2. \/ Served(e) /\ queue' = queue /\ refused' = refused
        \/ Served(e) /\ queue' = Append(queue, e) /\ refused' = refused
        \/ NotServed /\ queue' = Append(queue, e) /\ refused' = refused
        \/ NotServed /\ refused' = refused \cup {e} /\ queue' = queue
    BY DEF MakeEdit, Enqueue
  <1>3. e \notin served
    BY <1>1, Fresh DEF OTyped
  <1>4. Served(e) => served' = served \cup {e} /\ UNCHANGED regime
    BY DEF Served
  <1>5. NotServed => UNCHANGED <<overrides, decided, served, regime>>
    BY DEF NotServed, tables, history
  <1> HIDE DEF e
  <1>6. Served(e) => served' # served
    BY <1>3, <1>4
  <1> QED
    BY <1>1, <1>2, <1>4, <1>5, <1>6 DEF e

LEMMA MakeTyped ==
  ASSUME OTyped, NEW h \in Lines, NEW c \in Names, MakeEdit(h, c)
  PROVE  OTyped'
  <1> DEFINE e == Edit(h, c)
  <1>1. /\ edits' = edits + 1 /\ regime.offline /\ regime' = regime /\ drains' = drains
        /\ latest' = [latest EXCEPT ![h] = e] /\ made' = made \cup {e}
        /\ queue' = queue \/ queue' = Append(queue, e)
        /\ served' = served \cup {e} \/ served' = served
        /\ troubled' = (troubled \/ (queue # <<>> /\ served' # served))
    BY EditMade
  <1>2. e \notin made /\ e.hash = h /\ made' \subseteq [id : 1 .. edits + 1, hash : Lines, category : Names]
    BY <1>1, Fresh
  <1>3. /\ edits \in Nat /\ served \subseteq made /\ queue \in Seq(made)
        /\ \A i, j \in 1 .. Len(queue) : queue[i] = queue[j] => i = j
        /\ drains \in [Drains -> Seq(made)] /\ latest \in [Lines -> made \cup {None}]
        /\ \A g \in Lines : latest[g] # None => latest[g].hash = g
    BY DEF OTyped
  <1> HIDE DEF e
  <1>4. decided' = overrides'
    <2>1. CASE Served(Edit(h, c))
      BY <2>1, Relabelled DEF Served
    <2>2. CASE UNCHANGED <<overrides, decided>>
      BY <2>2 DEF OTyped
    <2> QED
      BY <2>1, <2>2, EditMade
  <1>5. made \subseteq made'
    BY <1>1
  <1>6. queue \in Seq(made') /\ drains' \in [Drains -> Seq(made')]
    BY <1>1, <1>3, <1>5
  <1>7. /\ queue' \in Seq(made')
        /\ \A i, j \in 1 .. Len(queue') : queue'[i] = queue'[j] => i = j
    <2>1. CASE queue' = queue
      BY <1>3, <1>6, <2>1
    <2>2. CASE queue' = Append(queue, e)
      <3>1. e \in made' /\ Len(queue) \in Nat
        BY <1>1, <1>3
      <3>2. /\ queue' \in Seq(made') /\ Len(queue') = Len(queue) + 1
            /\ queue'[Len(queue) + 1] = e
            /\ \A i \in 1 .. Len(queue) : queue'[i] = queue[i]
        BY <1>6, <2>2, <3>1, Queued
      <3>3. \A i \in 1 .. Len(queue) : queue[i] # e
        BY <1>2, <1>3
      <3>4. \A i \in 1 .. Len(queue') : i = Len(queue) + 1 \/ i \in 1 .. Len(queue)
        BY <3>1, <3>2
      <3> QED
        BY <1>3, <3>2, <3>3, <3>4
    <2> QED
      BY <1>1, <2>1, <2>2
  <1>8. /\ latest' \in [Lines -> made' \cup {None}]
        /\ \A g \in Lines : latest'[g] # None => latest'[g].hash = g
    BY <1>1, <1>2, <1>3
  <1>9. troubled' \in BOOLEAN
    BY <1>1
  <1>10. edits' \in Nat /\ made' \subseteq EditsMade' /\ served' \subseteq made'
    BY <1>1, <1>2, <1>3 DEF EditsMade
  <1> QED
    BY <1>1, <1>4, <1>6, <1>7, <1>8, <1>9, <1>10 DEF OTyped

LEMMA MakeKept ==
  ASSUME OTyped, NoEditLost, NEW h \in Lines, NEW c \in Names, MakeEdit(h, c)
  PROVE  NoEditLost'
  <1> DEFINE e == Edit(h, c)
  <1>1. /\ made' = made \cup {e} /\ queue \in Seq(made)
        /\ e \in served' \/ queue' = Append(queue, e) \/ e \in refused'
        /\ queue' = queue \/ queue' = Append(queue, e)
        /\ served \subseteq served' /\ refused \subseteq refused'
    BY EditMade DEF OTyped
  <1> HIDE DEF e
  <1>2. queue' = Append(queue, e) => ToSet(queue') = ToSet(queue) \cup {e}
    <2>1. ASSUME NEW S, NEW s \in Seq(S), NEW x
          PROVE  ToSet(Append(s, x)) = ToSet(s) \cup {x}
      <3>1. DOMAIN Append(s, x) = 1 .. Len(s) + 1 /\ DOMAIN s = 1 .. Len(s) /\ Len(s) \in Nat
        OBVIOUS
      <3>2. Append(s, x)[Len(s) + 1] = x /\ \A i \in 1 .. Len(s) : Append(s, x)[i] = s[i]
        OBVIOUS
      <3>3. \A i \in 1 .. Len(s) + 1 : i = Len(s) + 1 \/ i \in 1 .. Len(s)
        BY <3>1
      <3>4. Len(s) + 1 \in 1 .. Len(s) + 1 /\ 1 .. Len(s) \subseteq 1 .. Len(s) + 1
        BY <3>1
      <3> QED
        BY <3>1, <3>2, <3>3, <3>4 DEF ToSet
    <2> QED
      BY <1>1, <2>1
  <1> QED
    BY <1>1, <1>2 DEF NoEditLost

LEMMA MakeSteady ==
  ASSUME OTyped, OneDrain, LastOrShown, ~ troubled',
         NEW h \in Lines, NEW c \in Names, MakeEdit(h, c)
  PROVE  OneDrain' /\ LastOrShown'
  <1> DEFINE e == Edit(h, c)
  <1>1. /\ UNCHANGED drains /\ latest' = [latest EXCEPT ![h] = e]
        /\ queue' = queue \/ queue' = Append(queue, e)
        /\ Served(e) \/ UNCHANGED overrides
        /\ Served(e) => queue = <<>>
        /\ queue' = Append(queue, e) \/ e \in refused' \/ (Served(e) /\ queue' = queue)
        /\ refused \subseteq refused'
    BY EditMade
  <1>2. e.hash = h /\ e.category = c /\ e \notin made
    BY EditMade, Fresh
  <1>3. /\ queue \in Seq(made) /\ Len(queue) \in Nat
        /\ drains \in [Drains -> Seq(made)] /\ latest \in [Lines -> made \cup {None}]
    BY DEF OTyped
  <1>4. Served(e) => overrides'[h] = c
    BY <1>2, Relabelled DEF Served
  <1>5. \A g \in Lines : g # h => overrides'[g] = overrides[g] /\ latest'[g] = latest[g]
    BY <1>1, <1>2, <1>3, Relabelled DEF Served
  <1> HIDE DEF e
  <1>6. /\ \A i \in 1 .. Len(queue) : i \in 1 .. Len(queue') /\ queue'[i] = queue[i]
        /\ \A i \in 1 .. Len(queue') : i \in 1 .. Len(queue) \/ (i = Len(queue) + 1 /\ queue'[i] = e)
        /\ Len(queue') \in {Len(queue), Len(queue) + 1}
        /\ queue' = Append(queue, e) => Len(queue') = Len(queue) + 1 /\ queue'[Len(queue) + 1] = e
    <2>1. CASE queue' = queue
      <3>1. queue # Append(queue, e)
        BY <1>3
      <3> QED
        BY <1>3, <2>1, <3>1
    <2>2. CASE queue' = Append(queue, e)
      <3>1. queue \in Seq(made \cup {e}) /\ e \in made \cup {e}
        BY <1>3
      <3>2. /\ Len(queue') = Len(queue) + 1 /\ queue'[Len(queue) + 1] = e
            /\ \A i \in 1 .. Len(queue) : queue'[i] = queue[i]
        BY <2>2, <3>1, Queued
      <3> QED
        BY <1>3, <3>2
    <2> QED
      BY <1>1, <2>1, <2>2
  <1>7. OneDrain'
    BY <1>1, <1>3, <1>6 DEF OneDrain
  <1>8. ASSUME NEW g \in Lines, latest'[g] # None, latest'[g] \notin refused'
        PROVE  LastWaits(g)' \/ (NoneWaits(g)' /\ overrides'[g] = latest'[g].category)
    <2>1. CASE g # h
      <3>1. latest[g] # None /\ latest[g] \notin refused
        BY <1>1, <1>5, <1>8, <2>1
      <3>2. CASE LastWaits(g)
        BY <1>2, <1>5, <1>6, <2>1, <3>2 DEF LastWaits
      <3>3. CASE NoneWaits(g) /\ overrides[g] = latest[g].category
        BY <1>2, <1>5, <1>6, <2>1, <3>3 DEF NoneWaits
      <3> QED
        BY <3>1, <3>2, <3>3 DEF LastOrShown
    <2>2. CASE g = h
      <3>1. latest'[g] = e
        BY <1>1, <1>3, <2>2
      <3>2. CASE queue' = Append(queue, e)
        <4>1. Len(queue) + 1 \in 1 .. Len(queue') /\ \A j \in 1 .. Len(queue') : ~ (j > Len(queue) + 1)
          BY <1>3, <1>6, <3>2
        <4> QED
          BY <1>6, <3>1, <3>2, <4>1 DEF LastWaits
      <3>3. CASE Served(e) /\ queue' = queue
        <4>1. 1 .. Len(queue') = {}
          BY <1>1, <3>3
        <4> QED
          BY <1>2, <1>4, <2>2, <3>1, <3>3, <4>1 DEF NoneWaits
      <3> QED
        BY <1>1, <1>8, <3>1, <3>2, <3>3
    <2> QED
      BY <2>1, <2>2
  <1> QED
    BY <1>7, <1>8 DEF LastOrShown
-----------------------------------------------------------------------------
(***************************************************************************)
(* One round of a drain.                                                   *)
(***************************************************************************)
LEMMA Replayed ==
  ASSUME OTyped, NEW d \in Drains, Replay(d)
  PROVE  LET e == Head(drains[d]) IN
         /\ drains[d] # <<>> /\ e = drains[d][1] /\ e \in made
         /\ drains' = [drains EXCEPT ![d] = Tail(drains[d])]
         /\ UNCHANGED <<edits, regime, online, latest, made, refused>>
         /\ served' \in {served, served \cup {e}}
         /\ \/ Served(e) /\ Delivered(e) /\ e \in served' /\ troubled' = troubled
            \/ Served(e) /\ queue' = queue /\ troubled' = TRUE
            \/ UNCHANGED <<overrides, decided>> /\ queue' = queue /\ troubled' = TRUE
  <1> DEFINE e == Head(drains[d])
  <1>1. /\ drains[d] # <<>> /\ drains' = [drains EXCEPT ![d] = Tail(drains[d])]
        /\ UNCHANGED <<edits, online, latest, made, refused>>
        /\ \/ Served(e) /\ Delivered(e) /\ troubled' = troubled
           \/ Served(e) /\ queue' = queue /\ troubled' = TRUE
           \/ NotServed /\ queue' = queue /\ troubled' = TRUE
    BY DEF Replay
  <1>2. drains[d] \in Seq(made)
    BY DEF OTyped
  <1>3. e = drains[d][1] /\ e \in made
    BY <1>1, <1>2
  <1> HIDE DEF e
  <1>4. Served(e) => served' = served \cup {e} /\ regime' = regime
    BY DEF Served
  <1>5. NotServed => served' = served /\ regime' = regime /\ UNCHANGED <<overrides, decided>>
    BY DEF NotServed, tables, history
  <1>6. e \in served \cup {e}
    OBVIOUS
  <1> QED
    BY <1>1, <1>3, <1>4, <1>5, <1>6 DEF e

LEMMA ReplayTyped ==
  ASSUME OTyped, NEW d \in Drains, Replay(d)
  PROVE  OTyped'
  <1> DEFINE e == Head(drains[d])
  <1>1. /\ drains[d] # <<>> /\ e \in made
        /\ drains' = [drains EXCEPT ![d] = Tail(drains[d])]
        /\ UNCHANGED <<edits, regime, latest, made>>
        /\ served' \in {served, served \cup {e}}
        /\ \/ Served(e) /\ Delivered(e) /\ troubled' = troubled
           \/ Served(e) /\ queue' = queue /\ troubled' = TRUE
           \/ UNCHANGED <<overrides, decided>> /\ queue' = queue /\ troubled' = TRUE
    BY Replayed
  <1> HIDE DEF e
  <1>2. /\ edits \in Nat /\ troubled \in BOOLEAN /\ decided = overrides
        /\ made \subseteq EditsMade /\ served \subseteq made /\ queue \in Seq(made)
        /\ \A i, j \in 1 .. Len(queue) : queue[i] = queue[j] => i = j
        /\ drains \in [Drains -> Seq(made)] /\ latest \in [Lines -> made \cup {None}]
        /\ \A h \in Lines : latest[h] # None => latest[h].hash = h
        /\ ~ regime.offline => made = {}
    BY DEF OTyped
  <1>3. decided' = overrides'
    <2>1. CASE Served(e)
      BY <2>1, Relabelled DEF Served
    <2>2. CASE UNCHANGED <<overrides, decided>>
      BY <2>2, <1>2
    <2> QED
      BY <1>1, <2>1, <2>2
  <1>4. queue' \in Seq(made) /\ \A i, j \in 1 .. Len(queue') : queue'[i] = queue'[j] => i = j
    <2>1. CASE Delivered(e)
      BY <1>1, <2>1, DeliveredLeaves
    <2>2. CASE queue' = queue
      BY <1>2, <2>2
    <2> QED
      BY <1>1, <2>1, <2>2
  <1>5. drains' \in [Drains -> Seq(made)]
    <2>1. drains[d] \in Seq(made) /\ drains[d] # <<>>
      BY <1>1, <1>2
    <2>2. Tail(drains[d]) \in Seq(made)
      BY <2>1
    <2> QED
      BY <1>1, <1>2, <2>2
  <1>6. troubled' \in BOOLEAN
    BY <1>1, <1>2
  <1>7. served' \subseteq made
    BY <1>1, <1>2
  <1>8. made' = made /\ edits' = edits /\ latest' = latest /\ regime' = regime
    BY <1>1
  <1> QED
    BY <1>2, <1>3, <1>4, <1>5, <1>6, <1>7, <1>8 DEF OTyped, EditsMade

LEMMA ReplayKept ==
  ASSUME OTyped, NoEditLost, NEW d \in Drains, Replay(d)
  PROVE  NoEditLost'
  <1> DEFINE e == Head(drains[d])
  <1>1. /\ e \in made /\ made' = made /\ refused' = refused
        /\ served' \in {served, served \cup {e}}
        /\ (Delivered(e) /\ e \in served') \/ queue' = queue
    BY Replayed
  <1> HIDE DEF e
  <1>2. Delivered(e) => \A x \in ToSet(queue) : x = e \/ x \in ToSet(queue')
    BY <1>1, DeliveredLeaves
  <1> QED
    BY <1>1, <1>2 DEF NoEditLost

\* The one drain sends the first item of the queue, which leaves both.
LEMMA ReplaySteady ==
  ASSUME OTyped, OneDrain, LastOrShown, ~ troubled', NEW d \in Drains, Replay(d)
  PROVE  OneDrain' /\ LastOrShown'
  <1> DEFINE e == Head(drains[d])
  <1>1. /\ drains[d] # <<>> /\ e = drains[d][1] /\ e \in made
        /\ drains' = [drains EXCEPT ![d] = Tail(drains[d])]
        /\ latest' = latest /\ refused' = refused
        /\ Served(e) /\ Delivered(e)
    BY Replayed
  <1>2. /\ made \subseteq EditsMade /\ queue \in Seq(made)
        /\ \A i, j \in 1 .. Len(queue) : queue[i] = queue[j] => i = j
        /\ drains \in [Drains -> Seq(made)] /\ latest \in [Lines -> made \cup {None}]
        /\ \A h \in Lines : latest[h] # None => latest[h].hash = h
    BY DEF OTyped
  <1> HIDE DEF e
  <1>3. drains[d] \in Seq(made) /\ Len(drains[d]) \in Nat /\ Len(drains[d]) > 0 /\ Len(queue) \in Nat
    BY <1>1, <1>2
  <1>4. queue # <<>> /\ queue[1] = e /\ Len(queue) > 0
    <2>1. Len(drains[d]) <= Len(queue) /\ 1 \in 1 .. Len(drains[d])
      BY <1>3 DEF OneDrain
    <2>2. drains[d][1] = queue[1]
      BY <2>1 DEF OneDrain
    <2> QED
      BY <1>1, <1>2, <1>3, <2>1, <2>2
  <1>5. Len(queue') = Len(queue) - 1 /\ \A j \in 1 .. Len(queue') : queue'[j] = queue[j + 1]
    BY <1>1, <1>4, DeliveredLeaves
  <1>6. /\ Len(Tail(drains[d])) = Len(drains[d]) - 1
        /\ \A j \in 1 .. Len(drains[d]) - 1 : Tail(drains[d])[j] = drains[d][j + 1]
    BY <1>1, <1>3
  <1>7. OneDrain'
    <2>1. \A f \in Drains : f # d => drains[f] = <<>> /\ drains'[f] = <<>>
      BY <1>1, <1>2 DEF OneDrain
    <2>2. drains'[d] = Tail(drains[d])
      BY <1>1, <1>2
    <2>3. Len(drains'[d]) <= Len(queue') /\ \A j \in 1 .. Len(drains'[d]) : drains'[d][j] = queue'[j]
      <3>1. Len(drains[d]) <= Len(queue) /\ \A j \in 1 .. Len(drains[d]) : drains[d][j] = queue[j]
        BY DEF OneDrain
      <3>2. Len(drains'[d]) = Len(drains[d]) - 1 /\ Len(drains'[d]) <= Len(queue')
        BY <1>3, <1>5, <1>6, <2>2, <3>1
      <3>3. ASSUME NEW j \in 1 .. Len(drains'[d])
            PROVE  drains'[d][j] = queue'[j]
        <4>1. j \in 1 .. Len(drains[d]) - 1 /\ j + 1 \in 1 .. Len(drains[d]) /\ j \in 1 .. Len(queue')
          BY <1>3, <1>5, <3>1, <3>2, <3>3
        <4> QED
          BY <1>5, <1>6, <2>2, <3>1, <4>1
      <3> QED
        BY <3>2, <3>3
    <2>4. \A f \in Drains : f # d => Len(drains'[f]) <= Len(queue') /\ 1 .. Len(drains'[f]) = {}
      <3>1. Len(queue') >= 0
        BY <1>3, <1>4, <1>5
      <3>2. \A f \in Drains : f # d => Len(drains'[f]) = 0
        BY <2>1
      <3> QED
        BY <3>1, <3>2
    <2>5. \A f, g \in Drains : drains'[f] # <<>> /\ drains'[g] # <<>> => f = g
      BY <2>1
    <2>6. ASSUME NEW f \in Drains
          PROVE  /\ Len(drains'[f]) <= Len(queue')
                 /\ \A j \in 1 .. Len(drains'[f]) : drains'[f][j] = queue'[j]
      <3>1. CASE f = d
        BY <2>3, <3>1
      <3>2. CASE f # d
        BY <2>4, <3>2
      <3> QED
        BY <3>1, <3>2
    <2> QED
      BY <2>5, <2>6 DEF OneDrain
  <1>8. ASSUME NEW h \in Lines, latest[h] # None, latest[h] \notin refused
        PROVE  LastWaits(h)' \/ (NoneWaits(h)' /\ overrides'[h] = latest[h].category)
    <2>1. overrides'[h] = IF h \in {e.hash} THEN e.category ELSE overrides[h]
      BY <1>1, Relabelled DEF Served
    <2>2. ASSUME NEW j \in 1 .. Len(queue')
          PROVE  j + 1 \in 1 .. Len(queue) /\ queue'[j] = queue[j + 1]
      BY <1>3, <1>5
    <2>3. CASE LastWaits(h)
      <3>1. PICK i \in 1 .. Len(queue) :
               /\ queue[i] = latest[h]
               /\ \A j \in 1 .. Len(queue) : j > i => queue[j].hash # h
        BY <2>3 DEF LastWaits
      <3>2. CASE i = 1
        <4>1. \A j \in 1 .. Len(queue') : j + 1 > 1
          BY <1>3, <1>5
        <4>2. NoneWaits(h)'
          BY <2>2, <3>1, <3>2, <4>1 DEF NoneWaits
        <4>3. e = latest[h] /\ e.hash = h
          BY <1>2, <1>4, <1>8, <3>1, <3>2
        <4> QED
          BY <2>1, <4>2, <4>3
      <3>3. CASE i # 1
        <4>1. i - 1 \in 1 .. Len(queue') /\ (i - 1) + 1 = i
          BY <1>3, <1>5, <3>3
        <4>2. queue'[i - 1] = latest'[h]
          BY <1>1, <1>5, <3>1, <4>1
        <4>3. ASSUME NEW j \in 1 .. Len(queue'), j > i - 1
              PROVE  queue'[j].hash # h
          <5>1. j + 1 > i
            BY <1>3, <1>5, <4>3
          <5> QED
            BY <2>2, <3>1, <5>1
        <4> QED
          BY <4>1, <4>2, <4>3 DEF LastWaits
      <3> QED
        BY <3>2, <3>3
    <2>4. CASE NoneWaits(h) /\ overrides[h] = latest[h].category
      <3>1. 1 \in 1 .. Len(queue)
        BY <1>3, <1>4
      <3>2. e.hash # h
        BY <1>4, <2>4, <3>1 DEF NoneWaits
      <3>3. NoneWaits(h)'
        BY <2>2, <2>4 DEF NoneWaits
      <3> QED
        BY <2>1, <2>4, <3>2, <3>3
    <2> QED
      BY <1>8, <2>3, <2>4 DEF LastOrShown
  <1> QED
    BY <1>1, <1>7, <1>8 DEF LastOrShown
-----------------------------------------------------------------------------
(***************************************************************************)
(* The other steps, and the theorems.                                      *)
(***************************************************************************)
\* A drain that begins alone has the whole queue to send.
LEMMA ReconnectSteady ==
  ASSUME OTyped, OneDrain, LastOrShown, ~ troubled', NEW d \in Drains, Reconnect(d)
  PROVE  OneDrain' /\ LastOrShown'
  <1>1. /\ drains[d] = <<>> /\ drains' = [drains EXCEPT ![d] = queue]
        /\ UNCHANGED <<overrides, queue, latest, refused>>
        /\ ~ Draining \/ queue = <<>>
    BY DEF Reconnect, tvars, tables
  <1>2. queue \in Seq(made) /\ Len(queue) \in Nat /\ drains \in [Drains -> Seq(made)]
    BY DEF OTyped
  <1>3. OneDrain'
    <2>1. CASE queue = <<>>
      <3>1. drains' = drains
        BY <1>1, <1>2, <2>1
      <3> QED
        BY <1>1, <3>1 DEF OneDrain
    <2>2. CASE ~ Draining
      <3>1. drains'[d] = queue /\ \A f \in Drains : f # d => drains'[f] = <<>>
        BY <1>1, <1>2, <2>2 DEF Draining
      <3>2. ASSUME NEW f \in Drains
            PROVE  /\ Len(drains'[f]) <= Len(queue)
                   /\ \A j \in 1 .. Len(drains'[f]) : drains'[f][j] = queue[j]
        <4>1. CASE f = d
          BY <1>2, <3>1, <4>1
        <4>2. CASE f # d
          <5>1. Len(drains'[f]) = 0
            BY <3>1, <4>2
          <5> QED
            BY <1>2, <5>1
        <4> QED
          BY <4>1, <4>2
      <3> QED
        BY <1>1, <3>1, <3>2 DEF OneDrain
    <2> QED
      BY <1>1, <2>1, <2>2
  <1>4. LastOrShown'
    BY <1>1 DEF LastOrShown, LastWaits, NoneWaits
  <1> QED
    BY <1>3, <1>4

\* The server's own steps touch no row that was edited in the app.
LEMMA ServerKeeps ==
  ASSUME OInv, Server
  PROVE  OInv'
  <1>1. /\ decided' = overrides' /\ edits' \in {edits, edits + 1}
        /\ UNCHANGED <<ovars, regime>>
        /\ regime.offline => UNCHANGED overrides
    BY ServerStep DEF OInv
  <1>2. /\ made \subseteq EditsMade /\ edits \in Nat /\ latest \in [Lines -> made \cup {None}]
        /\ ~ regime.offline => made = {}
    BY DEF OInv, OTyped
  <1>3. edits' \in Nat /\ made \subseteq EditsMade'
    BY <1>1, <1>2 DEF EditsMade
  <1>4. UNCHANGED <<queue, drains, latest, made, served, refused, troubled, regime>>
    BY <1>1 DEF ovars
  <1>5. OTyped'
    BY <1>1, <1>3, <1>4 DEF OInv, OTyped
  <1>6. NoEditLost'
    BY <1>4 DEF OInv, NoEditLost
  <1>7. OneDrain => OneDrain'
    BY <1>4 DEF OneDrain
  <1>8. LastOrShown => LastOrShown'
    <2>1. CASE regime.offline
      BY <1>1, <1>4, <2>1 DEF LastOrShown, LastWaits, NoneWaits
    <2>2. CASE ~ regime.offline
      <3>1. \A h \in Lines : latest[h] = None
        BY <1>2, <2>2
      <3> QED
        BY <1>4, <3>1 DEF LastOrShown
    <2> QED
      BY <2>1, <2>2
  <1> QED
    BY <1>4, <1>5, <1>6, <1>7, <1>8 DEF OInv

LEMMA ONextInductive == OInv /\ [ONext]_<<tvars, ovars>> => OInv'
  <1> SUFFICES ASSUME OInv, [ONext]_<<tvars, ovars>> PROVE OInv'
    OBVIOUS
  <1>1. ASSUME NEW h \in Lines, NEW c \in Names, MakeEdit(h, c)
        PROVE  OInv'
    <2>1. ~ troubled' => ~ troubled
      BY <1>1 DEF MakeEdit
    <2> QED
      BY <1>1, <2>1, MakeTyped, MakeKept, MakeSteady DEF OInv
  <1>2. ASSUME NEW d \in Drains, Replay(d)
        PROVE  OInv'
    <2>1. ~ troubled' => ~ troubled
      BY <1>2, Replayed DEF OInv
    <2> QED
      BY <1>2, <2>1, ReplayTyped, ReplayKept, ReplaySteady DEF OInv
  <1>3. ASSUME NEW d \in Drains, Reconnect(d)
        PROVE  OInv'
    <2>1. /\ drains' = [drains EXCEPT ![d] = queue]
          /\ UNCHANGED <<overrides, decided, edits, regime, queue, latest, made, served, refused>>
          /\ ~ troubled' => ~ troubled
      BY <1>3 DEF Reconnect, tvars, tables, history, counters
    <2>2. drains' \in [Drains -> Seq(made)]
      BY <2>1 DEF OInv, OTyped
    <2>3. troubled' \in BOOLEAN
      BY <1>3 DEF Reconnect
    <2>4. OTyped'
      BY <2>1, <2>2, <2>3 DEF OInv, OTyped, EditsMade
    <2>5. NoEditLost'
      BY <2>1 DEF OInv, NoEditLost
    <2> QED
      BY <1>3, <2>1, <2>4, <2>5, ReconnectSteady DEF OInv
  <1>4. CASE LoseConnection \/ UNCHANGED <<tvars, ovars>>
    <2>1. UNCHANGED <<overrides, decided, edits, regime, queue, drains, latest, made, served,
                      refused, troubled>>
      BY <1>4 DEF LoseConnection, tvars, ovars, tables, history, counters
    <2>2. OTyped'
      BY <2>1 DEF OInv, OTyped, EditsMade
    <2>3. NoEditLost'
      BY <2>1 DEF OInv, NoEditLost
    <2>4. OneDrain => OneDrain'
      BY <2>1 DEF OneDrain
    <2>5. LastOrShown => LastOrShown'
      BY <2>1 DEF LastOrShown, LastWaits, NoneWaits
    <2> QED
      BY <2>1, <2>2, <2>3, <2>4, <2>5 DEF OInv
  <1> QED
    BY <1>1, <1>2, <1>3, <1>4, ServerKeeps DEF ONext, Client

(***************************************************************************)
(* What the operator decided about a row is what is shown of it, through   *)
(* imports, sweeps, renames, edits that overlap, and edits that wait in    *)
(* the app for a connection.                                               *)
(***************************************************************************)
THEOREM OperatorWordAlwaysStands == OSpec => []OperatorWordStands
  <1>1. OInv => OperatorWordStands
    BY DEF OInv, OTyped, OperatorWordStands, Resolved
  <1> QED
    BY <1>1, OInitInductive, ONextInductive, PTL DEF OSpec

(***************************************************************************)
(* No edit made in the app is lost, whatever requests and answers are, and *)
(* while every drain finds the connection working and the queue to itself, *)
(* the last edit of each row is the one the ledger shows.                  *)
(***************************************************************************)
THEOREM EditsAlwaysArrive == OSpec => []EditsArrive
  <1>1. ASSUME OInv PROVE LastEditWins
    <2> SUFFICES ASSUME ~ troubled, queue = <<>>, NEW h \in Lines,
                        latest[h] # None, latest[h] \notin refused
                 PROVE  Resolved(h) = latest[h].category
      BY DEF LastEditWins
    <2>1. ~ LastWaits(h)
      BY DEF LastWaits
    <2>2. overrides[h] = latest[h].category
      BY <1>1, <2>1 DEF OInv, LastOrShown
    <2>3. latest[h] \in EditsMade
      BY <1>1 DEF OInv, OTyped
    <2>4. latest[h].category \in Names
      BY <2>3 DEF EditsMade
    <2> QED
      BY <2>2, <2>4, NamesAssumption DEF Resolved
  <1>2. OInv => EditsArrive
    BY <1>1 DEF OInv, EditsArrive
  <1> QED
    BY <1>2, OInitInductive, ONextInductive, PTL DEF OSpec
-----------------------------------------------------------------------------
(***************************************************************************)
(* The ledger is whole.  First the order in which aliases are tried: among *)
(* those that match there is a first one, so what is found is the category *)
(* of an alias.                                                            *)
(***************************************************************************)
LEMMA LeastNumber ==
  ASSUME NEW S \in SUBSET Nat, S # {}
  PROVE  \E m \in S : \A n \in S : m <= n
  <1> DEFINE sets == {0 .. i : i \in S}
  <1>1. \A i \in S : 0 .. i \in SUBSET Nat /\ IsFiniteSet(0 .. i)
    BY FS_Interval
  <1>2. sets \subseteq FiniteSubsetsOf(Nat) /\ sets # {}
    BY <1>1 DEF FiniteSubsetsOf
  <1>3. PICK x \in sets : \A y \in sets : ~ (<<y, x>> \in StrictSubsetOrdering(Nat))
    <2>1. IsWellFoundedOn(StrictSubsetOrdering(Nat), FiniteSubsetsOf(Nat))
      BY FS_StrictSubsetOrderingWellFounded
    <2> HIDE DEF sets
    <2> QED
      BY <1>2, <2>1, WFMin
  <1>4. PICK m \in S : x = 0 .. m
    BY <1>3
  <1>5. ASSUME NEW n \in S, n < m
        PROVE  FALSE
    <2>1. 0 .. n \subseteq 0 .. m /\ m \in 0 .. m /\ m \notin 0 .. n
      BY <1>5
    <2>2. <<0 .. n, 0 .. m>> \in StrictSubsetOrdering(Nat)
      BY <1>1, <2>1 DEF StrictSubsetOrdering
    <2> QED
      BY <1>3, <1>4, <2>2
  <1> QED
    BY <1>5

\* A total order on places has a first place in every set of them.
LEMMA FirstPlace ==
  ASSUME NEW n \in Nat, NEW S \in SUBSET (1 .. n), S # {}, NEW R,
         \A x, y, z \in S : <<x, y>> \in R /\ <<y, z>> \in R => <<x, z>> \in R,
         \A x, y \in S : x = y \/ <<x, y>> \in R \/ <<y, x>> \in R
  PROVE  \E x \in S : \A y \in S \ {x} : <<x, y>> \in R
  <1> DEFINE Least(T, x) == \A y \in T \ {x} : <<x, y>> \in R
             bad == {k \in 0 .. n : \E T \in SUBSET (S \cap (1 .. k)) :
                                      T # {} /\ ~ \E x \in T : Least(T, x)}
  <1>1. bad = {}
    <2> SUFFICES ASSUME bad # {} PROVE FALSE
      OBVIOUS
    <2>1. PICK m \in bad : \A k \in bad : m <= k
      <3>1. bad \in SUBSET Nat
        OBVIOUS
      <3> HIDE DEF bad
      <3> QED
        BY <3>1, LeastNumber
    <2>2. PICK T \in SUBSET (S \cap (1 .. m)) : T # {} /\ ~ \E x \in T : Least(T, x)
      BY <2>1
    <2>3. m \in 1 .. n /\ m - 1 \in 0 .. n /\ m - 1 \notin bad
      <3>1. m \in 0 .. n
        BY <2>1
      <3>2. m # 0
        <4>1. m = 0 => 1 .. m = {}
          BY <3>1
        <4> HIDE DEF bad
        <4> QED
          BY <2>2, <4>1
      <3> HIDE DEF bad
      <3>3. m - 1 \notin bad
        BY <2>1, <3>1
      <3> QED
        BY <3>1, <3>2, <3>3
    <2>4. T \ {m} \in SUBSET (S \cap (1 .. (m - 1)))
      BY <2>3
    <2>5. CASE T \ {m} = {}
      BY <2>2, <2>5
    <2>6. CASE T \ {m} # {}
      <3>1. PICK x \in T \ {m} : Least(T \ {m}, x)
        BY <2>3, <2>4, <2>6
      <3>2. CASE m \notin T
        BY <2>2, <3>1, <3>2
      <3>3. CASE m \in T
        <4>1. x \in S /\ m \in S /\ x # m
          BY <3>1, <3>3
        <4>2. CASE <<x, m>> \in R
          BY <2>2, <3>1, <4>2
        <4>3. CASE <<m, x>> \in R
          <5>1. Least(T, m)
            BY <3>1, <4>1, <4>3
          <5> QED
            BY <2>2, <3>3, <5>1
        <4> QED
          BY <4>1, <4>2, <4>3
      <3> QED
        BY <3>2, <3>3
    <2> QED
      BY <2>5, <2>6
  <1>2. n \in 0 .. n /\ S \in SUBSET (S \cap (1 .. n))
    OBVIOUS
  <1> QED
    BY <1>1, <1>2

LEMMA RuleFields ==
  ASSUME NEW rs \in Seq(Rule), NEW i \in DOMAIN rs
  PROVE  /\ rs[i].type \in {"exact", "contains", "regex"}
         /\ Layer[rs[i].type] \in Int /\ Length(rs[i]) \in Int
         /\ i \in Int /\ i \in 1 .. Len(rs)
         /\ rs[i].category \in Names
  <1>1. i \in 1 .. Len(rs) /\ rs[i] \in Rule
    OBVIOUS
  <1>2. rs[i].type \in {"exact", "contains", "regex"} /\ rs[i].pattern \in DOMAIN TokensOf
    BY <1>1 DEF Rule, Layer
  <1> QED
    BY <1>1, <1>2, RulesAssumption DEF Rule, Layer, Length

LEMMA AliasFound ==
  ASSUME NEW rs \in Seq(Rule), NEW text, NEW owner
  PROVE  \/ ByAlias(rs, text, owner) = None
         \/ \E i \in DOMAIN rs : ByAlias(rs, text, owner) = rs[i].category
  <1> DEFINE hits == {i \in DOMAIN rs : Applies(rs[i], text, owner)}
             R == {p \in hits \X hits : Ahead(rs, p[1], p[2])}
  <1>1. CASE hits = {}
    BY <1>1 DEF ByAlias
  <1>2. CASE hits # {}
    <2>1. Len(rs) \in Nat /\ hits \in SUBSET (1 .. Len(rs))
      OBVIOUS
    <2>2. \A x, y, z \in hits : <<x, y>> \in R /\ <<y, z>> \in R => <<x, z>> \in R
      <3> SUFFICES ASSUME NEW x \in hits, NEW y \in hits, NEW z \in hits,
                          Ahead(rs, x, y), Ahead(rs, y, z)
                   PROVE  Ahead(rs, x, z)
        OBVIOUS
      <3> HIDE DEF hits
      <3>1. /\ x \in DOMAIN rs /\ y \in DOMAIN rs /\ z \in DOMAIN rs
        BY DEF hits
      <3> DEFINE L(i) == Layer[rs[i].type]
                 N(i) == Length(rs[i])
                 P(i) == Specific(rs[i])
      <3>2. L(x) \in Int /\ L(y) \in Int /\ L(z) \in Int /\ N(x) \in Int /\ N(y) \in Int
            /\ N(z) \in Int /\ x \in Int /\ y \in Int /\ z \in Int
        BY <3>1, RuleFields
      <3>3. \A i, j \in {x, y, z} : rs[i].type = rs[j].type => L(i) = L(j)
        OBVIOUS
      <3> HIDE DEF L, N, P
      <3>4. \A i, j \in {x, y, z} : Ahead(rs, i, j) <=>
              \/ L(i) < L(j)
              \/ /\ rs[i].type = rs[j].type
                 /\ \/ P(i) /\ ~ P(j)
                    \/ (P(i) <=> P(j)) /\ (N(i) > N(j) \/ (N(i) = N(j) /\ i < j))
        BY DEF Ahead, L, N, P
      <3> QED
        BY <3>2, <3>3, <3>4
    <2>3. \A x, y \in hits : x = y \/ <<x, y>> \in R \/ <<y, x>> \in R
      <3> SUFFICES ASSUME NEW x \in hits, NEW y \in hits, x # y
                   PROVE  Ahead(rs, x, y) \/ Ahead(rs, y, x)
        OBVIOUS
      <3>1. x \in DOMAIN rs /\ y \in DOMAIN rs
        OBVIOUS
      <3> HIDE DEF hits
      <3>2. /\ rs[x].type \in {"exact", "contains", "regex"}
            /\ rs[y].type \in {"exact", "contains", "regex"}
            /\ Length(rs[x]) \in Int /\ Length(rs[y]) \in Int /\ x \in Int /\ y \in Int
        BY <3>1, RuleFields
      <3>3. rs[x].type = rs[y].type \/ Layer[rs[x].type] < Layer[rs[y].type]
              \/ Layer[rs[y].type] < Layer[rs[x].type]
        BY <3>2 DEF Layer
      <3> QED
        BY <3>2, <3>3 DEF Ahead
    <2>4. \E x \in hits : \A y \in hits \ {x} : <<x, y>> \in R
      <3> HIDE DEF hits, R
      <3>1. PICK n \in Nat : hits \in SUBSET (1 .. n)
        BY <2>1
      <3> QED
        BY <1>2, <2>2, <2>3, <3>1, FirstPlace
    <2>5. \E i \in hits : \A j \in hits \ {i} : Ahead(rs, i, j)
      BY <2>4
    <2> DEFINE first == CHOOSE i \in hits : \A j \in hits \ {i} : Ahead(rs, i, j)
    <2>6. first \in hits
      <3> HIDE DEF hits
      <3> QED
        BY <2>5
    <2>7. ByAlias(rs, text, owner) = rs[first].category
      BY <1>2 DEF ByAlias
    <2> QED
      BY <2>6, <2>7
  <1> QED
    BY <1>1, <1>2

LEMMA AnyAliasFound ==
  ASSUME NEW rs \in Seq(Rule), NEW text
  PROVE  \/ ByAnyAlias(rs, text) = None
         \/ \E i \in DOMAIN rs : ByAnyAlias(rs, text) = rs[i].category
  <1> DEFINE hits == {i \in DOMAIN rs : text \in Hits[<<rs[i].type, rs[i].pattern>>]}
             Tried(i, j) == \/ Layer[rs[i].type] < Layer[rs[j].type]
                            \/ rs[i].type = rs[j].type /\ i < j
             R == {p \in hits \X hits : Tried(p[1], p[2])}
  <1>1. CASE hits = {}
    BY <1>1 DEF ByAnyAlias
  <1>2. CASE hits # {}
    <2>1. Len(rs) \in Nat /\ hits \in SUBSET (1 .. Len(rs))
      OBVIOUS
    <2>0. \A i \in hits : /\ rs[i].type \in {"exact", "contains", "regex"}
                          /\ Layer[rs[i].type] \in Int /\ i \in Int
      BY RuleFields
    <2>2. \A x, y, z \in hits : <<x, y>> \in R /\ <<y, z>> \in R => <<x, z>> \in R
      <3> SUFFICES ASSUME NEW x \in hits, NEW y \in hits, NEW z \in hits, Tried(x, y), Tried(y, z)
                   PROVE  Tried(x, z)
        OBVIOUS
      <3> HIDE DEF hits
      <3> DEFINE L(i) == Layer[rs[i].type]
      <3>1. L(x) \in Int /\ L(y) \in Int /\ L(z) \in Int /\ x \in Int /\ y \in Int /\ z \in Int
        BY <2>0
      <3>2. \A i, j \in {x, y, z} : rs[i].type = rs[j].type => L(i) = L(j)
        OBVIOUS
      <3>3. \A i, j \in {x, y, z} : Tried(i, j) <=> L(i) < L(j) \/ (rs[i].type = rs[j].type /\ i < j)
        OBVIOUS
      <3> HIDE DEF L, Tried
      <3> QED
        BY <3>1, <3>2, <3>3
    <2>3. \A x, y \in hits : x = y \/ <<x, y>> \in R \/ <<y, x>> \in R
      <3> SUFFICES ASSUME NEW x \in hits, NEW y \in hits, x # y
                   PROVE  Tried(x, y) \/ Tried(y, x)
        OBVIOUS
      <3> HIDE DEF hits
      <3> QED
        BY <2>0 DEF Layer
    <2>4. \E x \in hits : \A y \in hits \ {x} : <<x, y>> \in R
      <3> HIDE DEF hits, R
      <3>1. PICK n \in Nat : hits \in SUBSET (1 .. n)
        BY <2>1
      <3> QED
        BY <1>2, <2>2, <2>3, <3>1, FirstPlace
    <2>5. \E i \in hits : \A j \in hits \ {i} : Tried(i, j)
      BY <2>4
    <2> DEFINE first == CHOOSE i \in hits : \A j \in hits \ {i} : Tried(i, j)
    <2>6. first \in hits
      <3> HIDE DEF hits, Tried
      <3> QED
        BY <2>5
    <2>7. ByAnyAlias(rs, text) = rs[first].category
      BY <1>2 DEF ByAnyAlias
    <2> QED
      BY <2>6, <2>7
  <1> QED
    BY <1>1, <1>2
-----------------------------------------------------------------------------
(***************************************************************************)
(* The loop of an import: what holds after each round.                     *)
(***************************************************************************)
LEMMA Rounds ==
  ASSUME NEW q, NEW n \in Nat
  PROVE  \E f : f = [i \in 0 .. n |-> IF i = 0 THEN Nothing(q) ELSE Place(q, f[i - 1], q.sheet[i])]
  <1> DEFINE Rec(f, k) == f = [i \in 0 .. k |-> IF i = 0 THEN Nothing(q)
                                                ELSE Place(q, f[i - 1], q.sheet[i])]
             bad == {k \in Nat : ~ \E f : Rec(f, k)}
  <1>1. bad = {}
    <2> SUFFICES ASSUME bad # {} PROVE FALSE
      OBVIOUS
    <2>1. PICK m \in bad : \A k \in bad : m <= k
      <3>1. bad \in SUBSET Nat
        OBVIOUS
      <3> HIDE DEF bad
      <3> QED
        BY <3>1, LeastNumber
    <2>2. m \in Nat /\ ~ \E f : Rec(f, m)
      BY <2>1
    <2>3. CASE m = 0
      <3> DEFINE f == [i \in 0 .. m |-> Nothing(q)]
      <3>1. Rec(f, m)
        BY <2>3
      <3> QED
        BY <2>2, <3>1
    <2>4. CASE m # 0
      <3>1. m - 1 \in Nat
        BY <2>2, <2>4
      <3>2. m - 1 \notin bad
        <4> HIDE DEF bad
        <4> QED
          BY <2>1, <2>2
      <3>3. PICK f : Rec(f, m - 1)
        BY <3>1, <3>2
      <3> DEFINE g == [i \in 0 .. m |-> IF i = m THEN Place(q, f[m - 1], q.sheet[m]) ELSE f[i]]
      <3>4. \A i \in 0 .. m : i # m => g[i] = f[i]
        OBVIOUS
      <3>5. \A i \in 0 .. m : g[i] = IF i = 0 THEN Nothing(q) ELSE Place(q, g[i - 1], q.sheet[i])
        <4> SUFFICES ASSUME NEW i \in 0 .. m
                     PROVE  g[i] = IF i = 0 THEN Nothing(q) ELSE Place(q, g[i - 1], q.sheet[i])
          OBVIOUS
        <4>1. i # 0 => g[i - 1] = f[i - 1]
          BY <3>4, <2>2
        <4>2. CASE i = m
          BY <2>2, <2>4, <4>1, <4>2
        <4>3. CASE i # m
          <5>1. i \in 0 .. (m - 1)
            BY <4>3, <2>2
          <5>2. f[i] = IF i = 0 THEN Nothing(q) ELSE Place(q, f[i - 1], q.sheet[i])
            BY <3>3, <5>1
          <5> QED
            BY <3>4, <4>1, <4>3, <5>2
        <4> QED
          BY <4>2, <4>3
      <3>6. Rec(g, m)
        <4>1. g = [i \in 0 .. m |-> g[i]]
          OBVIOUS
        <4> HIDE DEF g
        <4> QED
          BY <3>5, <4>1
      <3> QED
        BY <2>2, <3>6
    <2> QED
      BY <2>3, <2>4
  <1> QED
    BY <1>1

LEMMA PlanRounds ==
  ASSUME NEW q, q.sheet \in Seq(Lines)
  PROVE  \E f : /\ f[0] = Nothing(q) /\ f[Len(q.sheet)] = Planned(q)
                /\ \A i \in 1 .. Len(q.sheet) : f[i] = Place(q, f[i - 1], q.sheet[i])
  <1> DEFINE n == Len(q.sheet)
             f == CHOOSE g : g = [i \in 0 .. n |-> IF i = 0 THEN Nothing(q)
                                                   ELSE Place(q, g[i - 1], q.sheet[i])]
  <1>1. n \in Nat
    OBVIOUS
  <1>2. Planned(q) = f[n]
    BY DEF Planned
  <1>3. f = [i \in 0 .. n |-> IF i = 0 THEN Nothing(q) ELSE Place(q, f[i - 1], q.sheet[i])]
    <2> HIDE DEF n
    <2> QED
      BY <1>1, Rounds
  <1> HIDE DEF n, f
  <1>4. f[0] = Nothing(q)
    BY <1>1, <1>3
  <1>5. \A i \in 1 .. n : f[i] = Place(q, f[i - 1], q.sheet[i])
    BY <1>1, <1>3
  <1> QED
    BY <1>2, <1>4, <1>5 DEF n

Closed(S) == \A v \in Variants : v[1] \in S => v[2] \in S

LEMMA RelatedSelf == \A s : Related(s, s)
  BY DEF Related

LEMMA RelatedJoins == \A s, t, u : Related(s, t) /\ Related(t, u) => Related(s, u)
  BY DEF Related

LEMMA VariantsRelated == \A s, t : <<s, t>> \in Variants => Related(s, t)
  BY DEF Related

LEMMA RelatedBack ==
  ASSUME NEW s \in Texts, NEW t, Related(s, t)
  PROVE  Related(t, s)
  <1> SUFFICES ASSUME NEW S \in SUBSET Texts, t \in S, Closed(S), s \notin S
               PROVE  FALSE
    BY DEF Related, Closed
  <1>1. Closed(Texts \ S)
    <2> SUFFICES ASSUME NEW v \in Variants, v[1] \in Texts \ S PROVE v[2] \in Texts \ S
      BY DEF Closed
    <2>1. v[2] \in Texts /\ <<v[2], v[1]>> \in Variants
      BY VariantsAssumption
    <2>2. v[2] \in S => v[1] \in S
      BY <2>1 DEF Closed
    <2> QED
      BY <2>1, <2>2
  <1> QED
    BY <1>1 DEF Related, Closed

\* What an import has read: rows whose text merges have led to.
Read(rs) ==
  /\ rs \in [Lines -> Row \cup {None}]
  /\ \A h \in Lines : rs[h] # None => Related(rs[h].text, TextOf[h])

Plans == [new : SUBSET Lines, over : SUBSET Lines, merged : [Lines -> Lines \cup {None}],
          text : [Lines -> Texts \cup {None}]]

\* A line has its row, is to be inserted, or was merged.
Found(q, l) ==
  \E h \in Lines : q.rows[h] # None /\ IdentityOf[h] = IdentityOf[l] /\ Related(TextOf[h], TextOf[l])

PlanRight(q, plan, i) ==
  /\ plan \in Plans
  /\ \A l \in plan.new : q.rows[l] = None
  /\ \A l \in plan.over : q.rows[l] # None /\ q.overwrite
  /\ \A h \in Lines : plan.merged[h] # None => q.rows[h] # None
  /\ \A h \in Lines : q.rows[h] # None =>
       /\ plan.text[h] \in Texts /\ Related(plan.text[h], TextOf[h])
       /\ plan.merged[h] # None => plan.text[h] = TextOf[plan.merged[h]]
  /\ \A j \in 1 .. i : Found(q, q.sheet[j]) \/ q.sheet[j] \in plan.new

LEMMA PlaceRight ==
  ASSUME NEW q, q.sheet \in Seq(Lines), Read(q.rows), NEW i \in 1 .. Len(q.sheet),
         NEW plan, PlanRight(q, plan, i - 1)
  PROVE  PlanRight(q, Place(q, plan, q.sheet[i]), i)
  <1> DEFINE l == q.sheet[i]
             to == Place(q, plan, l)
  <1> SUFFICES PlanRight(q, to, i)
    OBVIOUS
  <1>1. l \in Lines /\ TextOf[l] \in Texts /\ plan \in Plans /\ None \notin Lines
    BY NamesAssumption DEF PlanRight, Texts
  <1>2. \A j \in 1 .. i : j = i \/ j \in 1 .. (i - 1)
    OBVIOUS
  <1>3. CASE q.rows[l] # None /\ ~ q.overwrite
    <2>1. to = plan
      BY <1>3 DEF Place
    <2>2. Found(q, l)
      BY <1>1, <1>3, RelatedSelf DEF Found
    <2>3. PlanRight(q, plan, i)
      <3>1. \A j \in 1 .. i : Found(q, q.sheet[j]) \/ q.sheet[j] \in plan.new
        BY <1>2, <2>2 DEF PlanRight
      <3> HIDE DEF l, to
      <3> QED
        BY <3>1 DEF PlanRight
    <2> QED
      BY <2>1, <2>3
  <1>4. CASE q.rows[l] # None /\ q.overwrite
    <2>1. to = [plan EXCEPT !.over = @ \cup {l}]
      BY <1>4 DEF Place
    <2>2. to \in Plans /\ to.new = plan.new /\ to.over = plan.over \cup {l}
          /\ to.merged = plan.merged /\ to.text = plan.text
      <3> HIDE DEF to, l
      <3> QED
        BY <1>1, <2>1 DEF Plans
    <2>3. Found(q, l)
      BY <1>1, <1>4, RelatedSelf DEF Found
    <2>4. \A j \in 1 .. i : Found(q, q.sheet[j]) \/ q.sheet[j] \in to.new
      BY <1>2, <2>2, <2>3 DEF PlanRight
    <2> HIDE DEF to, l
    <2> QED
      BY <1>4, <2>2, <2>4 DEF PlanRight
  <1>5. CASE q.rows[l] = None /\ ~ q.overwrite
             /\ \E h \in Twins(q, l) : Twins(q, l) = {h} /\ Merges(plan.text[h], l)
    <2>1. PICK h \in Twins(q, l) : Twins(q, l) = {h} /\ Merges(plan.text[h], l)
      BY <1>5
    <2>2. h = CHOOSE g \in Twins(q, l) : TRUE
      BY <2>1
    <2>3. to = [plan EXCEPT !.merged[h] = l, !.text[h] = TextOf[l]]
      BY <1>5, <2>2 DEF Place
    <2>4. h \in Lines /\ q.rows[h] # None /\ IdentityOf[h] = IdentityOf[l]
      BY <2>1 DEF Twins
    <2>5. to \in Plans /\ to.new = plan.new /\ to.over = plan.over
          /\ to.merged = [plan.merged EXCEPT ![h] = l] /\ to.text = [plan.text EXCEPT ![h] = TextOf[l]]
      <3> HIDE DEF to, l
      <3> QED
        BY <1>1, <2>3, <2>4 DEF Plans
    <2>6. Related(TextOf[l], TextOf[h]) /\ Related(TextOf[h], TextOf[l])
      <3>1. plan.text[h] \in Texts /\ TextOf[h] \in Texts /\ Related(plan.text[h], TextOf[h])
            /\ <<plan.text[h], TextOf[l]>> \in Variants
        BY <2>1, <2>4 DEF PlanRight, Merges, Texts
      <3>2. Related(plan.text[h], TextOf[l]) /\ Related(TextOf[h], plan.text[h])
        BY <3>1, VariantsRelated, RelatedBack
      <3>3. Related(TextOf[h], TextOf[l])
        BY <3>2, RelatedJoins
      <3> QED
        BY <3>1, <3>3, RelatedBack
    <2>7. Found(q, l)
      BY <2>4, <2>6 DEF Found
    <2> HIDE DEF to, l
    <2>8. \A g \in Lines : to.merged[g] # None => q.rows[g] # None
      BY <1>1, <2>4, <2>5 DEF PlanRight, Plans
    <2>9. \A g \in Lines : q.rows[g] # None =>
            /\ to.text[g] \in Texts /\ Related(to.text[g], TextOf[g])
            /\ to.merged[g] # None => to.text[g] = TextOf[to.merged[g]]
      BY <1>1, <2>4, <2>5, <2>6 DEF PlanRight, Plans
    <2>10. \A j \in 1 .. i : Found(q, q.sheet[j]) \/ q.sheet[j] \in to.new
      BY <1>2, <2>5, <2>7 DEF PlanRight, l
    <2> QED
      BY <2>5, <2>8, <2>9, <2>10 DEF PlanRight, l
  <1>6. CASE q.rows[l] = None /\ ~ (~ q.overwrite
             /\ \E h \in Twins(q, l) : Twins(q, l) = {h} /\ Merges(plan.text[h], l))
    <2>1. to = [plan EXCEPT !.new = @ \cup {l}]
      BY <1>6 DEF Place
    <2>2. to \in Plans /\ to.new = plan.new \cup {l} /\ to.over = plan.over
          /\ to.merged = plan.merged /\ to.text = plan.text
      <3> HIDE DEF to, l
      <3> QED
        BY <1>1, <2>1 DEF Plans
    <2>3. \A j \in 1 .. i : Found(q, q.sheet[j]) \/ q.sheet[j] \in to.new
      BY <1>2, <2>2 DEF PlanRight
    <2> HIDE DEF to, l
    <2> QED
      BY <1>6, <2>2, <2>3 DEF PlanRight
  <1> QED
    BY <1>3, <1>4, <1>5, <1>6

LEMMA PlannedRight ==
  ASSUME NEW q, q.sheet \in Seq(Lines), Read(q.rows)
  PROVE  PlanRight(q, Planned(q), Len(q.sheet))
  <1>1. PICK f : /\ f[0] = Nothing(q) /\ f[Len(q.sheet)] = Planned(q)
                 /\ \A i \in 1 .. Len(q.sheet) : f[i] = Place(q, f[i - 1], q.sheet[i])
    BY PlanRounds
  <1> DEFINE bad == {i \in 0 .. Len(q.sheet) : ~ PlanRight(q, f[i], i)}
  <1>2. Len(q.sheet) \in Nat
    OBVIOUS
  <1>3. 0 \notin bad
    <2>1. Nothing(q) \in Plans
      <3>1. [h \in Lines |-> IF q.rows[h] = None THEN None ELSE q.rows[h].text] \in [Lines -> Texts \cup {None}]
        BY DEF Read, Row
      <3>2. [h \in Lines |-> None] \in [Lines -> Lines \cup {None}]
        OBVIOUS
      <3> QED
        BY <3>1, <3>2 DEF Nothing, Plans
    <2>2. Nothing(q).new = {} /\ Nothing(q).over = {}
          /\ \A h \in Lines : /\ Nothing(q).merged[h] = None
                              /\ q.rows[h] # None => Nothing(q).text[h] = q.rows[h].text
      BY DEF Nothing
    <2>3. \A h \in Lines : q.rows[h] # None => q.rows[h].text \in Texts /\ Related(q.rows[h].text, TextOf[h])
      BY DEF Read, Row
    <2>4. PlanRight(q, Nothing(q), 0)
      BY <2>1, <2>2, <2>3 DEF PlanRight
    <2> QED
      BY <1>1, <2>4
  <1>4. bad = {}
    <2> SUFFICES ASSUME bad # {} PROVE FALSE
      OBVIOUS
    <2>1. PICK m \in bad : \A k \in bad : m <= k
      <3>1. bad \in SUBSET Nat
        OBVIOUS
      <3> HIDE DEF bad
      <3> QED
        BY <3>1, LeastNumber
    <2>2. m \in 1 .. Len(q.sheet) /\ m - 1 \in 0 .. Len(q.sheet)
      <3>1. m \in 0 .. Len(q.sheet) /\ m # 0
        BY <1>3, <2>1
      <3> QED
        BY <1>2, <3>1
    <2>3. m - 1 \notin bad
      <3> HIDE DEF bad
      <3> QED
        BY <2>1, <2>2
    <2>4. PlanRight(q, f[m - 1], m - 1)
      BY <2>2, <2>3
    <2>5. PlanRight(q, f[m], m)
      BY <1>1, <2>2, <2>4, PlaceRight
    <2> QED
      BY <2>1, <2>5
  <1>5. PlanRight(q, f[Len(q.sheet)], Len(q.sheet))
    BY <1>2, <1>4
  <1> QED
    BY <1>1, <1>5
-----------------------------------------------------------------------------
(***************************************************************************)
(* The invariant of the ledger.                                            *)
(***************************************************************************)
TablesTyped ==
  /\ rows \in [Lines -> Row \cup {None}] /\ overrides \in [Lines -> Names \cup {None}]
  /\ aliases \in Seq(Rule) /\ Distinct(aliases) /\ categories \subseteq Names
  /\ decided \in [Lines -> Names \cup {None}] /\ imported \subseteq Lines
  /\ regime \in Regimes

\* A row's text and its line's are related, and so are the texts of an
\* imported line and of the line whose row stands for it.
LinesKept ==
  /\ \A h \in Present : Related(rows[h].text, TextOf[h])
  /\ \A l \in imported : \E h \in Present :
       IdentityOf[h] = IdentityOf[l] /\ Related(TextOf[h], TextOf[l])

InUse == categories \cup ReservedNames
NamesInUse ==
  /\ \A h \in Lines : rows[h] # None => rows[h].category \in InUse \cup {None}
  /\ \A h \in Lines : overrides[h] \in InUse \cup {None}
  /\ \A i \in DOMAIN aliases : aliases[i].category \in InUse

\* What a request has read is of the right kind, and the rows are still there.
Importing(q, rs) ==
  /\ q.pc = "import" /\ q.sheet \in Seq(Lines)
  /\ Read(q.rows) /\ \A h \in Lines : q.rows[h] # None => rs[h] # None
  /\ q.resolved \in [Lines -> Names \cup {None}]
  /\ q.aliases \in Seq(Rule) /\ q.categories \subseteq Names
Patching(q, rs) ==
  q.pc = "patch" /\ q.hash \in Lines /\ rs[q.hash] # None /\ q.category \in Names /\ q.text \in Texts
Sweeping(q, rs) ==
  /\ q \in [pc : {"backfill", "suggest"}, aliases : Seq(Rule), rows : SUBSET (Lines \X Texts),
            read : BOOLEAN]
  /\ \A x \in q.rows : rs[x[1]] # None
RequestTyped(q, rs) == q = Idle \/ Importing(q, rs) \/ Patching(q, rs) \/ Sweeping(q, rs)

RequestNames(q, used) ==
  /\ q.pc = "import" => /\ q.categories \subseteq used
                        /\ \A i \in DOMAIN q.aliases : q.aliases[i].category \in used
                        /\ \A h \in Lines : q.resolved[h] \in used \cup {None}
  /\ q.pc = "patch" => q.category \in used
  /\ q.pc \in {"backfill", "suggest"} => \A i \in DOMAIN q.aliases : q.aliases[i].category \in used

\* One request at a time, and what an import has read is what is there.
Current(q) ==
  q.pc = "import" => q.rows = rows /\ \A h \in Lines : rows[h] # None => q.resolved[h] = Resolved(h)
Alone ==
  /\ \A r, s \in Requests : requests[r] # Idle /\ requests[s] # Idle => r = s
  /\ \A r \in Requests : Current(requests[r])

Counted == imports \in Nat /\ edits \in Nat /\ imports <= regime.imports /\ edits <= regime.edits

LInv ==
  /\ TablesTyped /\ LinesKept /\ Counted
  /\ requests = [r \in Requests |-> requests[r]]
  /\ \A r \in Requests : RequestTyped(requests[r], rows)
  /\ ~ regime.overlap => /\ NamesInUse /\ Alone
                         /\ \A r \in Requests : RequestNames(requests[r], InUse)

LEMMA LInitInductive == OInit => LInv
  <1> SUFFICES ASSUME OInit PROVE LInv
    OBVIOUS
  <1>1. /\ rows = [h \in Lines |-> None] /\ overrides = [h \in Lines |-> None]
        /\ aliases \in Seeded /\ categories = Known
        /\ requests = [r \in Requests |-> Idle]
        /\ decided = [h \in Lines |-> None] /\ imported = {}
        /\ regime \in Regimes /\ imports = 0 /\ edits = 0
    BY DEF OInit, TInit
  <1>2. TablesTyped
    BY <1>1, NamesAssumption, RulesAssumption DEF TablesTyped
  <1>3. LinesKept
    BY <1>1 DEF LinesKept, Present
  <1>4. Counted
    BY <1>1, RegimesAssumption DEF Counted
  <1>5. \A r \in Requests : requests[r] = Idle
    BY <1>1
  <1>6. NamesInUse
    <2>1. \A i \in DOMAIN aliases : aliases[i] \in ToSet(aliases)
      BY DEF ToSet
    <2>2. \A i \in DOMAIN aliases : aliases[i].category \in InUse
      BY <1>1, <2>1, RulesAssumption DEF InUse
    <2> QED
      BY <1>1, <2>2 DEF NamesInUse
  <1>7. Alone /\ \A r \in Requests : RequestNames(requests[r], InUse)
    BY <1>5 DEF Alone, Current, RequestNames, Idle
  <1>8. \A r \in Requests : RequestTyped(requests[r], rows)
    BY <1>5 DEF RequestTyped
  <1> QED
    BY <1>1, <1>2, <1>3, <1>4, <1>6, <1>7, <1>8 DEF LInv

LEMMA RequestsStay ==
  ASSUME NEW q, NEW rs, NEW ts, RequestTyped(q, rs),
         \A h \in Lines : rs[h] # None => ts[h] # None
  PROVE  RequestTyped(q, ts)
  <1>1. CASE Sweeping(q, rs)
    <2>1. \A x \in q.rows : x[1] \in Lines
      BY <1>1 DEF Sweeping
    <2> QED
      BY <1>1, <2>1 DEF RequestTyped, Sweeping
  <1>2. CASE Importing(q, rs)
    BY <1>2 DEF RequestTyped, Importing
  <1>3. CASE Patching(q, rs)
    BY <1>3 DEF RequestTyped, Patching
  <1> QED
    BY <1>1, <1>2, <1>3 DEF RequestTyped

\* A request goes on without touching the tables.
LEMMA Begun ==
  ASSUME LInv, NEW r \in Requests, NEW q, requests' = [requests EXCEPT ![r] = q],
         UNCHANGED <<tables, history, regime>>, Counted',
         RequestTyped(q, rows),
         ~ regime.overlap => /\ RequestNames(q, InUse) /\ Current(q)
                             /\ AllIdle \/ requests[r] # Idle
  PROVE  LInv'
  <1> USE DEF tables, history
  <1>1. TablesTyped' /\ LinesKept'
    BY DEF LInv, TablesTyped, LinesKept, Present
  <1>2. requests' = [s \in Requests |-> IF s = r THEN q ELSE requests[s]]
    BY DEF LInv
  <1>3. requests' = [s \in Requests |-> requests'[s]]
    BY <1>2
  <1>4. \A s \in Requests : RequestTyped(requests'[s], rows')
    BY <1>2 DEF LInv
  <1>5. ASSUME ~ regime'.overlap
        PROVE  /\ NamesInUse' /\ Alone'
               /\ \A s \in Requests : RequestNames(requests'[s], InUse')
    <2>1. NamesInUse' /\ InUse' = InUse
      BY <1>5 DEF LInv, NamesInUse, InUse
    <2>2. \A s \in Requests : RequestNames(requests'[s], InUse')
      BY <1>2, <1>5, <2>1 DEF LInv
    <2>3. \A s, t \in Requests : requests'[s] # Idle /\ requests'[t] # Idle => s = t
      BY <1>2, <1>5 DEF LInv, Alone, AllIdle
    <2>4. \A s \in Requests : Current(requests[s])
      BY <1>5 DEF LInv, Alone
    <2>5. \A s \in Requests : Current(requests[s])' \/ s = r
      BY <1>2, <2>4 DEF Current, Resolved
    <2>6. Current(requests[r])'
      BY <1>2, <1>5 DEF Current, Resolved
    <2> QED
      BY <2>1, <2>2, <2>3, <2>5, <2>6 DEF Alone
  <1> QED
    BY <1>1, <1>3, <1>4, <1>5 DEF LInv

\* The tables change, by a step of the operator or by the last of a request.
LEMMA Ended ==
  ASSUME LInv, TablesTyped', LinesKept', Counted', UNCHANGED regime,
         \A h \in Lines : rows[h] # None => rows'[h] # None,
         \/ UNCHANGED requests /\ Free
         \/ \E r \in Requests : requests[r] # Idle /\ requests' = [requests EXCEPT ![r] = Idle],
         ~ regime.overlap => NamesInUse'
  PROVE  LInv'
  <1>1. /\ requests' = [s \in Requests |-> requests'[s]]
        /\ \A s \in Requests : requests'[s] = Idle \/ requests'[s] = requests[s]
    <2>1. CASE UNCHANGED requests
      BY <2>1 DEF LInv
    <2>2. ASSUME NEW r \in Requests, requests' = [requests EXCEPT ![r] = Idle]
          PROVE  requests' = [s \in Requests |-> IF s = r THEN Idle ELSE requests[s]]
      BY <2>2 DEF LInv
    <2> QED
      BY <2>1, <2>2
  <1>3. \A s \in Requests : RequestTyped(requests'[s], rows')
    <2> SUFFICES ASSUME NEW s \in Requests PROVE RequestTyped(requests'[s], rows')
      OBVIOUS
    <2>1. RequestTyped(requests[s], rows')
      BY RequestsStay DEF LInv
    <2>2. requests'[s] = Idle \/ requests'[s] = requests[s]
      BY <1>1
    <2> QED
      BY <2>1, <2>2 DEF RequestTyped
  <1>4. ASSUME ~ regime'.overlap
        PROVE  /\ NamesInUse' /\ Alone'
               /\ \A s \in Requests : RequestNames(requests'[s], InUse')
    <2>1. \A s \in Requests : requests'[s] = Idle
      <3>1. CASE UNCHANGED requests /\ Free
        BY <1>4, <3>1 DEF Free, AllIdle
      <3>2. ASSUME NEW r \in Requests, requests[r] # Idle, requests' = [requests EXCEPT ![r] = Idle]
            PROVE  \A s \in Requests : requests'[s] = Idle
        BY <1>4, <3>2 DEF LInv, Alone
      <3> QED
        BY <3>1, <3>2
    <2>2. Alone' /\ \A s \in Requests : RequestNames(requests'[s], InUse')
      BY <2>1 DEF Alone, Current, RequestNames, Idle
    <2> QED
      BY <1>4, <2>2
  <1> QED
    BY <1>1, <1>3, <1>4 DEF LInv
-----------------------------------------------------------------------------
(***************************************************************************)
(* What the operator's steps do to the tables.                             *)
(***************************************************************************)
SameTexts ==
  /\ rows' \in [Lines -> Row \cup {None}]
  /\ \A h \in Lines : /\ rows'[h] = None <=> rows[h] = None
                      /\ rows[h] # None => rows'[h].text = rows[h].text

LEMMA TextsStay ==
  ASSUME LinesKept, SameTexts, UNCHANGED imported
  PROVE  LinesKept' /\ \A h \in Lines : rows[h] # None => rows'[h] # None
  BY DEF LinesKept, SameTexts, Present

\* A row with another category or suggestion is a row, with its text.
LEMMA Recategorised ==
  ASSUME NEW row \in Row \cup {None}, row # None, NEW c \in Names \cup {None}
  PROVE  /\ [row EXCEPT !.category = c] \in Row
         /\ [row EXCEPT !.category = c] # None
         /\ [row EXCEPT !.category = c].text = row.text
         /\ [row EXCEPT !.category = c].category = c
         /\ [row EXCEPT !.suggestion = c] \in Row
         /\ [row EXCEPT !.suggestion = c] # None
         /\ [row EXCEPT !.suggestion = c].text = row.text
         /\ [row EXCEPT !.suggestion = c].category = row.category
  <1>1. /\ [row EXCEPT !.category = c] \in Row
        /\ [row EXCEPT !.category = c].text = row.text
        /\ [row EXCEPT !.category = c].category = c
        /\ [row EXCEPT !.suggestion = c] \in Row
        /\ [row EXCEPT !.suggestion = c].text = row.text
        /\ [row EXCEPT !.suggestion = c].category = row.category
    BY DEF Row
  <1> QED
    BY <1>1, RulesAssumption

\* One rule: rows, overrides and the history of the operator's words.
LEMMA RelabelKeeps ==
  ASSUME TablesTyped, LinesKept, NEW hs, hs \subseteq Present, NEW c \in Names, Relabel(hs, c),
         UNCHANGED imported
  PROVE  /\ SameTexts /\ LinesKept'
         /\ overrides' \in [Lines -> Names \cup {None}] /\ decided' \in [Lines -> Names \cup {None}]
         /\ \A h \in Lines : rows'[h] # None =>
              rows'[h].category = c \/ rows'[h].category = rows[h].category
         /\ \A h \in Lines : overrides'[h] = c \/ overrides'[h] = overrides[h]
  <1>1. /\ overrides' = [h \in Lines |-> IF h \in hs THEN c ELSE overrides[h]]
        /\ rows' = [h \in Lines |-> IF h \in hs THEN [rows[h] EXCEPT !.category = c] ELSE rows[h]]
        /\ decided' = [h \in Lines |-> IF h \in hs THEN c ELSE decided[h]]
    BY DEF Relabel
  <1>2. \A h \in hs : /\ rows[h] # None /\ rows[h] \in Row \cup {None}
                      /\ [rows[h] EXCEPT !.category = c] \in Row
                      /\ [rows[h] EXCEPT !.category = c] # None
                      /\ [rows[h] EXCEPT !.category = c].text = rows[h].text
                      /\ [rows[h] EXCEPT !.category = c].category = c
    <2> SUFFICES ASSUME NEW h \in hs
                 PROVE  /\ rows[h] # None /\ rows[h] \in Row \cup {None}
                        /\ [rows[h] EXCEPT !.category = c] \in Row
                        /\ [rows[h] EXCEPT !.category = c] # None
                        /\ [rows[h] EXCEPT !.category = c].text = rows[h].text
                        /\ [rows[h] EXCEPT !.category = c].category = c
      OBVIOUS
    <2>1. rows[h] # None /\ rows[h] \in Row \cup {None} /\ c \in Names \cup {None}
      BY DEF Present, TablesTyped
    <2> QED
      BY <2>1, Recategorised, Zenon
  <1>3. /\ overrides' \in [Lines -> Names \cup {None}] /\ decided' \in [Lines -> Names \cup {None}]
    BY <1>1 DEF TablesTyped
  <1>4. SameTexts
    <2>1. \A h \in Lines : /\ rows'[h] \in Row \cup {None}
                           /\ rows'[h] = None <=> rows[h] = None
                           /\ rows[h] # None => rows'[h].text = rows[h].text
      <3> SUFFICES ASSUME NEW h \in Lines
                   PROVE  /\ rows'[h] \in Row \cup {None}
                          /\ rows'[h] = None <=> rows[h] = None
                          /\ rows[h] # None => rows'[h].text = rows[h].text
        OBVIOUS
      <3>1. CASE h \in hs
        BY <1>1, <1>2, <3>1
      <3>2. CASE h \notin hs
        BY <1>1, <3>2 DEF TablesTyped
      <3> QED
        BY <3>1, <3>2
    <2>2. rows' = [h \in Lines |-> rows'[h]]
      BY <1>1
    <2> QED
      BY <2>1, <2>2 DEF SameTexts
  <1>5. \A h \in Lines : rows'[h] # None =>
              rows'[h].category = c \/ rows'[h].category = rows[h].category
    BY <1>1, <1>2
  <1>6. \A h \in Lines : overrides'[h] = c \/ overrides'[h] = overrides[h]
    BY <1>1
  <1> QED
    BY <1>3, <1>4, <1>5, <1>6, TextsStay

RulesFrom(to, from, c) ==
  \A i \in DOMAIN to : to[i].category = c \/ \E j \in DOMAIN from : to[i].category = from[j].category

LEMMA RuleAdded ==
  ASSUME NEW rs \in Seq(Rule), Distinct(rs), NEW a \in Rule,
         \A i \in DOMAIN rs : ~ (rs[i].pattern = a.pattern /\ rs[i].owner = a.owner)
  PROVE  Append(rs, a) \in Seq(Rule) /\ Distinct(Append(rs, a)) /\ RulesFrom(Append(rs, a), rs, a.category)
  <1> DEFINE to == Append(rs, a)
  <1>1. /\ to \in Seq(Rule) /\ DOMAIN to = 1 .. Len(rs) + 1 /\ Len(rs) \in Nat
        /\ DOMAIN rs = 1 .. Len(rs)
        /\ to[Len(rs) + 1] = a /\ \A i \in DOMAIN rs : to[i] = rs[i]
    OBVIOUS
  <1> HIDE DEF to
  <1>2. \A i \in DOMAIN to : i = Len(rs) + 1 \/ i \in DOMAIN rs
    BY <1>1
  <1>3. Distinct(to)
    BY <1>1, <1>2 DEF Distinct
  <1>4. RulesFrom(to, rs, a.category)
    BY <1>1, <1>2 DEF RulesFrom
  <1> QED
    BY <1>1, <1>3, <1>4 DEF to

LEMMA TaughtRules ==
  ASSUME NEW rs \in Seq(Rule), Distinct(rs), NEW key \in Teachable, NEW c \in Names
  PROVE  /\ Taught(rs, key, c) \in Seq(Rule) /\ Distinct(Taught(rs, key, c))
         /\ RulesFrom(Taught(rs, key, c), rs, c)
  <1>1. CASE \E a \in ToSet(rs) : a.pattern = key[2] /\ a.owner = None
    BY <1>1 DEF Taught, RulesFrom
  <1>2. CASE ~ \E a \in ToSet(rs) : a.pattern = key[2] /\ a.owner = None
    <2> DEFINE a == Alias(key, None, c)
    <2>1. a \in Rule /\ a.pattern = key[2] /\ a.owner = None /\ a.category = c
      BY RulesAssumption DEF Alias, Rule
    <2>2. \A i \in DOMAIN rs : rs[i] \in ToSet(rs)
      BY DEF ToSet
    <2>3. Taught(rs, key, c) = Append(rs, a)
      BY <1>2 DEF Taught
    <2> HIDE DEF a
    <2> QED
      BY <1>2, <2>1, <2>2, <2>3, RuleAdded
  <1> QED
    BY <1>1, <1>2

LEMMA CorrectedRules ==
  ASSUME NEW rs \in Seq(Rule), Distinct(rs), NEW text \in Texts, NEW c \in Names
  PROVE  /\ Corrected(rs, text, c) \in Seq(Rule) /\ Distinct(Corrected(rs, text, c))
         /\ RulesFrom(Corrected(rs, text, c), rs, c)
  <1> DEFINE same == {i \in DOMAIN rs : rs[i].pattern = text}
  <1>1. CASE same = {}
    <2> DEFINE a == Alias(<<"exact", text>>, None, c)
    <2>1. a \in Rule /\ a.pattern = text /\ a.owner = None /\ a.category = c
      BY RulesAssumption DEF Alias, Rule, Layer
    <2>2. Corrected(rs, text, c) = Append(rs, a)
      BY <1>1 DEF Corrected
    <2> HIDE DEF a
    <2> QED
      BY <1>1, <2>1, <2>2, RuleAdded
  <1>2. CASE same # {} /\ rs[Min(same)].category = c
    <2>1. Corrected(rs, text, c) = rs
      BY <1>2 DEF Corrected
    <2> QED
      BY <2>1 DEF RulesFrom
  <1>3. CASE same # {} /\ rs[Min(same)].category # c
    <2> DEFINE to == [i \in DOMAIN rs |-> IF rs[i].pattern = text THEN [rs[i] EXCEPT !.category = c]
                                          ELSE rs[i]]
    <2>1. Corrected(rs, text, c) = to
      BY <1>3 DEF Corrected
    <2>2. \A rule \in Rule : /\ [rule EXCEPT !.category = c] \in Rule
                             /\ [rule EXCEPT !.category = c].pattern = rule.pattern
                             /\ [rule EXCEPT !.category = c].owner = rule.owner
                             /\ [rule EXCEPT !.category = c].category = c
      BY DEF Rule
    <2>3. DOMAIN to = 1 .. Len(rs) /\ DOMAIN rs = 1 .. Len(rs) /\ Len(rs) \in Nat
      OBVIOUS
    <2>4. \A i \in DOMAIN rs : /\ rs[i] \in Rule /\ to[i] \in Rule
                               /\ to[i].pattern = rs[i].pattern /\ to[i].owner = rs[i].owner
                               /\ to[i].category = c \/ to[i].category = rs[i].category
      BY <2>2
    <2>5. to \in Seq(Rule)
      <3>1. to = [i \in 1 .. Len(rs) |-> to[i]]
        BY <2>3
      <3> HIDE DEF to
      <3> QED
        BY <2>3, <2>4, <3>1
    <2> HIDE DEF to
    <2> QED
      BY <2>1, <2>3, <2>4, <2>5 DEF Distinct, RulesFrom
  <1> QED
    BY <1>1, <1>2, <1>3
LEMMA NamesStay ==
  ASSUME NamesInUse, NEW c \in InUse, InUse \subseteq InUse',
         \A h \in Lines : rows'[h] # None =>
            rows[h] # None /\ (rows'[h].category = c \/ rows'[h].category = rows[h].category),
         \A h \in Lines : overrides'[h] = c \/ overrides'[h] = overrides[h],
         RulesFrom(aliases', aliases, c)
  PROVE  NamesInUse'
  BY DEF NamesInUse, RulesFrom

\* A step of the operator that labels rows and may teach a rule.
LEMMA LabelStep ==
  ASSUME LInv, NEW hs, hs \subseteq Present, NEW c \in Names, Relabel(hs, c),
         aliases' \in Seq(Rule), Distinct(aliases'), RulesFrom(aliases', aliases, c),
         UNCHANGED <<categories, imported, regime>>, Counted',
         ~ regime.overlap => c \in InUse,
         \/ UNCHANGED requests /\ Free
         \/ \E r \in Requests : requests[r] # Idle /\ requests' = [requests EXCEPT ![r] = Idle]
  PROVE  LInv'
  <1>1. /\ SameTexts /\ LinesKept'
        /\ overrides' \in [Lines -> Names \cup {None}] /\ decided' \in [Lines -> Names \cup {None}]
        /\ \A h \in Lines : rows'[h] # None =>
             rows'[h].category = c \/ rows'[h].category = rows[h].category
        /\ \A h \in Lines : overrides'[h] = c \/ overrides'[h] = overrides[h]
    BY RelabelKeeps DEF LInv
  <1>2. TablesTyped'
    BY <1>1 DEF LInv, TablesTyped, SameTexts
  <1>3. \A h \in Lines : rows'[h] # None <=> rows[h] # None
    BY <1>1 DEF SameTexts
  <1>4. ~ regime.overlap => NamesInUse'
    <2> SUFFICES ASSUME ~ regime.overlap PROVE NamesInUse'
      OBVIOUS
    <2>1. NamesInUse /\ c \in InUse /\ InUse \subseteq InUse'
      BY DEF LInv, InUse
    <2> QED
      BY <1>1, <1>3, <2>1, NamesStay
  <1> QED
    BY <1>1, <1>2, <1>3, <1>4, Ended

LEMMA PostAliasKeeps ==
  ASSUME LInv, NEW h \in Lines, NEW c \in Names, NEW key \in Teachable, NEW similar \in BOOLEAN,
         PostAlias(h, c, key, similar)
  PROVE  LInv'
  <1> DEFINE hs == {h} \cup IF similar THEN Alike(h, key) \cap Uncategorised ELSE {}
  <1>1. /\ Edited /\ h \in Present /\ c \in categories /\ aliases' = Taught(aliases, key, c)
        /\ Relabel(hs, c) /\ UNCHANGED <<categories, requests, imported, regime, imports>>
    BY DEF PostAlias
  <1>2. hs \subseteq Present
    BY <1>1 DEF Uncategorised
  <1>3. aliases' \in Seq(Rule) /\ Distinct(aliases') /\ RulesFrom(aliases', aliases, c)
    BY <1>1, TaughtRules DEF LInv, TablesTyped
  <1>4. Counted' /\ Free /\ c \in InUse
    BY <1>1, RegimesAssumption DEF Edited, LInv, TablesTyped, Counted, InUse
  <1> HIDE DEF hs
  <1> QED
    BY <1>1, <1>2, <1>3, <1>4, LabelStep

LEMMA StartPatchKeeps ==
  ASSUME LInv, NEW r \in Requests, NEW h \in Lines, NEW c \in Names, NEW learn \in BOOLEAN,
         StartPatch(r, h, c, learn)
  PROVE  LInv'
  <1>1. PICK q : /\ q = [pc |-> "patch", hash |-> h, category |-> c, learn |-> learn, text |-> rows[h].text]
                 /\ requests' = [requests EXCEPT ![r] = q]
    BY DEF StartPatch
  <1>2. /\ requests[r] = Idle /\ Edited /\ h \in Present /\ c \in categories \cup {Reserved.ignored}
        /\ UNCHANGED <<tables, history, regime, imports>>
    BY DEF StartPatch
  <1>3. Counted' /\ Free
    BY <1>2, RegimesAssumption DEF Edited, LInv, TablesTyped, Counted
  <1>4. q.pc = "patch" /\ q.hash = h /\ q.category = c /\ q.text = rows[h].text
    BY <1>1
  <1>5. RequestTyped(q, rows)
    <2>1. rows[h] \in Row /\ rows[h] # None
      BY <1>2 DEF Present, LInv, TablesTyped
    <2> QED
      BY <1>4, <2>1 DEF RequestTyped, Patching, Row
  <1>6. c \in InUse
    BY <1>2, NamesAssumption DEF InUse, ReservedNames
  <1>7. RequestNames(q, InUse) /\ Current(q)
    BY <1>4, <1>6 DEF RequestNames, Current
  <1>8. ~ regime.overlap => AllIdle
    BY <1>3 DEF Free
  <1> QED
    BY <1>1, <1>2, <1>3, <1>5, <1>7, <1>8, Begun

LEMMA FinishPatchKeeps ==
  ASSUME LInv, NEW r \in Requests, FinishPatch(r)
  PROVE  LInv'
  <1> DEFINE q == requests[r]
             similar == {g \in Present : rows[g].text = q.text}
             hs == {q.hash} \cup IF q.learn THEN similar ELSE {}
  <1>1. /\ q.pc = "patch" /\ Relabel(hs, q.category)
        /\ aliases' = IF q.learn THEN Corrected(aliases, q.text, q.category) ELSE aliases
        /\ requests' = [requests EXCEPT ![r] = Idle]
        /\ UNCHANGED <<categories, imported, regime, counters>>
    BY DEF FinishPatch
  <1>2. q # Idle /\ q.hash \in Present /\ q.category \in Names /\ q.text \in Texts
    BY <1>1 DEF LInv, RequestTyped, Patching, Importing, Sweeping, Idle, Present
  <1>3. hs \subseteq Present
    BY <1>2
  <1>4. aliases' \in Seq(Rule) /\ Distinct(aliases') /\ RulesFrom(aliases', aliases, q.category)
    <2>1. CASE q.learn
      BY <1>1, <1>2, <2>1, CorrectedRules DEF LInv, TablesTyped
    <2>2. CASE ~ q.learn
      BY <1>1, <2>2 DEF LInv, TablesTyped, RulesFrom
    <2> QED
      BY <2>1, <2>2
  <1>5. Counted' /\ (~ regime.overlap => q.category \in InUse)
    BY <1>1 DEF LInv, Counted, counters, RequestNames
  <1> HIDE DEF hs
  <1> QED
    BY <1>1, <1>2, <1>3, <1>4, <1>5, LabelStep

LEMMA AddCategoryKeeps ==
  ASSUME LInv, NEW c \in Names, AddCategory(c)
  PROVE  LInv'
  <1>1. /\ Edited /\ categories' = categories \cup {c}
        /\ UNCHANGED <<rows, overrides, aliases, requests, history, regime, imports>>
    BY DEF AddCategory
  <1>2. Counted' /\ Free
    BY <1>1, RegimesAssumption DEF Edited, LInv, TablesTyped, Counted
  <1>3. TablesTyped' /\ LinesKept'
    BY <1>1 DEF LInv, TablesTyped, LinesKept, Present, history
  <1>4. ~ regime.overlap => NamesInUse'
    BY <1>1 DEF LInv, NamesInUse, InUse
  <1>5. \A h \in Lines : rows[h] # None => rows'[h] # None
    BY <1>1
  <1>6. UNCHANGED requests /\ UNCHANGED regime
    BY <1>1
  <1> QED
    BY <1>2, <1>3, <1>4, <1>5, <1>6, Ended

LEMMA RenameKeeps ==
  ASSUME LInv, NEW old \in Names, NEW new \in Names, RenameCategory(old, new)
  PROVE  LInv'
  <1> DEFINE Renamed(c) == IF c = old THEN new ELSE c
  <1>1. /\ Edited /\ old \in categories /\ new \notin categories
        /\ categories' = (categories \ {old}) \cup {new}
        /\ rows' = [h \in Lines |-> IF h \in Present
                                    THEN [rows[h] EXCEPT !.category = Renamed(rows[h].category)]
                                    ELSE None]
        /\ overrides' = [h \in Lines |-> Renamed(overrides[h])]
        /\ aliases' = [i \in DOMAIN aliases |->
                         [aliases[i] EXCEPT !.category = Renamed(aliases[i].category)]]
        /\ decided' = [h \in Lines |-> Renamed(decided[h])]
        /\ UNCHANGED <<requests, imported, regime, imports>>
    BY DEF RenameCategory
  <1>2. Counted' /\ Free
    BY <1>1, RegimesAssumption DEF Edited, LInv, TablesTyped, Counted
  <1>3. \A c \in Names \cup {None} : Renamed(c) \in Names \cup {None}
    OBVIOUS
  <1>4. \A h \in Lines :
          /\ rows'[h] \in Row \cup {None} /\ (rows'[h] = None <=> rows[h] = None)
          /\ rows[h] # None => /\ rows'[h].text = rows[h].text
                               /\ rows'[h].category = Renamed(rows[h].category)
    <2> SUFFICES ASSUME NEW h \in Lines
                 PROVE  /\ rows'[h] \in Row \cup {None} /\ (rows'[h] = None <=> rows[h] = None)
                        /\ rows[h] # None => /\ rows'[h].text = rows[h].text
                                             /\ rows'[h].category = Renamed(rows[h].category)
      OBVIOUS
    <2> DEFINE to == Renamed(rows[h].category)
    <2>1. CASE rows[h] = None
      BY <1>1, <2>1 DEF Present
    <2>2. CASE rows[h] # None
      <3>1. rows[h] \in Row \cup {None} /\ rows[h].category \in Names \cup {None}
        BY <2>2 DEF LInv, TablesTyped, Row
      <3>2. to \in Names \cup {None}
        BY <1>3, <3>1
      <3>3. rows'[h] = [rows[h] EXCEPT !.category = to]
        BY <1>1, <2>2 DEF Present
      <3> HIDE DEF to
      <3>4. /\ [rows[h] EXCEPT !.category = to] \in Row
            /\ [rows[h] EXCEPT !.category = to] # None
            /\ [rows[h] EXCEPT !.category = to].text = rows[h].text
            /\ [rows[h] EXCEPT !.category = to].category = to
        BY <2>2, <3>1, <3>2, Recategorised, Zenon
      <3> QED
        BY <2>2, <3>3, <3>4 DEF to
    <2> QED
      BY <2>1, <2>2
  <1>5. SameTexts
    <2>1. rows' = [h \in Lines |-> rows'[h]]
      BY <1>1
    <2> QED
      BY <1>4, <2>1 DEF SameTexts
  <1>6. LinesKept' /\ \A h \in Lines : rows[h] # None => rows'[h] # None
    <2>1. LinesKept /\ UNCHANGED imported
      BY <1>1 DEF LInv
    <2> QED
      BY <1>5, <2>1, TextsStay
  <1>7. /\ aliases' \in Seq(Rule)
        /\ DOMAIN aliases' = DOMAIN aliases
        /\ \A i \in DOMAIN aliases : /\ aliases'[i].pattern = aliases[i].pattern
                                     /\ aliases'[i].owner = aliases[i].owner
                                     /\ aliases'[i].category = Renamed(aliases[i].category)
    <2>1. DOMAIN aliases = 1 .. Len(aliases) /\ Len(aliases) \in Nat
          /\ \A i \in 1 .. Len(aliases) : aliases[i] \in Rule
      BY DEF LInv, TablesTyped
    <2>2. \A rule \in Rule, c \in Names :
            /\ [rule EXCEPT !.category = c] \in Rule
            /\ [rule EXCEPT !.category = c].pattern = rule.pattern
            /\ [rule EXCEPT !.category = c].owner = rule.owner
            /\ [rule EXCEPT !.category = c].category = c
      BY DEF Rule
    <2>3. \A i \in 1 .. Len(aliases) : Renamed(aliases[i].category) \in Names
      BY <2>1 DEF Rule
    <2> HIDE DEF Renamed
    <2>4. \A i \in 1 .. Len(aliases) :
            /\ aliases'[i] \in Rule
            /\ aliases'[i].pattern = aliases[i].pattern
            /\ aliases'[i].owner = aliases[i].owner
            /\ aliases'[i].category = Renamed(aliases[i].category)
      <3> SUFFICES ASSUME NEW i \in 1 .. Len(aliases)
                   PROVE  /\ aliases'[i] \in Rule
                          /\ aliases'[i].pattern = aliases[i].pattern
                          /\ aliases'[i].owner = aliases[i].owner
                          /\ aliases'[i].category = Renamed(aliases[i].category)
        OBVIOUS
      <3> DEFINE c == Renamed(aliases[i].category)
      <3>1. c \in Names /\ aliases[i] \in Rule
        BY <2>1, <2>3
      <3>2. aliases'[i] = [aliases[i] EXCEPT !.category = c]
        BY <1>1, <2>1 DEF Renamed
      <3> HIDE DEF c
      <3>3. /\ [aliases[i] EXCEPT !.category = c] \in Rule
            /\ [aliases[i] EXCEPT !.category = c].pattern = aliases[i].pattern
            /\ [aliases[i] EXCEPT !.category = c].owner = aliases[i].owner
            /\ [aliases[i] EXCEPT !.category = c].category = c
        BY <2>2, <3>1, Zenon
      <3> QED
        BY <3>2, <3>3 DEF c
    <2>5. aliases' = [i \in 1 .. Len(aliases) |-> aliases'[i]]
      BY <1>1, <2>1
    <2> QED
      BY <2>1, <2>4, <2>5
  <1>8. TablesTyped'
    <2>1. Distinct(aliases')
      BY <1>7 DEF LInv, TablesTyped, Distinct
    <2>2. categories' \subseteq Names
      BY <1>1 DEF LInv, TablesTyped
    <2>3. overrides' \in [Lines -> Names \cup {None}] /\ decided' \in [Lines -> Names \cup {None}]
      BY <1>1, <1>3 DEF LInv, TablesTyped
    <2> QED
      BY <1>1, <1>5, <1>7, <2>1, <2>2, <2>3 DEF LInv, TablesTyped, SameTexts
  <1>9. ~ regime.overlap => NamesInUse'
    <2> SUFFICES ASSUME ~ regime.overlap PROVE NamesInUse'
      OBVIOUS
    <2>1. \A c \in InUse \cup {None} : Renamed(c) \in InUse' \cup {None}
      BY <1>1 DEF InUse
    <2>2. \A c \in InUse : Renamed(c) \in InUse'
      BY <1>1 DEF InUse
    <2>3. \A h \in Lines : overrides'[h] = Renamed(overrides[h])
      BY <1>1
    <2> HIDE DEF Renamed
    <2>4. NamesInUse
      BY DEF LInv
    <2>5. \A h \in Lines : rows'[h] # None => rows'[h].category \in InUse' \cup {None}
      BY <1>4, <2>1, <2>4 DEF NamesInUse
    <2>6. \A h \in Lines : overrides'[h] \in InUse' \cup {None}
      BY <2>1, <2>3, <2>4 DEF NamesInUse
    <2>7. \A i \in DOMAIN aliases' : aliases'[i].category \in InUse'
      BY <1>7, <2>2, <2>4 DEF NamesInUse
    <2> QED
      BY <2>5, <2>6, <2>7 DEF NamesInUse
  <1> QED
    BY <1>1, <1>2, <1>6, <1>8, <1>9, Ended
-----------------------------------------------------------------------------
(***************************************************************************)
(* Imports and sweeps.                                                     *)
(***************************************************************************)
LEMMA StartImportKeeps ==
  ASSUME LInv, NEW r \in Requests, NEW sheet \in Sheets, NEW overwrite \in BOOLEAN,
         StartImport(r, sheet, overwrite)
  PROVE  LInv'
  <1> DEFINE shown == [h \in Lines |-> IF rows[h] = None THEN None ELSE Resolved(h)]
  <1>1. PICK q : /\ q = [pc |-> "import", sheet |-> sheet, overwrite |-> overwrite, rows |-> rows,
                        resolved |-> shown, aliases |-> aliases, categories |-> categories]
                 /\ requests' = [requests EXCEPT ![r] = q]
    BY DEF StartImport
  <1>2. /\ requests[r] = Idle /\ Free /\ imports < regime.imports /\ imports' = imports + 1
        /\ UNCHANGED <<tables, history, regime, edits>>
    BY DEF StartImport
  <1>3. Counted'
    BY <1>2, RegimesAssumption DEF LInv, TablesTyped, Counted
  <1>4. /\ q.pc = "import" /\ q.sheet = sheet /\ q.rows = rows /\ q.resolved = shown
        /\ q.aliases = aliases /\ q.categories = categories
    <2> HIDE DEF shown
    <2> QED
      BY <1>1
  <1>5. shown \in [Lines -> Names \cup {None}]
    <2>1. \A h \in Lines : rows[h] # None => Resolved(h) \in Names \cup {None}
      BY DEF Resolved, LInv, TablesTyped, Row
    <2> QED
      BY <2>1
  <1>6. RequestTyped(q, rows)
    <2>1. Read(rows)
      BY DEF LInv, TablesTyped, LinesKept, Present, Read
    <2>2. sheet \in Seq(Lines)
      BY LinesAssumption
    <2> HIDE DEF shown
    <2> QED
      BY <1>4, <1>5, <2>1, <2>2 DEF LInv, TablesTyped, RequestTyped, Importing
  <1>7. ASSUME ~ regime.overlap
        PROVE  RequestNames(q, InUse) /\ Current(q) /\ AllIdle
    <2>1. AllIdle /\ NamesInUse
      BY <1>2, <1>7 DEF Free, LInv
    <2>2. \A h \in Lines : shown[h] \in InUse \cup {None}
      BY <2>1 DEF NamesInUse, Resolved
    <2>3. \A h \in Lines : rows[h] # None => shown[h] = Resolved(h)
      OBVIOUS
    <2> HIDE DEF shown
    <2>4. RequestNames(q, InUse)
      BY <1>4, <2>1, <2>2 DEF NamesInUse, RequestNames, InUse
    <2>5. Current(q)
      BY <1>4, <2>3 DEF Current
    <2> QED
      BY <2>1, <2>4, <2>5
  <1> QED
    BY <1>1, <1>2, <1>3, <1>6, <1>7, Begun

LEMMA StartSweepKeeps ==
  ASSUME LInv, NEW r \in Requests, NEW kind \in {"backfill", "suggest"}, StartSweep(r, kind)
  PROVE  LInv'
  <1>1. PICK q : /\ q = [pc |-> kind, aliases |-> aliases, rows |-> {}, read |-> FALSE]
                 /\ requests' = [requests EXCEPT ![r] = q]
    BY DEF StartSweep
  <1>2. requests[r] = Idle /\ Edited /\ UNCHANGED <<tables, history, regime, imports>>
    BY DEF StartSweep
  <1>3. Counted' /\ Free
    BY <1>2, RegimesAssumption DEF Edited, LInv, TablesTyped, Counted
  <1>4. RequestTyped(q, rows)
    BY <1>1 DEF RequestTyped, Sweeping, LInv, TablesTyped
  <1>5. q.pc = kind /\ q.aliases = aliases
    BY <1>1
  <1>6. ~ regime.overlap => RequestNames(q, InUse) /\ Current(q) /\ AllIdle
    BY <1>3, <1>5 DEF Free, LInv, NamesInUse, RequestNames, Current
  <1> QED
    BY <1>1, <1>2, <1>3, <1>4, <1>6, Begun

LEMMA ReadSweepKeeps ==
  ASSUME LInv, NEW r \in Requests, ReadSweep(r)
  PROVE  LInv'
  <1> DEFINE found == IF requests[r].pc = "backfill" THEN Uncategorised
                      ELSE {h \in Uncategorised : rows[h].suggestion = None}
             read == {<<h, rows[h].text>> : h \in found}
  <1>1. /\ requests[r].pc \in {"backfill", "suggest"}
        /\ requests' = [requests EXCEPT ![r].read = TRUE, ![r].rows = read]
        /\ UNCHANGED <<tables, history, regime, counters>>
    BY DEF ReadSweep
  <1>2. Sweeping(requests[r], rows) /\ requests[r] # Idle
    <2>1. RequestTyped(requests[r], rows) /\ requests[r].pc \in {"backfill", "suggest"}
      BY <1>1 DEF LInv
    <2> QED
      BY <2>1 DEF RequestTyped, Importing, Patching, Idle
  <1>3. /\ read \in SUBSET (Lines \X Texts) /\ \A x \in read : rows[x[1]] # None
    BY DEF Uncategorised, Present, LInv, TablesTyped, Row
  <1> HIDE DEF read
  <1>4. PICK q : q = [requests[r] EXCEPT !.read = TRUE, !.rows = read]
    OBVIOUS
  <1>5. requests' = [requests EXCEPT ![r] = q]
    BY <1>1, <1>4 DEF LInv
  <1>6. Sweeping(q, rows) /\ q.pc = requests[r].pc /\ q.aliases = requests[r].aliases
    BY <1>2, <1>3, <1>4 DEF Sweeping
  <1>7. Counted'
    BY <1>1 DEF LInv, Counted, counters
  <1>8. RequestTyped(q, rows)
    BY <1>6 DEF RequestTyped
  <1>9. ~ regime.overlap => RequestNames(q, InUse) /\ Current(q)
    BY <1>1, <1>6 DEF LInv, RequestNames, Current
  <1> QED
    BY <1>1, <1>2, <1>5, <1>7, <1>8, <1>9, Begun

\* A row that shows a category goes on showing one.
CategoriesStay ==
  \A h \in Present : Resolved(h) # None => Resolved(h)' # None

\* A sweep writes categories into rows that are there: without overlaps, names in use.
LEMMA RowsWritten ==
  ASSUME LInv, NEW r \in Requests, requests[r] # Idle,
         requests' = [requests EXCEPT ![r] = Idle],
         UNCHANGED <<overrides, aliases, categories, history, regime, counters>>,
         rows' = [h \in Lines |-> rows'[h]],
         \A h \in Lines :
           /\ rows'[h] \in Row \cup {None} /\ (rows'[h] = None <=> rows[h] = None)
           /\ rows[h] # None =>
                /\ rows'[h].text = rows[h].text
                /\ rows'[h].category = rows[h].category \/ rows'[h].category # None
                /\ ~ regime.overlap => rows'[h].category \in InUse \cup {rows[h].category}
  PROVE  LInv' /\ CategoriesStay
  <1>5. SameTexts
    BY DEF SameTexts
  <1>6. LinesKept' /\ \A h \in Lines : rows[h] # None => rows'[h] # None
    <2>1. LinesKept /\ UNCHANGED imported
      BY DEF LInv, history
    <2> QED
      BY <1>5, <2>1, TextsStay
  <1>7. TablesTyped' /\ Counted'
    BY <1>5 DEF LInv, TablesTyped, SameTexts, history, Counted, counters
  <1>8. ~ regime.overlap => NamesInUse'
    <2> SUFFICES ASSUME ~ regime.overlap PROVE NamesInUse'
      OBVIOUS
    <2>1. NamesInUse /\ InUse' = InUse
      BY DEF LInv, InUse
    <2>2. \A h \in Lines : rows'[h] # None => rows'[h].category \in InUse \cup {None}
      BY <2>1 DEF NamesInUse
    <2> QED
      BY <2>1, <2>2 DEF NamesInUse
  <1>9. CategoriesStay
    BY DEF CategoriesStay, Resolved, Present
  <1> QED
    BY <1>6, <1>7, <1>8, <1>9, Ended

LEMMA BackfillKeeps ==
  ASSUME LInv, NEW r \in Requests, WriteBackfill(r)
  PROVE  LInv' /\ CategoriesStay
  <1> DEFINE q == requests[r]
             found == {x \in q.rows : ByAnyAlias(q.aliases, x[2]) # None}
             Says(h) == ByAnyAlias(q.aliases, (CHOOSE x \in found : x[1] = h)[2])
  <1>1. /\ q.pc = "backfill"
        /\ rows' = [h \in Lines |-> IF \E x \in found : x[1] = h
                                    THEN [rows[h] EXCEPT !.category = Says(h)] ELSE rows[h]]
        /\ requests' = [requests EXCEPT ![r] = Idle]
        /\ UNCHANGED <<overrides, aliases, categories, history, regime, counters>>
    BY DEF WriteBackfill
  <1>2. Sweeping(q, rows) /\ q # Idle
    BY <1>1 DEF LInv, RequestTyped, Importing, Patching, Idle
  <1>3. \A h \in Lines : (\E x \in found : x[1] = h) =>
          /\ rows[h] # None /\ Says(h) \in Names /\ Says(h) # None
          /\ ~ regime.overlap => Says(h) \in InUse
    <2> SUFFICES ASSUME NEW h \in Lines, \E x \in found : x[1] = h
                 PROVE  /\ rows[h] # None /\ Says(h) \in Names /\ Says(h) # None
                        /\ ~ regime.overlap => Says(h) \in InUse
      OBVIOUS
    <2> DEFINE y == CHOOSE x \in found : x[1] = h
    <2>1. y \in found /\ y[1] = h
      OBVIOUS
    <2>2. ByAnyAlias(q.aliases, y[2]) # None /\ rows[h] # None /\ q.aliases \in Seq(Rule)
      BY <1>2, <2>1 DEF Sweeping
    <2>3. PICK i \in DOMAIN q.aliases : ByAnyAlias(q.aliases, y[2]) = q.aliases[i].category
      <3> HIDE DEF y, q
      <3> QED
        BY <2>2, AnyAliasFound
    <2>4. q.aliases[i].category \in Names
      <3> HIDE DEF y, q
      <3> QED
        BY <2>2, RuleFields
    <2>5. ~ regime.overlap => q.aliases[i].category \in InUse
      BY <1>1 DEF LInv, RequestNames
    <2>6. Says(h) = q.aliases[i].category
      BY <2>3
    <2> QED
      BY <2>2, <2>4, <2>5, <2>6, NamesAssumption
  <1> HIDE DEF found, Says
  <1>4. \A h \in Lines :
          /\ rows'[h] \in Row \cup {None} /\ (rows'[h] = None <=> rows[h] = None)
          /\ rows[h] # None =>
               /\ rows'[h].text = rows[h].text
               /\ rows'[h].category = rows[h].category \/ rows'[h].category # None
               /\ ~ regime.overlap => rows'[h].category \in InUse \cup {rows[h].category}
    <2> SUFFICES ASSUME NEW h \in Lines
                 PROVE  /\ rows'[h] \in Row \cup {None} /\ (rows'[h] = None <=> rows[h] = None)
                        /\ rows[h] # None =>
                             /\ rows'[h].text = rows[h].text
                             /\ rows'[h].category = rows[h].category \/ rows'[h].category # None
                             /\ ~ regime.overlap => rows'[h].category \in InUse \cup {rows[h].category}
      OBVIOUS
    <2>1. rows[h] \in Row \cup {None}
      BY DEF LInv, TablesTyped
    <2>2. CASE \E x \in found : x[1] = h
      <3> DEFINE c == Says(h)
      <3>1. rows[h] # None /\ c \in Names \cup {None} /\ c # None /\ (~ regime.overlap => c \in InUse)
        BY <1>3, <2>2
      <3>2. rows'[h] = [rows[h] EXCEPT !.category = c]
        BY <1>1, <2>2
      <3> HIDE DEF c
      <3>3. /\ [rows[h] EXCEPT !.category = c] \in Row
            /\ [rows[h] EXCEPT !.category = c] # None
            /\ [rows[h] EXCEPT !.category = c].text = rows[h].text
            /\ [rows[h] EXCEPT !.category = c].category = c
        BY <2>1, <3>1, Recategorised, Zenon
      <3> QED
        BY <3>1, <3>2, <3>3
    <2>3. CASE ~ \E x \in found : x[1] = h
      BY <1>1, <2>1, <2>3
    <2> QED
      BY <2>2, <2>3
  <1>5. rows' = [h \in Lines |-> rows'[h]]
    BY <1>1
  <1> HIDE DEF q
  <1> QED
    BY <1>1, <1>2, <1>4, <1>5, RowsWritten DEF q

LEMMA SuggestKeeps ==
  ASSUME LInv, NEW r \in Requests, WriteSuggest(r)
  PROVE  LInv' /\ CategoriesStay
  <1> DEFINE q == requests[r]
             Says(x) == ByAlias(q.aliases, x[2], OwnerOf[x[1]])
             at(h) == CHOOSE x \in q.rows : x[1] = h
  <1>1. q.pc = "suggest"
    BY DEF WriteSuggest
  <1>2. Sweeping(q, rows) /\ q # Idle
    BY <1>1 DEF LInv, RequestTyped, Importing, Patching, Idle
  <1>3. PICK answer \in [{x[1] : x \in q.rows} -> Answers(Known)] :
          rows' = [h \in Lines |-> IF \E x \in q.rows : x[1] = h
                                  THEN IF Says(at(h)) # None
                                       THEN [rows[at(h)[1]] EXCEPT !.category = Says(at(h))]
                                       ELSE [rows[at(h)[1]] EXCEPT !.suggestion = answer[at(h)[1]]]
                                  ELSE rows[h]]
    BY DEF WriteSuggest
  <1>4. /\ requests' = [requests EXCEPT ![r] = Idle]
        /\ UNCHANGED <<overrides, aliases, categories, history, regime, counters>>
    BY DEF WriteSuggest
  <1>5. \A h \in Lines : (\E x \in q.rows : x[1] = h) =>
          /\ at(h)[1] = h /\ rows[h] # None /\ answer[h] \in Names \cup {None}
          /\ Says(at(h)) = None \/ Says(at(h)) \in Names
          /\ ~ regime.overlap => Says(at(h)) \in InUse \cup {None}
    <2> SUFFICES ASSUME NEW h \in Lines, \E x \in q.rows : x[1] = h
                 PROVE  /\ at(h)[1] = h /\ rows[h] # None /\ answer[h] \in Names \cup {None}
                        /\ Says(at(h)) = None \/ Says(at(h)) \in Names
                        /\ ~ regime.overlap => Says(at(h)) \in InUse \cup {None}
      OBVIOUS
    <2>1. at(h) \in q.rows /\ at(h)[1] = h
      OBVIOUS
    <2>2. rows[h] # None /\ q.aliases \in Seq(Rule)
      BY <1>2, <2>1 DEF Sweeping
    <2>3. answer[h] \in Names \cup {None}
      <3>1. Answers(Known) \subseteq Names \cup {None}
        BY NamesAssumption DEF Answers, ReservedNames
      <3> QED
        BY <1>3, <2>1, <3>1
    <2>4. \/ Says(at(h)) = None
          \/ \E i \in DOMAIN q.aliases : Says(at(h)) = q.aliases[i].category
      <3> DEFINE y == at(h)
      <3> SUFFICES \/ Says(y) = None
                   \/ \E i \in DOMAIN q.aliases : Says(y) = q.aliases[i].category
        OBVIOUS
      <3> HIDE DEF y, q
      <3> QED
        BY <2>2, AliasFound
    <2>5. \A i \in DOMAIN q.aliases : q.aliases[i].category \in Names
      <3> HIDE DEF q
      <3> QED
        BY <2>2, RuleFields
    <2>6. ~ regime.overlap => \A i \in DOMAIN q.aliases : q.aliases[i].category \in InUse
      BY <1>1 DEF LInv, RequestNames
    <2> HIDE DEF q, Says, at
    <2> QED
      BY <2>1, <2>2, <2>3, <2>4, <2>5, <2>6
  <1> HIDE DEF Says, at
  <1>6. \A h \in Lines :
          /\ rows'[h] \in Row \cup {None} /\ (rows'[h] = None <=> rows[h] = None)
          /\ rows[h] # None =>
               /\ rows'[h].text = rows[h].text
               /\ rows'[h].category = rows[h].category \/ rows'[h].category # None
               /\ ~ regime.overlap => rows'[h].category \in InUse \cup {rows[h].category}
    <2> SUFFICES ASSUME NEW h \in Lines
                 PROVE  /\ rows'[h] \in Row \cup {None} /\ (rows'[h] = None <=> rows[h] = None)
                        /\ rows[h] # None =>
                             /\ rows'[h].text = rows[h].text
                             /\ rows'[h].category = rows[h].category \/ rows'[h].category # None
                             /\ ~ regime.overlap => rows'[h].category \in InUse \cup {rows[h].category}
      OBVIOUS
    <2>1. rows[h] \in Row \cup {None}
      BY DEF LInv, TablesTyped
    <2>2. CASE \E x \in q.rows : x[1] = h
      <3> DEFINE c == Says(at(h))
                 a == answer[h]
      <3>1. /\ rows[h] # None /\ at(h)[1] = h
            /\ c \in Names \cup {None} /\ a \in Names \cup {None}
            /\ ~ regime.overlap => c \in InUse \cup {None}
        BY <1>5, <2>2
      <3>2. rows'[h] = IF c # None THEN [rows[h] EXCEPT !.category = c]
                       ELSE [rows[h] EXCEPT !.suggestion = a]
        BY <1>3, <2>2, <3>1
      <3> HIDE DEF c, a
      <3>3. /\ [rows[h] EXCEPT !.category = c] \in Row
            /\ [rows[h] EXCEPT !.category = c] # None
            /\ [rows[h] EXCEPT !.category = c].text = rows[h].text
            /\ [rows[h] EXCEPT !.category = c].category = c
        BY <2>1, <3>1, Recategorised, Zenon
      <3>4. /\ [rows[h] EXCEPT !.suggestion = a] \in Row
            /\ [rows[h] EXCEPT !.suggestion = a] # None
            /\ [rows[h] EXCEPT !.suggestion = a].text = rows[h].text
            /\ [rows[h] EXCEPT !.suggestion = a].category = rows[h].category
        BY <2>1, <3>1, Recategorised, Zenon
      <3> QED
        BY <3>1, <3>2, <3>3, <3>4
    <2>3. CASE ~ \E x \in q.rows : x[1] = h
      BY <1>3, <2>1, <2>3
    <2> QED
      BY <2>2, <2>3
  <1>7. rows' = [h \in Lines |-> rows'[h]]
    BY <1>3
  <1> HIDE DEF q
  <1> QED
    BY <1>2, <1>4, <1>6, <1>7, RowsWritten DEF q
-----------------------------------------------------------------------------
(***************************************************************************)
(* The last step of an import.                                             *)
(***************************************************************************)
LEMMA SortedNames ==
  ASSUME NEW q, q.aliases \in Seq(Rule), NEW used, q.categories \subseteq used,
         ReservedNames \subseteq used, \A i \in DOMAIN q.aliases : q.aliases[i].category \in used,
         NEW answer \in [Lines -> Answers(q.categories)], NEW l \in Lines
  PROVE  Sorted(q, l, answer) \in used \cup {None}
  <1>1. Reserved.ignored \in used /\ Reserved.other \in used
    BY NamesAssumption DEF ReservedNames
  <1>2. answer[l] \in used \cup {None}
    <2>1. answer[l] \in Answers(q.categories)
      OBVIOUS
    <2> QED
      BY <1>1, <2>1 DEF Answers
  <1> DEFINE found == ByAlias(q.aliases, TextOf[l], OwnerOf[l])
  <1>3. found \in used \cup {None}
    <2>1. found = None \/ \E i \in DOMAIN q.aliases : found = q.aliases[i].category
      BY AliasFound
    <2> QED
      BY <2>1
  <1>4. Sorted(q, l, answer) = IF l \in Automatic THEN Reserved.ignored
                               ELSE IF found # None THEN found ELSE answer[l]
    BY DEF Sorted
  <1> HIDE DEF found
  <1> QED
    BY <1>1, <1>2, <1>3, <1>4

\* A row inserted by an import.
LEMMA Inserted ==
  ASSUME NEW s \in Texts, NEW c \in Names \cup {None}
  PROVE  /\ [text |-> s, category |-> c, suggestion |-> None] \in Row
         /\ [text |-> s, category |-> c, suggestion |-> None] # None
  <1>1. [text |-> s, category |-> c, suggestion |-> None] \in Row
    BY DEF Row
  <1> QED
    BY <1>1, RulesAssumption

\* What an import may have read, and what it makes of one row: a row with a
\* text that leads to its line's and a name in use for its category, or none
\* if it showed none.
Importable(q, used) ==
  /\ Importing(q, rows)
  /\ used \subseteq Names /\ q.categories \subseteq used /\ ReservedNames \subseteq used
  /\ \A i \in DOMAIN q.aliases : q.aliases[i].category \in used
  /\ \A h \in Lines : q.resolved[h] \in used \cup {None}

Outcome(q, used, h, row) ==
  /\ row \in Row \cup {None}
  /\ rows[h] # None \/ h \in Planned(q).new => row # None
  /\ row # None => /\ Related(row.text, TextOf[h])
                   /\ row = rows[h] \/ row.category \in used \cup {None}
  /\ rows[h] # None /\ Planned(q).merged[h] = None =>
       row = rows[h] \/ row.category # None \/ (h \in Planned(q).over /\ q.resolved[h] = None)

LEMMA LineImported ==
  ASSUME LInv, NEW q, NEW used, Importable(q, used),
         NEW answer \in [Lines -> Answers(q.categories)], NEW h \in Lines
  PROVE  Outcome(q, used, h, Imported(q, answer)[h])
  <1>0. /\ q.sheet \in Seq(Lines) /\ Read(q.rows) /\ q.aliases \in Seq(Rule)
        /\ \A g \in Lines : q.rows[g] # None => rows[g] # None
        /\ used \subseteq Names /\ q.categories \subseteq used /\ ReservedNames \subseteq used
        /\ \A i \in DOMAIN q.aliases : q.aliases[i].category \in used
        /\ \A g \in Lines : q.resolved[g] \in used \cup {None}
    BY DEF Importable, Importing
  <1> DEFINE plan == Planned(q)
             twosided == Paired(plan.new \cup plan.over)
             Final(l, c) == IF l \in twosided THEN Reserved.transfer ELSE c
             row == Imported(q, answer)[h]
             m == plan.merged[h]
             sorted == Final(h, Sorted(q, h, answer))
             joined == Sorted(q, m, answer)
             kept == Final(h, Kept(q, h, answer))
  <1>1. PlanRight(q, plan, Len(q.sheet))
    BY <1>0, PlannedRight
  <1>2. row = IF h \in plan.new /\ rows[h] = None
              THEN [text |-> TextOf[h], category |-> sorted, suggestion |-> None]
              ELSE IF m # None
              THEN [rows[h] EXCEPT !.text = TextOf[m], !.category = joined]
              ELSE IF h \in plan.over
              THEN [rows[h] EXCEPT !.text = TextOf[h], !.category = kept]
              ELSE rows[h]
    BY DEF Imported
  <1>3. Reserved.transfer \in used /\ Reserved.transfer # None /\ TextOf[h] \in Texts
    BY <1>0, NamesAssumption DEF ReservedNames, Texts
  <1>4. \A l \in Lines : Sorted(q, l, answer) \in used \cup {None}
    <2> SUFFICES ASSUME NEW l \in Lines PROVE Sorted(q, l, answer) \in used \cup {None}
      OBVIOUS
    <2> QED
      BY <1>0, SortedNames
  <1>5. sorted \in used \cup {None}
    BY <1>0, <1>3, <1>4
  <1>6. kept \in used \cup {None} /\ (kept = None => q.resolved[h] = None)
    BY <1>0, <1>3, <1>4 DEF Kept
  <1>7. m # None => /\ m \in Lines /\ TextOf[m] \in Texts /\ joined \in used \cup {None}
                    /\ Related(TextOf[m], TextOf[h]) /\ rows[h] # None
    <2> SUFFICES ASSUME m # None
                 PROVE  /\ m \in Lines /\ TextOf[m] \in Texts /\ joined \in used \cup {None}
                        /\ Related(TextOf[m], TextOf[h]) /\ rows[h] # None
      OBVIOUS
    <2>1. m \in Lines
      <3> HIDE DEF plan
      <3> QED
        BY <1>1 DEF PlanRight, Plans
    <2>2. q.rows[h] # None /\ Related(plan.text[h], TextOf[h]) /\ plan.text[h] = TextOf[m]
      <3> HIDE DEF plan
      <3> QED
        BY <1>1 DEF PlanRight
    <2> QED
      BY <1>0, <1>4, <2>1, <2>2 DEF Texts
  <1>8. h \in plan.over => rows[h] # None
    <2> HIDE DEF plan
    <2> QED
      BY <1>0, <1>1 DEF PlanRight
  <1>9. rows[h] \in Row \cup {None} /\ (rows[h] # None => Related(rows[h].text, TextOf[h]))
    BY DEF LInv, TablesTyped, LinesKept, Present
  <1> HIDE DEF sorted, joined, kept, m, plan
  <1> SUFFICES /\ row \in Row \cup {None}
               /\ rows[h] # None \/ h \in plan.new => row # None
               /\ row # None => /\ Related(row.text, TextOf[h])
                                /\ row = rows[h] \/ row.category \in used \cup {None}
               /\ rows[h] # None /\ m = None =>
                    row = rows[h] \/ row.category # None \/ (h \in plan.over /\ q.resolved[h] = None)
    BY DEF plan, m, Outcome
  <1> HIDE DEF row
  <1>10. CASE h \in plan.new /\ rows[h] = None
    <2>1. row = [text |-> TextOf[h], category |-> sorted, suggestion |-> None]
      BY <1>2, <1>10
    <2>2. row \in Row /\ row # None
      BY <1>0, <1>3, <1>5, <2>1, Inserted, Zenon
    <2>3. row.text = TextOf[h] /\ row.category = sorted
      BY <2>1
    <2> QED
      BY <1>5, <1>10, <2>2, <2>3, RelatedSelf
  <1>11. CASE ~ (h \in plan.new /\ rows[h] = None) /\ m # None
    <2>1. row = [rows[h] EXCEPT !.text = TextOf[m], !.category = joined]
      BY <1>2, <1>11
    <2>2. joined \in Names \cup {None}
      BY <1>0, <1>7, <1>11
    <2>3. rows[h] \in Row \cup {None} /\ rows[h] # None /\ TextOf[m] \in Texts
      BY <1>7, <1>9, <1>11
    <2>4. PICK old, s : old = rows[h] /\ s = TextOf[m]
      OBVIOUS
    <2>5. [old EXCEPT !.text = s, !.category = joined] \in Row
      BY <2>2, <2>3, <2>4 DEF Row
    <2>6. row \in Row /\ row.text = s /\ row.category = joined
      BY <2>1, <2>3, <2>4, <2>5 DEF Row
    <2>7. row \in Row /\ row # None /\ row.text = TextOf[m] /\ row.category = joined
      BY <2>4, <2>6, RulesAssumption
    <2> QED
      BY <1>7, <1>11, <2>7
  <1>12. CASE ~ (h \in plan.new /\ rows[h] = None) /\ m = None /\ h \in plan.over
    <2>1. row = [rows[h] EXCEPT !.text = TextOf[h], !.category = kept]
      BY <1>2, <1>12
    <2>2. kept \in Names \cup {None}
      BY <1>0, <1>6
    <2>3. rows[h] \in Row \cup {None} /\ rows[h] # None /\ TextOf[h] \in Texts
      BY <1>3, <1>8, <1>9, <1>12
    <2>4. PICK old, s : old = rows[h] /\ s = TextOf[h]
      OBVIOUS
    <2>5. [old EXCEPT !.text = s, !.category = kept] \in Row
      BY <2>2, <2>3, <2>4 DEF Row
    <2>6. row \in Row /\ row.text = s /\ row.category = kept
      BY <2>1, <2>3, <2>4, <2>5 DEF Row
    <2>7. row \in Row /\ row # None /\ row.text = TextOf[h] /\ row.category = kept
      BY <2>4, <2>6, RulesAssumption
    <2> QED
      BY <1>6, <1>12, <2>7, RelatedSelf
  <1>13. CASE ~ (h \in plan.new /\ rows[h] = None) /\ m = None /\ h \notin plan.over
    <2>1. row = rows[h]
      BY <1>2, <1>13
    <2> QED
      BY <1>9, <1>13, <2>1
  <1> QED
    BY <1>10, <1>11, <1>12, <1>13

LEMMA FinishImportKeeps ==
  ASSUME LInv, NEW r \in Requests, FinishImport(r)
  PROVE  /\ LInv'
         /\ \A h \in Present : Resolved(h) # None /\ Planned(requests[r]).merged[h] = None =>
              \/ Resolved(h)' # None
              \/ regime.overlap /\ h \in Planned(requests[r]).over /\ requests[r].resolved[h] = None
  <1> DEFINE q == requests[r]
             plan == Planned(q)
  <1>1. /\ q.pc = "import" /\ imported' = imported \cup ToSet(q.sheet)
        /\ requests' = [requests EXCEPT ![r] = Idle]
        /\ UNCHANGED <<overrides, aliases, categories, decided, regime, counters>>
    BY DEF FinishImport
  <1>2. PICK answer \in [Lines -> Answers(q.categories)] : rows' = Imported(q, answer)
    BY DEF FinishImport
  <1>3. Importing(q, rows) /\ q # Idle
    <2>1. RequestTyped(q, rows) /\ q.pc = "import"
      BY <1>1 DEF LInv
    <2> QED
      BY <2>1 DEF RequestTyped, Patching, Sweeping, Idle
  <1>4. rows' = [h \in Lines |-> rows'[h]]
    BY <1>2 DEF Imported
  <1>5. ReservedNames \subseteq Names /\ \A i \in DOMAIN q.aliases : q.aliases[i].category \in Names
    <2>1. q.aliases \in Seq(Rule)
      BY <1>3 DEF Importing
    <2> HIDE DEF q
    <2> QED
      BY <2>1, RuleFields, NamesAssumption
  <1> HIDE DEF q, plan
  <1>7. ASSUME NEW used, Importable(q, used), NEW h \in Lines
        PROVE  Outcome(q, used, h, rows'[h])
    <2>1. Outcome(q, used, h, Imported(q, answer)[h])
      BY <1>2, <1>7, LineImported
    <2> QED
      BY <1>2, <2>1
  <1>8. \A h \in Lines :
          /\ rows'[h] \in Row \cup {None}
          /\ rows[h] # None \/ h \in plan.new => rows'[h] # None
          /\ rows'[h] # None => Related(rows'[h].text, TextOf[h])
          /\ rows[h] # None /\ plan.merged[h] = None =>
               rows'[h] = rows[h] \/ rows'[h].category # None \/ (h \in plan.over /\ q.resolved[h] = None)
    <2>1. Importable(q, Names)
      BY <1>3, <1>5 DEF Importable, Importing
    <2> QED
      BY <1>7, <2>1 DEF Outcome, plan
  <1>9. ~ regime.overlap => \A h \in Lines :
          rows'[h] # None => rows'[h] = rows[h] \/ rows'[h].category \in InUse \cup {None}
    <2> SUFFICES ASSUME ~ regime.overlap PROVE Importable(q, InUse)
      BY <1>7 DEF Outcome, plan
    <2>1. InUse \subseteq Names /\ ReservedNames \subseteq InUse
      BY <1>5 DEF LInv, TablesTyped, InUse
    <2>2. RequestNames(q, InUse)
      BY DEF LInv, q
    <2> QED
      BY <1>1, <1>3, <2>1, <2>2 DEF RequestNames, Importable
  <1>10. LinesKept'
    <2>1. \A l \in imported' : \E h \in Lines :
            rows'[h] # None /\ IdentityOf[h] = IdentityOf[l] /\ Related(TextOf[h], TextOf[l])
      <3> SUFFICES ASSUME NEW l \in imported'
                   PROVE  \E h \in Lines :
                            rows'[h] # None /\ IdentityOf[h] = IdentityOf[l] /\ Related(TextOf[h], TextOf[l])
        OBVIOUS
      <3>1. CASE l \in imported
        BY <1>8, <3>1 DEF LInv, LinesKept, Present
      <3>2. CASE l \in ToSet(q.sheet)
        <4>1. q.sheet \in Seq(Lines) /\ Read(q.rows) /\ \A h \in Lines : q.rows[h] # None => rows[h] # None
          BY <1>3 DEF Importing
        <4>2. PICK j \in 1 .. Len(q.sheet) : q.sheet[j] = l
          BY <3>2, <4>1 DEF ToSet
        <4>3. PlanRight(q, plan, Len(q.sheet))
          BY <4>1, PlannedRight DEF plan
        <4>4. Found(q, l) \/ l \in plan.new
          BY <4>2, <4>3 DEF PlanRight
        <4>5. l \in Lines
          BY <4>1, <4>2
        <4> QED
          BY <1>8, <4>1, <4>4, <4>5, RelatedSelf DEF Found
      <3> QED
        BY <1>1, <3>1, <3>2
    <2> QED
      BY <1>8, <2>1 DEF LinesKept, Present
  <1>11. TablesTyped' /\ Counted'
    <2>1. imported' \subseteq Lines
      BY <1>1, <1>3 DEF LInv, TablesTyped, Importing, ToSet
    <2>2. rows' \in [Lines -> Row \cup {None}]
      BY <1>4, <1>8
    <2> QED
      BY <1>1, <2>1, <2>2 DEF LInv, TablesTyped, Counted, counters
  <1>12. ~ regime.overlap => NamesInUse'
    <2> SUFFICES ASSUME ~ regime.overlap PROVE NamesInUse'
      OBVIOUS
    <2>1. NamesInUse /\ InUse' = InUse
      BY <1>1 DEF LInv, InUse
    <2>2. \A h \in Lines : rows'[h] # None => rows'[h].category \in InUse \cup {None}
      BY <1>9, <2>1 DEF NamesInUse
    <2> QED
      BY <1>1, <2>1, <2>2 DEF NamesInUse
  <1>13. LInv'
    BY <1>1, <1>3, <1>8, <1>10, <1>11, <1>12, Ended DEF q
  <1>14. ASSUME NEW h \in Present, Resolved(h) # None, plan.merged[h] = None
         PROVE  Resolved(h)' # None \/ (regime.overlap /\ h \in plan.over /\ q.resolved[h] = None)
    <2>1. rows[h] # None /\ h \in Lines
      BY DEF Present
    <2>2. ~ regime.overlap => q.resolved[h] = Resolved(h)
      BY <1>1, <2>1 DEF LInv, Alone, Current, q
    <2>3. rows'[h] = rows[h] \/ rows'[h].category # None \/ (h \in plan.over /\ q.resolved[h] = None)
      BY <1>8, <1>14, <2>1
    <2>4. regime.overlap \in BOOLEAN
      BY RegimesAssumption DEF LInv, TablesTyped
    <2> QED
      BY <1>1, <1>14, <2>2, <2>3, <2>4 DEF Resolved
  <1> QED
    BY <1>13, <1>14 DEF q, plan
-----------------------------------------------------------------------------
(***************************************************************************)
(* The whole ledger, with the app in front of it.                          *)
(***************************************************************************)
LEMMA LabelsStay ==
  ASSUME LInv, NEW hs, NEW c \in Names, Relabel(hs, c)
  PROVE  CategoriesStay
  <1>1. /\ overrides' = [h \in Lines |-> IF h \in hs THEN c ELSE overrides[h]]
        /\ rows' = [h \in Lines |-> IF h \in hs THEN [rows[h] EXCEPT !.category = c] ELSE rows[h]]
    BY DEF Relabel
  <1>2. c # None
    BY NamesAssumption
  <1> QED
    BY <1>1, <1>2 DEF CategoriesStay, Resolved, Present

LEMMA RenamesStay ==
  ASSUME LInv, NEW old \in Names, NEW new \in Names, RenameCategory(old, new)
  PROVE  CategoriesStay
  <1> DEFINE Renamed(c) == IF c = old THEN new ELSE c
  <1>1. /\ rows' = [h \in Lines |-> IF h \in Present
                                    THEN [rows[h] EXCEPT !.category = Renamed(rows[h].category)]
                                    ELSE None]
        /\ overrides' = [h \in Lines |-> Renamed(overrides[h])]
    BY DEF RenameCategory
  <1>2. \A c : c # None => Renamed(c) # None
    BY NamesAssumption
  <1>3. \A h \in Present : rows[h] \in Row /\ h \in Lines
    BY DEF Present, LInv, TablesTyped
  <1>4. \A row \in Row : \A c : [row EXCEPT !.category = c].category = c
    BY DEF Row
  <1> HIDE DEF Renamed
  <1>5. \A h \in Present : /\ rows'[h].category = Renamed(rows[h].category)
                           /\ overrides'[h] = Renamed(overrides[h])
    BY <1>1, <1>3, <1>4
  <1>6. ASSUME NEW h \in Present, Resolved(h) # None PROVE Resolved(h)' # None
    BY <1>2, <1>5, <1>6 DEF Resolved
  <1> QED
    BY <1>6 DEF CategoriesStay

\* What CategorisedStays says of a step.
KeepsCategories ==
  \A h \in Present : Resolved(h) # None =>
    \/ Resolved(h)' # None
    \/ \E r \in Requests :
         LET q == requests[r]
         IN  /\ FinishImport(r)
             /\ \/ Planned(q).merged[h] # None
                \/ regime.overlap /\ h \in Planned(q).over /\ q.resolved[h] = None

LEMMA UntouchedStays ==
  ASSUME UNCHANGED <<rows, overrides>>
  PROVE  CategoriesStay
  BY DEF CategoriesStay, Resolved

LEMMA ImportsKeep ==
  ASSUME LInv, Imports
  PROVE  LInv' /\ KeepsCategories
  <1>1. ASSUME NEW r \in Requests, NEW sheet \in Sheets, NEW overwrite \in BOOLEAN,
               StartImport(r, sheet, overwrite)
        PROVE  LInv' /\ KeepsCategories
    <2>1. LInv'
      BY <1>1, StartImportKeeps
    <2>2. UNCHANGED <<rows, overrides>>
      BY <1>1 DEF StartImport, tables
    <2> QED
      BY <2>1, <2>2, UntouchedStays DEF CategoriesStay, KeepsCategories
  <1>2. ASSUME NEW r \in Requests, FinishImport(r)
        PROVE  LInv' /\ KeepsCategories
    BY <1>2, FinishImportKeeps DEF KeepsCategories
  <1> QED
    BY <1>1, <1>2 DEF Imports

LEMMA SweepsKeep ==
  ASSUME LInv, Sweeps
  PROVE  LInv' /\ CategoriesStay
  <1>1. ASSUME NEW r \in Requests, NEW kind \in {"backfill", "suggest"}, StartSweep(r, kind)
        PROVE  LInv' /\ CategoriesStay
    <2>1. UNCHANGED <<rows, overrides>>
      BY <1>1 DEF StartSweep, tables
    <2> QED
      BY <1>1, <2>1, StartSweepKeeps, UntouchedStays
  <1>2. ASSUME NEW r \in Requests, ReadSweep(r)
        PROVE  LInv' /\ CategoriesStay
    <2>1. UNCHANGED <<rows, overrides>>
      BY <1>2 DEF ReadSweep, tables
    <2> QED
      BY <1>2, <2>1, ReadSweepKeeps, UntouchedStays
  <1> QED
    BY <1>1, <1>2, BackfillKeeps, SuggestKeeps DEF Sweeps

LEMMA EditsKeep ==
  ASSUME LInv, Edits
  PROVE  LInv' /\ CategoriesStay
  <1>1. ASSUME NEW h \in Lines, NEW c \in Names, NEW key \in Teachable, NEW similar \in BOOLEAN,
               PostAlias(h, c, key, similar)
        PROVE  LInv' /\ CategoriesStay
    BY <1>1, PostAliasKeeps, LabelsStay DEF PostAlias
  <1>2. ASSUME NEW r \in Requests, NEW h \in Lines, NEW c \in Names, NEW learn \in BOOLEAN,
               StartPatch(r, h, c, learn)
        PROVE  LInv' /\ CategoriesStay
    <2>1. UNCHANGED <<rows, overrides>>
      BY <1>2 DEF StartPatch, tables
    <2> QED
      BY <1>2, <2>1, StartPatchKeeps, UntouchedStays
  <1>3. ASSUME NEW r \in Requests, FinishPatch(r)
        PROVE  LInv' /\ CategoriesStay
    <2>1. requests[r].pc = "patch" /\ \E hs : Relabel(hs, requests[r].category)
      BY <1>3 DEF FinishPatch
    <2>2. requests[r].category \in Names
      <3>1. RequestTyped(requests[r], rows)
        BY DEF LInv
      <3> QED
        BY <2>1, <3>1 DEF RequestTyped, Importing, Patching, Sweeping, Idle
    <2>3. PICK c \in Names : c = requests[r].category
      BY <2>2
    <2> QED
      BY <1>3, <2>1, <2>3, FinishPatchKeeps, LabelsStay
  <1>4. ASSUME NEW c \in Names, AddCategory(c)
        PROVE  LInv' /\ CategoriesStay
    <2>1. UNCHANGED <<rows, overrides>>
      BY <1>4 DEF AddCategory
    <2> QED
      BY <1>4, <2>1, AddCategoryKeeps, UntouchedStays
  <1>5. ASSUME NEW old \in Names, NEW new \in Names, RenameCategory(old, new)
        PROVE  LInv' /\ CategoriesStay
    BY <1>5, RenameKeeps, RenamesStay
  <1> QED
    BY <1>1, <1>2, <1>3, <1>4, <1>5 DEF Edits

\* An edit the app sends is one row's label; one it does not send is nothing.
LEMMA ServedKeeps ==
  ASSUME LInv, NEW e, e.category \in Names, Accepts(e), Served(e), Counted', Free
  PROVE  LInv' /\ CategoriesStay
  <1> DEFINE hs == {e.hash}
  <1>1. /\ hs \subseteq Present /\ Relabel(hs, e.category)
        /\ UNCHANGED <<aliases, categories, requests, imported, regime>>
        /\ e.category \in InUse
    BY NamesAssumption DEF Accepts, Served, InUse, ReservedNames
  <1>2. aliases' \in Seq(Rule) /\ Distinct(aliases')
    BY <1>1 DEF LInv, TablesTyped
  <1>3. RulesFrom(aliases', aliases, e.category)
    BY <1>1 DEF RulesFrom
  <1>4. PICK c \in Names : c = e.category
    OBVIOUS
  <1> HIDE DEF hs
  <1>5. LInv'
    BY <1>1, <1>2, <1>3, <1>4, LabelStep
  <1> QED
    BY <1>1, <1>4, <1>5, LabelsStay

LEMMA NotServedKeeps ==
  ASSUME LInv, UNCHANGED <<tables, requests, history, regime>>, Counted'
  PROVE  LInv' /\ CategoriesStay
  <1> USE DEF tables, history
  <1>1. TablesTyped' /\ LinesKept' /\ NamesInUse' = NamesInUse /\ InUse' = InUse
    BY DEF LInv, TablesTyped, LinesKept, Present, NamesInUse, InUse
  <1>2. Alone' = Alone
    BY DEF Alone, Current, Resolved
  <1>3. LInv'
    BY <1>1, <1>2 DEF LInv
  <1> QED
    BY <1>3, UntouchedStays

LEMMA ClientKeeps ==
  ASSUME LInv, Client
  PROVE  LInv' /\ CategoriesStay
  <1>1. ASSUME NEW h \in Lines, NEW c \in Names, MakeEdit(h, c)
        PROVE  LInv' /\ CategoriesStay
    <2>1. PICK e : e = Edit(h, c)
      OBVIOUS
    <2>2. e.category \in Names /\ Edited /\ ((Accepts(e) /\ Served(e)) \/ NotServed)
      BY <1>1, <2>1 DEF MakeEdit, Edit
    <2>3. Counted' /\ Free
      BY <2>2, RegimesAssumption DEF Edited, LInv, TablesTyped, Counted, Served, NotServed
    <2>4. CASE Accepts(e) /\ Served(e)
      BY <2>2, <2>3, <2>4, ServedKeeps
    <2>5. CASE NotServed
      BY <2>3, <2>5, NotServedKeeps DEF NotServed
    <2> QED
      BY <2>2, <2>4, <2>5
  <1>2. ASSUME NEW d \in Drains, Replay(d)
        PROVE  LInv' /\ CategoriesStay
    <2>1. PICK e : e = Head(drains[d])
      OBVIOUS
    <2>2. AllIdle /\ UNCHANGED edits /\ ((Accepts(e) /\ Served(e)) \/ NotServed)
      BY <1>2, <2>1 DEF Replay
    <2>3. Counted' /\ Free
      BY <2>2 DEF LInv, Counted, Served, NotServed, Free
    <2>4. CASE Accepts(e) /\ Served(e)
      <3>1. e.category \in Names
        BY <2>4, NamesAssumption DEF Accepts, LInv, TablesTyped, ReservedNames
      <3> QED
        BY <2>3, <2>4, <3>1, ServedKeeps
    <2>5. CASE NotServed
      BY <2>3, <2>5, NotServedKeeps DEF NotServed
    <2> QED
      BY <2>2, <2>4, <2>5
  <1>3. ASSUME UNCHANGED tvars
        PROVE  LInv' /\ CategoriesStay
    <2>1. Counted'
      BY <1>3 DEF tvars, counters, LInv, Counted
    <2> QED
      BY <1>3, <2>1, NotServedKeeps DEF tvars
  <1>4. LoseConnection \/ (\E d \in Drains : Reconnect(d)) => UNCHANGED tvars
    BY DEF LoseConnection, Reconnect
  <1> QED
    BY <1>1, <1>2, <1>3, <1>4 DEF Client

LEMMA LNextInductive ==
  ASSUME LInv, [ONext]_<<tvars, ovars>>
  PROVE  LInv' /\ (KeepsCategories \/ UNCHANGED tvars)
  <1>1. CategoriesStay => KeepsCategories
    BY DEF CategoriesStay, KeepsCategories
  <1>2. CASE Client
    BY <1>1, <1>2, ClientKeeps
  <1>3. CASE Server
    BY <1>1, <1>3, ImportsKeep, SweepsKeep, EditsKeep DEF Server
  <1>4. CASE UNCHANGED <<tvars, ovars>>
    <2>1. Counted'
      BY <1>4 DEF tvars, counters, LInv, Counted
    <2> QED
      BY <1>4, <2>1, NotServedKeeps DEF tvars
  <1> QED
    BY <1>2, <1>3, <1>4 DEF ONext

LEMMA WholeFromInvariant == LInv => LedgerIsWhole
  <1> SUFFICES ASSUME LInv PROVE LedgerIsWhole
    OBVIOUS
  <1>1. TypeOK
    <2>1. \A r \in Requests : requests[r].pc \in {"idle", "import", "patch", "backfill", "suggest"}
      <3> SUFFICES ASSUME NEW r \in Requests
                   PROVE  requests[r].pc \in {"idle", "import", "patch", "backfill", "suggest"}
        OBVIOUS
      <3>1. RequestTyped(requests[r], rows)
        BY DEF LInv
      <3> QED
        BY <3>1 DEF RequestTyped, Importing, Patching, Sweeping, Idle
    <2> QED
      BY <2>1 DEF LInv, TablesTyped, Counted, TypeOK
  <1>2. ImportKeepsEveryLine
    BY RelatedJoins DEF LInv, LinesKept, ImportKeepsEveryLine
  <1>3. KnownCategories
    <2> SUFFICES ASSUME ~ regime.overlap PROVE KnownCategories
      BY DEF KnownCategories
    <2>1. NamesInUse
      BY DEF LInv
    <2>2. \A h \in Present : Resolved(h) \in InUse \cup {None}
      BY <2>1 DEF NamesInUse, Resolved, Present
    <2>3. \A a \in ToSet(aliases) : a.category \in InUse
      BY <2>1 DEF NamesInUse, ToSet
    <2> QED
      BY <2>2, <2>3 DEF KnownCategories, InUse
  <1> QED
    BY <1>1, <1>2, <1>3 DEF LedgerIsWhole

\* Every line of an imported workbook is in the ledger, under its own text or
\* one that merges have led to, whatever requests overlap; and requests that
\* do not overlap leave no category in use that a rename has replaced
\* (direct_import and the endpoints that categorise, in finance/importer.py
\* and finance/api.py).
THEOREM LedgerAlwaysWhole == OSpec => []LedgerIsWhole
  <1>1. LInv /\ [ONext]_<<tvars, ovars>> => LInv'
    BY LNextInductive
  <1> QED
    BY <1>1, LInitInductive, WholeFromInvariant, PTL DEF OSpec

\* A row that shows a category goes on showing one whatever sweeps, renames
\* and edits come.  Two imports may empty it: one that merges another version
\* of its text into it and, only where requests overlap, one that overwrites
\* it and had read it without a category.
THEOREM CategorisedAlwaysStays == OSpec => CategorisedStays
  <1>1. LInv /\ [ONext]_<<tvars, ovars>> => LInv'
    BY LNextInductive
  <1>2. LInv /\ [ONext]_<<tvars, ovars>> => [KeepsCategories]_tvars
    BY LNextInductive
  <1>3. OSpec => [][KeepsCategories]_tvars
    BY <1>1, <1>2, LInitInductive, PTL DEF OSpec
  <1> QED
    BY <1>3 DEF CategorisedStays, KeepsCategories
=============================================================================
