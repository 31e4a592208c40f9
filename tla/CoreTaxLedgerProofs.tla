------------------------- MODULE CoreTaxLedgerProofs -------------------------
(***************************************************************************)
(* Proofs about CoreTaxLedger, for every set of items, lines, keys and     *)
(* requests; in a second part about WealthLedger, the net worth that the   *)
(* same database keeps, for every set of assets, months and amounts; and   *)
(* in a third about PdfPipeline, which brings statements there, for every  *)
(* set of PDFs, jobs and failures.  No part uses facts of another.         *)
(***************************************************************************)
EXTENDS CoreTaxLedger, WealthLedger, PdfPipeline, FiniteSetTheorems, FunctionTheorems, WellFoundedInduction, TLAPS

(***************************************************************************)
(* Types, part by part.                                                    *)
(***************************************************************************)
LedgerTyped ==
  /\ rows \in [Keys -> Row \cup {None}] /\ nextRow \in Nat
  /\ minted \subseteq Keys
  /\ staging \in [Lines -> Staged] \cup {None}

LearnedTyped == mappings \in [Fingerprints -> Mapping \cup {None}] /\ nextId \in Nat

Bounded ==
  /\ regime \in Regimes
  /\ edits \in 0 .. regime.edits /\ starts \in 0 .. regime.starts

\* What a request relies on at a program counter.
Poised(q) ==
  /\ q.pc \in {"migrate", "apply"} => q.todo # {} /\ q.at \in Keys /\ q.rows[q.at] # None
  /\ q.pc = "migrate" => q.lookup[<<"old", Current(q)>>] # None
  /\ q.pc = "commit" => q.staged # None
  /\ q.pc = "reset" => \A k \in q.chosen : q.rows[k] # None /\ ~ q.rows[k].cell["amount"].locked

Typed == TypeOK /\ \A r \in Requests : Poised(requests[r])

LEMMA EditedTyped ==
  ASSUME Typed, Edited, LedgerTyped', LearnedTyped', guarded' \subseteq Keys \X Fields
  PROVE  Typed'
  <1>1. /\ edits' = edits + 1 /\ edits < regime.edits /\ settled' = {}
        /\ UNCHANGED <<requests, runs, components, regime, starts>>
    BY DEF Edited
  <1>2. regime.edits \in Nat /\ edits' \in 0 .. regime.edits
    BY <1>1, RegimesAssumption DEF Typed, TypeOK
  <1>3. TypeOK'
    BY <1>1, <1>2 DEF Typed, TypeOK, LedgerTyped, LearnedTyped
  <1>4. \A r \in Requests : Poised(requests[r])'
    BY <1>1 DEF Typed, Poised, Current
  <1> QED
    BY <1>3, <1>4 DEF Typed

LEMMA CellTyped ==
  ASSUME NEW row \in Row, NEW cell \in [Fields -> Cell]
  PROVE  [row EXCEPT !.cell = cell] \in Row /\ [row EXCEPT !.cell = cell] # None
  <1>1. [row EXCEPT !.cell = cell] \in Row
    BY DEF Row
  <1> QED
    BY <1>1, NoneAssumption

\* Keys that were not handed out before.
LEMMA ParsedKeys ==
  ASSUME Parse
  PROVE  \E key \in [Lines -> Keys \ minted] :
           /\ staging' = [l \in Lines |-> [key |-> key[l], override |-> None]]
           /\ minted' = minted \cup {key[l] : l \in Lines}
  <1> DEFINE key == CHOOSE g \in Injection(Lines, Keys \ minted) : TRUE
  <1>1. key \in Injection(Lines, Keys \ minted)
    BY DEF Parse
  <1>2. key \in [Lines -> Keys \ minted]
    BY <1>1 DEF Injection
  <1>3. /\ staging' = [l \in Lines |-> [key |-> key[l], override |-> None]]
        /\ minted' = minted \cup {key[l] : l \in Lines}
    BY DEF Parse
  <1> QED
    BY <1>2, <1>3

LEMMA Created ==
  ASSUME Typed, NEW in \in Inputs, NEW fs \in SUBSET Fields, Create(in, fs)
  PROVE  \E k \in Keys \ minted, row \in Row :
           /\ rows' = [rows EXCEPT ![k] = row] /\ row.id = nextRow
           /\ nextRow' = nextRow + 1 /\ minted' = minted \cup {k}
  <1> DEFINE k == CHOOSE k \in Keys \ minted : TRUE
             row == [id |-> nextRow, names |-> in.names, rule |-> in.rule,
                     prior |-> None, cell |-> ByHand(fs)]
  <1>1. k \in Keys \ minted
    BY DEF Create, Typed, TypeOK
  <1>2. ByHand(fs) \in [Fields -> Cell]
    BY DEF ByHand, Cell, Values, Sources
  <1>3. row \in Row
    BY <1>2, InputsAssumption DEF Row, Typed, TypeOK
  <1>4. row.id = nextRow
    OBVIOUS
  <1>5. rows' = [rows EXCEPT ![k] = row] /\ nextRow' = nextRow + 1 /\ minted' = minted \cup {k}
    BY DEF Create
  <1> QED
    BY <1>1, <1>3, <1>4, <1>5

LEMMA EntryTyped ==
  ASSUME Typed, NEW fp \in Fingerprints, NEW k \in Keys, NEW score \in 0 .. MaxScore,
         Assign(fp, k, score)
  PROVE  LearnedTyped'
  <1> DEFINE entry == [id |-> IF mappings[fp] = None THEN nextId ELSE mappings[fp].id,
                       target |-> k, score |-> score]
  <1>1. mappings' = [mappings EXCEPT ![fp] = entry]
    BY DEF Assign
  <1>2. entry \in Mapping
    BY DEF Typed, TypeOK, Mapping
  <1>3. nextId' \in Nat
    BY DEF Assign, Typed, TypeOK
  <1> HIDE DEF entry
  <1> QED
    BY <1>1, <1>2, <1>3 DEF LearnedTyped, Typed, TypeOK

\* The actions of the operator that change a row, or remove it.
RowEdits ==
  \/ \E k \in Keys : EditPrior(k) \/ Delete(k)
  \/ \E k \in Keys, fs \in (SUBSET Fields) \ {{}} : Edit(k, fs)
  \/ \E k \in Keys, f \in Fields : Lock(k, f) \/ Unlock(k, f)
  \/ \E k \in Keys, in \in Inputs : Describe(k, in)

\* What such an action leaves of its row, and of the locks that history keeps.
Removed(k) == rows'[k] = None /\ guarded' = guarded \ ({k} \X Fields)
Touched(k) ==
  /\ rows'[k] \in Row /\ rows'[k].id = rows[k].id
  /\ \A f \in Fields :
       /\ rows[k].cell[f].locked /\ ~ rows'[k].cell[f].locked => <<k, f>> \notin guarded'
       /\ rows'[k].cell[f].value \in {rows[k].cell[f].value, Operator}
       /\ <<k, f>> \in guarded' =>
            <<k, f>> \in guarded \/ (AllIdle /\ rows'[k].cell[f].locked)
  /\ \A c \in guarded' : c \in guarded \/ (c[1] = k /\ c[2] \in Fields)

LEMMA RowEdited ==
  ASSUME Typed, RowEdits
  PROVE  /\ UNCHANGED <<nextRow, minted, staging, learned, requests>>
         /\ \E k \in Keys : /\ \A g \in Keys : g # k => rows'[g] = rows[g]
                            /\ rows[k] # None /\ (Removed(k) \/ Touched(k))
         /\ rows' \in [Keys -> Row \cup {None}]
         /\ guarded' \subseteq Keys \X Fields
  <1> DEFINE Steady(k) == \A g \in Keys : g # k => rows'[g] = rows[g]
             Goal == /\ \E k \in Keys : Steady(k) /\ rows[k] # None /\ (Removed(k) \/ Touched(k))
                     /\ rows' \in [Keys -> Row \cup {None}]
                     /\ guarded' \subseteq Keys \X Fields
  <1>1. rows \in [Keys -> Row \cup {None}] /\ guarded \subseteq Keys \X Fields
    BY DEF Typed, TypeOK
  <1>2. ASSUME NEW k \in Keys, EditPrior(k) PROVE Goal
    <2>1. /\ rows[k] # None /\ guarded' = guarded
          /\ rows' = [rows EXCEPT ![k] = [rows[k] EXCEPT !.prior = Operator]]
      BY <1>2 DEF EditPrior
    <2>2. rows[k] \in Row
      BY <1>1, <2>1
    <2>3. [rows[k] EXCEPT !.prior = Operator] \in Row
      BY <2>2 DEF Row
    <2>4. rows'[k] = [rows[k] EXCEPT !.prior = Operator] /\ Steady(k) /\ rows' \in [Keys -> Row \cup {None}]
      BY <1>1, <2>1, <2>3
    <2>5. Touched(k)
      BY <2>1, <2>2, <2>3, <2>4 DEF Row, Touched
    <2> QED
      BY <1>1, <2>1, <2>4, <2>5
  <1>3. ASSUME NEW k \in Keys, Delete(k) PROVE Goal
    BY <1>1, <1>3 DEF Delete, Removed
  <1>4. ASSUME NEW k \in Keys, NEW in \in Inputs, Describe(k, in) PROVE Goal
    <2> DEFINE row == [rows[k] EXCEPT !.names = in.names, !.rule = in.rule]
    <2>1. rows[k] # None /\ guarded' = guarded /\ rows' = [rows EXCEPT ![k] = row]
      BY <1>4 DEF Describe
    <2>2. rows[k] \in Row
      BY <1>1, <2>1
    <2>3. row \in Row /\ row.id = rows[k].id /\ row.cell = rows[k].cell
      BY <2>2, InputsAssumption DEF Row
    <2> HIDE DEF row
    <2>4. rows'[k] = row /\ Steady(k) /\ rows' \in [Keys -> Row \cup {None}]
      BY <1>1, <2>1, <2>3
    <2>5. Touched(k)
      BY <2>1, <2>3, <2>4 DEF Touched
    <2> QED
      BY <1>1, <2>1, <2>4, <2>5
  <1>5. ASSUME NEW k \in Keys, NEW fs \in SUBSET Fields, Edit(k, fs) PROVE Goal
    <2> DEFINE old == rows[k].cell
               cell == [f \in Fields |-> IF f \in fs
                          THEN [old[f] EXCEPT !.value = Operator, !.locked = TRUE] ELSE old[f]]
               row == [rows[k] EXCEPT !.cell = cell]
    <2>1. rows[k] # None /\ Guard(k, fs) /\ rows' = [rows EXCEPT ![k] = row]
      BY <1>5 DEF Edit
    <2>2. rows[k] \in Row /\ old \in [Fields -> Cell]
      BY <1>1, <2>1 DEF Row
    <2>3. cell \in [Fields -> Cell]
      BY <2>2 DEF Cell, Values
    <2>4. \A f \in Fields : IF f \in fs THEN cell[f].value = Operator /\ cell[f].locked
                            ELSE cell[f] = old[f]
      BY <2>2 DEF Cell
    <2> HIDE DEF cell
    <2>5. row \in Row /\ row.id = rows[k].id /\ row.cell = cell
      BY <2>2, <2>3 DEF Row
    <2> HIDE DEF row
    <2>6. rows'[k] = row /\ Steady(k) /\ rows' \in [Keys -> Row \cup {None}]
      BY <1>1, <2>1, <2>5
    <2>7. \A f \in Fields : <<k, f>> \in guarded' => <<k, f>> \in guarded \/ (AllIdle /\ f \in fs)
      BY <2>1 DEF Guard
    <2>8. guarded' \subseteq Keys \X Fields
      BY <1>1, <2>1 DEF Guard
    <2>10. \A c \in guarded' : c \in guarded \/ (c[1] = k /\ c[2] \in Fields)
      BY <2>1 DEF Guard
    <2>9. Touched(k)
      BY <2>4, <2>5, <2>6, <2>7, <2>10 DEF Touched
    <2> QED
      BY <2>1, <2>6, <2>8, <2>9
  <1>6. ASSUME NEW k \in Keys, NEW f \in Fields, Lock(k, f) \/ Unlock(k, f) PROVE Goal
    <2>1. /\ rows[k] # None
          /\ \E b \in BOOLEAN :
               /\ rows' = [rows EXCEPT ![k].cell[f].locked = b]
               /\ IF b THEN Guard(k, {f}) ELSE guarded' = guarded \ {<<k, f>>}
      BY <1>6 DEF Lock, Unlock
    <2>2. PICK b \in BOOLEAN :
               /\ rows' = [rows EXCEPT ![k].cell[f].locked = b]
               /\ IF b THEN Guard(k, {f}) ELSE guarded' = guarded \ {<<k, f>>}
      BY <2>1
    <2> DEFINE old == rows[k].cell
               cell == [old EXCEPT ![f] = [old[f] EXCEPT !.locked = b]]
               row == [rows[k] EXCEPT !.cell = cell]
    <2>3. rows[k] \in Row /\ old \in [Fields -> Cell]
      BY <1>1, <2>1 DEF Row
    <2>4. rows' = [rows EXCEPT ![k] = row]
      BY <2>2
    <2>5. cell \in [Fields -> Cell]
      BY <2>3 DEF Cell
    <2>6. \A g \in Fields : IF g = f THEN cell[g].value = old[g].value /\ cell[g].locked = b
                            ELSE cell[g] = old[g]
      BY <2>3 DEF Cell
    <2> HIDE DEF cell
    <2>7. row \in Row /\ row.id = rows[k].id /\ row.cell = cell
      BY <2>3, <2>5 DEF Row
    <2> HIDE DEF row
    <2>8. rows'[k] = row /\ Steady(k) /\ rows' \in [Keys -> Row \cup {None}]
      BY <1>1, <2>4, <2>7
    <2>9. \A g \in Fields : <<k, g>> \in guarded' =>
             <<k, g>> \in guarded \/ (AllIdle /\ g = f /\ b)
      BY <2>2 DEF Guard
    <2>10. /\ guarded' \subseteq Keys \X Fields
           /\ ~ b => <<k, f>> \notin guarded'
           /\ \A c \in guarded' : c \in guarded \/ (c[1] = k /\ c[2] \in Fields)
      BY <1>1, <2>2 DEF Guard
    <2>11. Touched(k)
      BY <2>6, <2>7, <2>8, <2>9, <2>10 DEF Touched
    <2> QED
      BY <2>1, <2>8, <2>10, <2>11
  <1>7. UNCHANGED <<nextRow, minted, staging, learned, requests>>
    BY DEF RowEdits, EditPrior, Delete, Edit, Lock, Unlock, Describe, Edited
  <1> HIDE DEF Goal
  <1>8. Goal
    BY <1>2, <1>3, <1>4, <1>5, <1>6 DEF RowEdits
  <1> QED
    BY <1>7, <1>8 DEF Goal

LEMMA OperatorTyped ==
  ASSUME Typed, OperatorNext
  PROVE  Typed'
  <1>1. LedgerTyped /\ LearnedTyped /\ guarded \subseteq Keys \X Fields
    BY DEF Typed, TypeOK, LedgerTyped, LearnedTyped
  <1>2. CASE RowEdits
    <2>1. Edited
      BY <1>2 DEF RowEdits, EditPrior, Delete, Edit, Lock, Unlock, Describe
    <2>2. LedgerTyped' /\ LearnedTyped' /\ guarded' \subseteq Keys \X Fields
      BY <1>1, <1>2, RowEdited DEF LedgerTyped, LearnedTyped, learned
    <2> QED
      BY <2>1, <2>2, EditedTyped
  <1>3. CASE Parse
    <2>1. PICK key \in [Lines -> Keys \ minted] :
            /\ staging' = [l \in Lines |-> [key |-> key[l], override |-> None]]
            /\ minted' = minted \cup {key[l] : l \in Lines}
      BY <1>3, ParsedKeys
    <2>2. staging' \in [Lines -> Staged]
      BY <2>1 DEF Staged
    <2>3. minted' \subseteq Keys
      BY <1>1, <2>1 DEF LedgerTyped
    <2>4. Edited /\ UNCHANGED <<rows, nextRow, learned, guarded>>
      BY <1>3 DEF Parse
    <2> QED
      BY <1>1, <2>2, <2>3, <2>4, EditedTyped DEF LedgerTyped, LearnedTyped, learned
  <1>4. CASE Discard
    BY <1>1, <1>4, EditedTyped DEF Discard, LedgerTyped, LearnedTyped, learned
  <1>5. ASSUME NEW l \in Lines, NEW carry \in BOOLEAN, Override(l, carry)
        PROVE  Typed'
    <2>1. /\ staging # None /\ staging' = [staging EXCEPT ![l].override = carry]
          /\ Edited /\ UNCHANGED <<rows, nextRow, minted, learned, guarded>>
      BY <1>5 DEF Override
    <2>2. staging' \in [Lines -> Staged]
      BY <1>1, <2>1 DEF LedgerTyped, Staged
    <2> QED
      BY <1>1, <2>1, <2>2, EditedTyped DEF LedgerTyped, LearnedTyped, learned
  <1>6. ASSUME NEW in \in Inputs, NEW fs \in SUBSET Fields, Create(in, fs)
        PROVE  Typed'
    <2>1. Edited /\ UNCHANGED <<staging, learned, guarded>>
      BY <1>6 DEF Create
    <2>2. PICK k \in Keys \ minted, row \in Row :
           /\ rows' = [rows EXCEPT ![k] = row] /\ row.id = nextRow
           /\ nextRow' = nextRow + 1 /\ minted' = minted \cup {k}
      BY <1>6, Created
    <2>3. LedgerTyped'
      BY <1>1, <2>1, <2>2 DEF LedgerTyped
    <2> QED
      BY <1>1, <2>1, <2>3, EditedTyped DEF LearnedTyped, learned
  <1>7. ASSUME NEW fp \in Fingerprints, NEW k \in Keys, AssignMapping(fp, k) \/ Retarget(fp, k)
        PROVE  Typed'
    <2>1. MaxScore \in 0 .. MaxScore
      BY ScoreAssumption
    <2>2. mappings[fp] = None \/ mappings[fp] \in Mapping
      BY <1>1 DEF LearnedTyped
    <2>3. \E score \in 0 .. MaxScore : Assign(fp, k, score)
      BY <1>7, <2>1, <2>2 DEF AssignMapping, Retarget, Mapping
    <2>4. LearnedTyped'
      BY <2>3, EntryTyped
    <2>5. Edited /\ UNCHANGED <<ledger, guarded>>
      BY <1>7 DEF AssignMapping, Retarget
    <2> QED
      BY <1>1, <2>4, <2>5, EditedTyped DEF LedgerTyped, ledger
  <1>8. ASSUME NEW fp \in Fingerprints, DeleteMapping(fp) \/ ConfirmMapping(fp)
        PROVE  Typed'
    <2>1. Edited /\ UNCHANGED <<ledger, nextId, guarded>> /\ mappings[fp] \in Mapping
      BY <1>1, <1>8 DEF DeleteMapping, ConfirmMapping, LearnedTyped
    <2>2. Confirmed(mappings[fp].score) \in 0 .. MaxScore
      BY <2>1, ScoreAssumption DEF Confirmed, Mapping
    <2>3. [mappings[fp] EXCEPT !.score = Confirmed(mappings[fp].score)] \in Mapping
      BY <2>1, <2>2 DEF Mapping
    <2>4. \/ mappings' = [mappings EXCEPT ![fp] = None]
          \/ mappings' = [mappings EXCEPT ![fp] =
                            [mappings[fp] EXCEPT !.score = Confirmed(mappings[fp].score)]]
      BY <1>8 DEF DeleteMapping, ConfirmMapping
    <2>5. LearnedTyped'
      BY <1>1, <2>1, <2>3, <2>4 DEF LearnedTyped
    <2> QED
      BY <1>1, <2>1, <2>5, EditedTyped DEF LedgerTyped, ledger
  <1> QED
    BY <1>2, <1>3, <1>4, <1>5, <1>6, <1>7, <1>8 DEF OperatorNext, RowEdits
-----------------------------------------------------------------------------
(***************************************************************************)
(* The items in the order of the snapshot.                                 *)
(***************************************************************************)
LEMMA CurrentFirst ==
  ASSUME NEW q, q.todo \in SUBSET Items, q.todo # {}
  PROVE  /\ Current(q) \in q.todo
         /\ \A j \in q.todo : Rank[Current(q)] <= Rank[j]
  <1> DEFINE UpTo(i) == {j \in Items : Rank[j] <= Rank[i]}
             sets == {UpTo(i) : i \in q.todo}
  <1>1. Rank \in [Items -> Nat] /\ IsFiniteSet(Items)
    BY ItemsAssumption DEF Injection
  <1>2. \A i \in q.todo : UpTo(i) \in SUBSET Items /\ IsFiniteSet(UpTo(i))
    BY <1>1, FS_Subset
  <1>3. sets \subseteq FiniteSubsetsOf(Items) /\ sets # {}
    BY <1>2 DEF FiniteSubsetsOf
  <1>4. PICK x \in sets : \A y \in sets : ~ (<<y, x>> \in StrictSubsetOrdering(Items))
    <2>1. IsWellFoundedOn(StrictSubsetOrdering(Items), FiniteSubsetsOf(Items))
      BY FS_StrictSubsetOrderingWellFounded
    <2> HIDE DEF sets
    <2> QED
      BY <1>3, <2>1, WFMin
  <1>5. PICK i \in q.todo : x = UpTo(i)
    BY <1>4
  <1>6. ASSUME NEW j \in q.todo, Rank[j] < Rank[i]
        PROVE  FALSE
    <2>1. UpTo(j) \subseteq UpTo(i) /\ i \in UpTo(i) /\ i \notin UpTo(j)
      BY <1>1, <1>6
    <2>2. UpTo(j) \in SUBSET Items /\ UpTo(i) \in SUBSET Items /\ UpTo(j) \in sets
      BY <1>2
    <2> HIDE DEF UpTo, sets
    <2>3. <<UpTo(j), UpTo(i)>> \in StrictSubsetOrdering(Items)
      BY <2>1, <2>2 DEF StrictSubsetOrdering
    <2> QED
      BY <1>4, <1>5, <2>2, <2>3
  <1>7. \A j \in q.todo : Rank[i] <= Rank[j]
    BY <1>1, <1>6
  <1> QED
    BY <1>7 DEF Current
-----------------------------------------------------------------------------
(***************************************************************************)
(* Types of the requests' steps.                                           *)
(***************************************************************************)
LEMMA IdleTyped == Idle \in Request /\ Poised(Idle)
  <1>1. NoRows \in [Keys -> Row \cup {None}] /\ NoMappings \in [Fingerprints -> Mapping \cup {None}]
    BY DEF NoRows, NoMappings
  <1>2. Idle \in Request
    BY <1>1 DEF Idle, Request
  <1>3. Idle.pc = "idle"
    BY DEF Idle
  <1> QED
    BY <1>2, <1>3 DEF Poised

LEMMA BecomeTyped ==
  ASSUME Typed, NEW r \in Requests, NEW q \in Request, Poised(q), Become(r, q),
         LedgerTyped', LearnedTyped', Bounded', guarded' = guarded,
         components' \subseteq [key : Keys, item : Items, run : Nat], runs' \in Nat,
         settled' \subseteq SUBSET Items
  PROVE  Typed'
  <1>1. requests' = [requests EXCEPT ![r] = q] /\ requests \in [Requests -> Request]
    BY DEF Become, Typed, TypeOK
  <1>2. \A s \in Requests : requests'[s] = q \/ requests'[s] = requests[s]
    BY <1>1
  <1>3. requests' \in [Requests -> Request]
    BY <1>1
  <1>4. \A s \in Requests : Poised(requests'[s])
    BY <1>2 DEF Typed
  <1>5. guarded' \subseteq Keys \X Fields
    BY DEF Typed, TypeOK
  <1>6. TypeOK'
    BY <1>3, <1>5 DEF TypeOK, LedgerTyped, LearnedTyped, Bounded
  <1>7. \A s \in Requests : Poised(requests[s])'
    BY <1>4 DEF Poised, Current
  <1> QED
    BY <1>6, <1>7 DEF Typed

\* The first steps of the long requests.
LEMMA StartTyped ==
  ASSUME Typed, NEW r \in Requests, StartReconcile(r) \/ StartReset(r) \/ StartCommit(r)
  PROVE  Typed'
  <1> DEFINE Unlocked(rules) == {k \in Keys : /\ rows[k] # None /\ rows[k].rule \in rules
                                              /\ ~ rows[k].cell["amount"].locked}
  <1>1. Started(r)
    BY DEF StartReconcile, StartReset, StartCommit
  <1>2. /\ starts' \in 0 .. regime.starts
        /\ UNCHANGED <<ledger, learned, components, runs, guarded, regime, edits>>
    BY <1>1, RegimesAssumption DEF Started, Typed, TypeOK
  <1>3. LedgerTyped' /\ LearnedTyped' /\ Bounded'
    BY <1>2 DEF Typed, TypeOK, LedgerTyped, LearnedTyped, Bounded, ledger, learned
  <1>4. /\ rows \in [Keys -> Row \cup {None}] /\ staging \in [Lines -> Staged] \cup {None}
        /\ components' \subseteq [key : Keys, item : Items, run : Nat] /\ runs' \in Nat
        /\ settled \subseteq SUBSET Items
    BY <1>2 DEF Typed, TypeOK
  <1>5. settled' \subseteq SUBSET Items
    BY <1>4 DEF StartReconcile, StartReset, StartCommit
  <1>6. \E q \in Request : Poised(q) /\ Become(r, q)
    <2>1. CASE StartReconcile(r)
      <3>1. PICK present \in SUBSET Items :
               Become(r, [Idle EXCEPT !.pc = "mappings", !.rows = rows,
                                      !.items = present, !.todo = present])
        BY <2>1 DEF StartReconcile
      <3>2. [Idle EXCEPT !.pc = "mappings", !.rows = rows, !.items = present, !.todo = present] \in Request
        BY <1>4, IdleTyped DEF Request
      <3>3. [Idle EXCEPT !.pc = "mappings", !.rows = rows, !.items = present, !.todo = present].pc = "mappings"
        BY DEF Idle
      <3> QED
        BY <3>1, <3>2, <3>3 DEF Poised
    <2>2. CASE StartReset(r)
      <3>1. PICK rules : Become(r, [Idle EXCEPT !.pc = "reset", !.rows = rows, !.chosen = Unlocked(rules)])
        BY <2>2 DEF StartReset
      <3> DEFINE q == [Idle EXCEPT !.pc = "reset", !.rows = rows, !.chosen = Unlocked(rules)]
      <3>2. q \in Request
        BY <1>4, IdleTyped DEF Request
      <3>3. q.pc = "reset" /\ q.rows = rows /\ q.chosen = Unlocked(rules)
        BY DEF Idle
      <3> HIDE DEF q
      <3>4. Poised(q)
        BY <3>3 DEF Poised
      <3> QED
        BY <3>1, <3>2, <3>4 DEF q
    <2>3. CASE StartCommit(r)
      <3> DEFINE q == [Idle EXCEPT !.pc = "commit", !.staged = staging]
      <3>1. q \in Request
        BY <1>4, IdleTyped DEF Request
      <3>2. q.pc = "commit" /\ q.staged = staging /\ staging # None /\ Become(r, q)
        BY <2>3 DEF Idle, StartCommit
      <3> HIDE DEF q
      <3> QED
        BY <3>1, <3>2 DEF Poised
    <2> QED
      BY <2>1, <2>2, <2>3
  <1>7. guarded' = guarded
    BY <1>2
  <1> QED
    BY <1>3, <1>4, <1>5, <1>6, <1>7, BecomeTyped

\* Steps that change no table but the mappings, and of those only by Assign.
LEMMA QuietTyped ==
  ASSUME Typed, NEW r \in Requests, NEW q \in Request, Poised(q), Become(r, q),
         UNCHANGED <<ledger, components, runs>>, Stepped, LearnedTyped'
  PROVE  Typed'
  <1>1. UNCHANGED <<rows, nextRow, minted, staging, components, runs, guarded, settled,
                    regime, edits, starts>>
    BY DEF ledger, Stepped
  <1>2. LedgerTyped' /\ Bounded' /\ guarded' = guarded /\ settled' \subseteq SUBSET Items
        /\ components' \subseteq [key : Keys, item : Items, run : Nat] /\ runs' \in Nat
    BY <1>1 DEF Typed, TypeOK, LedgerTyped, Bounded
  <1> QED
    BY <1>2, BecomeTyped

LEMMA MatchTyped ==
  ASSUME Typed, NEW r \in Requests,
         ReadMappings(r) \/ UseMapping(r) \/ DropLegacy(r) \/ Migrate(r)
           \/ Learn(r) \/ Guess(r) \/ Unmatched(r)
  PROVE  Typed'
  <1> DEFINE q == requests[r]
             i == Current(q)
  <1>1. /\ q \in Request /\ Poised(q) /\ LearnedTyped /\ q.todo \in SUBSET Items
        /\ q.lookup \in [Fingerprints -> Mapping \cup {None}]
        /\ q.rows \in [Keys -> Row \cup {None}] /\ q.used \subseteq Nat
    BY DEF Typed, TypeOK, LearnedTyped, Request
  <1>2. q.todo # {} => i \in Items
    BY <1>1, CurrentFirst
  <1>3. \A c \in {"old", "new"} : q.todo # {} => <<c, i>> \in Fingerprints
    BY <1>2 DEF Fingerprints
  <1>4. UNCHANGED <<ledger, components, runs>> /\ Stepped
    BY DEF ReadMappings, UseMapping, DropLegacy, Migrate, Learn, Guess, Unmatched
  <1>5. learned' = learned => LearnedTyped'
    BY <1>1 DEF LearnedTyped, learned
  <1> HIDE DEF q, i
  <1>6. CASE ReadMappings(r)
    <2> DEFINE both == {p \in Fingerprints \X Keys :
                          mappings[p[1]] # None /\ mappings[p[1]].target = p[2]}
               new == [q EXCEPT !.pc = "item", !.lookup = mappings, !.before = both]
    <2>1. Become(r, new) /\ learned' = learned
      BY <1>6 DEF ReadMappings, q
    <2>2. new \in Request
      BY <1>1 DEF Request, LearnedTyped
    <2>3. new.pc = "item"
      BY <1>1 DEF Request
    <2>4. Poised(new)
      BY <2>3 DEF Poised
    <2> QED
      BY <1>4, <1>5, <2>1, <2>2, <2>4, QuietTyped
  <1>7. CASE UseMapping(r)
    <2> DEFINE found == q.lookup[<<"new", i>>]
               new == [q EXCEPT !.pc = "apply", !.at = found.target, !.used = @ \cup {found.id}]
    <2>1. Become(r, new) /\ learned' = learned /\ q.todo # {} /\ TierOne(q)
      BY <1>7 DEF UseMapping, Working, q, i
    <2>2. found \in Mapping /\ q.rows[found.target] # None
      BY <1>1, <1>3, <2>1 DEF TierOne, Leads, i
    <2>3. found.target \in Keys /\ found.id \in Nat
      BY <2>2 DEF Mapping
    <2> HIDE DEF found
    <2>4. new \in Request
      BY <1>1, <2>3 DEF Request
    <2>5. new.pc = "apply" /\ new.todo = q.todo /\ new.at = found.target /\ new.rows = q.rows
      BY <1>1 DEF Request
    <2>6. Poised(new)
      BY <2>1, <2>2, <2>3, <2>5 DEF Poised
    <2> QED
      BY <1>4, <1>5, <2>1, <2>4, <2>6, QuietTyped
  <1>8. CASE DropLegacy(r)
    <2> DEFINE fp == <<"old", i>>
               found == q.lookup[fp]
               new == [q EXCEPT !.pc = "migrate", !.at = found.target]
    <2>1. Become(r, new) /\ q.todo # {} /\ Legacy(q) /\ nextId' = nextId
      BY <1>8 DEF DropLegacy, Working, q, i
    <2>2. mappings' = IF mappings[fp] # None /\ mappings[fp].id = found.id
                      THEN [mappings EXCEPT ![fp] = None] ELSE mappings
      BY <1>8 DEF DropLegacy, q, i
    <2>3. found \in Mapping /\ q.rows[found.target] # None
      BY <1>1, <1>3, <2>1 DEF Legacy, Leads, i
    <2>4. found.target \in Keys
      BY <2>3 DEF Mapping
    <2>9. found # None
      BY <2>3, NoneAssumption
    <2> HIDE DEF found
    <2>5. new \in Request
      BY <1>1, <2>4 DEF Request
    <2>6. new.pc = "migrate" /\ new.todo = q.todo /\ new.at = found.target /\ new.rows = q.rows
          /\ new.lookup = q.lookup
      BY <1>1 DEF Request
    <2>7. Current(new) = i
      BY <2>6 DEF Current, i
    <2>8. Poised(new)
      BY <2>1, <2>3, <2>4, <2>6, <2>7, <2>9 DEF Poised, found
    <2>10. LearnedTyped'
      BY <1>1, <2>1, <2>2 DEF LearnedTyped
    <2> QED
      BY <1>4, <2>1, <2>5, <2>8, <2>10, QuietTyped
  <1>9. ASSUME NEW k \in Keys, NEW score \in 0 .. MaxScore, q.todo # {}, q.rows[k] # None,
               Assign(<<"new", i>>, k, score), Become(r, [Learned(q) EXCEPT !.at = k])
        PROVE  Typed'
    <2>1. LearnedTyped'
      BY <1>3, <1>9, EntryTyped
    <2> DEFINE entry == mappings'[<<"new", i>>]
               new == [Learned(q) EXCEPT !.at = k]
    <2>2. entry = [id |-> IF mappings[<<"new", i>>] = None THEN nextId ELSE mappings[<<"new", i>>].id,
                   target |-> k, score |-> score]
      BY <1>1, <1>3, <1>9 DEF Assign, LearnedTyped
    <2>3. entry.id \in Nat
      BY <1>1, <1>3, <1>9, <2>2 DEF LearnedTyped, Mapping
    <2>4. Learned(q) = [q EXCEPT !.pc = "apply", !.lookup = mappings', !.used = @ \cup {entry.id}]
      BY DEF Learned, i
    <2> HIDE DEF entry
    <2>5. Learned(q) \in Request
      <3>1. mappings' \in [Fingerprints -> Mapping \cup {None}]
        BY <2>1 DEF LearnedTyped
      <3>2. q.used \cup {entry.id} \subseteq Nat
        BY <1>1, <2>3
      <3>3. ASSUME NEW lookup \in [Fingerprints -> Mapping \cup {None}], NEW used \in SUBSET Nat
            PROVE  [q EXCEPT !.pc = "apply", !.lookup = lookup, !.used = used] \in Request
        BY <1>1 DEF Request
      <3> QED
        BY <2>4, <3>1, <3>2, <3>3
    <2>6. Learned(q).pc = "apply" /\ Learned(q).todo = q.todo /\ Learned(q).rows = q.rows
      BY <1>1, <2>4 DEF Request
    <2>7. new \in Request /\ new.pc = "apply" /\ new.todo = q.todo /\ new.rows = q.rows /\ new.at = k
      BY <2>5, <2>6 DEF Request
    <2> HIDE DEF new
    <2>8. Poised(new)
      BY <1>9, <2>7 DEF Poised
    <2>9. Become(r, new)
      BY <1>9 DEF new
    <2> QED
      BY <1>4, <2>1, <2>7, <2>8, <2>9, QuietTyped
  <1>10. CASE Migrate(r)
    <2> DEFINE seen == q.lookup[<<"old", i>>]
    <2>1. q.pc = "migrate" /\ Assign(<<"new", i>>, q.at, seen.score) /\ Become(r, Learned(q))
      BY <1>10 DEF Migrate, At, q, i
    <2>2. q.todo # {} /\ q.at \in Keys /\ q.rows[q.at] # None /\ seen # None
      BY <1>1, <2>1 DEF Poised, i
    <2>3. seen.score \in 0 .. MaxScore
      BY <1>1, <1>3, <2>2 DEF Mapping
    <2>4. Learned(q) = [Learned(q) EXCEPT !.at = q.at]
      BY <1>1 DEF Learned, Request
    <2> HIDE DEF seen
    <2> QED
      BY <1>9, <2>1, <2>2, <2>3, <2>4
  <1>11. CASE Learn(r)
    <2>1. MaxScore \in 0 .. MaxScore
      BY ScoreAssumption
    <2>2. PICK k \in Candidates(q) : /\ Assign(<<"new", i>>, k, MaxScore)
                                     /\ Become(r, [Learned(q) EXCEPT !.at = k])
      BY <1>11 DEF Learn, q, i
    <2>3. q.todo # {} /\ k \in Keys /\ q.rows[k] # None
      BY <1>11, <2>2 DEF Learn, Heuristic, Working, Candidates, q
    <2> QED
      BY <1>9, <2>1, <2>2, <2>3
  <1>12. CASE Guess(r)
    <2>1. PICK k \in Candidates(q) : Become(r, [q EXCEPT !.pc = "apply", !.at = k])
      BY <1>12 DEF Guess, q
    <2>2. q.todo # {} /\ k \in Keys /\ q.rows[k] # None /\ learned' = learned
      BY <1>12, <2>1 DEF Guess, Heuristic, Working, Candidates, q
    <2> DEFINE new == [q EXCEPT !.pc = "apply", !.at = k]
    <2>3. new \in Request /\ new.pc = "apply" /\ new.todo = q.todo /\ new.rows = q.rows /\ new.at = k
      BY <1>1, <2>2 DEF Request
    <2> HIDE DEF new
    <2>4. Poised(new) /\ Become(r, new)
      BY <2>1, <2>2, <2>3 DEF Poised, new
    <2> QED
      BY <1>4, <1>5, <2>2, <2>3, <2>4, QuietTyped
  <1>13. CASE Unmatched(r)
    <2> DEFINE new == [q EXCEPT !.todo = @ \ {i}]
    <2>1. Become(r, new) /\ learned' = learned /\ q.pc = "item"
      BY <1>13 DEF Unmatched, Heuristic, Working, At, q, i
    <2>2. new \in Request /\ new.pc = "item"
      BY <1>1, <2>1 DEF Request
    <2> HIDE DEF new
    <2>3. Poised(new)
      BY <2>2 DEF Poised
    <2> QED
      BY <1>4, <1>5, <2>1, <2>2, <2>3, QuietTyped
  <1> QED
    BY <1>6, <1>7, <1>8, <1>10, <1>11, <1>12, <1>13

\* A step that writes nothing but amounts.
OnlyAmounts ==
  \A k \in Keys : IF rows[k] = None THEN rows'[k] = None ELSE
    /\ rows'[k] \in Row
    /\ rows'[k].id = rows[k].id /\ rows'[k].names = rows[k].names
    /\ rows'[k].rule = rows[k].rule /\ rows'[k].prior = rows[k].prior
    /\ \A f \in Fields : rows'[k].cell[f].locked = rows[k].cell[f].locked

\* A match fills the open cells of its row, if this still is the row it read.
LEMMA Applied ==
  ASSUME Typed, NEW r \in Requests, Apply(r)
  PROVE  LET q == requests[r] i == Current(q) IN
         /\ q.pc = "apply" /\ q.todo # {} /\ i \in q.todo /\ q.at \in Keys /\ q.rows[q.at] # None
         /\ rows' \in [Keys -> Row \cup {None}] /\ OnlyAmounts
         /\ \A k \in Keys : k # q.at => rows'[k] = rows[k]
         /\ ~ SameRow(q, q.at) => rows' = rows
         /\ SameRow(q, q.at) => \A f \in Fields :
              rows'[q.at].cell[f] = IF f \in Open(q)
                THEN [rows[q.at].cell[f] EXCEPT !.value = i, !.source = "auto_reconciled"]
                ELSE rows[q.at].cell[f]
         /\ UNCHANGED <<nextRow, minted, staging, learned, components, runs,
                        guarded, settled, regime, edits, starts>>
         /\ Become(r, [q EXCEPT !.pc = "item", !.todo = @ \ {i}, !.at = None,
                                !.filled = @ \cup {<<q.at, i>>}])
  <1> DEFINE q == requests[r]
             i == Current(q)
             old == rows[q.at].cell
             cell == [f \in Fields |-> IF f \in Open(q)
                        THEN [old[f] EXCEPT !.value = i, !.source = "auto_reconciled"]
                        ELSE old[f]]
             row == [rows[q.at] EXCEPT !.cell = cell]
  <1>1. q.pc = "apply" /\ q \in Request /\ Poised(q)
    BY DEF Apply, At, Typed, TypeOK
  <1>2. q.todo # {} /\ q.at \in Keys /\ q.rows[q.at] # None
    BY <1>1 DEF Poised
  <1>3. i \in q.todo /\ i \in Items
    BY <1>1, <1>2, CurrentFirst DEF Request
  <1>4. /\ rows' = IF ~ SameRow(q, q.at) THEN rows ELSE [rows EXCEPT ![q.at] = row]
        /\ UNCHANGED <<nextRow, minted, staging, learned, components, runs,
                       guarded, settled, regime, edits, starts>>
        /\ Become(r, [q EXCEPT !.pc = "item", !.todo = @ \ {i}, !.at = None,
                                !.filled = @ \cup {<<q.at, i>>}])
    BY DEF Apply, Stepped
  <1>5. rows \in [Keys -> Row \cup {None}]
    BY DEF Typed, TypeOK
  <1> HIDE DEF q, i
  <1>6. CASE SameRow(q, q.at)
    <2>1. rows[q.at] \in Row /\ old \in [Fields -> Cell]
      BY <1>2, <1>5, <1>6 DEF SameRow, Row
    <2>2. cell \in [Fields -> Cell]
      BY <1>3, <2>1 DEF Cell, Values, Sources
    <2>3. \A f \in Fields : cell[f].locked = old[f].locked
      BY <2>1 DEF Cell
    <2>4. \A f \in Fields : cell[f] = IF f \in Open(q)
                        THEN [old[f] EXCEPT !.value = i, !.source = "auto_reconciled"]
                        ELSE old[f]
      OBVIOUS
    <2> HIDE DEF cell
    <2>5. /\ row \in Row /\ row.cell = cell /\ row.id = rows[q.at].id /\ row.rule = rows[q.at].rule
          /\ row.names = rows[q.at].names /\ row.prior = rows[q.at].prior
      BY <2>1, <2>2 DEF Row
    <2> HIDE DEF row
    <2>6. rows'[q.at] = row /\ \A k \in Keys : k # q.at => rows'[k] = rows[k]
      BY <1>2, <1>4, <1>5, <1>6
    <2>7. rows' \in [Keys -> Row \cup {None}]
      BY <1>4, <1>5, <1>6, <2>5
    <2>8. OnlyAmounts
      <3>1. rows[q.at] # None
        BY <1>6 DEF SameRow
      <3> QED
        BY <1>5, <2>3, <2>5, <2>6, <3>1 DEF OnlyAmounts
    <2> QED
      BY <1>1, <1>2, <1>3, <1>4, <1>6, <2>4, <2>5, <2>6, <2>7, <2>8 DEF q, i
  <1>7. CASE ~ SameRow(q, q.at)
    <2>1. OnlyAmounts
      BY <1>4, <1>5, <1>7 DEF OnlyAmounts
    <2> QED
      BY <1>1, <1>2, <1>3, <1>4, <1>5, <1>7, <2>1 DEF q, i
  <1> QED
    BY <1>6, <1>7

\* A reset writes the amounts of its rows that are still the rows it read.
LEMMA ResetApplied ==
  ASSUME Typed, NEW r \in Requests, ApplyReset(r)
  PROVE  LET q == requests[r] IN
         /\ q.pc = "reset" /\ Poised(q)
         /\ rows' \in [Keys -> Row \cup {None}] /\ OnlyAmounts
         /\ \A k \in Keys : /\ ~ (k \in q.chosen /\ SameRow(q, k)) => rows'[k] = rows[k]
                            /\ rows[k] # None => rows'[k].cell["market"] = rows[k].cell["market"]
         /\ UNCHANGED <<nextRow, minted, staging, learned, components, runs,
                        guarded, settled, regime, edits, starts>>
         /\ Become(r, Idle)
  <1> DEFINE q == requests[r]
             Reset(k) == [rows[k] EXCEPT !.cell["amount"] = ResetCell(q, k)]
  <1>1. q.pc = "reset" /\ q \in Request /\ Poised(q)
    BY DEF ApplyReset, At, Typed, TypeOK
  <1>2. /\ rows' = [k \in Keys |-> IF k \in q.chosen /\ SameRow(q, k) THEN Reset(k) ELSE rows[k]]
        /\ UNCHANGED <<nextRow, minted, staging, learned, components, runs,
                       guarded, settled, regime, edits, starts>>
        /\ Become(r, Idle)
    BY DEF ApplyReset, Stepped
  <1>3. rows \in [Keys -> Row \cup {None}]
    BY DEF Typed, TypeOK
  <1> HIDE DEF q
  <1>4. ASSUME NEW k \in Keys, rows[k] # None
        PROVE  /\ Reset(k) \in Row /\ Reset(k).id = rows[k].id /\ Reset(k).names = rows[k].names
               /\ Reset(k).rule = rows[k].rule /\ Reset(k).prior = rows[k].prior
               /\ \A f \in Fields : Reset(k).cell[f].locked = rows[k].cell[f].locked
               /\ Reset(k).cell["market"] = rows[k].cell["market"]
    <2> DEFINE row == rows[k]
               new == ResetCell(q, k)
               cell == [row.cell EXCEPT !["amount"] = new]
    <2>1. row \in Row /\ row.cell \in [Fields -> Cell] /\ row.prior \in Values
      BY <1>3, <1>4 DEF Row, Values
    <2>2. "amount" \in Fields /\ "market" \in Fields
      BY DEF Fields
    <2>3. row.cell["amount"] \in Cell
      BY <2>1, <2>2
    <2>4. new \in Cell /\ new.locked = row.cell["amount"].locked
      BY <2>1, <2>3 DEF ResetCell, Cell, Values, Sources
    <2> HIDE DEF new
    <2>5. cell \in [Fields -> Cell] /\ cell["amount"] = new
          /\ \A f \in Fields : f # "amount" => cell[f] = row.cell[f]
      BY <2>1, <2>2, <2>4
    <2>6. Reset(k) = [row EXCEPT !.cell = cell]
      BY DEF new
    <2> HIDE DEF cell
    <2>7. /\ Reset(k) \in Row /\ Reset(k).id = row.id /\ Reset(k).names = row.names
          /\ Reset(k).rule = row.rule /\ Reset(k).prior = row.prior /\ Reset(k).cell = cell
      BY <2>1, <2>5, <2>6 DEF Row
    <2> QED
      BY <2>2, <2>4, <2>5, <2>7
  <1> HIDE DEF Reset
  <1>5. \A k \in Keys : k \in q.chosen /\ SameRow(q, k) => rows[k] # None
    BY DEF SameRow
  <1>6. rows' \in [Keys -> Row \cup {None}]
    BY <1>2, <1>3, <1>4, <1>5
  <1>7. OnlyAmounts
    <2> SUFFICES ASSUME NEW k \in Keys, rows[k] # None, rows'[k] = Reset(k) \/ rows'[k] = rows[k]
                 PROVE  /\ rows'[k] \in Row
                        /\ rows'[k].id = rows[k].id /\ rows'[k].names = rows[k].names
                        /\ rows'[k].rule = rows[k].rule /\ rows'[k].prior = rows[k].prior
                        /\ \A f \in Fields : rows'[k].cell[f].locked = rows[k].cell[f].locked
      BY <1>2, <1>5 DEF OnlyAmounts
    <2>1. rows[k] \in Row
      BY <1>3
    <2> QED
      BY <1>4, <2>1
  <1>8. \A k \in Keys : ~ (k \in q.chosen /\ SameRow(q, k)) => rows'[k] = rows[k]
    BY <1>2
  <1>9. \A k \in Keys : rows[k] # None => rows'[k].cell["market"] = rows[k].cell["market"]
    BY <1>2, <1>4
  <1> QED
    BY <1>1, <1>2, <1>6, <1>7, <1>8, <1>9 DEF q

LEMMA CommittedTyped ==
  ASSUME Typed, NEW line \in Lines, NEW staged \in Staged
  PROVE  Committed(line, staged) \in Row /\ Committed(line, staged).id = nextRow
  <1> DEFINE Amount == CommittedAmount(line, staged)
             cell == [f \in Fields |->
                       IF f = "amount" THEN Amount
                       ELSE [value |-> Template, source |-> "imported", locked |-> FALSE]]
  <1>1. Amount \in Cell
    BY DEF CommittedAmount, Cell, Values, Sources
  <1> HIDE DEF Amount
  <1>2. cell \in [Fields -> Cell]
    BY <1>1 DEF Cell, Values, Sources
  <1>3. Committed(line, staged) = [id |-> nextRow, names |-> Names[line], rule |-> Rules[line],
                                   prior |-> Template, cell |-> cell]
    BY DEF Committed, Amount
  <1> HIDE DEF cell
  <1>4. nextRow \in Nat /\ Names[line] \in Items \cup {None}
        /\ Rules[line] \in {Sticky, Refreshable, Unknown}
    BY LinesAssumption DEF Typed, TypeOK
  <1> QED
    BY <1>2, <1>3, <1>4 DEF Row

LEMMA MergedTyped ==
  ASSUME NEW old \in Row, NEW new \in Row
  PROVE  /\ Merged(old, new) \in Row /\ Merged(old, new).id = old.id
         /\ \A f \in Fields : Merged(old, new).cell[f].locked = old.cell[f].locked
  <1> DEFINE cell == [f \in Fields |->
     [value |-> IF old.cell[f].value = None THEN new.cell[f].value ELSE old.cell[f].value,
      source |-> IF old.cell[f].source = "unset" THEN new.cell[f].source
                 ELSE old.cell[f].source,
      locked |-> old.cell[f].locked]]
  <1>1. old.cell \in [Fields -> Cell] /\ new.cell \in [Fields -> Cell] /\ old.id \in Nat
    BY DEF Row
  <1>2. cell \in [Fields -> Cell] /\ \A f \in Fields : cell[f].locked = old.cell[f].locked
    BY <1>1 DEF Cell
  <1>3. Merged(old, new) = [new EXCEPT !.id = old.id, !.cell = cell]
    BY DEF Merged
  <1> HIDE DEF cell
  <1> QED
    BY <1>1, <1>2, <1>3 DEF Row

\* A commit inserts or merges rows under the keys of its batch, and no other.
LEMMA CommitApplied ==
  ASSUME Typed, NEW r \in Requests, ApplyCommit(r)
  PROVE  LET q == requests[r] IN
         /\ q.pc = "commit" /\ q.staged \in [Lines -> Staged]
         /\ rows' \in [Keys -> Row \cup {None}]
         /\ \A k \in Keys :
              /\ (\A l \in Lines : q.staged[l].key # k) => rows'[k] = rows[k]
              /\ rows[k] = None => rows'[k] = None \/ rows'[k].id = nextRow
              /\ rows[k] # None =>
                   /\ rows'[k] # None /\ rows'[k].id = rows[k].id
                   /\ \A f \in Fields : rows'[k].cell[f].locked = rows[k].cell[f].locked
         /\ nextRow' = nextRow + 1
         /\ staging' = IF staging # None /\ \A l \in Lines : staging[l].key = q.staged[l].key
                       THEN None ELSE staging
         /\ UNCHANGED <<minted, learned, components, runs, guarded, settled, regime, edits, starts>>
         /\ Become(r, Idle)
  <1> DEFINE q == requests[r]
             LinesOf(k) == {l \in Lines : q.staged[l].key = k}
             LineOf(k) == CHOOSE l \in LinesOf(k) : TRUE
             New(k) == Committed(LineOf(k), q.staged[LineOf(k)])
  <1>1. q.pc = "commit" /\ q \in Request /\ Poised(q)
    BY DEF ApplyCommit, At, Typed, TypeOK
  <1>2. q.staged \in [Lines -> Staged]
    BY <1>1 DEF Poised, Request
  <1>3. PICK skipped \in SUBSET Lines :
          rows' = [k \in Keys |->
            IF LinesOf(k) \subseteq skipped THEN rows[k]
            ELSE IF rows[k] = None THEN New(k) ELSE Merged(rows[k], New(k))]
    BY DEF ApplyCommit
  <1>4. /\ UNCHANGED <<minted, learned, components, runs, guarded, settled, regime, edits, starts>>
        /\ nextRow' = nextRow + 1 /\ Become(r, Idle)
        /\ staging' = IF staging # None /\ \A l \in Lines : staging[l].key = q.staged[l].key
                       THEN None ELSE staging
    BY DEF ApplyCommit, Stepped
  <1>5. rows \in [Keys -> Row \cup {None}]
    BY DEF Typed, TypeOK
  <1> HIDE DEF q
  <1>6. ASSUME NEW k \in Keys, ~ (LinesOf(k) \subseteq skipped)
        PROVE  New(k) \in Row /\ New(k).id = nextRow
    <2>1. LineOf(k) \in Lines
      BY <1>6
    <2>2. q.staged[LineOf(k)] \in Staged
      BY <1>2, <2>1
    <2> HIDE DEF LineOf
    <2> QED
      BY <2>1, <2>2, CommittedTyped
  <1>7. ASSUME NEW k \in Keys, \A l \in Lines : q.staged[l].key # k
        PROVE  rows'[k] = rows[k]
    BY <1>3, <1>7
  <1> HIDE DEF New
  <1>8. ASSUME NEW k \in Keys
        PROVE  /\ rows'[k] \in Row \cup {None}
               /\ rows[k] = None => rows'[k] = None \/ rows'[k].id = nextRow
               /\ rows[k] # None =>
                    /\ rows'[k] # None /\ rows'[k].id = rows[k].id
                    /\ \A f \in Fields : rows'[k].cell[f].locked = rows[k].cell[f].locked
    <2>1. rows'[k] = IF LinesOf(k) \subseteq skipped THEN rows[k]
            ELSE IF rows[k] = None THEN New(k) ELSE Merged(rows[k], New(k))
      BY <1>3
    <2> HIDE DEF LinesOf
    <2>2. CASE LinesOf(k) \subseteq skipped
      BY <1>5, <2>1, <2>2
    <2>3. CASE ~ (LinesOf(k) \subseteq skipped) /\ rows[k] = None
      BY <1>6, <2>1, <2>3
    <2>4. CASE ~ (LinesOf(k) \subseteq skipped) /\ rows[k] # None
      BY <1>5, <1>6, <2>1, <2>4, MergedTyped, NoneAssumption
    <2> QED
      BY <2>2, <2>3, <2>4
  <1>9. rows' \in [Keys -> Row \cup {None}]
    <2>1. DOMAIN rows' = Keys /\ rows' = [k \in Keys |-> rows'[k]]
      BY <1>3
    <2> QED
      BY <1>8, <2>1
  <1> HIDE DEF LinesOf
  <1> QED
    BY <1>1, <1>2, <1>4, <1>7, <1>8, <1>9 DEF q

LEMMA WriteTyped ==
  ASSUME Typed, NEW r \in Requests, Apply(r) \/ ApplyReset(r) \/ ApplyCommit(r) \/ Abort(r)
  PROVE  Typed'
  <1>1. /\ requests[r] \in Request /\ LedgerTyped /\ LearnedTyped /\ Bounded
        /\ components \subseteq [key : Keys, item : Items, run : Nat] /\ runs \in Nat
        /\ settled \subseteq SUBSET Items
    BY DEF Typed, TypeOK, LedgerTyped, LearnedTyped, Bounded
  <1>2. UNCHANGED learned => LearnedTyped'
    BY <1>1 DEF LearnedTyped, learned
  <1>3. UNCHANGED <<regime, edits, starts>> => Bounded'
    BY <1>1 DEF Bounded
  <1>4. CASE Apply(r)
    <2> DEFINE q == requests[r]
               i == Current(q)
               new == [q EXCEPT !.pc = "item", !.todo = @ \ {i}, !.at = None,
                                !.filled = @ \cup {<<q.at, i>>}]
    <2>1. /\ rows' \in [Keys -> Row \cup {None}] /\ q.at \in Keys /\ i \in q.todo
          /\ UNCHANGED <<nextRow, minted, staging, learned, components, runs,
                         guarded, settled, regime, edits, starts>>
          /\ Become(r, new)
      BY <1>4, Applied
    <2> HIDE DEF i
    <2>2. new \in Request /\ new.pc = "item"
      <3>1. q.todo \ {i} \in SUBSET Items /\ q.filled \cup {<<q.at, i>>} \subseteq Keys \X Items
        BY <1>1, <2>1 DEF Request
      <3>2. ASSUME NEW todo \in SUBSET Items, NEW filled \in SUBSET (Keys \X Items)
            PROVE  LET p == [q EXCEPT !.pc = "item", !.todo = todo, !.at = None, !.filled = filled]
                   IN  p \in Request /\ p.pc = "item"
        BY <1>1 DEF Request
      <3> QED
        BY <3>1, <3>2
    <2>3. LedgerTyped'
      BY <1>1, <2>1 DEF LedgerTyped
    <2> HIDE DEF new
    <2>4. Poised(new)
      BY <2>2 DEF Poised
    <2> QED
      BY <1>1, <1>2, <1>3, <2>1, <2>2, <2>3, <2>4, BecomeTyped
  <1>5. CASE ApplyReset(r)
    <2>1. /\ rows' \in [Keys -> Row \cup {None}]
          /\ UNCHANGED <<nextRow, minted, staging, learned, components, runs,
                         guarded, settled, regime, edits, starts>>
          /\ Become(r, Idle)
      BY <1>5, ResetApplied
    <2>2. LedgerTyped'
      BY <1>1, <2>1 DEF LedgerTyped
    <2> QED
      BY <1>1, <1>2, <1>3, <2>1, <2>2, IdleTyped, BecomeTyped
  <1>6. CASE ApplyCommit(r)
    <2>1. /\ rows' \in [Keys -> Row \cup {None}] /\ nextRow' = nextRow + 1
          /\ staging' \in {staging, None}
          /\ UNCHANGED <<minted, learned, components, runs, guarded, settled, regime, edits, starts>>
          /\ Become(r, Idle)
      BY <1>6, CommitApplied
    <2>2. LedgerTyped'
      BY <1>1, <2>1 DEF LedgerTyped
    <2> QED
      BY <1>1, <1>2, <1>3, <2>1, <2>2, IdleTyped, BecomeTyped
  <1>7. CASE Abort(r)
    <2>1. /\ UNCHANGED <<ledger, learned, components, runs, guarded, regime, edits, starts>>
          /\ Become(r, Idle) /\ settled' = {}
      BY <1>7 DEF Abort
    <2>2. LedgerTyped'
      BY <1>1, <2>1 DEF LedgerTyped, ledger
    <2> QED
      BY <1>1, <1>2, <1>3, <2>1, <2>2, IdleTyped, BecomeTyped
  <1> QED
    BY <1>4, <1>5, <1>6, <1>7

\* The scores a run writes.
LEMMA Scored ==
  ASSUME Typed, NEW r \in Requests, Score(r)
  PROVE  /\ mappings' \in [Fingerprints -> Mapping \cup {None}]
         /\ \A fp \in Fingerprints : IF mappings[fp] = None THEN mappings'[fp] = None
              ELSE /\ mappings'[fp] # None /\ mappings'[fp].id = mappings[fp].id
                   /\ mappings'[fp].target = mappings[fp].target
                   /\ \/ mappings'[fp] = mappings[fp]
                      \/ /\ requests[r].lookup[fp] # None
                         /\ mappings[fp].id = requests[r].lookup[fp].id
                         /\ mappings'[fp].score = Rescored(requests[r], fp)
  <1> DEFINE q == requests[r]
             Same(fp) == mappings[fp] # None /\ q.lookup[fp] # None /\ mappings[fp].id = q.lookup[fp].id
  <1>1. mappings \in [Fingerprints -> Mapping \cup {None}]
        /\ q.lookup \in [Fingerprints -> Mapping \cup {None}]
    BY DEF Typed, TypeOK, Request
  <1>2. mappings' = [fp \in Fingerprints |-> IF Same(fp)
                       THEN [mappings[fp] EXCEPT !.score = Rescored(q, fp)] ELSE mappings[fp]]
    BY DEF Score
  <1> HIDE DEF q
  <1>3. ASSUME NEW fp \in Fingerprints, Same(fp)
        PROVE  /\ [mappings[fp] EXCEPT !.score = Rescored(q, fp)] \in Mapping
               /\ [mappings[fp] EXCEPT !.score = Rescored(q, fp)].id = mappings[fp].id
               /\ [mappings[fp] EXCEPT !.score = Rescored(q, fp)].target = mappings[fp].target
               /\ [mappings[fp] EXCEPT !.score = Rescored(q, fp)].score = Rescored(q, fp)
    <2>1. mappings[fp] \in Mapping /\ q.lookup[fp] \in Mapping
      BY <1>1, <1>3
    <2>2. q.lookup[fp].score \in 0 .. MaxScore
      BY <2>1 DEF Mapping
    <2>3. Rescored(q, fp) \in 0 .. MaxScore
      BY <2>2, ScoreAssumption DEF Rescored, Boosted, Decayed
    <2> QED
      BY <2>1, <2>3 DEF Mapping
  <1>4. mappings' \in [Fingerprints -> Mapping \cup {None}]
    BY <1>1, <1>2, <1>3
  <1>5. ASSUME NEW fp \in Fingerprints
        PROVE  IF mappings[fp] = None THEN mappings'[fp] = None
              ELSE /\ mappings'[fp] # None /\ mappings'[fp].id = mappings[fp].id
                   /\ mappings'[fp].target = mappings[fp].target
                   /\ \/ mappings'[fp] = mappings[fp]
                      \/ /\ q.lookup[fp] # None
                         /\ mappings[fp].id = q.lookup[fp].id
                         /\ mappings'[fp].score = Rescored(q, fp)
    <2>1. CASE Same(fp)
      BY <1>2, <1>3, <2>1, NoneAssumption
    <2>2. CASE ~ Same(fp)
      BY <1>2, <2>2
    <2> QED
      BY <2>1, <2>2
  <1> QED
    BY <1>4, <1>5 DEF q

LEMMA RunTyped ==
  ASSUME Typed, NEW r \in Requests, InsertRun(r) \/ ReplaceComponents(r) \/ Score(r)
  PROVE  Typed'
  <1> DEFINE q == requests[r]
  <1>1. /\ q \in Request /\ LedgerTyped /\ LearnedTyped /\ Bounded
        /\ components \subseteq [key : Keys, item : Items, run : Nat] /\ runs \in Nat
        /\ settled \subseteq SUBSET Items /\ q.run \in Nat /\ q.items \in SUBSET Items
        /\ q.filled \subseteq Keys \X Items
    BY DEF Typed, TypeOK, LedgerTyped, LearnedTyped, Bounded, Request
  <1>2. UNCHANGED learned => LearnedTyped'
    BY <1>1 DEF LearnedTyped, learned
  <1>3. UNCHANGED <<regime, edits, starts>> => Bounded'
    BY <1>1 DEF Bounded
  <1>4. UNCHANGED ledger => LedgerTyped'
    BY <1>1 DEF LedgerTyped, ledger
  <1> HIDE DEF q
  <1>5. CASE InsertRun(r)
    <2> DEFINE new == [q EXCEPT !.pc = IF q.filled = {} THEN "score" ELSE "components",
                                !.run = runs + 1]
    <2>1. runs' = runs + 1 /\ Become(r, new) /\ UNCHANGED <<ledger, learned, components>> /\ Stepped
      BY <1>5 DEF InsertRun, q
    <2>2. new \in Request /\ new.pc \in {"score", "components"}
      <3>1. ASSUME NEW pc \in {"score", "components"}, NEW n \in Nat
            PROVE  LET p == [q EXCEPT !.pc = pc, !.run = n] IN p \in Request /\ p.pc = pc
        BY <1>1 DEF Request
      <3>2. runs + 1 \in Nat
        BY <1>1
      <3> QED
        BY <3>1, <3>2
    <2> HIDE DEF new
    <2>3. Poised(new)
      BY <2>2 DEF Poised
    <2> QED
      BY <1>1, <1>2, <1>3, <1>4, <2>1, <2>2, <2>3, BecomeTyped DEF Stepped
  <1>6. CASE ReplaceComponents(r)
    <2> DEFINE new == [q EXCEPT !.pc = "score"]
    <2>1. Become(r, new) /\ UNCHANGED <<ledger, learned, runs>> /\ Stepped
      BY <1>6 DEF ReplaceComponents, q
    <2>2. new \in Request /\ new.pc = "score"
      BY <1>1 DEF Request
    <2> HIDE DEF new
    <2>3. Poised(new)
      BY <2>2 DEF Poised
    <2>4. components' \subseteq [key : Keys, item : Items, run : Nat]
      <3>1. components' = {c \in components : \A f \in q.filled : f[1] # c.key}
               \cup {[key |-> f[1], item |-> f[2], run |-> q.run] : f \in q.filled}
        BY <1>6 DEF ReplaceComponents, q
      <3>2. \A f \in q.filled : f[1] \in Keys /\ f[2] \in Items
        BY <1>1
      <3> QED
        BY <1>1, <3>1, <3>2
    <2> QED
      BY <1>1, <1>2, <1>3, <1>4, <2>1, <2>2, <2>3, <2>4, BecomeTyped DEF Stepped
  <1>7. CASE Score(r)
    <2>1. /\ UNCHANGED <<ledger, nextId, components, runs, guarded, regime, edits, starts>>
          /\ Become(r, Idle) /\ settled' \in {{}, {q.items}}
      BY <1>7 DEF Score, q
    <2>2. LearnedTyped'
      BY <1>1, <1>7, <2>1, Scored DEF LearnedTyped
    <2>3. settled' \subseteq SUBSET Items
      BY <1>1, <2>1
    <2> QED
      BY <1>1, <1>3, <1>4, <2>1, <2>2, <2>3, IdleTyped, BecomeTyped
  <1> QED
    BY <1>5, <1>6, <1>7
-----------------------------------------------------------------------------
(***************************************************************************)
(* Types of the initial states and of every step.                          *)
(***************************************************************************)
LEMMA NumberTyped ==
  /\ Number \in [Fingerprints -> 1 .. Cardinality(Fingerprints)]
  /\ \A fp, gp \in Fingerprints : Number[fp] = Number[gp] => fp = gp
  /\ Cardinality(Fingerprints) \in Nat
  <1> DEFINE n == Cardinality(Fingerprints)
  <1>1. IsFiniteSet({"new", "old"})
    <2>1. IsFiniteSet({"old"}) /\ {"new", "old"} = {"old"} \cup {"new"}
      BY FS_Singleton
    <2> QED
      BY <2>1, FS_AddElement
  <1>2. IsFiniteSet(Fingerprints)
    BY <1>1, FS_Product, ItemsAssumption DEF Fingerprints
  <1>3. n \in Nat /\ ExistsBijection(1 .. n, Fingerprints)
    BY <1>2, FS_CardinalityType
  <1> HIDE DEF n
  <1>4. ExistsBijection(Fingerprints, 1 .. n)
    BY <1>3, Fun_ExistsBijSymmetric
  <1>5. PICK f : f \in Bijection(Fingerprints, 1 .. n)
    BY <1>4 DEF ExistsBijection
  <1>6. /\ f \in [Fingerprints -> 1 .. n]
        /\ \A fp, gp \in Fingerprints : f[fp] = f[gp] => fp = gp
    BY <1>5 DEF Bijection, Injection, IsInjective
  <1>7. /\ Number \in [Fingerprints -> 1 .. n]
        /\ \A fp, gp \in Fingerprints : Number[fp] = Number[gp] => fp = gp
    BY <1>6 DEF Number, n
  <1> QED
    BY <1>3, <1>7 DEF n

LEMMA InitTyped == Init => Typed
  <1> SUFFICES ASSUME Init PROVE Typed
    OBVIOUS
  <1>1. PICK targets \in Earlier :
          /\ mappings = Known(targets)
          /\ minted = {targets[fp] : fp \in Fingerprints} \ {None}
    BY DEF Init
  <1>2. targets \in [Fingerprints -> Keys \cup {None}]
    BY EarlierAssumption
  <1>3. minted \subseteq Keys
    BY <1>1, <1>2
  <1>4. mappings \in [Fingerprints -> Mapping \cup {None}]
    <2>1. ASSUME NEW fp \in Fingerprints, targets[fp] # None
          PROVE  [id |-> Number[fp], target |-> targets[fp], score |-> MaxScore] \in Mapping
      <3>1. Number[fp] \in Nat /\ MaxScore \in 0 .. MaxScore /\ targets[fp] \in Keys
        BY <1>2, <2>1, NumberTyped, ScoreAssumption
      <3> QED
        BY <3>1 DEF Mapping
    <2> QED
      BY <1>1, <2>1 DEF Known
  <1>5. rows \in [Keys -> Row \cup {None}] /\ requests \in [Requests -> Request]
    BY IdleTyped DEF Init, NoRows
  <1>6. nextId \in Nat
    BY NumberTyped DEF Init
  <1>7. edits \in 0 .. regime.edits /\ starts \in 0 .. regime.starts
    BY RegimesAssumption DEF Init
  <1>8. TypeOK
    BY <1>3, <1>4, <1>5, <1>6, <1>7 DEF Init, TypeOK
  <1>9. \A r \in Requests : Poised(requests[r])
    BY IdleTyped DEF Init
  <1> QED
    BY <1>8, <1>9 DEF Typed

LEMMA NextTyped == Typed /\ [Next]_vars => Typed'
  <1> SUFFICES ASSUME Typed, [Next]_vars PROVE Typed'
    OBVIOUS
  <1>1. CASE UNCHANGED vars
    <2>1. TypeOK'
      BY <1>1 DEF vars, ledger, learned, history, Typed, TypeOK
    <2>2. \A r \in Requests : Poised(requests[r])'
      BY <1>1 DEF vars, Typed, Poised, Current
    <2> QED
      BY <2>1, <2>2 DEF Typed
  <1>2. ASSUME NEW r \in Requests, Reconcile(r)
        PROVE  Typed'
    BY <1>2, StartTyped, MatchTyped, WriteTyped, RunTyped DEF Reconcile
  <1>3. ASSUME NEW r \in Requests,
               StartReset(r) \/ ApplyReset(r) \/ StartCommit(r) \/ ApplyCommit(r) \/ Abort(r)
        PROVE  Typed'
    BY <1>3, StartTyped, WriteTyped
  <1> QED
    BY <1>1, <1>2, <1>3, OperatorTyped DEF Next
-----------------------------------------------------------------------------
(***************************************************************************)
(* Locks.  Keys are handed out once, and row ids too, so that a row with   *)
(* the id a request has read is the row it has read.                       *)
(***************************************************************************)
RowsMinted == \A k \in Keys : rows[k] # None => k \in minted /\ rows[k].id < nextRow

GuardedLocked ==
  \A k \in Keys, f \in Fields :
    <<k, f>> \in guarded => rows[k] # None /\ rows[k].cell[f].locked

StagedFresh ==
  staging # None => \A l \in Lines : staging[l].key \in minted /\ rows[staging[l].key] = None

\* A lock that history keeps is older than every request in flight, so a
\* request that read the row has read the lock.
LocksRead(q) ==
  \A k \in Keys : q.rows[k] # None =>
    /\ q.rows[k].id < nextRow
    /\ \A f \in Fields : (<<k, f>> \in guarded /\ q.rows[k].id = rows[k].id) =>
         q.rows[k].cell[f].locked

\* A batch under way is the one that is staged or shares no key with it.
BatchApart(q) ==
  q.pc = "commit" =>
    /\ \A l \in Lines : q.staged[l].key \in minted
                        /\ \A f \in Fields : <<q.staged[l].key, f>> \notin guarded
    /\ staging # None =>
         \/ \A l \in Lines : staging[l].key = q.staged[l].key
         \/ \A l, m \in Lines : staging[l].key # q.staged[m].key

LocksInv ==
  /\ Typed /\ RowsMinted /\ GuardedLocked /\ StagedFresh
  /\ \A r \in Requests : LocksRead(requests[r]) /\ BatchApart(requests[r])

LEMMA IdleLocks ==
  /\ Idle.pc = "idle" /\ LocksRead(Idle) /\ BatchApart(Idle)
  /\ LocksRead(Idle)' /\ BatchApart(Idle)'
  <1>1. Idle.pc = "idle" /\ \A k \in Keys : Idle.rows[k] = None
    BY DEF Idle, NoRows
  <1> QED
    BY <1>1 DEF LocksRead, BatchApart

LEMMA InitLocks == Init => LocksInv
  <1> SUFFICES ASSUME Init PROVE LocksInv
    OBVIOUS
  <1>1. Typed
    BY InitTyped
  <1>2. RowsMinted /\ GuardedLocked /\ StagedFresh
    BY DEF Init, NoRows, RowsMinted, GuardedLocked, StagedFresh
  <1>3. \A r \in Requests : LocksRead(requests[r]) /\ BatchApart(requests[r])
    BY IdleLocks DEF Init
  <1> QED
    BY <1>1, <1>2, <1>3 DEF LocksInv

\* Steps of a request that write nothing but amounts.
LEMMA AmountsKeepLocks ==
  ASSUME LocksInv, Typed', OnlyAmounts, UNCHANGED <<nextRow, minted, staging, guarded>>,
         NEW r \in Requests, NEW q, Become(r, q),
         \/ q.rows = requests[r].rows /\ q.pc # "commit"
         \/ q.rows = rows /\ q.pc # "commit"
         \/ q.rows = NoRows /\ (q.pc = "commit" => q.staged = staging /\ staging # None)
  PROVE  LocksInv'
  <1>1. requests' = [requests EXCEPT ![r] = q] /\ requests \in [Requests -> Request]
    BY DEF Become, LocksInv, Typed, TypeOK
  <1>2. /\ \A k \in Keys : rows'[k] = None <=> rows[k] = None
        /\ \A k \in Keys : rows[k] # None => rows'[k].id = rows[k].id
        /\ \A k \in Keys, f \in Fields : rows[k] # None =>
             rows'[k].cell[f].locked = rows[k].cell[f].locked
    BY NoneAssumption DEF OnlyAmounts
  <1>3. RowsMinted' /\ GuardedLocked'
    BY <1>2 DEF LocksInv, RowsMinted, GuardedLocked
  <1>4. staging # None => \A l \in Lines : staging[l].key \in Keys
    BY DEF LocksInv, Typed, TypeOK, Staged
  <1>5. StagedFresh'
    BY <1>2, <1>4 DEF LocksInv, StagedFresh
  <1>6. ASSUME NEW p, LocksRead(p)
        PROVE  LocksRead(p)'
    BY <1>2, <1>6 DEF LocksInv, GuardedLocked, LocksRead
  <1>7. ASSUME NEW p, BatchApart(p)
        PROVE  BatchApart(p)'
    BY <1>7 DEF BatchApart
  <1>8. LocksRead(q) /\ BatchApart(q)
    <2>1. CASE q.rows = requests[r].rows /\ q.pc # "commit"
      BY <2>1 DEF LocksInv, LocksRead, BatchApart
    <2>2. CASE q.rows = rows /\ q.pc # "commit"
      BY <2>2 DEF LocksInv, LocksRead, BatchApart, RowsMinted, GuardedLocked
    <2>3. CASE q.rows = NoRows /\ (q.pc = "commit" => q.staged = staging /\ staging # None)
      <3>1. LocksRead(q)
        BY <2>3 DEF LocksRead, NoRows
      <3>2. BatchApart(q)
        BY <1>4, <2>3 DEF BatchApart, LocksInv, StagedFresh, GuardedLocked
      <3> QED
        BY <3>1, <3>2
    <2> QED
      BY <2>1, <2>2, <2>3
  <1>9. ASSUME NEW s \in Requests
        PROVE  LocksRead(requests[s])' /\ BatchApart(requests[s])'
    <2>1. requests'[s] = q \/ requests'[s] = requests[s]
      BY <1>1
    <2>2. LocksRead(requests'[s]) /\ BatchApart(requests'[s])
      BY <1>8, <2>1 DEF LocksInv
    <2> DEFINE p == requests[s]
    <2>3. CASE requests'[s] = q
      <3>1. LocksRead(q)' /\ BatchApart(q)'
        BY <1>6, <1>7, <1>8
      <3> QED
        BY <2>3, <3>1
    <2>4. CASE requests'[s] = requests[s]
      BY <1>2, <2>2, <2>4 DEF LocksRead, BatchApart, LocksInv, GuardedLocked
    <2> QED
      BY <2>1, <2>3, <2>4
  <1> QED
    BY <1>3, <1>5, <1>9 DEF LocksInv

\* The steps that go on with what a request has read.
LEMMA StepsKeepLocks ==
  ASSUME LocksInv, Typed', NEW r \in Requests, Reconcile(r) \/ StartReset(r) \/ ApplyReset(r) \/ StartCommit(r) \/ Abort(r)
  PROVE  LocksInv'
  <1> DEFINE q == requests[r]
             Written == OnlyAmounts /\ UNCHANGED <<nextRow, minted, staging, guarded>>
  <1>1. q \in Request /\ rows \in [Keys -> Row \cup {None}]
    BY DEF LocksInv, Typed, TypeOK
  <1>2. rows' = rows => OnlyAmounts
    BY <1>1 DEF OnlyAmounts
  <1> HIDE DEF q
  <1>3. CASE StartReconcile(r)
    <2>1. PICK present : Become(r, [Idle EXCEPT !.pc = "mappings", !.rows = rows,
                                      !.items = present, !.todo = present])
      BY <1>3 DEF StartReconcile
    <2>2. Written
      BY <1>2, <1>3 DEF StartReconcile, Started, ledger
    <2> DEFINE p == [Idle EXCEPT !.pc = "mappings", !.rows = rows,
                                 !.items = present, !.todo = present]
    <2>3. p.rows = rows /\ p.pc # "commit"
      BY DEF Idle
    <2> HIDE DEF p
    <2> QED
      BY <2>1, <2>2, <2>3, AmountsKeepLocks DEF p
  <1>4. CASE StartReset(r)
    <2>1. PICK chosen : Become(r, [Idle EXCEPT !.pc = "reset", !.rows = rows, !.chosen = chosen])
      BY <1>4 DEF StartReset
    <2>2. Written
      BY <1>2, <1>4 DEF StartReset, Started, ledger
    <2> DEFINE p == [Idle EXCEPT !.pc = "reset", !.rows = rows, !.chosen = chosen]
    <2>3. p.rows = rows /\ p.pc # "commit"
      BY DEF Idle
    <2> HIDE DEF p
    <2> QED
      BY <2>1, <2>2, <2>3, AmountsKeepLocks DEF p
  <1>5. CASE StartCommit(r)
    <2>1. Become(r, [Idle EXCEPT !.pc = "commit", !.staged = staging]) /\ staging # None
      BY <1>5 DEF StartCommit
    <2>2. Written
      BY <1>2, <1>5 DEF StartCommit, Started, ledger
    <2> DEFINE p == [Idle EXCEPT !.pc = "commit", !.staged = staging]
    <2>3. p.rows = NoRows /\ p.staged = staging
      BY DEF Idle
    <2> HIDE DEF p
    <2> QED
      BY <2>1, <2>2, <2>3, AmountsKeepLocks DEF p
  <1>6. CASE Abort(r) \/ Score(r) \/ ApplyReset(r)
    <2>1. Become(r, Idle) /\ UNCHANGED <<nextRow, minted, staging, guarded>>
      BY <1>6 DEF Abort, Score, ApplyReset, Stepped, ledger
    <2>2. OnlyAmounts
      <3>1. CASE Abort(r) \/ Score(r)
        BY <1>2, <3>1 DEF Abort, Score, ledger
      <3>2. CASE ApplyReset(r)
        BY <3>2, ResetApplied DEF LocksInv
      <3> QED
        BY <1>6, <3>1, <3>2
    <2>3. Idle.rows = NoRows /\ Idle.pc # "commit"
      BY DEF Idle
    <2> QED
      BY <2>1, <2>2, <2>3, AmountsKeepLocks
  <1>7. CASE Apply(r)
    <2> DEFINE i == Current(q)
               new == [q EXCEPT !.pc = "item", !.todo = @ \ {i}, !.at = None,
                                !.filled = @ \cup {<<q.at, i>>}]
    <2>1. OnlyAmounts /\ UNCHANGED <<nextRow, minted, staging, guarded>> /\ Become(r, new)
      BY <1>7, Applied DEF LocksInv, q
    <2>2. new.rows = q.rows /\ new.pc = "item"
      BY <1>1 DEF Request
    <2> HIDE DEF new
    <2> QED
      BY <2>1, <2>2, AmountsKeepLocks DEF q
  <1>8. CASE \/ ReadMappings(r) \/ UseMapping(r) \/ DropLegacy(r) \/ Migrate(r) \/ Learn(r)
             \/ Guess(r) \/ Unmatched(r) \/ InsertRun(r) \/ ReplaceComponents(r)
    <2>1. Written
      BY <1>2, <1>8 DEF ReadMappings, UseMapping, DropLegacy, Migrate, Learn, Guess, Unmatched,
                        InsertRun, ReplaceComponents, ledger, Stepped
    <2>2. \E p : Become(r, p) /\ p.rows = q.rows /\ p.pc # "commit"
      <3>1. CASE ReadMappings(r)
        <4> DEFINE p == [q EXCEPT !.pc = "item", !.lookup = mappings,
                             !.before = {x \in Fingerprints \X Keys :
                               mappings[x[1]] # None /\ mappings[x[1]].target = x[2]}]
        <4>1. Become(r, p)
          BY <3>1 DEF ReadMappings, q
        <4>2. p.rows = q.rows /\ p.pc # "commit"
          BY <1>1 DEF Request
        <4> QED
          BY <4>1, <4>2
      <3>2. CASE UseMapping(r)
        <4> DEFINE p == [q EXCEPT !.pc = "apply", !.at = q.lookup[<<"new", Current(q)>>].target,
                             !.used = @ \cup {q.lookup[<<"new", Current(q)>>].id}]
        <4>1. Become(r, p)
          BY <3>2 DEF UseMapping, q
        <4>2. p.rows = q.rows /\ p.pc # "commit"
          BY <1>1 DEF Request
        <4> QED
          BY <4>1, <4>2
      <3>3. CASE DropLegacy(r)
        <4> DEFINE p == [q EXCEPT !.pc = "migrate", !.at = q.lookup[<<"old", Current(q)>>].target]
        <4>1. Become(r, p)
          BY <3>3 DEF DropLegacy, q
        <4>2. p.rows = q.rows /\ p.pc # "commit"
          BY <1>1 DEF Request
        <4> QED
          BY <4>1, <4>2
      <3>4. CASE Migrate(r)
        <4> DEFINE p == Learned(q)
        <4>1. Become(r, p)
          BY <3>4 DEF Migrate, q
        <4>2. p.rows = q.rows /\ p.pc # "commit"
          BY <1>1 DEF Request, Learned
        <4> QED
          BY <4>1, <4>2
      <3>5. CASE Learn(r)
        <4>1. PICK k : Become(r, [Learned(q) EXCEPT !.at = k])
          BY <3>5 DEF Learn, q
        <4>2. [Learned(q) EXCEPT !.at = k].rows = q.rows /\ [Learned(q) EXCEPT !.at = k].pc = "apply"
          BY <1>1 DEF Learned, Request
        <4> QED
          BY <4>1, <4>2
      <3>6. CASE Guess(r)
        <4>1. PICK k : Become(r, [q EXCEPT !.pc = "apply", !.at = k])
          BY <3>6 DEF Guess, q
        <4>2. [q EXCEPT !.pc = "apply", !.at = k].rows = q.rows
              /\ [q EXCEPT !.pc = "apply", !.at = k].pc = "apply"
          BY <1>1 DEF Request
        <4> QED
          BY <4>1, <4>2
      <3>7. CASE Unmatched(r)
        <4>1. Become(r, [q EXCEPT !.todo = @ \ {Current(q)}]) /\ q.pc = "item"
          BY <3>7 DEF Unmatched, Heuristic, Working, At, q
        <4>2. [q EXCEPT !.todo = @ \ {Current(q)}].rows = q.rows
              /\ [q EXCEPT !.todo = @ \ {Current(q)}].pc = "item"
          BY <1>1, <4>1 DEF Request
        <4> QED
          BY <4>1, <4>2
      <3>8. CASE InsertRun(r)
        <4> DEFINE p == [q EXCEPT !.pc = IF q.filled = {} THEN "score" ELSE "components",
                                  !.run = runs + 1]
        <4>1. Become(r, p)
          BY <3>8 DEF InsertRun, q
        <4>2. p.rows = q.rows /\ p.pc # "commit"
          BY <1>1 DEF Request
        <4> QED
          BY <4>1, <4>2
      <3>9. CASE ReplaceComponents(r)
        BY <1>1, <3>9 DEF ReplaceComponents, Request, q
      <3> QED
        BY <1>8, <3>1, <3>2, <3>3, <3>4, <3>5, <3>6, <3>7, <3>8, <3>9
    <2> QED
      BY <2>1, <2>2, AmountsKeepLocks DEF q
  <1> QED
    BY <1>3, <1>4, <1>5, <1>6, <1>7, <1>8 DEF Reconcile

\* A commit writes under keys that no lock and no other staging has.
LEMMA CommitKeepsLocks ==
  ASSUME LocksInv, Typed', NEW r \in Requests, ApplyCommit(r)
  PROVE  /\ LocksInv'
         /\ \A k \in Keys, f \in Fields : <<k, f>> \in guarded => rows'[k] = rows[k]
  <1> DEFINE q == requests[r]
  <1>1. /\ q.pc = "commit" /\ q.staged \in [Lines -> Staged]
        /\ \A k \in Keys :
              /\ (\A l \in Lines : q.staged[l].key # k) => rows'[k] = rows[k]
              /\ rows[k] = None => rows'[k] = None \/ rows'[k].id = nextRow
              /\ rows[k] # None =>
                   /\ rows'[k] # None /\ rows'[k].id = rows[k].id
                   /\ \A f \in Fields : rows'[k].cell[f].locked = rows[k].cell[f].locked
        /\ nextRow' = nextRow + 1
        /\ staging' = IF staging # None /\ \A l \in Lines : staging[l].key = q.staged[l].key
                       THEN None ELSE staging
        /\ minted' = minted /\ guarded' = guarded
        /\ requests' = [requests EXCEPT ![r] = Idle]
    BY CommitApplied DEF LocksInv, Become
  <1>2. /\ BatchApart(q) /\ nextRow \in Nat /\ requests \in [Requests -> Request]
        /\ rows \in [Keys -> Row \cup {None}] /\ guarded \subseteq Keys \X Fields
        /\ staging # None => \A l \in Lines : staging[l].key \in Keys
    BY DEF LocksInv, Typed, TypeOK, Staged
  <1> HIDE DEF q
  <1>3. \A k \in Keys, f \in Fields : <<k, f>> \in guarded => \A l \in Lines : q.staged[l].key # k
    BY <1>1, <1>2 DEF BatchApart
  <1>4. \A k \in Keys, f \in Fields : <<k, f>> \in guarded => rows'[k] = rows[k]
    BY <1>1, <1>3
  <1>5. RowsMinted'
    <2>1. ASSUME NEW k \in Keys, rows'[k] # None
          PROVE  k \in minted /\ rows'[k].id < nextRow + 1
      <3>1. CASE rows[k] # None
        <4>1. rows[k].id < nextRow /\ rows[k].id \in Nat /\ k \in minted
          BY <1>2, <3>1 DEF LocksInv, RowsMinted, Row
        <4> QED
          BY <1>1, <1>2, <3>1, <4>1
      <3>2. CASE rows[k] = None
        <4>1. PICK l \in Lines : q.staged[l].key = k
          BY <1>1, <2>1, <3>2
        <4>2. k \in minted
          BY <1>1, <1>2, <4>1 DEF BatchApart
        <4> QED
          BY <1>1, <1>2, <2>1, <3>2, <4>2
      <3> QED
        BY <3>1, <3>2
    <2> QED
      BY <1>1, <2>1 DEF RowsMinted
  <1>6. GuardedLocked'
    BY <1>1, <1>4 DEF LocksInv, GuardedLocked
  <1>7. StagedFresh'
    <2> SUFFICES ASSUME staging' # None, NEW l \in Lines
                 PROVE  staging'[l].key \in minted' /\ rows'[staging'[l].key] = None
      BY DEF StagedFresh
    <2>1. staging' = staging /\ staging # None
          /\ ~ (\A m \in Lines : staging[m].key = q.staged[m].key)
      BY <1>1
    <2>2. \A m \in Lines : staging[l].key # q.staged[m].key
      BY <1>1, <1>2, <2>1 DEF BatchApart
    <2>3. rows'[staging[l].key] = rows[staging[l].key]
      BY <1>1, <1>2, <2>1, <2>2
    <2> QED
      BY <1>1, <2>1, <2>3 DEF LocksInv, StagedFresh
  <1>8. ASSUME NEW s \in Requests
        PROVE  LocksRead(requests[s])' /\ BatchApart(requests[s])'
    <2> DEFINE p == requests[s]
    <2>1. CASE s = r
      <3>1. requests'[s] = Idle
        BY <1>1, <1>2, <2>1
      <3> QED
        BY <3>1, IdleLocks
    <2>2. CASE s # r
      <3>1. requests'[s] = p /\ LocksRead(p) /\ BatchApart(p) /\ p.rows \in [Keys -> Row \cup {None}]
        BY <1>1, <1>2, <2>2 DEF LocksInv, Request
      <3> HIDE DEF p
      <3>2. ASSUME NEW k \in Keys, p.rows[k] # None
            PROVE  /\ p.rows[k].id < nextRow'
                   /\ \A f \in Fields : (<<k, f>> \in guarded' /\ p.rows[k].id = rows'[k].id) =>
                        p.rows[k].cell[f].locked
        <4>1. p.rows[k].id \in Nat /\ p.rows[k].id < nextRow
          BY <3>1, <3>2 DEF LocksRead, Row
        <4>2. p.rows[k].id < nextRow'
          BY <1>1, <1>2, <4>1
        <4> QED
          BY <1>1, <1>4, <3>1, <3>2, <4>2 DEF LocksRead
      <3>3. LocksRead(p)'
        BY <3>1, <3>2 DEF LocksRead, p
      <3>4. BatchApart(p)'
        BY <1>1, <3>1 DEF BatchApart, p
      <3> QED
        BY <3>3, <3>4 DEF p
    <2> QED
      BY <2>1, <2>2
  <1> QED
    BY <1>4, <1>5, <1>6, <1>7, <1>8 DEF LocksInv

\* The operator's actions: a lock is kept by history only while no request
\* is in flight, and new rows and staged lines have new keys.
LEMMA OperatorKeepsLocks ==
  ASSUME LocksInv, Typed', OperatorNext
  PROVE  /\ LocksInv'
         /\ \A k \in Keys, f \in Fields : <<k, f>> \in guarded /\ <<k, f>> \in guarded' =>
              SameOrOperator(k, f)
  <1> DEFINE Hold == \A k \in Keys, f \in Fields :
                <<k, f>> \in guarded /\ <<k, f>> \in guarded' => SameOrOperator(k, f)
             Goal == LocksInv' /\ Hold
  <1>1. /\ rows \in [Keys -> Row \cup {None}] /\ nextRow \in Nat /\ minted \subseteq Keys
        /\ guarded \subseteq Keys \X Fields /\ requests \in [Requests -> Request]
        /\ staging # None => staging \in [Lines -> Staged] /\ \A l \in Lines : staging[l].key \in Keys
    BY DEF LocksInv, Typed, TypeOK, Staged
  <1>2. UNCHANGED requests
    BY DEF OperatorNext, Parse, Discard, Override, EditPrior, Delete, Edit, Lock, Unlock,
           AssignMapping, Retarget, Describe, Create, DeleteMapping, ConfirmMapping, Edited
  <1>3. rows' = rows => Hold
    BY DEF SameOrOperator
  <1>4. CASE RowEdits
    <2>1. UNCHANGED <<nextRow, minted, staging>>
      BY <1>4, RowEdited DEF LocksInv
    <2>2. PICK k \in Keys : /\ \A g \in Keys : g # k => rows'[g] = rows[g]
                            /\ rows[k] # None /\ (Removed(k) \/ Touched(k))
      BY <1>4, RowEdited DEF LocksInv
    <2>3. \A g \in Keys : /\ rows'[g] # None => rows[g] # None /\ rows'[g].id = rows[g].id
      BY <2>2 DEF Removed, Touched
    <2>4. \A g \in Keys, f \in Fields :
            <<g, f>> \in guarded' => <<g, f>> \in guarded \/ (AllIdle /\ g = k)
      BY <2>2 DEF Removed, Touched
    <2>5. RowsMinted'
      BY <2>1, <2>3 DEF LocksInv, RowsMinted
    <2>6. GuardedLocked'
      <3> SUFFICES ASSUME NEW g \in Keys, NEW f \in Fields, <<g, f>> \in guarded'
                   PROVE  rows'[g] # None /\ rows'[g].cell[f].locked
        BY DEF GuardedLocked
      <3>1. CASE g # k
        BY <2>2, <2>4, <3>1 DEF LocksInv, GuardedLocked
      <3>2. CASE g = k
        <4>1. Touched(k)
          BY <2>2, <3>2 DEF Removed
        <4>2. rows'[k] # None
          BY <4>1, NoneAssumption DEF Touched
        <4>3. <<k, f>> \in guarded => rows[k].cell[f].locked
          BY DEF LocksInv, GuardedLocked
        <4> QED
          BY <3>2, <4>1, <4>2, <4>3 DEF Touched
      <3> QED
        BY <3>1, <3>2
    <2>7. StagedFresh'
      BY <1>1, <2>1, <2>3 DEF LocksInv, StagedFresh
    <2>8. ASSUME NEW s \in Requests
          PROVE  LocksRead(requests[s])' /\ BatchApart(requests[s])'
      <3>1. CASE AllIdle
        <4>1. requests'[s] = Idle
          BY <1>2, <3>1 DEF AllIdle
        <4> QED
          BY <4>1, IdleLocks
      <3>2. CASE ~ AllIdle
        <4> DEFINE p == requests[s]
        <4>1. /\ requests'[s] = p /\ LocksRead(p) /\ BatchApart(p)
              /\ p.rows \in [Keys -> Row \cup {None}]
              /\ p.pc = "commit" => \A l \in Lines : p.staged[l].key \in Keys
          BY <1>1, <1>2 DEF LocksInv, Request, BatchApart
        <4> HIDE DEF p
        <4>2. \A g \in Keys, f \in Fields : <<g, f>> \in guarded' => <<g, f>> \in guarded
          BY <2>4, <3>2
        <4>3. ASSUME NEW g \in Keys, p.rows[g] # None
              PROVE  /\ p.rows[g].id < nextRow'
                     /\ \A f \in Fields : (<<g, f>> \in guarded' /\ p.rows[g].id = rows'[g].id) =>
                          p.rows[g].cell[f].locked
          <5>1. ASSUME NEW f \in Fields, <<g, f>> \in guarded', p.rows[g].id = rows'[g].id
                PROVE  p.rows[g].cell[f].locked
            <6>1. rows'[g] # None
              BY <2>6, <5>1 DEF GuardedLocked
            <6>2. rows'[g].id = rows[g].id
              BY <2>3, <6>1
            <6> QED
              BY <4>1, <4>2, <4>3, <5>1, <6>2 DEF LocksRead
          <5>2. p.rows[g].id < nextRow'
            BY <2>1, <4>1, <4>3 DEF LocksRead
          <5> QED
            BY <5>1, <5>2
        <4>4. LocksRead(p)'
          BY <4>1, <4>3 DEF LocksRead, p
        <4>5. BatchApart(p)'
          BY <2>1, <4>1, <4>2 DEF BatchApart, p
        <4> QED
          BY <4>4, <4>5 DEF p
      <3> QED
        BY <3>1, <3>2
    <2>9. Hold
      <3> SUFFICES ASSUME NEW g \in Keys, NEW f \in Fields, <<g, f>> \in guarded'
                   PROVE  SameOrOperator(g, f)
        OBVIOUS
      <3>1. CASE g # k
        BY <2>2, <3>1 DEF SameOrOperator
      <3>2. CASE g = k
        BY <2>2, <3>2 DEF Removed, Touched, SameOrOperator
      <3> QED
        BY <3>1, <3>2
    <2> QED
      BY <2>5, <2>6, <2>7, <2>8, <2>9 DEF LocksInv
  <1>5. ASSUME rows' = rows, nextRow' = nextRow, guarded' = guarded, minted \subseteq minted', StagedFresh',
               \A s \in Requests : BatchApart(requests[s])'
        PROVE  Goal
    <2>1. RowsMinted' /\ GuardedLocked'
      BY <1>5 DEF LocksInv, RowsMinted, GuardedLocked
    <2>2. \A s \in Requests : LocksRead(requests[s])'
      BY <1>2, <1>5 DEF LocksInv, LocksRead
    <2> QED
      BY <1>3, <1>5, <2>1, <2>2 DEF LocksInv
  <1>6. CASE Parse
    <2>1. PICK key \in [Lines -> Keys \ minted] :
            /\ staging' = [l \in Lines |-> [key |-> key[l], override |-> None]]
            /\ minted' = minted \cup {key[l] : l \in Lines}
      BY <1>6, ParsedKeys
    <2>2. \A l \in Lines : staging'[l].key = key[l] /\ key[l] \in minted' /\ key[l] \in Keys \ minted
      BY <2>1
    <2>3. UNCHANGED <<rows, nextRow, guarded>>
      BY <1>6 DEF Parse
    <2>4. StagedFresh'
      BY <2>2, <2>3 DEF LocksInv, RowsMinted, StagedFresh
    <2>5. ASSUME NEW s \in Requests, requests[s].pc = "commit"
          PROVE  /\ \A l \in Lines : requests[s].staged[l].key \in minted'
                    /\ \A f \in Fields : <<requests[s].staged[l].key, f>> \notin guarded'
                 /\ \A l, m \in Lines : staging'[l].key # requests[s].staged[m].key
      <3>1. BatchApart(requests[s])
        BY DEF LocksInv
      <3> QED
        BY <2>1, <2>2, <2>3, <2>5, <3>1 DEF BatchApart
    <2>6. \A s \in Requests : BatchApart(requests[s])'
      BY <1>2, <2>5 DEF BatchApart
    <2> QED
      BY <1>5, <2>1, <2>3, <2>4, <2>6
  <1>7. CASE Discard
    <2>1. UNCHANGED <<rows, nextRow, minted, guarded>> /\ staging' = None
      BY <1>7 DEF Discard
    <2>2. StagedFresh' /\ \A s \in Requests : BatchApart(requests[s])'
      BY <1>2, <2>1 DEF StagedFresh, LocksInv, BatchApart
    <2> QED
      BY <1>5, <2>1, <2>2
  <1>8. ASSUME NEW l \in Lines, NEW carry \in BOOLEAN, Override(l, carry)
        PROVE  Goal
    <2>1. /\ UNCHANGED <<rows, nextRow, minted, guarded>> /\ staging # None
          /\ staging' = [staging EXCEPT ![l].override = carry]
      BY <1>8 DEF Override
    <2>2. \A m \in Lines : staging'[m].key = staging[m].key
      BY <1>1, <2>1 DEF Staged
    <2>3. StagedFresh'
      BY <2>1, <2>2 DEF StagedFresh, LocksInv
    <2>4. \A s \in Requests : BatchApart(requests[s])'
      BY <1>2, <2>1, <2>2 DEF LocksInv, BatchApart
    <2> QED
      BY <1>5, <2>1, <2>3, <2>4
  <1>9. ASSUME NEW in \in Inputs, NEW fs \in SUBSET Fields, Create(in, fs)
        PROVE  Goal
    <2>1. UNCHANGED <<staging, guarded>>
      BY <1>9 DEF Create
    <2>2. PICK k \in Keys \ minted, row \in Row :
           /\ rows' = [rows EXCEPT ![k] = row] /\ row.id = nextRow
           /\ nextRow' = nextRow + 1 /\ minted' = minted \cup {k}
      BY <1>9, Created DEF LocksInv
    <2>3. \A g \in Keys : g # k => rows'[g] = rows[g]
      BY <1>1, <2>2
    <2>4. rows'[k] = row /\ rows[k] = None /\ k \in Keys /\ \A f \in Fields : <<k, f>> \notin guarded
      BY <1>1, <2>2 DEF LocksInv, RowsMinted, GuardedLocked
    <2>5. RowsMinted'
      <3>1. \A g \in Keys : rows[g] # None => rows[g].id \in Nat /\ rows[g].id < nextRow
        BY <1>1 DEF LocksInv, RowsMinted, Row
      <3>2. \A g \in Keys : rows[g] # None => rows[g].id < nextRow + 1
        BY <1>1, <3>1
      <3>3. nextRow < nextRow + 1
        BY <1>1
      <3> QED
        BY <1>1, <2>2, <2>3, <2>4, <3>2, <3>3 DEF LocksInv, RowsMinted
    <2>6. GuardedLocked'
      BY <2>1, <2>3, <2>4 DEF LocksInv, GuardedLocked
    <2>7. StagedFresh'
      BY <1>1, <2>1, <2>2, <2>3, <2>4 DEF LocksInv, StagedFresh
    <2>8. ASSUME NEW s \in Requests
          PROVE  LocksRead(requests[s])' /\ BatchApart(requests[s])'
      <3> DEFINE p == requests[s]
      <3>1. requests'[s] = p /\ LocksRead(p) /\ BatchApart(p) /\ p.rows \in [Keys -> Row \cup {None}]
        BY <1>1, <1>2 DEF LocksInv, Request
      <3> HIDE DEF p
      <3>2. ASSUME NEW g \in Keys, p.rows[g] # None
            PROVE  p.rows[g].id < nextRow + 1
        <4>1. p.rows[g].id \in Nat /\ p.rows[g].id < nextRow
          BY <3>1, <3>2 DEF LocksRead, Row
        <4> QED
          BY <1>1, <4>1
      <3>3. LocksRead(p)'
        BY <2>1, <2>2, <2>3, <2>4, <3>1, <3>2 DEF LocksRead, p
      <3>4. BatchApart(p)'
        BY <2>1, <2>2, <3>1 DEF BatchApart, p
      <3> QED
        BY <3>3, <3>4 DEF p
    <2>9. Hold
      BY <2>3, <2>4 DEF SameOrOperator
    <2> QED
      BY <2>5, <2>6, <2>7, <2>8, <2>9 DEF LocksInv
  <1>10. ASSUME NEW fp \in Fingerprints,
                \/ \E k \in Keys : AssignMapping(fp, k) \/ Retarget(fp, k)
                \/ DeleteMapping(fp) \/ ConfirmMapping(fp)
         PROVE  Goal
    <2>1. UNCHANGED <<rows, nextRow, minted, staging, guarded>>
      BY <1>10 DEF AssignMapping, Retarget, DeleteMapping, ConfirmMapping, ledger
    <2>2. StagedFresh' /\ \A s \in Requests : BatchApart(requests[s])'
      BY <1>2, <2>1 DEF StagedFresh, LocksInv, BatchApart
    <2> QED
      BY <1>5, <2>1, <2>2
  <1> HIDE DEF Goal
  <1>11. Goal
    BY <1>4, <1>6, <1>7, <1>8, <1>9, <1>10 DEF OperatorNext, RowEdits, Goal
  <1> QED
    BY <1>11 DEF Goal

LEMMA LocksInductive == LocksInv /\ [Next]_vars => LocksInv'
  <1> SUFFICES ASSUME LocksInv, [Next]_vars PROVE LocksInv'
    OBVIOUS
  <1>1. Typed'
    BY NextTyped DEF LocksInv
  <1>2. CASE UNCHANGED vars
    <2>1. UNCHANGED <<rows, nextRow, minted, staging, requests, guarded>>
      BY <1>2 DEF vars, ledger, history
    <2>2. RowsMinted' /\ GuardedLocked' /\ StagedFresh'
      BY <2>1 DEF LocksInv, RowsMinted, GuardedLocked, StagedFresh
    <2>3. \A r \in Requests : LocksRead(requests[r])' /\ BatchApart(requests[r])'
      BY <2>1 DEF LocksInv, LocksRead, BatchApart
    <2> QED
      BY <1>1, <2>2, <2>3 DEF LocksInv
  <1>3. CASE OperatorNext
    BY <1>1, <1>3, OperatorKeepsLocks
  <1>4. ASSUME NEW r \in Requests, ApplyCommit(r)
        PROVE  LocksInv'
    BY <1>1, <1>4, CommitKeepsLocks
  <1>5. ASSUME NEW r \in Requests,
               Reconcile(r) \/ StartReset(r) \/ ApplyReset(r) \/ StartCommit(r) \/ Abort(r)
        PROVE  LocksInv'
    BY <1>1, <1>5, StepsKeepLocks
  <1> QED
    BY <1>2, <1>3, <1>4, <1>5 DEF Next

\* The row of a lock is the row a request has read only if it read the lock.
LEMMA WritesRespectLocks ==
  ASSUME LocksInv, NEW r \in Requests, Apply(r) \/ ApplyReset(r),
         NEW k \in Keys, NEW f \in Fields, <<k, f>> \in guarded
  PROVE  rows'[k].cell[f].value = rows[k].cell[f].value
  <1> DEFINE q == requests[r]
  <1>1. rows[k] # None /\ LocksRead(q) /\ q \in Request
    BY DEF LocksInv, GuardedLocked, Typed, TypeOK
  <1>2. CASE Apply(r)
    <2>1. CASE k = q.at /\ SameRow(q, k)
      <3>1. q.rows[k] # None
        BY <1>2, <2>1, Applied DEF LocksInv
      <3>2. q.rows[k].cell[f].locked
        BY <1>1, <2>1, <3>1 DEF LocksRead, SameRow
      <3>3. f \notin Open(q)
        BY <2>1, <3>2 DEF Open
      <3> QED
        BY <1>2, <2>1, <3>3, Applied DEF LocksInv
    <2>2. CASE ~ (k = q.at /\ SameRow(q, k))
      BY <1>2, <2>2, Applied DEF LocksInv
    <2> QED
      BY <2>1, <2>2
  <1>3. CASE ApplyReset(r)
    <2>1. CASE f = "market"
      BY <1>1, <1>3, <2>1, ResetApplied DEF LocksInv
    <2>2. CASE f = "amount"
      <3>1. ASSUME k \in q.chosen, SameRow(q, k) PROVE FALSE
        <4>1. q.rows[k] # None /\ ~ q.rows[k].cell["amount"].locked
          BY <1>3, <3>1, ResetApplied DEF LocksInv, Poised
        <4>2. q.rows[k].cell["amount"].locked
          BY <1>1, <2>2, <3>1, <4>1 DEF LocksRead, SameRow, Fields
        <4> QED
          BY <4>1, <4>2
      <3> QED
        BY <1>3, <3>1, ResetApplied DEF LocksInv
    <2> QED
      BY <2>1, <2>2 DEF Fields
  <1> QED
    BY <1>2, <1>3

LocksKept == \A c \in guarded : c \in guarded' => SameOrOperator(c[1], c[2])

LEMMA StepsRespectLocks == LocksInv /\ [Next]_vars => LocksKept
  <1> SUFFICES ASSUME LocksInv, [Next]_vars, NEW k \in Keys, NEW f \in Fields,
                      <<k, f>> \in guarded, <<k, f>> \in guarded'
               PROVE  SameOrOperator(k, f)
    BY DEF LocksInv, Typed, TypeOK, LocksKept
  <1>1. rows' = rows => SameOrOperator(k, f)
    BY DEF SameOrOperator
  <1>2. CASE UNCHANGED vars
    BY <1>1, <1>2 DEF vars, ledger
  <1>3. CASE OperatorNext
    <2>1. Typed'
      BY <1>3, OperatorTyped DEF LocksInv
    <2> QED
      BY <1>3, <2>1, OperatorKeepsLocks
  <1>4. ASSUME NEW r \in Requests, Apply(r) \/ ApplyReset(r)
        PROVE  SameOrOperator(k, f)
    BY <1>4, WritesRespectLocks DEF SameOrOperator
  <1>5. ASSUME NEW r \in Requests, ApplyCommit(r)
        PROVE  SameOrOperator(k, f)
    <2>1. Typed'
      BY NextTyped DEF LocksInv
    <2> QED
      BY <1>5, <2>1, CommitKeepsLocks DEF SameOrOperator
  <1>6. ASSUME NEW r \in Requests, StartReset(r) \/ StartCommit(r) \/ Abort(r)
        PROVE  SameOrOperator(k, f)
    BY <1>1, <1>6 DEF StartReset, StartCommit, Started, Abort, ledger
  <1>7. ASSUME NEW r \in Requests, Reconcile(r), ~ Apply(r)
        PROVE  SameOrOperator(k, f)
    <2>1. rows' = rows
      BY <1>7 DEF Reconcile, StartReconcile, Started, ReadMappings, UseMapping, DropLegacy,
                  Migrate, Learn, Guess, Unmatched, InsertRun, ReplaceComponents, Score, ledger
    <2> QED
      BY <1>1, <2>1
  <1> QED
    BY <1>2, <1>3, <1>4, <1>5, <1>6, <1>7 DEF Next

(***************************************************************************)
(* A lock placed while no long request was in flight keeps the value of    *)
(* its cell until the operator edits or unlocks it, however many           *)
(* reconciles, resets and commits run at once or break off.                *)
(***************************************************************************)
THEOREM LocksAlwaysStand == Spec => LocksStand
  <1>1. LocksInv /\ [Next]_vars => [LocksKept]_vars
    BY StepsRespectLocks
  <1>2. LocksStand <=> [][LocksKept]_vars
    BY DEF LocksStand, LocksKept
  <1> QED
    BY <1>1, <1>2, InitLocks, LocksInductive, PTL DEF Spec
-----------------------------------------------------------------------------
(***************************************************************************)
(* Runs that are alone.  The rows an item matches, by the mappings m and   *)
(* the rows x, do not change during such a run, though it may learn and    *)
(* migrate mappings.                                                       *)
(***************************************************************************)
Steered(m, x, c, i) == m[<<c, i>>] # None /\ x[m[<<c, i>>].target] # None

Match(m, x, i, k) ==
  IF Steered(m, x, "new", i) THEN k = m[<<"new", i>>].target
  ELSE IF Steered(m, x, "old", i) THEN k = m[<<"old", i>>].target
  ELSE {c \in Keys : x[c] # None /\ x[c].names = i} = {k}

Fills(m, x, i, k, f) == f \in FieldsOf(i) /\ Match(m, x, i, k)

\* The rows are as a run over the items in S leaves them: the last match of
\* an open cell is its value.
Fixed(S, m, x) ==
  \A k \in Keys, f \in Fields :
    (x[k] # None /\ ~ x[k].cell[f].locked /\ \E i \in S : Fills(m, x, i, k, f)) =>
      \E i \in S : /\ Fills(m, x, i, k, f)
                   /\ x[k].cell[f].value = i /\ x[k].cell[f].source = "auto_reconciled"
                   /\ \A j \in S : Fills(m, x, j, k, f) => Rank[j] <= Rank[i]

\* x and y differ in amounts alone.
Agree(x, y) ==
  \A k \in Keys : IF x[k] = None THEN y[k] = None ELSE
    /\ y[k] # None
    /\ y[k].id = x[k].id /\ y[k].names = x[k].names
    /\ y[k].rule = x[k].rule /\ y[k].prior = x[k].prior
    /\ \A f \in Fields : y[k].cell[f].locked = x[k].cell[f].locked

Put(c, i) == [c EXCEPT !.value = i, !.source = "auto_reconciled"]

Filler(q, k, f, i) == <<k, i>> \in q.filled /\ f \in FieldsOf(i)

\* What the run has written so far into the rows it has read.
Brought(q, x) ==
  \A k \in Keys, f \in Fields : q.rows[k] # None =>
    \/ /\ x[k].cell[f] = q.rows[k].cell[f]
       /\ q.rows[k].cell[f].locked \/ \A i \in Items : ~ Filler(q, k, f, i)
    \/ /\ ~ q.rows[k].cell[f].locked
       /\ \E i \in Items :
            /\ Filler(q, k, f, i)
            /\ x[k].cell[f] = Put(q.rows[k].cell[f], i)
            /\ \A j \in Items : Filler(q, k, f, j) => Rank[j] <= Rank[i]

\* A mapping that led to a row the run filled has been used.
Backed(q, k, i) ==
  LET found == q.lookup[<<"new", i>>] IN
  found # None /\ found.target = k => found.id \in q.used

Progress(q) ==
  /\ q.todo \subseteq q.items
  /\ \A i \in q.items \ q.todo, j \in q.todo : Rank[i] <= Rank[j]
  /\ \A k \in Keys, i \in Items : <<k, i>> \in q.filled =>
       i \in q.items /\ i \notin q.todo /\ Backed(q, k, i)
  /\ \A i \in q.items \ q.todo, k \in Keys :
       Match(q.lookup, q.rows, i, k) <=> <<k, i>> \in q.filled
  /\ q.pc \in {"migrate", "apply"} => Match(q.lookup, q.rows, Current(q), q.at)
  /\ q.pc = "apply" => Backed(q, q.at, Current(q))
  /\ q.pc \in {"components", "score"} => q.todo = {}

\* What the run knows of the mappings: all but the old one it has just dropped.
Linked(q, m) ==
  IF q.pc = "migrate"
  THEN ~ TierOne(q) /\ m = [q.lookup EXCEPT ![<<"old", Current(q)>>] = None]
  ELSE m = q.lookup

Tracks(q, m, x, s) ==
  /\ q.pc \in {"reset", "commit"} => s = {}
  /\ q.pc = "mappings" =>
       /\ x = q.rows /\ q.todo = q.items /\ q.filled = {}
       /\ q.items \in s => Fixed(q.items, m, x)
  /\ q.pc \in {"item", "migrate", "apply", "components", "score"} =>
       /\ Agree(q.rows, x) /\ Brought(q, x) /\ Progress(q) /\ Linked(q, m)
       /\ q.items \in s => Fixed(q.items, q.lookup, q.rows)

RunsInv ==
  /\ Typed
  /\ overlap => settled = {}
  /\ ~ overlap =>
       /\ \A r, s \in Requests : requests[r] = Idle \/ requests[s] = Idle \/ r = s
       /\ AllIdle => \A S \in settled : Fixed(S, mappings, rows)
       /\ \A r \in Requests : Tracks(requests[r], mappings, rows, settled)

LEMMA MatchOne ==
  ASSUME NEW m, NEW x, NEW i, NEW k, NEW l, Match(m, x, i, k), Match(m, x, i, l)
  PROVE  k = l
  BY DEF Match

\* A match depends on which mappings lead to a row, and on the names of rows.
LEMMA SameMatch ==
  ASSUME NEW m, NEW n, NEW x, NEW y, NEW i \in Items, Agree(x, y),
         \A c \in {"new", "old"} :
           IF m[<<c, i>>] = None THEN n[<<c, i>>] = None
           ELSE /\ n[<<c, i>>] # None /\ n[<<c, i>>].target = m[<<c, i>>].target
                /\ m[<<c, i>>].target \in Keys
  PROVE  \A k : Match(m, x, i, k) <=> Match(n, y, i, k)
  <1>1. \A k \in Keys : /\ x[k] # None <=> y[k] # None
                        /\ x[k] # None => x[k].names = y[k].names
    BY DEF Agree
  <1>2. \A c \in {"new", "old"} : Steered(m, x, c, i) <=> Steered(n, y, c, i)
    BY <1>1 DEF Steered
  <1>3. {c \in Keys : x[c] # None /\ x[c].names = i} = {c \in Keys : y[c] # None /\ y[c].names = i}
    BY <1>1
  <1> QED
    BY <1>2, <1>3 DEF Match, Steered

LEMMA SameFixed ==
  ASSUME NEW S \in SUBSET Items, NEW m, NEW n, NEW x, Fixed(S, m, x),
         \A i \in S, k \in Keys : Match(m, x, i, k) <=> Match(n, x, i, k)
  PROVE  Fixed(S, n, x)
  <1>1. \A i \in S, k \in Keys, f \in Fields : Fills(m, x, i, k, f) <=> Fills(n, x, i, k, f)
    BY DEF Fills
  <1> QED
    BY <1>1 DEF Fixed

\* A step that changes neither rows nor mappings it has read, nor its matches.
LEMMA KeepsTrack ==
  ASSUME NEW q, NEW p, NEW m, NEW n, NEW x, NEW s, Tracks(q, m, x, s),
         q.pc \in {"item", "migrate", "apply", "components", "score"},
         p.pc \in {"item", "migrate", "apply", "components", "score"},
         p.rows = q.rows, p.items = q.items, p.todo = q.todo, p.filled = q.filled,
         p.lookup = q.lookup, q.used \subseteq p.used,
         p.pc \in {"migrate", "apply"} => Match(q.lookup, q.rows, Current(q), p.at),
         p.pc = "apply" => Backed(p, p.at, Current(q)),
         p.pc \in {"components", "score"} => q.todo = {},
         Linked(p, n)
  PROVE  Tracks(p, n, x, s)
  <1>1. Current(p) = Current(q)
    BY DEF Current
  <1>2. \A k \in Keys, i \in Items : Backed(q, k, i) => Backed(p, k, i)
    BY DEF Backed
  <1>3. Progress(p)
    BY <1>1, <1>2 DEF Tracks, Progress
  <1>4. Agree(p.rows, x) /\ Brought(p, x)
    BY DEF Tracks, Brought, Filler
  <1> QED
    BY <1>3, <1>4 DEF Tracks

\* The current item is done: filled k, or matched nothing.
LEMMA ItemDone ==
  ASSUME NEW q \in Request, Progress(q), q.todo # {},
         NEW p, p.pc = "item", p.rows = q.rows, p.items = q.items, p.lookup = q.lookup,
         p.used = q.used, p.todo = q.todo \ {Current(q)},
         NEW K \in SUBSET Keys, p.filled = q.filled \cup (K \X {Current(q)}),
         \A k \in Keys : Match(q.lookup, q.rows, Current(q), k) <=> k \in K,
         \A k \in K : Backed(q, k, Current(q))
  PROVE  Progress(p)
  <1> DEFINE i == Current(q)
  <1>1. q.todo \subseteq Items
    BY DEF Request
  <1>2. i \in q.todo /\ \A j \in q.todo : Rank[i] <= Rank[j]
    BY <1>1, CurrentFirst
  <1> HIDE DEF i
  <1>3. p.todo \subseteq p.items /\ p.items \ p.todo = (q.items \ q.todo) \cup {i}
    BY <1>2 DEF Progress, i
  <1>4. \A j \in p.items \ p.todo, l \in p.todo : Rank[j] <= Rank[l]
    BY <1>2, <1>3 DEF Progress, i
  <1>5. \A k \in Keys, j \in Items : Backed(p, k, j) <=> Backed(q, k, j)
    BY DEF Backed
  <1>6. \A k, j : <<k, j>> \in p.filled <=> <<k, j>> \in q.filled \/ (k \in K /\ j = i)
    BY DEF i
  <1>7. ASSUME NEW k \in Keys, NEW j \in Items, <<k, j>> \in p.filled
        PROVE  j \in p.items /\ j \notin p.todo /\ Backed(p, k, j)
    <2>1. CASE <<k, j>> \in q.filled
      BY <1>5, <2>1 DEF Progress
    <2>2. CASE k \in K /\ j = i
      BY <1>2, <1>5, <2>2 DEF Progress, i
    <2> QED
      BY <1>6, <1>7, <2>1, <2>2
  <1>8. ASSUME NEW j \in p.items \ p.todo, NEW k \in Keys
        PROVE  Match(p.lookup, p.rows, j, k) <=> <<k, j>> \in p.filled
    <2>1. CASE j = i
      <3>1. <<k, j>> \notin q.filled
        BY <1>1, <1>2, <2>1 DEF Progress
      <3> QED
        BY <1>6, <2>1, <3>1 DEF i
    <2>2. CASE j # i
      BY <1>3, <1>6, <2>2 DEF Progress
    <2> QED
      BY <2>1, <2>2
  <1> QED
    BY <1>3, <1>4, <1>7, <1>8 DEF Progress

\* The current item's mapping is made, and leads to the row it matches.
LEMMA LearnsTrack ==
  ASSUME NEW q \in Request, NEW m, NEW n, NEW x, NEW s, Tracks(q, m, x, s),
         q.pc \in {"item", "migrate"}, q.todo # {},
         NEW k \in Keys, q.rows[k] # None, Match(q.lookup, q.rows, Current(q), k),
         NEW p, p.pc = "apply", p.rows = q.rows, p.items = q.items, p.todo = q.todo,
         p.filled = q.filled, p.at = k, p.lookup = n, q.used \subseteq p.used,
         \A fp \in Fingerprints : fp[2] # Current(q) => n[fp] = q.lookup[fp],
         n[<<"new", Current(q)>>] # None, n[<<"new", Current(q)>>].target = k,
         n[<<"new", Current(q)>>].id \in p.used
  PROVE  Tracks(p, n, x, s)
  <1> DEFINE i == Current(q)
  <1>1. /\ q.todo \subseteq Items /\ q.items \subseteq Items
        /\ q.lookup \in [Fingerprints -> Mapping \cup {None}]
    BY DEF Request
  <1>2. i \in q.todo /\ i \in Items
    BY <1>1, CurrentFirst
  <1>3. Current(p) = i
    BY DEF Current
  <1> HIDE DEF i
  <1>4. ASSUME NEW j \in Items, j # i
        PROVE  \A l : Match(q.lookup, q.rows, j, l) <=> Match(n, q.rows, j, l)
    <2>1. \A c \in {"new", "old"} : n[<<c, j>>] = q.lookup[<<c, j>>]
      BY <1>4 DEF Fingerprints, i
    <2> QED
      BY <2>1 DEF Match, Steered
  <1>5. \A l \in Keys : Match(n, q.rows, i, l) <=> l = k
    BY DEF Match, Steered, i
  <1>6. \A l \in Keys : Match(q.lookup, q.rows, i, l) <=> l = k
    BY MatchOne DEF i
  <1>7. \A j \in Items, l \in Keys : Match(q.lookup, q.rows, j, l) <=> Match(n, q.rows, j, l)
    BY <1>4, <1>5, <1>6
  <1>8. Progress(q)
    BY DEF Tracks
  <1>9. \A l \in Keys, j \in Items : <<l, j>> \in q.filled => j # i /\ Backed(p, l, j)
    <2> SUFFICES ASSUME NEW l \in Keys, NEW j \in Items, <<l, j>> \in q.filled
                 PROVE  j # i /\ Backed(p, l, j)
      OBVIOUS
    <2>1. j # i /\ Backed(q, l, j)
      BY <1>2, <1>8 DEF Progress
    <2>2. n[<<"new", j>>] = q.lookup[<<"new", j>>]
      BY <2>1 DEF Fingerprints, i
    <2> QED
      BY <2>1, <2>2 DEF Backed
  <1>10. Backed(p, p.at, i)
    BY DEF Backed, i
  <1>11. Progress(p)
    BY <1>1, <1>3, <1>5, <1>7, <1>8, <1>9, <1>10 DEF Progress
  <1>12. Agree(p.rows, x) /\ Brought(p, x)
    BY DEF Tracks, Brought, Filler
  <1>13. p.items \in s => Fixed(p.items, p.lookup, p.rows)
    BY <1>1, <1>7, SameFixed DEF Tracks
  <1>14. Linked(p, n)
    BY DEF Linked
  <1> QED
    BY <1>11, <1>12, <1>13, <1>14 DEF Tracks

\* A match that is written joins what the run has carried into the rows.
LEMMA MatchCarried ==
  ASSUME NEW q \in Request, NEW x, NEW y \in [Keys -> Row \cup {None}], Agree(q.rows, x),
         Brought(q, x), Progress(q), q.todo # {}, q.at \in Keys, q.rows[q.at] # None,
         \A k \in Keys : k # q.at => y[k] = x[k],
         \A f \in Fields : y[q.at].cell[f] = IF f \in Open(q)
           THEN Put(x[q.at].cell[f], Current(q)) ELSE x[q.at].cell[f],
         NEW p, p.rows = q.rows, p.filled = q.filled \cup {<<q.at, Current(q)>>}
  PROVE  Brought(p, y)
  <1> DEFINE i == Current(q)
  <1>1. q.todo \subseteq Items /\ q.rows[q.at] \in Row
    BY DEF Request
  <1>2. i \in Items /\ i \in q.todo
    BY <1>1, CurrentFirst
  <1>3. \A f \in Fields : f \in Open(q) <=> f \in FieldsOf(i) /\ ~ q.rows[q.at].cell[f].locked
    BY DEF Open, FieldsOf
  <1>4. \A j \in Items, k \in Keys : <<k, j>> \in q.filled => Rank[j] <= Rank[i]
    BY <1>2 DEF Progress
  <1>5. \A f \in Fields : y[q.at].cell[f] = IF f \in Open(q) THEN Put(x[q.at].cell[f], i)
                                            ELSE x[q.at].cell[f]
    OBVIOUS
  <1>6. Rank[i] <= Rank[i]
    BY <1>2, ItemsAssumption DEF Injection
  <1> HIDE DEF i
  <1>7. \A k \in Keys, j \in Items, f \in Fields :
          Filler(p, k, f, j) <=> Filler(q, k, f, j) \/ (k = q.at /\ j = i /\ f \in FieldsOf(i))
    BY DEF Filler, i
  <1>8. \A j, l : \A c \in Cell : Put(Put(c, j), l) = Put(c, l)
    BY DEF Cell, Put
  <1> SUFFICES ASSUME NEW k \in Keys, NEW f \in Fields, q.rows[k] # None
               PROVE  LET c == q.rows[k].cell[f] IN
                      \/ /\ y[k].cell[f] = c
                         /\ c.locked \/ \A j \in Items : ~ Filler(p, k, f, j)
                      \/ /\ ~ c.locked
                         /\ \E j \in Items : /\ Filler(p, k, f, j) /\ y[k].cell[f] = Put(c, j)
                                             /\ \A l \in Items : Filler(p, k, f, l) => Rank[l] <= Rank[j]
    BY DEF Brought
  <1> DEFINE c == q.rows[k].cell[f]
  <1>9. c \in Cell
    BY DEF Request, Row
  <1>10. \/ /\ x[k].cell[f] = c
            /\ c.locked \/ \A j \in Items : ~ Filler(q, k, f, j)
         \/ /\ ~ c.locked
            /\ \E j \in Items : /\ Filler(q, k, f, j) /\ x[k].cell[f] = Put(c, j)
                                /\ \A l \in Items : Filler(q, k, f, l) => Rank[l] <= Rank[j]
    BY DEF Brought
  <1>11. CASE k # q.at \/ f \notin FieldsOf(i)
    <2>1. \A j \in Items : Filler(p, k, f, j) <=> Filler(q, k, f, j)
      BY <1>7, <1>11
    <2>2. y[k].cell[f] = x[k].cell[f]
      BY <1>3, <1>5, <1>11
    <2> HIDE DEF c
    <2> QED
      BY <1>10, <2>1, <2>2 DEF c
  <1>12. CASE k = q.at /\ f \in FieldsOf(i) /\ c.locked
    <2>1. y[k].cell[f] = x[k].cell[f]
      BY <1>3, <1>5, <1>12
    <2> QED
      BY <1>10, <1>12, <2>1
  <1>13. CASE k = q.at /\ f \in FieldsOf(i) /\ ~ c.locked
    <2>1. y[k].cell[f] = Put(x[k].cell[f], i)
      BY <1>3, <1>5, <1>13
    <2>2. y[k].cell[f] = Put(c, i)
      BY <1>8, <1>9, <1>10, <2>1
    <2>3. Filler(p, k, f, i)
      BY <1>2, <1>7, <1>13
    <2>4. \A l \in Items : Filler(p, k, f, l) => Rank[l] <= Rank[i]
      BY <1>4, <1>6, <1>7 DEF Filler
    <2> QED
      BY <1>2, <1>13, <2>2, <2>3, <2>4
  <1> QED
    BY <1>11, <1>12, <1>13

LEMMA IdleTracks == \A m, x, s : Tracks(Idle, m, x, s)
  BY DEF Idle, Tracks

\* A step of the only request in flight.
LEMMA AloneStep ==
  ASSUME RunsInv, Typed', NEW r \in Requests, NEW p, Become(r, p), UNCHANGED regime,
         overlap => settled' = {},
         ~ overlap =>
           /\ requests[r] # Idle \/ AllIdle
           /\ Tracks(p, mappings', rows', settled')
           /\ p = Idle => \A S \in settled' : Fixed(S, mappings', rows')
  PROVE  RunsInv'
  <1>1. requests' = [requests EXCEPT ![r] = p] /\ requests \in [Requests -> Request]
        /\ overlap' = overlap
    BY DEF Become, RunsInv, Typed, TypeOK, overlap
  <1>2. CASE overlap
    BY <1>1, <1>2 DEF RunsInv
  <1>3. CASE ~ overlap
    <2>1. \A s \in Requests : s # r => requests[s] = Idle
      BY <1>3 DEF RunsInv, AllIdle
    <2>2. \A s \in Requests : requests'[s] = IF s = r THEN p ELSE Idle
      BY <1>1, <2>1
    <2>3. AllIdle' => p = Idle
      BY <2>2 DEF AllIdle
    <2>4. \A s \in Requests : Tracks(requests'[s], mappings', rows', settled')
      BY <1>3, <2>2, IdleTracks
    <2>5. (\A s \in Requests : Tracks(requests[s], mappings, rows, settled))'
      BY <2>4
    <2> QED
      BY <1>1, <1>3, <2>2, <2>3, <2>5 DEF RunsInv
  <1> QED
    BY <1>2, <1>3

LEMMA RunsInit == Init => RunsInv
  <1> SUFFICES ASSUME Init PROVE RunsInv
    OBVIOUS
  <1>1. settled = {} /\ \A r \in Requests : requests[r] = Idle
    BY DEF Init
  <1> QED
    BY <1>1, InitTyped, IdleTracks DEF RunsInv

\* The operator waits for requests that run alone.
LEMMA OperatorKeepsRuns ==
  ASSUME RunsInv, Typed', OperatorNext
  PROVE  RunsInv'
  <1>1. Edited
    BY DEF OperatorNext, Parse, Discard, Override, EditPrior, Delete, Edit, Lock, Unlock,
           AssignMapping, Retarget, Describe, Create, DeleteMapping, ConfirmMapping
  <1>2. (overlap \/ AllIdle) /\ settled' = {} /\ UNCHANGED <<requests, regime>>
    BY <1>1 DEF Edited
  <1>3. overlap' = overlap
    BY <1>2 DEF overlap
  <1>4. CASE overlap
    BY <1>2, <1>3, <1>4 DEF RunsInv
  <1>5. CASE ~ overlap
    <2>1. \A r \in Requests : requests'[r] = Idle
      BY <1>2, <1>5 DEF AllIdle
    <2>2. (\A r \in Requests : Tracks(requests[r], mappings, rows, settled))'
      BY <2>1, IdleTracks
    <2> QED
      BY <1>2, <1>3, <1>5, <2>1, <2>2 DEF RunsInv
  <1> QED
    BY <1>4, <1>5

LEMMA StartKeepsRuns ==
  ASSUME RunsInv, Typed', NEW r \in Requests,
         StartReconcile(r) \/ StartReset(r) \/ StartCommit(r) \/ Abort(r) \/ ApplyReset(r)
           \/ ApplyCommit(r)
  PROVE  RunsInv'
  <1>1. CASE StartReconcile(r)
    <2>1. PICK present \in SUBSET Items :
            /\ Become(r, [Idle EXCEPT !.pc = "mappings", !.rows = rows,
                                      !.items = present, !.todo = present])
            /\ settled' = settled \cap {present}
      BY <1>1 DEF StartReconcile
    <2> DEFINE p == [Idle EXCEPT !.pc = "mappings", !.rows = rows,
                                 !.items = present, !.todo = present]
    <2>2. /\ p.pc = "mappings" /\ p.rows = rows /\ p.items = present /\ p.todo = present
          /\ p.filled = {} /\ p # Idle
      BY DEF Idle
    <2>3. /\ overlap \/ AllIdle
          /\ UNCHANGED <<rows, mappings, regime>>
      BY <1>1 DEF StartReconcile, Started, ledger, learned
    <2>4. Become(r, p)
      BY <2>1
    <2> HIDE DEF p
    <2>5. ~ overlap /\ present \in settled' => Fixed(present, mappings', rows')
      BY <2>1, <2>3 DEF RunsInv
    <2>7. ~ overlap => Tracks(p, mappings', rows', settled')
      BY <2>2, <2>3, <2>5 DEF Tracks
    <2>6. overlap => settled' = {}
      BY <2>1 DEF RunsInv
    <2> QED
      BY <2>2, <2>3, <2>4, <2>6, <2>7, AloneStep
  <1>2. CASE StartReset(r) \/ StartCommit(r)
    <2>1. PICK p : /\ Become(r, p) /\ p.pc \in {"reset", "commit"}
      <3>1. CASE StartReset(r)
        <4>1. PICK chosen : Become(r, [Idle EXCEPT !.pc = "reset", !.rows = rows, !.chosen = chosen])
          BY <3>1 DEF StartReset
        <4>2. [Idle EXCEPT !.pc = "reset", !.rows = rows, !.chosen = chosen].pc = "reset"
          BY DEF Idle
        <4> QED
          BY <4>1, <4>2
      <3>2. CASE StartCommit(r)
        <4>1. Become(r, [Idle EXCEPT !.pc = "commit", !.staged = staging])
          BY <3>2 DEF StartCommit
        <4>2. [Idle EXCEPT !.pc = "commit", !.staged = staging].pc = "commit"
          BY DEF Idle
        <4> QED
          BY <4>1, <4>2
      <3> QED
        BY <1>2, <3>1, <3>2
    <2>2. settled' = {} /\ UNCHANGED regime /\ (overlap \/ AllIdle)
      BY <1>2 DEF StartReset, StartCommit, Started
    <2>3. Tracks(p, mappings', rows', settled')
      BY <2>1, <2>2 DEF Tracks
    <2> QED
      BY <2>1, <2>2, <2>3, AloneStep
  <1>3. CASE Abort(r) \/ ApplyReset(r) \/ ApplyCommit(r)
    <2>1. Become(r, Idle) /\ UNCHANGED regime
      BY <1>3 DEF Abort, ApplyReset, ApplyCommit, Stepped
    <2>5. requests[r] # Idle \/ requests[r].pc \in {"reset", "commit"}
      BY <1>3 DEF Abort, ApplyReset, ApplyCommit, At
    <2>2. requests[r] # Idle
      BY <2>5 DEF Idle
    <2>3. overlap => settled' = {}
      BY <1>3 DEF Abort, ApplyReset, ApplyCommit, Stepped, RunsInv
    <2>4. ~ overlap => settled' = {}
      <3>1. CASE Abort(r)
        BY <3>1 DEF Abort
      <3>2. CASE ApplyReset(r) \/ ApplyCommit(r)
        BY <3>2 DEF ApplyReset, ApplyCommit, Stepped, At, RunsInv, Tracks
      <3> QED
        BY <1>3, <3>1, <3>2
    <2> QED
      BY <2>1, <2>2, <2>3, <2>4, IdleTracks, AloneStep
  <1> QED
    BY <1>1, <1>2, <1>3

\* What the steps of a run share.
LEMMA RunStep ==
  ASSUME RunsInv, Typed', NEW r \in Requests, requests[r].pc # "idle",
         UNCHANGED <<settled, regime>>, NEW p, Become(r, p), p.pc # "idle",
         ~ overlap => Tracks(p, mappings', rows', settled')
  PROVE  RunsInv'
  <1>1. requests[r] # Idle /\ p # Idle
    BY DEF Idle
  <1>2. overlap => settled' = {}
    BY DEF RunsInv
  <1> QED
    BY <1>1, <1>2, AloneStep

LEMMA MatchKeepsRuns ==
  ASSUME RunsInv, Typed', NEW r \in Requests,
         ReadMappings(r) \/ UseMapping(r) \/ DropLegacy(r) \/ Migrate(r)
           \/ Learn(r) \/ Guess(r) \/ Unmatched(r)
  PROVE  RunsInv'
  <1> DEFINE q == requests[r]
             i == Current(q)
  <1>1. /\ q \in Request /\ Poised(q) /\ q.todo \in SUBSET Items
        /\ q.lookup \in [Fingerprints -> Mapping \cup {None}]
        /\ mappings \in [Fingerprints -> Mapping \cup {None}]
    BY DEF RunsInv, Typed, TypeOK, Request
  <1>2. q.todo # {} => i \in Items
    BY <1>1, CurrentFirst
  <1>3. \A c \in {"old", "new"} : q.todo # {} => <<c, i>> \in Fingerprints
    BY <1>2 DEF Fingerprints
  <1>4. UNCHANGED <<rows, settled, regime>>
    BY DEF ReadMappings, UseMapping, DropLegacy, Migrate, Learn, Guess, Unmatched, Stepped, ledger
  <1>5. ~ overlap => Tracks(q, mappings, rows, settled)
    BY DEF RunsInv
  <1> SUFFICES \E p : /\ Become(r, p) /\ q.pc # "idle" /\ p.pc # "idle"
                      /\ ~ overlap => Tracks(p, mappings', rows, settled)
    BY <1>4, RunStep
  <1> HIDE DEF q, i
  <1>6. CASE ReadMappings(r)
    <2> DEFINE both == {p \in Fingerprints \X Keys :
                          mappings[p[1]] # None /\ mappings[p[1]].target = p[2]}
               new == [q EXCEPT !.pc = "item", !.lookup = mappings, !.before = both]
    <2>1. Become(r, new) /\ mappings' = mappings /\ q.pc = "mappings"
      BY <1>6 DEF ReadMappings, At, learned, q
    <2>2. /\ new.pc = "item" /\ new.lookup = mappings /\ new.rows = q.rows /\ new.todo = q.todo
          /\ new.items = q.items /\ new.filled = q.filled
      BY <1>1 DEF Request
    <2> HIDE DEF new
    <2>3. ASSUME ~ overlap PROVE Tracks(new, mappings', rows, settled)
      <3>1. /\ rows = q.rows /\ q.todo = q.items /\ q.filled = {}
            /\ q.items \in settled => Fixed(q.items, mappings, rows)
        BY <1>5, <2>1, <2>3 DEF Tracks
      <3>2. Agree(new.rows, rows)
        BY <2>2, <3>1 DEF Agree
      <3>3. Brought(new, rows)
        BY <2>2, <3>1 DEF Brought, Filler
      <3>4. Progress(new) /\ Linked(new, mappings)
        BY <2>1, <2>2, <3>1 DEF Progress, Linked
      <3> QED
        BY <2>1, <2>2, <3>1, <3>2, <3>3, <3>4 DEF Tracks
    <2> QED
      BY <2>1, <2>2, <2>3
  <1>7. CASE UseMapping(r)
    <2> DEFINE found == q.lookup[<<"new", i>>]
               new == [q EXCEPT !.pc = "apply", !.at = found.target, !.used = @ \cup {found.id}]
    <2>1. /\ Become(r, new) /\ mappings' = mappings /\ q.todo # {} /\ q.pc = "item" /\ TierOne(q)
      BY <1>7 DEF UseMapping, Working, At, learned, q, i
    <2>2. Match(q.lookup, q.rows, i, found.target)
      BY <2>1 DEF TierOne, Leads, Match, Steered, i
    <2> HIDE DEF found
    <2>3. /\ new.pc = "apply" /\ new.at = found.target /\ new.used = q.used \cup {found.id}
          /\ new.rows = q.rows /\ new.items = q.items /\ new.todo = q.todo
          /\ new.filled = q.filled /\ new.lookup = q.lookup
      BY <1>1 DEF Request
    <2> HIDE DEF new
    <2>4. Backed(new, new.at, i)
      BY <2>3 DEF Backed, found
    <2>5. ASSUME ~ overlap PROVE Tracks(new, mappings', rows, settled)
      <3>1. Linked(new, mappings')
        BY <1>5, <2>1, <2>3, <2>5 DEF Tracks, Linked
      <3> QED
        BY <1>5, <2>1, <2>2, <2>3, <2>4, <2>5, <3>1, KeepsTrack DEF i
    <2> QED
      BY <2>1, <2>3, <2>5
  <1>8. CASE DropLegacy(r)
    <2> DEFINE fp == <<"old", i>>
               found == q.lookup[fp]
               new == [q EXCEPT !.pc = "migrate", !.at = found.target]
    <2>1. Become(r, new) /\ q.todo # {} /\ q.pc = "item" /\ ~ TierOne(q) /\ Legacy(q)
      BY <1>8 DEF DropLegacy, Working, At, q, i
    <2>2. mappings' = IF mappings[fp] # None /\ mappings[fp].id = found.id
                      THEN [mappings EXCEPT ![fp] = None] ELSE mappings
      BY <1>8 DEF DropLegacy, q, i
    <2>3. found # None /\ Match(q.lookup, q.rows, i, found.target)
      BY <2>1 DEF TierOne, Legacy, Leads, Match, Steered, i
    <2>4. /\ new.pc = "migrate" /\ new.at = found.target /\ new.used = q.used
          /\ new.rows = q.rows /\ new.items = q.items /\ new.todo = q.todo
          /\ new.filled = q.filled /\ new.lookup = q.lookup
      BY <1>1 DEF Request
    <2> HIDE DEF new
    <2>5. ASSUME ~ overlap PROVE Tracks(new, mappings', rows, settled)
      <3>1. mappings = q.lookup
        BY <1>5, <2>1, <2>5 DEF Tracks, Linked
      <3>2. Current(new) = i
        BY <2>4 DEF Current, i
      <3>3. ~ TierOne(new)
        BY <2>1, <2>4, <3>2 DEF TierOne, Leads, i
      <3>4. Linked(new, mappings')
        BY <2>2, <2>3, <2>4, <3>1, <3>2, <3>3 DEF Linked
      <3> QED
        BY <1>5, <2>1, <2>3, <2>4, <2>5, <3>4, KeepsTrack DEF i
    <2> QED
      BY <2>1, <2>4, <2>5
  \* Assign, for the row the item matches.
  <1>9. ASSUME NEW k \in Keys, NEW score \in 0 .. MaxScore, q.pc \in {"item", "migrate"}, q.todo # {},
               q.rows[k] # None, Match(q.lookup, q.rows, i, k),
               Assign(<<"new", i>>, k, score), Become(r, [Learned(q) EXCEPT !.at = k])
        PROVE  \E p : /\ Become(r, p) /\ q.pc # "idle" /\ p.pc # "idle"
                      /\ ~ overlap => Tracks(p, mappings', rows, settled)
    <2> DEFINE entry == mappings'[<<"new", i>>]
               new == [Learned(q) EXCEPT !.at = k]
               id == entry.id
    <2>1. /\ entry = [id |-> IF mappings[<<"new", i>>] = None THEN nextId
                             ELSE mappings[<<"new", i>>].id, target |-> k, score |-> score]
          /\ \A fp \in Fingerprints : fp # <<"new", i>> => mappings'[fp] = mappings[fp]
      BY <1>1, <1>3, <1>9 DEF Assign
    <2>3. entry.target = k /\ entry # None
      <3>1. nextId \in Nat /\ mappings[<<"new", i>>] \in Mapping \cup {None}
        BY <1>1, <1>3, <1>9 DEF RunsInv, Typed, TypeOK
      <3>2. entry.target = k
        BY <2>1
      <3>3. entry \in Mapping
        BY <2>1, <3>1 DEF Mapping
      <3> QED
        BY <3>2, <3>3, NoneAssumption
    <2>4. Learned(q) = [q EXCEPT !.pc = "apply", !.lookup = mappings', !.used = @ \cup {id}]
      BY DEF Learned, i
    <2> HIDE DEF id
    <2>5. /\ new.pc = "apply" /\ new.at = k /\ new.used = q.used \cup {id}
          /\ new.rows = q.rows /\ new.items = q.items /\ new.todo = q.todo
          /\ new.filled = q.filled /\ new.lookup = mappings'
      BY <1>1, <2>4 DEF Request
    <2> HIDE DEF new, entry
    <2>6. ASSUME ~ overlap PROVE Tracks(new, mappings', rows, settled)
      <3>1. Tracks(q, mappings, rows, settled) /\ Linked(q, mappings)
        BY <1>5, <1>9, <2>6 DEF Tracks
      <3>2. \A fp \in Fingerprints : fp[2] # i => mappings'[fp] = q.lookup[fp]
        BY <1>1, <2>1, <3>1 DEF Linked, i
      <3>3. mappings'[<<"new", i>>].id \in new.used
        BY <2>5 DEF id, entry
      <3> QED
        BY <1>1, <1>9, <2>3, <2>5, <3>1, <3>2, <3>3, LearnsTrack DEF i, entry
    <2> QED
      BY <1>9, <2>5, <2>6 DEF new
  <1>10. CASE Migrate(r)
    <2> DEFINE seen == q.lookup[<<"old", i>>]
    <2>1. q.pc = "migrate" /\ Assign(<<"new", i>>, q.at, seen.score) /\ Become(r, Learned(q))
      BY <1>10 DEF Migrate, At, q, i
    <2>2. q.todo # {} /\ q.at \in Keys /\ q.rows[q.at] # None /\ seen # None
      BY <1>1, <2>1 DEF Poised, i
    <2>3. Learned(q) = [Learned(q) EXCEPT !.at = q.at]
      BY <1>1 DEF Learned, Request
    <2>6. seen.score \in 0 .. MaxScore
      BY <1>1, <1>3, <2>2 DEF Mapping
    <2> HIDE DEF seen
    <2>4. CASE ~ overlap
      <3>1. Match(q.lookup, q.rows, i, q.at)
        BY <1>5, <2>1, <2>4 DEF Tracks, Progress, i
      <3> QED
        BY <1>9, <2>1, <2>2, <2>3, <2>6, <3>1
    <2>5. CASE overlap
      <3>1. Learned(q).pc = "apply"
        BY <1>1 DEF Learned, Request
      <3> QED
        BY <2>1, <2>5, <3>1
    <2> QED
      BY <2>4, <2>5
  <1>11. CASE Learn(r) \/ Guess(r)
    <2>1. /\ Heuristic(r) /\ Unique(q)
          /\ \E k \in Candidates(q) :
               \/ Assign(<<"new", i>>, k, MaxScore) /\ Become(r, [Learned(q) EXCEPT !.at = k])
               \/ Become(r, [q EXCEPT !.pc = "apply", !.at = k]) /\ mappings' = mappings
      BY <1>11 DEF Learn, Guess, learned, q, i
    <2>2. q.todo # {} /\ q.pc = "item" /\ ~ TierOne(q) /\ ~ Legacy(q)
      BY <2>1 DEF Heuristic, Working, At, q
    <2>3. PICK k \in Candidates(q) :
               \/ Assign(<<"new", i>>, k, MaxScore) /\ Become(r, [Learned(q) EXCEPT !.at = k])
               \/ Become(r, [q EXCEPT !.pc = "apply", !.at = k]) /\ mappings' = mappings
      BY <2>1
    <2>4. k \in Keys /\ q.rows[k] # None /\ Candidates(q) = {k}
      BY <2>1, <2>3 DEF Unique, Candidates
    <2>8. MaxScore \in 0 .. MaxScore
      BY ScoreAssumption
    <2>5. Match(q.lookup, q.rows, i, k)
      BY <2>2, <2>4 DEF TierOne, Legacy, Leads, Candidates, Match, Steered, i
    <2>6. CASE Assign(<<"new", i>>, k, MaxScore) /\ Become(r, [Learned(q) EXCEPT !.at = k])
      BY <1>9, <2>2, <2>4, <2>5, <2>6, <2>8
    <2>7. CASE Become(r, [q EXCEPT !.pc = "apply", !.at = k]) /\ mappings' = mappings
      <3> DEFINE new == [q EXCEPT !.pc = "apply", !.at = k]
      <3>1. /\ new.pc = "apply" /\ new.at = k /\ new.used = q.used
            /\ new.rows = q.rows /\ new.items = q.items /\ new.todo = q.todo
            /\ new.filled = q.filled /\ new.lookup = q.lookup
        BY <1>1 DEF Request
      <3>2. Become(r, new)
        BY <2>7
      <3> HIDE DEF new
      <3>3. Backed(new, k, i)
        BY <2>2, <2>4, <3>1 DEF Backed, TierOne, Leads, i
      <3>4. ASSUME ~ overlap PROVE Tracks(new, mappings', rows, settled)
        <4>1. Linked(new, mappings')
          BY <1>5, <2>2, <2>7, <3>1, <3>4 DEF Tracks, Linked
        <4> QED
          BY <1>5, <2>2, <2>5, <3>1, <3>3, <3>4, <4>1, KeepsTrack DEF i
      <3> QED
        BY <2>2, <3>1, <3>2, <3>4
    <2> QED
      BY <2>3, <2>6, <2>7
  <1>12. CASE Unmatched(r)
    <2> DEFINE new == [q EXCEPT !.todo = @ \ {i}]
    <2>1. /\ Become(r, new) /\ mappings' = mappings /\ q.pc = "item" /\ q.todo # {}
          /\ ~ TierOne(q) /\ ~ Legacy(q) /\ ~ Unique(q)
      BY <1>12 DEF Unmatched, Heuristic, Working, At, learned, q, i
    <2>2. /\ new.pc = "item" /\ new.used = q.used
          /\ new.rows = q.rows /\ new.items = q.items /\ new.todo = q.todo \ {i}
          /\ new.filled = q.filled /\ new.lookup = q.lookup
      BY <1>1, <2>1 DEF Request
    <2> HIDE DEF new
    <2>3. \A k \in Keys : ~ Match(q.lookup, q.rows, i, k)
      BY <2>1 DEF TierOne, Legacy, Leads, Unique, Candidates, Match, Steered, i
    <2>4. ASSUME ~ overlap PROVE Tracks(new, mappings', rows, settled)
      <3>1. Progress(q)
        BY <1>5, <2>1, <2>4 DEF Tracks
      <3>2. PICK K \in SUBSET Keys : K = {}
        OBVIOUS
      <3>5. /\ new.filled = q.filled \cup (K \X {i})
            /\ \A k \in Keys : Match(q.lookup, q.rows, i, k) <=> k \in K
            /\ \A k \in K : Backed(q, k, i)
        BY <2>2, <2>3, <3>2
      <3>3. Progress(new)
        BY <1>1, <2>1, <2>2, <3>1, <3>5, ItemDone DEF i
      <3>4. Agree(new.rows, rows) /\ Brought(new, rows) /\ Linked(new, mappings')
        BY <1>5, <2>1, <2>2, <2>4 DEF Tracks, Brought, Filler, Linked
      <3> QED
        BY <1>5, <2>1, <2>2, <2>4, <3>3, <3>4 DEF Tracks
    <2> QED
      BY <2>1, <2>2, <2>4
  <1> QED
    BY <1>6, <1>7, <1>8, <1>10, <1>11, <1>12

LEMMA AgreeOn ==
  ASSUME NEW x, Agree(x, rows), OnlyAmounts
  PROVE  Agree(x, rows')
  <1>1. \A k \in Keys : rows[k] # None => rows'[k] # None
    BY NoneAssumption DEF OnlyAmounts
  <1> QED
    BY <1>1 DEF Agree, OnlyAmounts

LEMMA WriteKeepsRuns ==
  ASSUME RunsInv, Typed', NEW r \in Requests, Apply(r)
  PROVE  RunsInv'
  <1> DEFINE q == requests[r]
             i == Current(q)
             new == [q EXCEPT !.pc = "item", !.todo = @ \ {i}, !.at = None,
                              !.filled = @ \cup {<<q.at, i>>}]
  <1>1. /\ q.pc = "apply" /\ q.todo # {} /\ i \in q.todo /\ q.at \in Keys /\ q.rows[q.at] # None
        /\ rows' \in [Keys -> Row \cup {None}] /\ OnlyAmounts
        /\ \A k \in Keys : k # q.at => rows'[k] = rows[k]
        /\ SameRow(q, q.at) => \A f \in Fields :
             rows'[q.at].cell[f] = IF f \in Open(q)
               THEN [rows[q.at].cell[f] EXCEPT !.value = i, !.source = "auto_reconciled"]
               ELSE rows[q.at].cell[f]
        /\ UNCHANGED <<learned, settled, regime>>
        /\ Become(r, new)
    BY Applied DEF RunsInv
  <1>2. q \in Request
    BY DEF RunsInv, Typed, TypeOK
  <1>3. ~ overlap => Tracks(q, mappings, rows, settled)
    BY DEF RunsInv
  <1> HIDE DEF q, i
  <1>4. /\ new.pc = "item" /\ new.used = q.used /\ new.rows = q.rows /\ new.items = q.items
        /\ new.todo = q.todo \ {i} /\ new.lookup = q.lookup
        /\ new.filled = q.filled \cup {<<q.at, i>>}
    BY <1>2 DEF Request
  <1> HIDE DEF new
  <1>5. ASSUME ~ overlap PROVE Tracks(new, mappings', rows', settled')
    <2>1. /\ Agree(q.rows, rows) /\ Brought(q, rows) /\ Progress(q) /\ mappings = q.lookup
          /\ q.items \in settled => Fixed(q.items, q.lookup, q.rows)
      BY <1>1, <1>3, <1>5 DEF Tracks, Linked
    <2>2. SameRow(q, q.at)
      BY <1>1, <2>1 DEF Agree, SameRow
    <2>3. Brought(new, rows')
      <3>1. \A f \in Fields : rows'[q.at].cell[f] = IF f \in Open(q)
                       THEN Put(rows[q.at].cell[f], i) ELSE rows[q.at].cell[f]
        BY <1>1, <2>2 DEF Put
      <3> QED
        BY <1>1, <1>2, <1>4, <2>1, <3>1, MatchCarried DEF i
    <2>4. Agree(new.rows, rows')
      BY <1>1, <1>4, <2>1, AgreeOn
    <2>5. Progress(new)
      <3>1. Match(q.lookup, q.rows, i, q.at) /\ Backed(q, q.at, i)
        BY <1>1, <2>1 DEF Progress, i
      <3>2. \A k \in Keys : Match(q.lookup, q.rows, i, k) <=> k \in {q.at}
        BY <3>1, MatchOne
      <3>3. new.filled = q.filled \cup ({q.at} \X {i})
        BY <1>4
      <3>4. PICK K \in SUBSET Keys : K = {q.at}
        BY <1>1
      <3>5. /\ new.filled = q.filled \cup (K \X {i})
            /\ \A k \in Keys : Match(q.lookup, q.rows, i, k) <=> k \in K
            /\ \A k \in K : Backed(q, k, i)
        BY <3>1, <3>2, <3>3, <3>4
      <3> QED
        BY <1>1, <1>2, <1>4, <2>1, <3>5, ItemDone DEF i
    <2>6. Linked(new, mappings')
      BY <1>1, <1>4, <2>1 DEF Linked, learned
    <2> QED
      BY <1>1, <1>4, <2>1, <2>3, <2>4, <2>5, <2>6 DEF Tracks
  <1> QED
    BY <1>1, <1>4, <1>5, RunStep DEF q

\* The rows a run leaves are those it would write again.
LEMMA ScoreSettles ==
  ASSUME RunsInv, Typed', ~ overlap, NEW r \in Requests, Score(r)
  PROVE  Fixed(requests[r].items, mappings', rows)
  <1> DEFINE q == requests[r]
  <1>1. /\ Agree(q.rows, rows) /\ Brought(q, rows) /\ Progress(q) /\ mappings = q.lookup
        /\ q.todo = {} /\ q.items \subseteq Items
        /\ q.lookup \in [Fingerprints -> Mapping \cup {None}]
        /\ q.rows \in [Keys -> Row \cup {None}]
    BY DEF RunsInv, Tracks, Linked, Progress, Score, At, Typed, TypeOK, Request
  <1>2. ASSUME NEW i \in Items, NEW k \in Keys
        PROVE  Match(q.lookup, q.rows, i, k) <=> Match(mappings', rows, i, k)
    <2>1. ASSUME NEW c \in {"new", "old"}
          PROVE  IF q.lookup[<<c, i>>] = None THEN mappings'[<<c, i>>] = None
                 ELSE /\ mappings'[<<c, i>>] # None
                      /\ mappings'[<<c, i>>].target = q.lookup[<<c, i>>].target
                      /\ q.lookup[<<c, i>>].target \in Keys
      <3>1. <<c, i>> \in Fingerprints
        BY DEF Fingerprints
      <3>2. q.lookup[<<c, i>>] # None => q.lookup[<<c, i>>].target \in Keys
        BY <1>1, <3>1 DEF Mapping
      <3>3. IF mappings[<<c, i>>] = None THEN mappings'[<<c, i>>] = None
            ELSE /\ mappings'[<<c, i>>] # None
                 /\ mappings'[<<c, i>>].target = mappings[<<c, i>>].target
        BY <3>1, Scored DEF RunsInv
      <3> QED
        BY <1>1, <3>2, <3>3
    <2> HIDE DEF q
    <2>2. \A l : Match(q.lookup, q.rows, i, l) <=> Match(mappings', rows, i, l)
      BY <1>1, <2>1, SameMatch
    <2> QED
      BY <2>2
  <1> HIDE DEF q
  <1>3. \A i \in q.items, k \in Keys, f \in Fields :
          Fills(mappings', rows, i, k, f) <=> Filler(q, k, f, i)
    BY <1>1, <1>2 DEF Fills, Filler, Progress
  <1> SUFFICES ASSUME NEW k \in Keys, NEW f \in Fields, rows[k] # None, ~ rows[k].cell[f].locked,
                      NEW j \in q.items, Fills(mappings', rows, j, k, f)
               PROVE  \E i \in q.items :
                        /\ Fills(mappings', rows, i, k, f)
                        /\ rows[k].cell[f].value = i /\ rows[k].cell[f].source = "auto_reconciled"
                        /\ \A l \in q.items : Fills(mappings', rows, l, k, f) => Rank[l] <= Rank[i]
    BY DEF Fixed, q
  <1>4. q.rows[k] # None /\ ~ q.rows[k].cell[f].locked /\ q.rows[k].cell[f] \in Cell
    BY <1>1 DEF Agree, Row
  <1>5. PICK i \in Items :
          /\ Filler(q, k, f, i) /\ rows[k].cell[f] = Put(q.rows[k].cell[f], i)
          /\ \A l \in Items : Filler(q, k, f, l) => Rank[l] <= Rank[i]
    BY <1>1, <1>3, <1>4 DEF Brought
  <1>6. i \in q.items
    BY <1>1, <1>5 DEF Filler, Progress
  <1>7. rows[k].cell[f].value = i /\ rows[k].cell[f].source = "auto_reconciled"
    BY <1>4, <1>5 DEF Put, Cell
  <1> QED
    BY <1>1, <1>3, <1>5, <1>6, <1>7

LEMMA EndKeepsRuns ==
  ASSUME RunsInv, Typed', NEW r \in Requests, InsertRun(r) \/ ReplaceComponents(r) \/ Score(r)
  PROVE  RunsInv'
  <1> DEFINE q == requests[r]
  <1>1. q \in Request /\ (~ overlap => Tracks(q, mappings, rows, settled))
    BY DEF RunsInv, Typed, TypeOK
  <1> HIDE DEF q
  <1>2. ASSUME NEW p, Become(r, p), UNCHANGED <<rows, mappings, settled, regime>>,
               q.pc \in {"item", "components"}, p.pc \in {"components", "score"},
               q.pc = "item" => q.todo = {},
               p.rows = q.rows, p.items = q.items, p.todo = q.todo, p.filled = q.filled,
               p.lookup = q.lookup, p.used = q.used
        PROVE  RunsInv'
    <2>1. ASSUME ~ overlap PROVE Tracks(p, mappings', rows', settled')
      <3>1. Linked(p, mappings')
        BY <1>1, <1>2, <2>1 DEF Tracks, Linked
      <3>2. q.todo = {}
        BY <1>1, <1>2, <2>1 DEF Tracks, Progress
      <3>3. Tracks(p, mappings', rows, settled)
        BY <1>1, <1>2, <2>1, <3>1, <3>2, KeepsTrack
      <3> QED
        BY <1>2, <3>3
    <2> QED
      BY <1>2, <2>1, RunStep DEF q
  <1>3. CASE InsertRun(r)
    <2> DEFINE p == [q EXCEPT !.pc = IF q.filled = {} THEN "score" ELSE "components",
                              !.run = runs + 1]
    <2>1. /\ Become(r, p) /\ q.pc = "item" /\ q.todo = {}
          /\ UNCHANGED <<rows, mappings, settled, regime>>
      BY <1>3 DEF InsertRun, At, Stepped, ledger, learned, q
    <2>2. /\ p.pc \in {"components", "score"}
          /\ p.rows = q.rows /\ p.items = q.items /\ p.todo = q.todo /\ p.filled = q.filled
          /\ p.lookup = q.lookup /\ p.used = q.used
      BY <1>1 DEF Request
    <2> HIDE DEF p
    <2> QED
      BY <1>2, <2>1, <2>2
  <1>4. CASE ReplaceComponents(r)
    <2> DEFINE p == [q EXCEPT !.pc = "score"]
    <2>1. /\ Become(r, p) /\ q.pc = "components"
          /\ UNCHANGED <<rows, mappings, settled, regime>>
      BY <1>4 DEF ReplaceComponents, At, Stepped, ledger, learned, q
    <2>2. /\ p.pc = "score"
          /\ p.rows = q.rows /\ p.items = q.items /\ p.todo = q.todo /\ p.filled = q.filled
          /\ p.lookup = q.lookup /\ p.used = q.used
      BY <1>1 DEF Request
    <2> HIDE DEF p
    <2> QED
      BY <1>2, <2>1, <2>2
  <1>5. CASE Score(r)
    <2>1. /\ Become(r, Idle) /\ UNCHANGED <<rows, regime>> /\ q.pc = "score"
          /\ settled' = IF overlap THEN {} ELSE {q.items}
      BY <1>5 DEF Score, At, ledger, q
    <2>2. requests[r] # Idle
      BY <2>1 DEF Idle, q
    <2>3. ~ overlap => Fixed(q.items, mappings', rows')
      BY <1>5, <2>1, ScoreSettles DEF q
    <2> QED
      BY <2>1, <2>2, <2>3, IdleTracks, AloneStep
  <1> QED
    BY <1>3, <1>4, <1>5

LEMMA RunsInductive == RunsInv /\ [Next]_vars => RunsInv'
  <1> SUFFICES ASSUME RunsInv, [Next]_vars PROVE RunsInv'
    OBVIOUS
  <1>1. Typed'
    BY NextTyped DEF RunsInv
  <1>2. CASE UNCHANGED vars
    <2>1. /\ UNCHANGED <<rows, mappings, requests, settled>>
          /\ overlap' = overlap
      BY <1>2 DEF vars, ledger, learned, history, overlap
    <2>2. ~ overlap => (\A r \in Requests : Tracks(requests[r], mappings, rows, settled))'
      BY <2>1 DEF RunsInv
    <2> QED
      BY <1>1, <2>1, <2>2 DEF RunsInv, AllIdle
  <1>3. CASE OperatorNext
    BY <1>1, <1>3, OperatorKeepsRuns
  <1>4. ASSUME NEW r \in Requests,
               Reconcile(r) \/ StartReset(r) \/ ApplyReset(r) \/ StartCommit(r) \/ ApplyCommit(r)
                 \/ Abort(r)
        PROVE  RunsInv'
    BY <1>1, <1>4, StartKeepsRuns, MatchKeepsRuns, WriteKeepsRuns, EndKeepsRuns DEF Reconcile
  <1> QED
    BY <1>2, <1>3, <1>4 DEF Next

\* A run that meets the rows of the last one writes what it reads.
LEMMA RerunSame == RunsInv => RerunChangesNothing
  <1> SUFFICES ASSUME RunsInv, NEW r \in Requests, At(r, "score"), requests[r].items \in settled
               PROVE  rows = requests[r].rows
    BY DEF RerunChangesNothing
  <1> DEFINE q == requests[r]
  <1>1. /\ Agree(q.rows, rows) /\ Brought(q, rows) /\ Progress(q) /\ q.todo = {}
        /\ Fixed(q.items, q.lookup, q.rows)
        /\ rows \in [Keys -> Row \cup {None}] /\ q.rows \in [Keys -> Row \cup {None}]
        /\ q.items \subseteq Items
    BY DEF RunsInv, Tracks, Progress, At, Typed, TypeOK, Request
  <1> HIDE DEF q
  <1>2. ASSUME NEW k \in Keys, NEW f \in Fields, q.rows[k] # None
        PROVE  rows[k].cell[f] = q.rows[k].cell[f]
    <2> DEFINE c == q.rows[k].cell[f]
    <2>1. c \in Cell
      BY <1>1, <1>2 DEF Row
    <2>2. CASE rows[k].cell[f] # c
      <3>1. ~ c.locked
        BY <1>1, <1>2, <2>2 DEF Brought
      <3>2. PICK i \in Items : /\ Filler(q, k, f, i) /\ rows[k].cell[f] = Put(c, i)
                               /\ \A j \in Items : Filler(q, k, f, j) => Rank[j] <= Rank[i]
        BY <1>1, <1>2, <2>2 DEF Brought
      <3>3. \A j \in q.items : Fills(q.lookup, q.rows, j, k, f) <=> Filler(q, k, f, j)
        BY <1>1 DEF Fills, Filler, Progress
      <3>4. i \in q.items
        BY <1>1, <3>2 DEF Filler, Progress
      <3>5. PICK j \in q.items :
              /\ Fills(q.lookup, q.rows, j, k, f)
              /\ c.value = j /\ c.source = "auto_reconciled"
              /\ \A l \in q.items : Fills(q.lookup, q.rows, l, k, f) => Rank[l] <= Rank[j]
        BY <1>1, <1>2, <3>1, <3>2, <3>3, <3>4 DEF Fixed
      <3>6. Rank[i] <= Rank[j] /\ Rank[j] <= Rank[i]
        BY <1>1, <3>2, <3>3, <3>4, <3>5
      <3>7. i = j
        <4>1. Rank \in [Items -> Nat] /\ \A a, b \in Items : Rank[a] = Rank[b] => a = b
          BY ItemsAssumption DEF Injection, IsInjective
        <4>2. j \in Items
          BY <1>1
        <4>3. Rank[i] = Rank[j]
          BY <3>6, <4>1, <4>2
        <4> QED
          BY <4>1, <4>2, <4>3
      <3>8. ASSUME NEW d \in Cell, d.source = "auto_reconciled"
            PROVE  Put(d, d.value) = d
        BY <3>8 DEF Put, Cell
      <3> HIDE DEF c
      <3> QED
        BY <2>1, <3>2, <3>5, <3>7, <3>8 DEF c
    <2> QED
      BY <2>2
  <1>3. ASSUME NEW k \in Keys
        PROVE  rows[k] = q.rows[k]
    <2>1. CASE q.rows[k] = None
      BY <1>1, <2>1 DEF Agree
    <2>2. CASE q.rows[k] # None
      <3>1. rows[k] \in Row /\ q.rows[k] \in Row
        BY <1>1, <2>2 DEF Agree
      <3>2. rows[k].cell = q.rows[k].cell
        BY <1>2, <2>2, <3>1 DEF Row
      <3>3. /\ rows[k].id = q.rows[k].id /\ rows[k].names = q.rows[k].names
            /\ rows[k].rule = q.rows[k].rule /\ rows[k].prior = q.rows[k].prior
        BY <1>1, <2>2 DEF Agree
      <3>4. \A x, y \in Row : (/\ x.id = y.id /\ x.names = y.names /\ x.rule = y.rule
                               /\ x.prior = y.prior /\ x.cell = y.cell) => x = y
        BY DEF Row
      <3> QED
        BY <3>1, <3>2, <3>3, <3>4
    <2> QED
      BY <2>1, <2>2
  <1>4. rows = q.rows
    BY <1>1, <1>3
  <1> QED
    BY <1>4 DEF q

\* The components of the rows a run has filled are replaced all together.
LEMMA OneRunStep == OneRunPerRow /\ [Next]_vars => OneRunPerRow'
  <1> SUFFICES ASSUME OneRunPerRow, [Next]_vars PROVE OneRunPerRow'
    OBVIOUS
  <1>1. CASE UNCHANGED components
    BY <1>1 DEF OneRunPerRow
  <1>2. ASSUME NEW r \in Requests, ReplaceComponents(r)
        PROVE  OneRunPerRow'
    <2> DEFINE q == requests[r]
               new == {[key |-> f[1], item |-> f[2], run |-> q.run] : f \in q.filled}
    <2>1. components' = {c \in components : \A f \in q.filled : f[1] # c.key} \cup new
      BY <1>2 DEF ReplaceComponents
    <2>2. \A c \in new : c.run = q.run /\ \E f \in q.filled : f[1] = c.key
      OBVIOUS
    <2> HIDE DEF new, q
    <2> QED
      BY <2>1, <2>2 DEF OneRunPerRow
  <1>3. UNCHANGED components \/ \E r \in Requests : ReplaceComponents(r)
    <2>1. CASE OperatorNext
      BY <2>1 DEF OperatorNext, Parse, Discard, Override, EditPrior, Delete, Edit, Lock, Unlock,
           AssignMapping, Retarget, Describe, Create, DeleteMapping, ConfirmMapping, Edited
    <2>2. ASSUME NEW r \in Requests, Reconcile(r)
          PROVE  UNCHANGED components \/ ReplaceComponents(r)
      BY <2>2 DEF Reconcile, StartReconcile, Started, ReadMappings, UseMapping, DropLegacy,
                  Migrate, Learn, Guess, Unmatched, Apply, InsertRun, Score
    <2>3. ASSUME NEW r \in Requests,
                 StartReset(r) \/ ApplyReset(r) \/ StartCommit(r) \/ ApplyCommit(r) \/ Abort(r)
          PROVE  UNCHANGED components
      BY <2>3 DEF StartReset, ApplyReset, StartCommit, ApplyCommit, Abort, Started
    <2>4. CASE UNCHANGED vars
      BY <2>4 DEF vars
    <2> QED
      BY <2>1, <2>2, <2>3, <2>4 DEF Next
  <1> QED
    BY <1>1, <1>2, <1>3

(***************************************************************************)
(* Running a reconcile again on the same data changes no row, whatever     *)
(* mappings the first run learned or migrated, and the breakdown of a row  *)
(* never mixes two runs.                                                   *)
(***************************************************************************)
THEOREM RunsAlwaysRepeatable == Spec => []RunsAreRepeatable
  <1>1. Init => OneRunPerRow
    BY DEF Init, OneRunPerRow
  <1>2. RunsInv /\ OneRunPerRow => RunsAreRepeatable
    BY RerunSame DEF RunsAreRepeatable, RunsInv, Typed
  <1> QED
    BY <1>1, <1>2, RunsInit, RunsInductive, OneRunStep, PTL DEF Spec
-----------------------------------------------------------------------------
(***************************************************************************)
(* Mappings.                                                               *)
(***************************************************************************)
LEMMA WritersOfMappings ==
  ASSUME [Next]_vars
  PROVE  \/ mappings' = mappings \/ OperatorNext
         \/ \E r \in Requests : DropLegacy(r) \/ Migrate(r) \/ Learn(r) \/ Score(r)
  <1>1. CASE UNCHANGED vars
    BY <1>1 DEF vars, learned
  <1>2. ASSUME NEW r \in Requests, Reconcile(r)
        PROVE  mappings' = mappings \/ DropLegacy(r) \/ Migrate(r) \/ Learn(r) \/ Score(r)
    BY <1>2 DEF Reconcile, StartReconcile, Started, ReadMappings, UseMapping, Guess, Unmatched,
                Apply, InsertRun, ReplaceComponents, learned
  <1>3. ASSUME NEW r \in Requests,
               StartReset(r) \/ ApplyReset(r) \/ StartCommit(r) \/ ApplyCommit(r) \/ Abort(r)
        PROVE  mappings' = mappings
    BY <1>3 DEF StartReset, ApplyReset, StartCommit, ApplyCommit, Abort, Started, learned
  <1> QED
    BY <1>1, <1>2, <1>3 DEF Next

LEMMA Migrated ==
  ASSUME Typed, NEW r \in Requests, Migrate(r)
  PROVE  LET fp == <<"new", Current(requests[r])>> IN
         /\ requests[r].pc = "migrate" /\ mappings'[fp] \in Mapping
         /\ \A gp \in Fingerprints : gp # fp => mappings'[gp] = mappings[gp]
  <1> DEFINE q == requests[r]
             i == Current(q)
             seen == q.lookup[<<"old", i>>]
             entry == [id |-> IF mappings[<<"new", i>>] = None THEN nextId
                              ELSE mappings[<<"new", i>>].id, target |-> q.at, score |-> seen.score]
  <1>1. /\ q.pc = "migrate" /\ mappings' = [mappings EXCEPT ![<<"new", i>>] = entry]
        /\ q \in Request /\ Poised(q) /\ mappings \in [Fingerprints -> Mapping \cup {None}]
        /\ nextId \in Nat
    BY DEF Migrate, Assign, At, Typed, TypeOK
  <1>2. i \in Items /\ q.at \in Keys /\ seen # None
    <2>1. q.todo # {} /\ q.at \in Keys /\ seen # None /\ q.todo \in SUBSET Items
      BY <1>1 DEF Poised, Request
    <2> QED
      BY <2>1, CurrentFirst
  <1> HIDE DEF i
  <1>3. <<"new", i>> \in Fingerprints /\ <<"old", i>> \in Fingerprints
    BY <1>2 DEF Fingerprints
  <1>4. seen \in Mapping
    BY <1>1, <1>2, <1>3 DEF Request
  <1>5. entry \in Mapping
    BY <1>1, <1>2, <1>3, <1>4 DEF Mapping
  <1> HIDE DEF entry
  <1> QED
    BY <1>1, <1>3, <1>5 DEF i

NotRedirected ==
  ~ overlap /\ requests' # requests =>
       \A i \in Items :
         LET old == mappings[<<"new", i>>]
             new == mappings'[<<"new", i>>] IN
         old # None =>
           /\ new # None
           /\ new.target # old.target =>
                rows[old.target] = None /\ \E r \in Requests : At(r, "migrate")

LEMMA StepsKeepMappings == RunsInv /\ [Next]_vars => NotRedirected
  <1> SUFFICES ASSUME RunsInv, [Next]_vars, ~ overlap, requests' # requests, NEW i \in Items,
                      mappings[<<"new", i>>] # None
               PROVE  LET old == mappings[<<"new", i>>]
                          new == mappings'[<<"new", i>>] IN
                      /\ new # None
                      /\ new.target # old.target =>
                           rows[old.target] = None /\ \E r \in Requests : At(r, "migrate")
    BY DEF NotRedirected
  <1> DEFINE old == mappings[<<"new", i>>]
             new == mappings'[<<"new", i>>]
  <1>1. CASE new = old
    BY <1>1
  <1>2. CASE OperatorNext
    BY <1>2 DEF OperatorNext, Parse, Discard, Override, EditPrior, Delete, Edit, Lock, Unlock,
           AssignMapping, Retarget, Describe, Create, DeleteMapping, ConfirmMapping, Edited
  <1>3. ASSUME NEW r \in Requests, DropLegacy(r) \/ Migrate(r) \/ Learn(r) \/ Score(r)
        PROVE  new = old \/ (new # None /\ new.target = old.target)
                 \/ (new # None /\ rows[old.target] = None /\ At(r, "migrate"))
    <2> DEFINE q == requests[r]
    <2>1. /\ q \in Request /\ Poised(q) /\ Tracks(q, mappings, rows, settled)
          /\ mappings \in [Fingerprints -> Mapping \cup {None}] /\ <<"new", i>> \in Fingerprints
      BY DEF RunsInv, Typed, TypeOK, Fingerprints
    <2>2. CASE DropLegacy(r)
      BY <2>1, <2>2 DEF DropLegacy
    <2>3. CASE Score(r)
      BY <2>1, <2>3, Scored DEF RunsInv
    <2>4. CASE Learn(r)
      <3>1. q.pc = "item" /\ q.lookup[<<"new", Current(q)>>] = None
        BY <2>4 DEF Learn, Heuristic, Working, At, Learnable
      <3>2. mappings = q.lookup
        BY <2>1, <3>1 DEF Tracks, Linked
      <3>3. \A fp \in Fingerprints : fp # <<"new", Current(q)>> => mappings'[fp] = mappings[fp]
        BY <2>1, <2>4 DEF Learn, Assign
      <3> QED
        BY <2>1, <3>1, <3>2, <3>3
    <2>5. CASE Migrate(r)
      <3>1. /\ q.pc = "migrate" /\ At(r, "migrate")
            /\ mappings'[<<"new", Current(q)>>] \in Mapping
        BY <2>5, Migrated DEF RunsInv, Migrate
      <3>2. \A fp \in Fingerprints : fp # <<"new", Current(q)>> => mappings'[fp] = mappings[fp]
        BY <2>5, Migrated DEF RunsInv
      <3>3. CASE i = Current(q)
        <4>1. ~ TierOne(q) /\ q.lookup[<<"new", i>>] = old /\ Agree(q.rows, rows)
          BY <2>1, <3>1, <3>3 DEF Tracks, Linked
        <4>2. old \in Mapping
          BY <2>1
        <4>3. old.target \in Keys
          BY <4>2 DEF Mapping
        <4>4. rows[old.target] = None
          BY <3>3, <4>1, <4>3 DEF TierOne, Leads, Agree
        <4> QED
          BY <3>1, <3>3, <4>4, NoneAssumption
      <3> QED
        BY <2>1, <3>2, <3>3
    <2> QED
      BY <1>3, <2>2, <2>3, <2>4, <2>5
  <1> QED
    BY <1>1, <1>2, <1>3, WritersOfMappings

OnlyIdleDecay ==
  ~ overlap => \A r \in Requests, i \in Items :
       LET q == requests[r]
           old == mappings[<<"new", i>>]
           new == mappings'[<<"new", i>>] IN
       /\ At(r, "score") /\ old # None
       /\ i \notin q.items \/ <<old.target, i>> \in q.filled
       => new.score >= old.score

\* Of requests that run alone, the one that ends is the one that steps.
LEMMA ScoreAlone ==
  ASSUME RunsInv, [Next]_vars, ~ overlap, NEW r \in Requests, At(r, "score")
  PROVE  mappings' = mappings \/ Score(r)
  <1>1. requests[r] # Idle /\ ~ AllIdle
    BY DEF At, Idle, AllIdle
  <1>2. \A s \in Requests : s # r => requests[s] = Idle
    BY <1>1 DEF RunsInv
  <1>3. ~ OperatorNext
    BY <1>1 DEF OperatorNext, Parse, Discard, Override, EditPrior, Delete, Edit, Lock, Unlock,
           AssignMapping, Retarget, Describe, Create, DeleteMapping, ConfirmMapping, Edited
  <1>4. ASSUME NEW s \in Requests, DropLegacy(s) \/ Migrate(s) \/ Learn(s) \/ Score(s)
        PROVE  s = r
    <2>1. requests[s].pc # "idle"
      BY <1>4 DEF DropLegacy, Migrate, Learn, Heuristic, Working, Score, At
    <2> QED
      BY <1>2, <2>1 DEF Idle
  <1>5. ~ (DropLegacy(r) \/ Migrate(r) \/ Learn(r))
    BY DEF DropLegacy, Migrate, Learn, Heuristic, Working, At
  <1> QED
    BY <1>3, <1>4, <1>5, WritersOfMappings

LEMMA StepsKeepScores == RunsInv /\ [Next]_vars => OnlyIdleDecay
  <1> SUFFICES ASSUME RunsInv, [Next]_vars, ~ overlap, NEW r \in Requests, NEW i \in Items,
                      At(r, "score"), mappings[<<"new", i>>] # None,
                      \/ i \notin requests[r].items
                      \/ <<mappings[<<"new", i>>].target, i>> \in requests[r].filled
               PROVE  mappings'[<<"new", i>>].score >= mappings[<<"new", i>>].score
    BY DEF OnlyIdleDecay
  <1> DEFINE q == requests[r]
             old == mappings[<<"new", i>>]
             new == mappings'[<<"new", i>>]
  <1>1. /\ Progress(q) /\ mappings = q.lookup
        /\ mappings \in [Fingerprints -> Mapping \cup {None}] /\ <<"new", i>> \in Fingerprints
    BY DEF RunsInv, Typed, TypeOK, Tracks, Linked, At, Fingerprints
  <1>2. old \in Mapping
    BY <1>1
  <1>3. old.score \in Nat /\ old.score <= MaxScore /\ old.target \in Keys
    BY <1>2, ScoreAssumption DEF Mapping
  <1>4. CASE mappings' = mappings
    BY <1>3, <1>4
  <1>5. CASE Score(r)
    <2>1. new = old \/ new.score = Rescored(q, <<"new", i>>)
      BY <1>1, <1>5, Scored DEF RunsInv
    <2>2. old.id \in q.used \/ i \notin q.items
      <3>1. CASE <<old.target, i>> \in q.filled
        <4>1. Backed(q, old.target, i)
          BY <1>1, <1>3, <3>1 DEF Progress
        <4> QED
          BY <1>1, <4>1 DEF Backed
      <3> QED
        BY <3>1
    <2>3. Rescored(q, <<"new", i>>) \in {Boosted(old.score), old.score}
      BY <1>1, <2>2 DEF Rescored
    <2>4. Boosted(old.score) >= old.score
      BY <1>3, ScoreAssumption DEF Boosted
    <2> HIDE DEF old, new
    <2> QED
      BY <1>3, <2>1, <2>3, <2>4 DEF old, new
  <1> QED
    BY <1>4, <1>5, ScoreAlone

(***************************************************************************)
(* Requests that run alone never redirect a mapping whose row still        *)
(* exists, and a run lowers the confidence only of a mapping whose item    *)
(* was in its snapshot and whose row it did not fill through it.           *)
(***************************************************************************)
THEOREM MappingsAlwaysKept == Spec => MappingsAreKept
  <1>1. RunsInv /\ [Next]_vars => [NotRedirected]_vars
    BY StepsKeepMappings
  <1>2. RunsInv /\ [Next]_vars => [OnlyIdleDecay]_vars
    BY StepsKeepScores
  <1>3. MappingsStand <=> [][NotRedirected]_vars
    BY DEF MappingsStand, NotRedirected
  <1>4. OnlyIdleMappingsDecay <=> [][OnlyIdleDecay]_vars
    BY DEF OnlyIdleMappingsDecay, OnlyIdleDecay
  <1>5. Spec => MappingsStand
    BY <1>1, <1>3, RunsInit, RunsInductive, PTL DEF Spec
  <1>6. Spec => OnlyIdleMappingsDecay
    BY <1>2, <1>4, RunsInit, RunsInductive, PTL DEF Spec
  <1> QED
    BY <1>5, <1>6 DEF MappingsAreKept

(***************************************************************************)
(* WealthLedger. Numbers and sums.                                         *)
(***************************************************************************)
LEMMA LeastNumber ==
  ASSUME NEW S \in SUBSET Nat, S # {}
  PROVE  \E m \in S : \A n \in S : m <= n
  <1> DEFINE sets == {0 .. i : i \in S}
  <1>1. \A i \in S : 0 .. i \in SUBSET Nat /\ IsFiniteSet(0 .. i)
    BY FS_Interval
  <1>2. sets \subseteq FiniteSubsetsOf(Nat) /\ sets # {}
    BY <1>1 DEF FiniteSubsetsOf
  <1>3. PICK x \in sets : \A y \in sets : ~ (<<y, x>> \in StrictSubsetOrdering(Nat))
    <2>1. IsWellFoundedOn(StrictSubsetOrdering(Nat), FiniteSubsetsOf(Nat))
      BY FS_StrictSubsetOrderingWellFounded
    <2> HIDE DEF sets
    <2> QED
      BY <1>2, <2>1, WFMin
  <1>4. PICK m \in S : x = 0 .. m
    BY <1>3
  <1>5. ASSUME NEW n \in S, n < m
        PROVE  FALSE
    <2>1. 0 .. n \subseteq 0 .. m /\ m \in 0 .. m /\ m \notin 0 .. n
      BY <1>5
    <2>2. <<0 .. n, 0 .. m>> \in StrictSubsetOrdering(Nat)
      BY <1>1, <2>1 DEF StrictSubsetOrdering
    <2> QED
      BY <1>3, <1>4, <2>2
  <1> QED
    BY <1>5

LEMMA EarliestMonth ==
  ASSUME NEW S \in SUBSET Months, S # {}
  PROVE  Min(S) \in S
  <1>1. S \in SUBSET Nat
    BY DEF Months
  <1>2. \E x \in S : \A y \in S : x <= y
    BY <1>1, LeastNumber
  <1> QED
    BY <1>2 DEF Min

LEMMA LatestMonth ==
  ASSUME NEW S \in SUBSET Months, S # {}
  PROVE  Max(S) \in S /\ \A y \in S : y <= Max(S)
  <1> DEFINE left == {Now - k : k \in S}
  <1>0. Now \in Nat /\ Months = 1 .. Now
    BY WealthAssumption DEF Months
  <1>1. left \in SUBSET Nat /\ left # {}
    <2>1. \A k \in S : Now - k \in Nat
      BY <1>0
    <2> QED
      BY <2>1
  <1>2. PICK n \in left : \A k \in left : n <= k
    <2> HIDE DEF left
    <2> QED
      BY <1>1, LeastNumber
  <1>3. PICK x \in S : n = Now - x
    BY <1>2
  <1>4. \A y \in S : x >= y
    <2> SUFFICES ASSUME NEW y \in S PROVE x >= y
      OBVIOUS
    <2>1. n <= Now - y
      BY <1>2
    <2> QED
      BY <1>0, <1>3, <2>1
  <1>5. Max(S) \in S /\ \A y \in S : Max(S) >= y
    BY <1>3, <1>4 DEF Max
  <1> QED
    BY <1>0, <1>5

\* What a finite sum of amounts is made of, for the subsets in P of its rows.
SumBy(f, g, P) ==
  g = [s \in P |-> IF s = {} THEN 0 ELSE LET x == CHOOSE x \in s : TRUE IN f[x] + g[s \ {x}]]
Upto(D, k) == {s \in SUBSET D : Cardinality(s) <= k}

LEMMA SumExists ==
  ASSUME NEW f, IsFiniteSet(DOMAIN f)
  PROVE  \E g : SumBy(f, g, SUBSET DOMAIN f)
  <1> DEFINE D == DOMAIN f
             c == Cardinality(D)
             bad == {k \in 0 .. c : ~ \E g : SumBy(f, g, Upto(D, k))}
  <1>1. c \in Nat /\ \A s \in SUBSET D : IsFiniteSet(s) /\ Cardinality(s) \in Nat /\ Cardinality(s) <= c
    BY FS_Subset, FS_CardinalityType
  <1>2. SUBSET D = Upto(D, c)
    BY <1>1 DEF Upto
  <1>3. \E g : SumBy(f, g, Upto(D, 0))
    <2>1. \A s \in Upto(D, 0) : s = {}
      <3> SUFFICES ASSUME NEW s \in Upto(D, 0) PROVE s = {}
        OBVIOUS
      <3>1. s \in SUBSET D /\ Cardinality(s) <= 0
        BY DEF Upto
      <3> QED
        BY <1>1, <3>1, FS_EmptySet
    <2> HIDE DEF D
    <2>2. SumBy(f, [s \in Upto(D, 0) |-> 0], Upto(D, 0))
      BY <2>1 DEF SumBy
    <2> QED
      BY <2>2
  <1>4. ASSUME NEW k \in 1 .. c, NEW g, SumBy(f, g, Upto(D, k - 1))
        PROVE  \E h : SumBy(f, h, Upto(D, k))
    <2> DEFINE h == [s \in Upto(D, k) |-> IF s = {} THEN 0 ELSE LET x == CHOOSE x \in s : TRUE IN f[x] + g[s \ {x}]]
    <2>1. ASSUME NEW s \in Upto(D, k), NEW x \in s
          PROVE  s \ {x} \in Upto(D, k - 1)
      <3>1. s \in SUBSET D /\ Cardinality(s) <= k
        BY DEF Upto
      <3>2. IsFiniteSet(s) /\ Cardinality(s \ {x}) = Cardinality(s) - 1
        BY <1>1, <3>1, FS_RemoveElement
      <3>3. Cardinality(s) \in Nat /\ Cardinality(s \ {x}) \in Nat
        BY <1>1, <3>1
      <3> QED
        BY <1>1, <3>1, <3>2, <3>3 DEF Upto
    <2>2. Upto(D, k - 1) \subseteq Upto(D, k)
      BY <1>1 DEF Upto
    <2> HIDE DEF D
    <2>3. \A t \in Upto(D, k - 1) : h[t] = g[t]
      BY <1>4, <2>2 DEF SumBy
    <2>4. \A s \in Upto(D, k) : s # {} =>
            LET x == CHOOSE x \in s : TRUE IN f[x] + g[s \ {x}] = f[x] + h[s \ {x}]
      <3> SUFFICES ASSUME NEW s \in Upto(D, k), s # {}
                   PROVE  LET x == CHOOSE x \in s : TRUE IN f[x] + g[s \ {x}] = f[x] + h[s \ {x}]
        OBVIOUS
      <3> DEFINE x == CHOOSE x \in s : TRUE
      <3>1. x \in s
        OBVIOUS
      <3>2. s \ {x} \in Upto(D, k - 1)
        BY <2>1, <3>1
      <3> HIDE DEF h
      <3> QED
        BY <2>3, <3>2
    <2>5. SumBy(f, h, Upto(D, k))
      BY <2>4, Zenon DEF SumBy
    <2> QED
      BY <2>5
  <1>5. bad = {}
    <2> SUFFICES ASSUME bad # {} PROVE FALSE
      OBVIOUS
    <2>1. PICK k \in bad : \A j \in bad : k <= j
      <3>1. bad \in SUBSET Nat
        OBVIOUS
      <3> HIDE DEF bad
      <3> QED
        BY <3>1, LeastNumber
    <2> HIDE DEF D
    <2>2. k \in 0 .. c /\ k # 0 /\ ~ \E g : SumBy(f, g, Upto(D, k))
      BY <1>3, <2>1
    <2>3. k \in 1 .. c /\ k - 1 \in 0 .. c /\ ~ (k <= k - 1)
      BY <1>1, <2>2
    <2>4. k - 1 \notin bad
      BY <2>1, <2>3
    <2>5. PICK g : SumBy(f, g, Upto(D, k - 1))
      BY <2>3, <2>4
    <2> QED
      BY <1>4, <2>2, <2>3, <2>5
  <1>6. c \in 0 .. c
    BY <1>1
  <1>7. \E g : SumBy(f, g, Upto(D, c))
    <2> HIDE DEF D, c
    <2> QED
      BY <1>5, <1>6
  <1> QED
    BY <1>2, <1>7

LEMMA SumIsNat ==
  ASSUME NEW f, IsFiniteSet(DOMAIN f), \A x \in DOMAIN f : f[x] \in Nat
  PROVE  SumFunction(f) \in Nat
  <1> DEFINE D == DOMAIN f
             g == CHOOSE g : SumBy(f, g, SUBSET D)
             bad == {s \in SUBSET D : g[s] \notin Nat}
             sizes == {Cardinality(s) : s \in bad}
  <1>1. SumFunction(f) = g[D]
    BY DEF SumFunction, SumFunctionOnSet, FoldFunctionOnSet, MapThenFoldSet, SumBy
  <1>2. SumBy(f, g, SUBSET D)
    BY SumExists
  <1> HIDE DEF g
  <1>3. \A s \in SUBSET D : IsFiniteSet(s) /\ Cardinality(s) \in Nat
    BY FS_Subset, FS_CardinalityType
  <1>4. bad = {}
    <2> SUFFICES ASSUME bad # {} PROVE FALSE
      OBVIOUS
    <2>1. sizes \in SUBSET Nat /\ sizes # {}
      BY <1>3
    <2>2. PICK n \in sizes : \A k \in sizes : n <= k
      <3> HIDE DEF sizes
      <3> QED
        BY <2>1, LeastNumber
    <2>3. PICK s \in bad : n = Cardinality(s)
      BY <2>2
    <2> DEFINE x == CHOOSE x \in s : TRUE
    <2>4. s \in SUBSET D /\ g[s] \notin Nat
      BY <2>3
    <2>5. g[s] = IF s = {} THEN 0 ELSE f[x] + g[s \ {x}]
      BY <1>2, <2>4 DEF SumBy
    <2>6. s # {} /\ x \in s
      BY <2>4, <2>5
    <2>7. Cardinality(s \ {x}) = Cardinality(s) - 1 /\ s \ {x} \in SUBSET D
      BY <1>3, <2>4, <2>6, FS_RemoveElement
    <2>8. s \ {x} \notin bad
      <3>1. ~ (n <= Cardinality(s \ {x}))
        BY <1>3, <2>3, <2>4, <2>7
      <3> HIDE DEF bad, x
      <3> QED
        BY <2>2, <3>1
    <2>9. g[s \ {x}] \in Nat /\ f[x] \in Nat
      BY <2>4, <2>6, <2>7, <2>8
    <2> HIDE DEF x
    <2> QED
      BY <2>4, <2>5, <2>6, <2>9
  <1> QED
    BY <1>1, <1>4

\* The payments up to a month.
PaidUpto(f, n) == f = [k \in 0 .. n |-> IF k = 0 THEN 0 ELSE f[k - 1] + paid[k]]

LEMMA PaidExists ==
  ASSUME NEW n \in Nat
  PROVE  \E f : PaidUpto(f, n)
  <1> DEFINE bad == {k \in 0 .. n : ~ \E f : PaidUpto(f, k)}
  <1>1. \E f : PaidUpto(f, 0)
    <2>1. PaidUpto([k \in 0 .. 0 |-> 0], 0)
      BY DEF PaidUpto
    <2> QED
      BY <2>1
  <1>2. ASSUME NEW k \in 1 .. n, NEW f, PaidUpto(f, k - 1)
        PROVE  \E g : PaidUpto(g, k)
    <2> DEFINE g == [i \in 0 .. k |-> IF i = 0 THEN 0 ELSE f[i - 1] + paid[i]]
    <2>1. \A i \in 0 .. (k - 1) : i \in 0 .. k /\ g[i] = f[i]
      BY <1>2 DEF PaidUpto
    <2>2. \A i \in 0 .. k : i # 0 => i - 1 \in 0 .. (k - 1)
      OBVIOUS
    <2>3. \A i \in 0 .. k : i # 0 => f[i - 1] + paid[i] = g[i - 1] + paid[i]
      <3> HIDE DEF g
      <3> QED
        BY <2>1, <2>2
    <2>4. PaidUpto(g, k)
      BY <2>3, Zenon DEF PaidUpto
    <2> QED
      BY <2>4
  <1>3. bad = {}
    <2> SUFFICES ASSUME bad # {} PROVE FALSE
      OBVIOUS
    <2>1. PICK k \in bad : \A j \in bad : k <= j
      <3>1. bad \in SUBSET Nat
        OBVIOUS
      <3> HIDE DEF bad
      <3> QED
        BY <3>1, LeastNumber
    <2>2. k \in 0 .. n /\ k # 0 /\ ~ \E f : PaidUpto(f, k)
      BY <1>1, <2>1
    <2>3. k \in 1 .. n /\ k - 1 \in 0 .. n /\ ~ (k <= k - 1)
      BY <2>2
    <2>4. PICK f : PaidUpto(f, k - 1)
      BY <2>1, <2>3
    <2> QED
      BY <1>2, <2>2, <2>3, <2>4
  <1> QED
    BY <1>3

PaidFrom(f) == /\ f[0] = 0 /\ \A k \in Months : f[k] = f[k - 1] + paid[k]
               /\ \A m \in Months : PaidBy(m) = f[m]

LEMMA PaidByMonths == \E f : PaidFrom(f)
  <1> DEFINE f == CHOOSE f : PaidUpto(f, Now)
  <1>0. Now \in Nat /\ Months = 1 .. Now
    BY WealthAssumption DEF Months
  <1>1. \A m : PaidBy(m) = f[m]
    BY DEF PaidBy, PaidUpto
  <1>2. PaidUpto(f, Now)
    BY <1>0, PaidExists
  <1> HIDE DEF f
  <1>3. f[0] = 0 /\ \A k \in Months : f[k] = f[k - 1] + paid[k]
    BY <1>0, <1>2 DEF PaidUpto
  <1> QED
    BY <1>1, <1>3 DEF PaidFrom

LEMMA PaidIsNat ==
  ASSUME paid \in [Months -> Nat], NEW m \in Months
  PROVE  PaidBy(m) \in Nat
  <1> DEFINE wrong == {k \in Months : PaidBy(k) \notin Nat}
  <1>0. Now \in Nat /\ Months = 1 .. Now
    BY WealthAssumption DEF Months
  <1>1. PICK f : PaidFrom(f)
    BY PaidByMonths
  <1>2. wrong = {}
    <2> SUFFICES ASSUME wrong # {} PROVE FALSE
      OBVIOUS
    <2>1. PICK k \in wrong : \A j \in wrong : k <= j
      <3>1. wrong \in SUBSET Nat
        BY <1>0
      <3> HIDE DEF wrong
      <3> QED
        BY <3>1, LeastNumber
    <2>2. k \in Months /\ PaidBy(k) \notin Nat /\ paid[k] \in Nat /\ PaidBy(k) = f[k - 1] + paid[k]
      BY <1>1, <2>1 DEF PaidFrom
    <2>3. f[k - 1] \in Nat
      <3>1. CASE k = 1
        BY <1>1, <3>1 DEF PaidFrom
      <3>2. CASE k # 1
        <4>1. k - 1 \in Months /\ ~ (k <= k - 1)
          BY <1>0, <2>2, <3>2
        <4>2. PaidBy(k - 1) \in Nat
          BY <2>1, <4>1
        <4> QED
          BY <1>1, <4>1, <4>2 DEF PaidFrom
      <3> QED
        BY <3>1, <3>2
    <2> QED
      BY <2>2, <2>3
  <1> QED
    BY <1>2

\* Without a payment in between, two months have the same sum of payments.
LEMMA PaidBetween ==
  ASSUME paid \in [Months -> Nat], NEW n \in Months, NEW m \in Months, n <= m,
         \A k \in (n + 1) .. m : paid[k] = 0
  PROVE  PaidBy(m) = PaidBy(n)
  <1> DEFINE bad == {k \in n .. m : PaidBy(k) # PaidBy(n)}
  <1>0. Now \in Nat /\ Months = 1 .. Now /\ n .. m \subseteq Months
    BY WealthAssumption DEF Months
  <1>1. PICK f : PaidFrom(f)
    BY PaidByMonths
  <1>2. \A k \in Months : f[k] \in Nat
    BY <1>1, PaidIsNat DEF PaidFrom
  <1>3. bad = {}
    <2> SUFFICES ASSUME bad # {} PROVE FALSE
      OBVIOUS
    <2>1. PICK k \in bad : \A j \in bad : k <= j
      <3>1. bad \in SUBSET Nat
        BY <1>0
      <3> HIDE DEF bad
      <3> QED
        BY <3>1, LeastNumber
    <2>2. k \in n .. m /\ k # n /\ PaidBy(k) # PaidBy(n)
      BY <2>1
    <2>3. k \in (n + 1) .. m /\ k - 1 \in n .. m /\ ~ (k <= k - 1)
      BY <1>0, <2>2
    <2>4. PaidBy(k - 1) = PaidBy(n)
      BY <2>1, <2>3
    <2>5. k \in Months /\ k - 1 \in Months /\ paid[k] = 0 /\ f[k - 1] \in Nat
      BY <1>0, <1>2, <2>3
    <2>6. PaidBy(k) = f[k] /\ PaidBy(k - 1) = f[k - 1] /\ f[k] = f[k - 1] + paid[k]
      BY <1>1, <2>5 DEF PaidFrom
    <2> QED
      BY <2>2, <2>4, <2>5, <2>6
  <1>4. m \in n .. m
    BY <1>0
  <1> QED
    BY <1>3, <1>4
-----------------------------------------------------------------------------
(***************************************************************************)
(* The invariant. First the types.                                         *)
(***************************************************************************)
SumRow == [assets : Nat, debt : Nat, change : Int]
Asked == [month : Months, asset : Assets]
Handler == {Quiet} \cup [pc : {"read", "write", "cascade"}, months : SUBSET Months,
                         cascade : Asked \cup {Nothing}, sums : SumRow \cup {Nothing}]
RequestFits(q) == /\ q.pc \in {"read", "write"} => q.months # {}
                  /\ q.pc = "write" => q.sums \in SumRow
                  /\ q.pc = "cascade" => q.cascade \in Asked
HoldingsType == [Months -> [Assets -> Mark \cup {Nothing}]]
RequestsTyped == handlers \in [Handlers -> Handler] /\ \A r \in Handlers : RequestFits(handlers[r])
SyncTyped == \/ syncing \in {Quiet, [pc |-> "paid"]}
             \/ syncing.pc = "read" /\ \E n \in Months : syncing.values \in [1 .. n -> Nat]

WTyped ==
  /\ wealthRegime \in WealthRegimes
  /\ balances \in [Months -> [Owners -> Nat \cup {Nothing}]]
  /\ holdings \in HoldingsType
  /\ debts \in [Months -> Nat \cup {Nothing}] /\ snapshots \in [Months -> SumRow \cup {Nothing}]
  /\ RequestsTyped
  /\ filling # Nothing => filling \in [month : Months, shows : {st \in Statements : DOMAIN st \subseteq Listed}]
  /\ mapped \in BOOLEAN /\ paid \in [Months -> Nat] /\ SyncTyped
  /\ stated \in [Months -> Statements \cup {Nothing}]
  /\ stale \subseteq Months /\ steps \in Nat

\* What the sums of a month are taken over.
Total(b, h) == SumFunction([o \in {p \in Owners : b[p] # Nothing} |-> b[o]])
                 + SumFunction([a \in {c \in Assets : h[c] # Nothing} |-> h[a].value])

LEMMA SumsOfRows ==
  \A hs, m : AssetSum(hs, m) = Total(balances[m], hs[m])
  BY Zenon DEF AssetSum, Total, Held, Kept

LEMMA TotalIsNat ==
  ASSUME NEW b \in [Owners -> Nat \cup {Nothing}], NEW h \in [Assets -> Mark \cup {Nothing}]
  PROVE  Total(b, h) \in Nat
  <1> DEFINE bs == [o \in {p \in Owners : b[p] # Nothing} |-> b[o]]
             hs == [a \in {c \in Assets : h[c] # Nothing} |-> h[a].value]
  <1>1. IsFiniteSet(Owners) /\ IsFiniteSet(Assets)
    <2>1. IsFiniteSet({"Unknown"}) /\ Owners = {"Unknown"} \cup {"named"}
      BY FS_Singleton DEF Owners
    <2> QED
      BY <2>1, FS_AddElement, WealthAssumption
  <1>2. IsFiniteSet(DOMAIN bs) /\ IsFiniteSet(DOMAIN hs)
    BY <1>1, FS_Subset
  <1>3. (\A x \in DOMAIN bs : bs[x] \in Nat) /\ (\A x \in DOMAIN hs : hs[x] \in Nat)
    BY DEF Mark
  <1> HIDE DEF bs, hs
  <1>4. SumFunction(bs) \in Nat /\ SumFunction(hs) \in Nat
    BY <1>2, <1>3, SumIsNat
  <1>5. Total(b, h) = SumFunction(bs) + SumFunction(hs)
    BY Zenon DEF Total, bs, hs
  <1> QED
    BY <1>4, <1>5

LEMMA DebtIsNat ==
  ASSUME debts \in [Months -> Nat \cup {Nothing}], NEW m \in Months
  PROVE  Debt(m) \in Nat
  <1> DEFINE known == {n \in 1 .. m : debts[n] # Nothing}
  <1>1. known \in SUBSET Months /\ \A n \in known : debts[n] \in Nat
    BY WealthAssumption DEF Months
  <1>2. known # {} => Max(known) \in known
    BY <1>1, LatestMonth
  <1> HIDE DEF known
  <1>3. Debt(m) = IF known = {} THEN 0 ELSE debts[Max(known)]
    BY DEF Debt, known
  <1> QED
    BY <1>1, <1>2, <1>3

\* The debt of a month is that of the months up to it.
LEMMA DebtUpto ==
  ASSUME NEW m \in Months, \A n \in 1 .. m : debts'[n] = debts[n]
  PROVE  Debt(m)' = Debt(m)
  <1> DEFINE known == {n \in 1 .. m : debts[n] # Nothing}
             later == {n \in 1 .. m : debts'[n] # Nothing}
  <1>1. known = later /\ \A n \in known : debts'[n] = debts[n]
    OBVIOUS
  <1>2. known # {} => Max(known) \in known
    <2>1. known \in SUBSET Months
      BY WealthAssumption DEF Months
    <2> HIDE DEF known
    <2> QED
      BY <2>1, LatestMonth
  <1>3. Debt(m) = IF known = {} THEN 0 ELSE debts[Max(known)]
    BY DEF Debt
  <1>4. Debt(m)' = IF later = {} THEN 0 ELSE debts'[Max(later)]
    BY DEF Debt
  <1> HIDE DEF known, later
  <1> QED
    BY <1>1, <1>2, <1>3, <1>4

LEMMA Aggregated ==
  ASSUME WTyped, NEW hs \in HoldingsType, NEW m \in Months
  PROVE  /\ Aggregate(hs, m) \in SumRow
         /\ Aggregate(hs, m).assets = AssetSum(hs, m) /\ Aggregate(hs, m).debt = Debt(m)
  <1> DEFINE earlier == {n \in 1 .. (m - 1) : snapshots[n] # Nothing}
             before == IF earlier = {} THEN 0
                       ELSE snapshots[Max(earlier)].assets - snapshots[Max(earlier)].debt
  <1>1. earlier \in SUBSET Months /\ \A n \in earlier : snapshots[n] \in SumRow
    BY WealthAssumption DEF WTyped, Months
  <1>2. earlier # {} => Max(earlier) \in earlier
    BY <1>1, LatestMonth
  <1>3. before \in Int
    <2> HIDE DEF earlier
    <2>1. earlier # {} => snapshots[Max(earlier)] \in SumRow
      BY <1>1, <1>2
    <2> QED
      BY <2>1 DEF SumRow
  <1>4. AssetSum(hs, m) \in Nat /\ Debt(m) \in Nat
    <2>1. balances[m] \in [Owners -> Nat \cup {Nothing}] /\ hs[m] \in [Assets -> Mark \cup {Nothing}]
      BY DEF WTyped, HoldingsType
    <2> QED
      BY <2>1, TotalIsNat, SumsOfRows, DebtIsNat DEF WTyped
  <1>5. Aggregate(hs, m) = [assets |-> AssetSum(hs, m), debt |-> Debt(m), change |-> AssetSum(hs, m) - Debt(m) - before]
    BY Zenon DEF Aggregate
  <1> HIDE DEF before
  <1> QED
    BY <1>3, <1>4, <1>5 DEF SumRow

\* Without overlaps one program at a time is at work.
Exclusive == ~ wealthRegime.overlap =>
  /\ \A r, q \in Handlers : handlers[r] # Quiet /\ handlers[q] # Quiet => r = q
  /\ filling # Nothing => NoRequest /\ syncing = Quiet
  /\ syncing # Quiet => NoRequest /\ filling = Nothing

CascadesAsked == "holding" \notin wealthRegime.ops =>
  \A r \in Handlers : handlers[r] # Quiet => handlers[r].pc # "cascade" /\ handlers[r].cascade = Nothing

OneOwner == "balance" \notin wealthRegime.ops =>
  \A m \in Months : balances[m]["named"] = Nothing \/ (mapped /\ balances[m]["Unknown"] = Nothing)

\* What was paid in a month is in the values of the months up to it, or about to be.
Unhandled == "holding" \notin wealthRegime.ops /\ "delete" \notin wealthRegime.ops
Valued(m) ==
  /\ holdings[m][Synced] # Nothing => holdings[m][Synced].value = PaidBy(m)
  /\ paid[m] # 0 => \A k \in 1 .. m : holdings[k][Synced] # Nothing
PaidFor == ~ wealthRegime.overlap /\ Unhandled =>
  /\ syncing = Quiet => \A m \in Months : Valued(m)
  /\ syncing.pc = "read" =>
       /\ \A m \in DOMAIN syncing.values : syncing.values[m] = PaidBy(m)
       /\ \A m \in Months : paid[m] # 0 \/ holdings[m][Synced] # Nothing => m \in DOMAIN syncing.values

\* A month is summed, is about to be, or its sum is known to be out of date.
RightSum(s, m) == s.assets = AssetSum(holdings, m) /\ s.debt = Debt(m)
RightMonth(m) == snapshots[m] # Nothing => RightSum(snapshots[m], m)
Correct == ~ wealthRegime.overlap =>
  /\ \A m \in Months : m \in stale \/ m \in Unsummed \/ RightMonth(m)
  /\ \A r \in Handlers : handlers[r].pc = "write" => RightSum(handlers[r].sums, Min(handlers[r].months))

WInv == /\ WTyped /\ Exclusive /\ CascadesAsked /\ StatementStands /\ OneOwner
        /\ PaidFor /\ Correct
-----------------------------------------------------------------------------
(***************************************************************************)
(* The types are kept.                                                     *)
(***************************************************************************)
LEMMA CellsMade ==
  \A v \in Nat : Entered(v) \in Mark /\ Carried(v) \in Mark /\ Entered(v) # Nothing /\ Carried(v) # Nothing
  BY NothingAssumption DEF Entered, Carried, Mark

LEMMA AskedTyped ==
  ASSUME RequestsTyped, NEW r \in Handlers, NEW months \in SUBSET Months, months # {},
         NEW c \in Asked \cup {Nothing}, Then(r, months, c)
  PROVE  RequestsTyped'
  <1> DEFINE q == [pc |-> "read", months |-> months, cascade |-> c, sums |-> Nothing]
  <1>1. q \in Handler /\ RequestFits(q)
    BY DEF Handler, RequestFits
  <1>2. handlers' = [handlers EXCEPT ![r] = q]
    BY DEF Then
  <1> HIDE DEF q
  <1> QED
    BY <1>1, <1>2, Zenon DEF RequestsTyped

LEMMA RequestSet ==
  ASSUME RequestsTyped, NEW r \in Handlers, NEW q \in Handler, RequestFits(q),
         handlers' = [handlers EXCEPT ![r] = q]
  PROVE  RequestsTyped'
  BY Zenon DEF RequestsTyped

LEMMA NewestIsNat ==
  ASSUME holdings \in HoldingsType, NEW m \in Months, NEW a \in Assets, NEW k \in 1 .. (m - 1), holdings[k][a] # Nothing
  PROVE  LET n == Max({i \in 1 .. (m - 1) : holdings[i][a] # Nothing}) IN
         /\ n \in Months /\ n < m /\ holdings[n][a] \in Mark /\ holdings[n][a] # Nothing
         /\ Newest(m, a) = holdings[n][a].value /\ Newest(m, a) \in Nat
         /\ \A i \in 1 .. (m - 1) : i > n => holdings[i][a] = Nothing
  <1> DEFINE past == {i \in 1 .. (m - 1) : holdings[i][a] # Nothing}
             n == Max(past)
  <1>0. Now \in Nat /\ Months = 1 .. Now
    BY WealthAssumption DEF Months
  <1>1. past \in SUBSET Months /\ past # {}
    BY <1>0
  <1>2. n \in past /\ \A i \in past : i <= n
    <2> HIDE DEF past
    <2> QED
      BY <1>1, LatestMonth
  <1>3. Newest(m, a) = holdings[n][a].value
    BY DEF Newest
  <1> HIDE DEF n
  <1>4. n \in Months /\ n < m /\ holdings[n][a] # Nothing
    BY <1>0, <1>2
  <1>5. holdings[n][a] \in Mark
    BY <1>4 DEF HoldingsType
  <1>6. holdings[n][a].value \in Nat
    BY <1>5 DEF Mark
  <1>7. \A i \in 1 .. (m - 1) : i > n => holdings[i][a] = Nothing
    BY <1>0, <1>2, <1>4
  <1> QED
    BY <1>3, <1>4, <1>5, <1>6, <1>7 DEF n

LEMMA CarriedTyped ==
  ASSUME holdings \in HoldingsType, NEW m \in Months
  PROVE  /\ CarriedForward(m) \in HoldingsType
         /\ \A n \in Months : n # m => CarriedForward(m)[n] = holdings[n]
         /\ \A a \in Assets : CarriedForward(m)[m][a] = IF a \in Missing(m) THEN Carried(Newest(m, a)) ELSE holdings[m][a]
  <1> DEFINE row == [a \in Assets |-> IF a \in Missing(m) THEN Carried(Newest(m, a)) ELSE holdings[m][a]]
  <1>1. ASSUME NEW a \in Assets PROVE row[a] \in Mark \cup {Nothing}
    <2>1. CASE a \in Missing(m)
      <3>1. PICK k \in 1 .. (m - 1) : holdings[k][a] # Nothing
        BY <2>1 DEF Missing
      <3>2. Newest(m, a) \in Nat
        BY <3>1, NewestIsNat
      <3> QED
        BY <2>1, <3>2, CellsMade
    <2>2. CASE a \notin Missing(m)
      BY <2>2 DEF HoldingsType
    <2> QED
      BY <2>1, <2>2
  <1>2. row \in [Assets -> Mark \cup {Nothing}]
    BY <1>1
  <1>3. CarriedForward(m) = [holdings EXCEPT ![m] = row]
    BY DEF CarriedForward
  <1>4. \A a \in Assets : row[a] = IF a \in Missing(m) THEN Carried(Newest(m, a)) ELSE holdings[m][a]
    OBVIOUS
  <1> HIDE DEF row
  <1> QED
    BY <1>2, <1>3, <1>4 DEF HoldingsType

LEMMA WithPositionsTyped ==
  ASSUME holdings \in HoldingsType, NEW m \in Months, NEW st \in Statements
  PROVE  /\ WithPositions(m, st) \in HoldingsType
         /\ \A n \in Months : n # m => WithPositions(m, st)[n] = holdings[n]
         /\ \A a \in Assets : WithPositions(m, st)[m][a] = IF a \in DOMAIN st THEN Entered(st[a]) ELSE holdings[m][a]
  <1> DEFINE row == [a \in Assets |-> IF a \in DOMAIN st THEN Entered(st[a]) ELSE holdings[m][a]]
  <1>1. \A a \in DOMAIN st : st[a] \in Nat
    BY WealthAssumption
  <1>2. row \in [Assets -> Mark \cup {Nothing}]
    BY <1>1, CellsMade DEF HoldingsType
  <1>3. WithPositions(m, st) = [holdings EXCEPT ![m] = row]
    BY DEF WithPositions
  <1>4. \A a \in Assets : row[a] = IF a \in DOMAIN st THEN Entered(st[a]) ELSE holdings[m][a]
    OBVIOUS
  <1> HIDE DEF row
  <1> QED
    BY <1>2, <1>3, <1>4 DEF HoldingsType

LEMMA FilledTyped ==
  ASSUME holdings \in HoldingsType, NEW m \in Months, NEW st \in Statements
  PROVE  /\ Fill(st, m) \in HoldingsType
         /\ \A n \in Months : n \notin Gap(m) => Fill(st, m)[n] = holdings[n]
         /\ \A n \in Months, a \in Assets : Fill(st, m)[n][a] # holdings[n][a] =>
              a \in DOMAIN st /\ holdings[n][a] = Nothing
  <1>1. \A a \in DOMAIN st : Carried(st[a]) \in Mark
    BY WealthAssumption, CellsMade
  <1> QED
    BY <1>1 DEF Fill, HoldingsType

\* What an operation of the API keeps when it leaves the other programs alone.
TablesTyped == /\ balances \in [Months -> [Owners -> Nat \cup {Nothing}]] /\ holdings \in HoldingsType
               /\ debts \in [Months -> Nat \cup {Nothing}] /\ snapshots \in [Months -> SumRow \cup {Nothing}]
               /\ stale \subseteq Months

LEMMA TypedUnbothered ==
  ASSUME WTyped, Unbothered, TablesTyped', RequestsTyped', steps' \in Nat
  PROVE  WTyped'
  BY DEF WTyped, Unbothered, TablesTyped, SyncTyped

LEMMA BegunTyped ==
  ASSUME WTyped, NEW op, Begins(op)
  PROVE  steps' \in Nat
  BY DEF WTyped, Begins

LEMMA OnwardIs ==
  ASSUME NEW q \in Handler, RequestFits(q), q.pc \in {"read", "write"}
  PROVE  /\ q # Quiet /\ q.months \in SUBSET Months /\ q.months # {}
         /\ Onward(q) \in Handler /\ RequestFits(Onward(q)) /\ Onward(q).pc # "write"
         /\ Rest(q.months) # {} => Onward(q).pc = "read" /\ Onward(q).months = Rest(q.months)
         /\ q.cascade = Nothing => Onward(q) = Quiet \/ (Onward(q).pc # "cascade" /\ Onward(q).cascade = Nothing)
  <1>1. q # Quiet /\ q \in Handler \ {Quiet} /\ q.months \in SUBSET Months /\ q.months # {}
    BY DEF Handler, Quiet, RequestFits
  <1>2. Rest(q.months) \in SUBSET Months
    BY <1>1 DEF Rest
  <1>3. CASE Rest(q.months) # {}
    <2> DEFINE p == [pc |-> "read", months |-> Rest(q.months), cascade |-> q.cascade, sums |-> q.sums]
               x == [q EXCEPT !.pc = "read"]
    <2>1. x = [pc |-> "read", months |-> q.months, cascade |-> q.cascade, sums |-> q.sums]
      BY <1>1 DEF Handler
    <2>2. Onward(q) = [x EXCEPT !.months = Rest(q.months)]
      BY <1>3 DEF Onward
    <2> HIDE DEF x
    <2>3. Onward(q) = p
      BY <2>1, <2>2
    <2>4. p \in Handler /\ RequestFits(p)
      BY <1>1, <1>2, <1>3 DEF Handler, RequestFits
    <2> QED
      BY <1>1, <1>3, <2>3, <2>4
  <1>4. CASE Rest(q.months) = {} /\ q.cascade # Nothing
    <2>1. Onward(q) = [q EXCEPT !.pc = "cascade"]
      BY <1>4 DEF Onward
    <2> QED
      BY <1>1, <1>4, <2>1 DEF Handler, RequestFits
  <1>5. CASE Rest(q.months) = {} /\ q.cascade = Nothing
    <2>1. Onward(q) = Quiet
      BY <1>5 DEF Onward
    <2> QED
      BY <1>1, <1>5, <2>1 DEF Handler, RequestFits, Quiet
  <1> QED
    BY <1>3, <1>4, <1>5

LEMMA SumsTyped ==
  ASSUME WTyped, NEW r \in Handlers, ReadSums(r) \/ WriteSums(r) \/ SumFails(r)
  PROVE  WTyped'
  <1> DEFINE q == handlers[r]
  <1>0. RequestsTyped /\ holdings \in HoldingsType
    BY DEF WTyped
  <1>1. q \in Handler /\ RequestFits(q)
    BY <1>0 DEF RequestsTyped
  <1>2. CASE ReadSums(r)
    <2> DEFINE found == Aggregate(holdings, Min(q.months))
               p == [q EXCEPT !.pc = "write", !.sums = found]
    <2>1. q.pc = "read" /\ q.months \in SUBSET Months /\ q.months # {}
      BY <1>1, <1>2 DEF ReadSums, Handler, Quiet, RequestFits
    <2>2. Min(q.months) \in Months
      BY <2>1, EarliestMonth
    <2>3. found \in SumRow
      BY <1>0, <2>2, Aggregated
    <2>4. handlers' = [handlers EXCEPT ![r] = p]
      BY <1>2 DEF ReadSums
    <2>5. p \in Handler /\ RequestFits(p)
      <3>1. q \in Handler \ {Quiet}
        BY <1>1, <2>1 DEF Quiet
      <3> HIDE DEF q, found
      <3>2. p = [pc |-> "write", months |-> q.months, cascade |-> q.cascade, sums |-> found]
        <4> DEFINE x == [q EXCEPT !.pc = "write"]
        <4>1. x = [pc |-> "write", months |-> q.months, cascade |-> q.cascade, sums |-> q.sums]
          BY <3>1 DEF Handler
        <4> HIDE DEF x
        <4>2. [x EXCEPT !.sums = found] = [pc |-> "write", months |-> q.months, cascade |-> q.cascade, sums |-> found]
          BY <4>1
        <4> QED
          BY <4>2 DEF x
      <3> QED
        BY <2>1, <2>3, <3>1, <3>2 DEF Handler, RequestFits
    <2> HIDE DEF found
    <2> HIDE DEF p, q
    <2>6. RequestsTyped'
      BY <1>0, <2>4, <2>5, RequestSet
    <2> QED
      BY <1>2, <2>6 DEF WTyped, ReadSums, wtables, SyncTyped
  <1>3. ASSUME Summing(r), handlers' = [handlers EXCEPT ![r] = Onward(q)] PROVE RequestsTyped' /\ Min(q.months) \in Months
    <2>1. /\ q.months \in SUBSET Months /\ q.months # {}
          /\ Onward(q) \in Handler /\ RequestFits(Onward(q))
      BY <1>1, <1>3, OnwardIs DEF Summing
    <2> HIDE DEF q
    <2> QED
      BY <1>0, <1>3, <2>1, RequestSet, EarliestMonth
  <1>4. CASE WriteSums(r)
    <2>1. Summing(r) /\ q.sums \in SumRow
      BY <1>1, <1>4 DEF WriteSums, Summing, RequestFits
    <2>2. /\ handlers' = [handlers EXCEPT ![r] = Onward(q)]
          /\ snapshots' = [snapshots EXCEPT ![Min(q.months)] = q.sums] /\ stale' = stale \ {Min(q.months)}
      BY <1>4 DEF WriteSums
    <2> HIDE DEF q
    <2>3. TablesTyped'
      BY <1>3, <1>4, <2>1, <2>2 DEF WriteSums, WTyped, TablesTyped
    <2> QED
      BY <1>3, <1>4, <2>1, <2>2, <2>3, TypedUnbothered DEF WriteSums, Unbothered, WTyped
  <1>5. CASE SumFails(r)
    <2>1. Summing(r) /\ handlers' = [handlers EXCEPT ![r] = Onward(q)] /\ stale' = stale \cup {Min(q.months)}
      BY <1>5 DEF SumFails
    <2> HIDE DEF q
    <2>2. TablesTyped'
      BY <1>3, <1>5, <2>1 DEF SumFails, WTyped, TablesTyped, wtables
    <2> QED
      BY <1>3, <1>5, <2>1, <2>2, TypedUnbothered DEF SumFails, Unbothered, WTyped
  <1> QED
    BY <1>2, <1>4, <1>5

\* What stops leaves the tables, and a request less or none.
LEMMA StopsTyped ==
  ASSUME WTyped, ApiStops \/ \E r \in Handlers : CascadeFails(r)
  PROVE  WTyped'
  <1>0. RequestsTyped /\ Quiet \in Handler /\ RequestFits(Quiet)
    BY DEF WTyped, Handler, RequestFits, Quiet
  <1>1. CASE ApiStops
    <2>1. RequestsTyped' /\ TablesTyped'
      BY <1>0, <1>1 DEF ApiStops, RequestsTyped, TablesTyped, WTyped, wtables, Unsummed
    <2> QED
      BY <1>1, <2>1, TypedUnbothered DEF ApiStops, Unbothered, WTyped
  <1>2. ASSUME NEW r \in Handlers, CascadeFails(r) PROVE WTyped'
    <2>1. RequestsTyped'
      BY <1>0, <1>2, RequestSet DEF CascadeFails
    <2>2. TablesTyped'
      BY <1>2 DEF CascadeFails, TablesTyped, WTyped, wtables
    <2> QED
      BY <1>2, <2>1, <2>2, TypedUnbothered DEF CascadeFails, WTyped
  <1> QED
    BY <1>1, <1>2

LEMMA CascadeTyped ==
  ASSUME WTyped, NEW r \in Handlers, Cascade(r)
  PROVE  WTyped'
  <1> DEFINE c == handlers[r].cascade
             source == holdings[c.month][c.asset]
             later == IF source = Nothing THEN {} ELSE Affected(c.month, c.asset)
  <1>0. RequestsTyped /\ holdings \in HoldingsType
    BY DEF WTyped
  <1>1. handlers[r].pc = "cascade" /\ c \in Asked
    BY <1>0 DEF RequestsTyped, Cascade, RequestFits
  <1>2. c.month \in Months /\ c.asset \in Assets
    BY <1>1 DEF Asked
  <1>3. later \in SUBSET Months
    BY <1>2, WealthAssumption DEF Affected, LaterThan, Months
  <1>4. holdings' = [m \in Months |-> IF m \in later THEN [holdings[m] EXCEPT ![c.asset] = source] ELSE holdings[m]]
    BY DEF Cascade
  <1>5. source \in Mark \cup {Nothing}
    BY <1>0, <1>2 DEF HoldingsType
  <1>6. IF later = {} THEN handlers' = [handlers EXCEPT ![r] = Quiet] ELSE Then(r, later, Nothing)
    BY DEF Cascade
  <1> HIDE DEF c, source, later
  <1>7. holdings' \in HoldingsType
    BY <1>0, <1>2, <1>4, <1>5 DEF HoldingsType
  <1>8. RequestsTyped'
    <2>1. CASE later = {}
      <3>1. Quiet \in Handler /\ RequestFits(Quiet)
        BY DEF Handler, RequestFits, Quiet
      <3> QED
        BY <1>0, <1>6, <2>1, <3>1, RequestSet
    <2>2. CASE later # {}
      BY <1>0, <1>3, <1>6, <2>2, AskedTyped
    <2> QED
      BY <2>1, <2>2
  <1>9. TablesTyped'
    BY <1>7 DEF WTyped, TablesTyped, Cascade
  <1> QED
    BY <1>8, <1>9, TypedUnbothered DEF WTyped, Cascade

\* The operator's requests: each writes a row, and sums its month next.
LEMMA EditsTyped ==
  ASSUME WTyped, NEW r \in Handlers, NEW m \in Months
  PROVE  /\ \A v \in Worths : UpsertBalance(r, m, v) \/ UpsertDebt(r, m, v) => WTyped'
         /\ \A a \in Assets, v \in Worths : UpsertHolding(r, m, a, v) => WTyped'
         /\ \A a \in Assets : DeleteHolding(r, m, a) => WTyped'
         /\ \A o \in Owners : DeleteBalance(r, m, o) => WTyped'
         /\ DeleteDebt(r, m) \/ CreateSnapshot(r, m) \/ Rollover(r, m) => WTyped'
  <1>0. /\ RequestsTyped /\ TablesTyped /\ Worths \subseteq Nat /\ {m} \in SUBSET Months /\ {m} # {}
        /\ LaterThan(m) \in SUBSET Months
    BY WealthAssumption DEF WTyped, TablesTyped, LaterThan, Months
  <1>1. \A c : Then(r, {m}, c) /\ c \in Asked \cup {Nothing} => RequestsTyped'
    BY <1>0, AskedTyped
  <1>2. ASSUME NEW v \in Worths, UpsertBalance(r, m, v) PROVE WTyped'
    <2>1. TablesTyped'
      BY <1>0, <1>2 DEF TablesTyped, UpsertBalance, Owners
    <2> QED
      BY <1>1, <1>2, <2>1, BegunTyped, TypedUnbothered DEF UpsertBalance
  <1>3. ASSUME NEW v \in Worths, UpsertDebt(r, m, v) PROVE WTyped'
    <2>1. TablesTyped'
      BY <1>0, <1>3 DEF TablesTyped, UpsertDebt
    <2> QED
      BY <1>1, <1>3, <2>1, BegunTyped, TypedUnbothered DEF UpsertDebt
  <1>4. ASSUME NEW a \in Assets, NEW v \in Worths, UpsertHolding(r, m, a, v) PROVE WTyped'
    <2> DEFINE c == IF a \in Stable THEN [month |-> m, asset |-> a] ELSE Nothing
    <2>1. TablesTyped'
      <3>1. Entered(v) \in Mark
        BY <1>0, CellsMade
      <3> QED
        BY <1>0, <1>4, <3>1 DEF TablesTyped, UpsertHolding, HoldingsType
    <2>2. c \in Asked \cup {Nothing}
      BY DEF Asked
    <2>3. Then(r, {m}, c) /\ Begins("holding") /\ Unbothered
      BY <1>4 DEF UpsertHolding
    <2> HIDE DEF c
    <2> QED
      BY <1>1, <2>1, <2>2, <2>3, BegunTyped, TypedUnbothered
  <1>5. ASSUME NEW a \in Assets, DeleteHolding(r, m, a) PROVE WTyped'
    <2>1. TablesTyped'
      BY <1>0, <1>5 DEF TablesTyped, DeleteHolding, HoldingsType
    <2> QED
      BY <1>1, <1>5, <2>1, BegunTyped, TypedUnbothered DEF DeleteHolding
  <1>6. ASSUME NEW o \in Owners, DeleteBalance(r, m, o) PROVE WTyped'
    <2>1. TablesTyped'
      BY <1>0, <1>6 DEF TablesTyped, DeleteBalance
    <2> QED
      BY <1>1, <1>6, <2>1, BegunTyped, TypedUnbothered DEF DeleteBalance
  <1>7. ASSUME DeleteDebt(r, m) PROVE WTyped'
    <2>1. TablesTyped'
      BY <1>0, <1>7 DEF TablesTyped, DeleteDebt
    <2> QED
      BY <1>1, <1>7, <2>1, BegunTyped, TypedUnbothered DEF DeleteDebt
  <1>8. ASSUME CreateSnapshot(r, m) PROVE WTyped'
    <2>1. TablesTyped'
      BY <1>0, <1>8 DEF TablesTyped, CreateSnapshot
    <2> QED
      BY <1>1, <1>8, <2>1, BegunTyped, TypedUnbothered DEF CreateSnapshot
  <1>9. ASSUME Rollover(r, m) PROVE WTyped'
    <2>1. TablesTyped'
      <3>1. CarriedForward(m) \in HoldingsType
        BY <1>0, CarriedTyped DEF TablesTyped
      <3> QED
        BY <1>0, <1>9, <3>1 DEF TablesTyped, Rollover
    <2> QED
      BY <1>1, <1>9, <2>1, BegunTyped, TypedUnbothered DEF Rollover
  <1> QED
    BY <1>2, <1>3, <1>4, <1>5, <1>6, <1>7, <1>8, <1>9

LEMMA ViewTyped ==
  ASSUME WTyped, NEW m \in Months, ViewHoldings(m)
  PROVE  WTyped'
  <1>0. /\ RequestsTyped /\ TablesTyped /\ steps' \in Nat
    BY BegunTyped DEF WTyped, TablesTyped, ViewHoldings
  <1>1. CarriedForward(m) \in HoldingsType
    BY <1>0, CarriedTyped DEF TablesTyped
  <1>2. Aggregate(CarriedForward(m), m) \in SumRow
    BY <1>1, Aggregated
  <1>3. TablesTyped'
    <2>1. CASE NothingStable(m) /\ Missing(m) # {}
      BY <1>0, <1>1, <1>2, <2>1 DEF TablesTyped, ViewHoldings, CarriedAndSummed
    <2>2. CASE ~ (NothingStable(m) /\ Missing(m) # {})
      BY <1>0, <2>2 DEF TablesTyped, ViewHoldings
    <2> QED
      BY <2>1, <2>2
  <1>4. RequestsTyped'
    BY <1>0 DEF RequestsTyped, ViewHoldings
  <1> QED
    BY <1>0, <1>3, <1>4, TypedUnbothered DEF ViewHoldings

LEMMA SavedTyped ==
  ASSUME WTyped, NEW m \in Months
  PROVE  /\ \A v \in Worths : SaveBalance(m, v) \/ SaveCard(m, v) => WTyped'
         /\ \A st \in Statements : SaveBonds(m, st) \/ SaveFunds(m, st) \/ SavePortfolio(m, st) => WTyped'
  <1>0. /\ RequestsTyped /\ TablesTyped /\ Worths \subseteq Nat /\ m .. Now \subseteq Months
    BY WealthAssumption DEF WTyped, TablesTyped, Months
  <1>1. UNCHANGED handlers => RequestsTyped'
    BY <1>0 DEF RequestsTyped
  <1>2. ASSUME NEW v \in Worths, SaveBalance(m, v) PROVE WTyped'
    <2>1. Settled(m, v) \in [Months -> [Owners -> Nat \cup {Nothing}]]
      BY <1>0 DEF Settled, TablesTyped, Owners
    <2> QED
      BY <1>0, <1>1, <1>2, <2>1, BegunTyped DEF SaveBalance, TablesTyped, WTyped, SyncTyped, wprograms
  <1>3. ASSUME NEW v \in Worths, SaveCard(m, v) PROVE WTyped'
    BY <1>0, <1>1, <1>3, BegunTyped DEF SaveCard, TablesTyped, WTyped, SyncTyped, wprograms
  <1>4. ASSUME NEW st \in Statements, SaveStatement(m, st),
               filling' = Nothing \/ (DOMAIN st \subseteq Listed /\ filling' = [month |-> m, shows |-> st])
        PROVE  WTyped'
    <2>1. WithPositions(m, st) \in HoldingsType
      BY <1>0, WithPositionsTyped DEF TablesTyped
    <2>2. TablesTyped' /\ stated' \in [Months -> Statements \cup {Nothing}]
      BY <1>0, <1>4, <2>1 DEF SaveStatement, TablesTyped, WTyped
    <2>3. filling' # Nothing => filling' \in [month : Months, shows : {s \in Statements : DOMAIN s \subseteq Listed}]
      BY <1>4
    <2> QED
      BY <1>1, <1>4, <2>2, <2>3, BegunTyped DEF SaveStatement, TablesTyped, WTyped, SyncTyped
  <1> QED
    BY <1>2, <1>3, <1>4 DEF SaveBonds, SaveFunds, SavePortfolio

LEMMA GapMonths ==
  \A m \in Months : Gap(m) \subseteq Months /\ \A n \in Gap(m) : m < n
  BY WealthAssumption DEF Gap, LaterThan, Months

LEMMA CoveredMonths ==
  ASSUME WTyped
  PROVE  \E n \in Months : Covered = 1 .. n /\ \A m \in Months :
           (snapshots[m] # Nothing \/ debts[m] # Nothing \/ Kept(m) # {} \/ Held(holdings, m) # {} \/ paid[m] # 0) => m <= n
  <1> DEFINE Dated(m) == \/ snapshots[m] # Nothing \/ debts[m] # Nothing \/ Kept(m) # {}
                         \/ Held(holdings, m) # {} \/ paid[m] # 0
             months == {1} \cup {m \in Months : Dated(m)}
  <1>1. months \in SUBSET Months /\ months # {}
    BY WealthAssumption DEF Months
  <1>2. Covered = 1 .. Max(months)
    BY DEF Covered
  <1>3. \A m \in Months : Dated(m) => m \in months
    OBVIOUS
  <1>4. Max(months) \in Months /\ \A m \in months : m <= Max(months)
    <2> HIDE DEF months
    <2> QED
      BY <1>1, LatestMonth
  <1> HIDE DEF months
  <1>5. \A m \in Months : Dated(m) => m <= Max(months)
    BY <1>3, <1>4
  <1> QED
    BY <1>2, <1>4, <1>5

LEMMA ProgramsTyped ==
  ASSUME WTyped, \/ MapOwner \/ FillGap \/ ReadTransfers \/ SyncAsset
                 \/ \E m \in Months, v \in Worths : ImportTransfer(m, v)
  PROVE  WTyped'
  <1>0. /\ RequestsTyped /\ TablesTyped /\ Worths \subseteq Nat
    BY WealthAssumption DEF WTyped, TablesTyped
  <1>1. UNCHANGED handlers => RequestsTyped'
    BY <1>0 DEF RequestsTyped
  <1>2. CASE MapOwner
    BY <1>0, <1>1, <1>2 DEF MapOwner, WTyped, wtables, SyncTyped
  <1>3. CASE FillGap
    <2>1. filling.month \in Months /\ filling.shows \in Statements
      BY <1>3 DEF FillGap, WTyped
    <2>2. Fill(filling.shows, filling.month) \in HoldingsType /\ Gap(filling.month) \subseteq Months
      BY <1>0, <2>1, FilledTyped, GapMonths DEF TablesTyped
    <2>3. TablesTyped'
      BY <1>0, <1>3, <2>2 DEF FillGap, TablesTyped
    <2> QED
      BY <1>1, <1>3, <2>3 DEF FillGap, TablesTyped, WTyped, SyncTyped
  <1>4. CASE ReadTransfers
    <2>1. PICK n \in Months : Covered = 1 .. n
      BY CoveredMonths
    <2>2. \A m \in 1 .. n : m \in Months /\ Appraisal(m) \in Nat
      BY <2>1, WealthAssumption, PaidIsNat DEF WTyped, Months, Appraisal
    <2>3. [m \in Covered |-> Appraisal(m)] \in [1 .. n -> Nat]
      BY <2>1, <2>2
    <2>4. syncing'.pc = "read" /\ syncing'.values \in [1 .. n -> Nat]
      BY <1>4, <2>3 DEF ReadTransfers
    <2>5. SyncTyped'
      BY <2>4 DEF SyncTyped
    <2> QED
      BY <1>1, <1>4, <2>5 DEF ReadTransfers, WTyped, wtables
  <1>5. CASE SyncAsset
    <2>1. syncing.pc = "read"
      BY <1>5 DEF SyncAsset
    <2>2. PICK n \in Months : syncing.values \in [1 .. n -> Nat]
      BY <2>1 DEF WTyped, SyncTyped, Quiet
    <2>3. DOMAIN syncing.values \subseteq Months /\ \A m \in DOMAIN syncing.values : Entered(syncing.values[m]) \in Mark
      BY <2>2, WealthAssumption, CellsMade DEF Months
    <2>4. holdings' \in HoldingsType
      BY <1>0, <1>5, <2>3 DEF SyncAsset, TablesTyped, HoldingsType
    <2>5. TablesTyped' /\ SyncTyped'
      BY <1>0, <1>5, <2>3, <2>4 DEF SyncAsset, TablesTyped, SyncTyped
    <2> QED
      BY <1>1, <1>5, <2>5 DEF SyncAsset, TablesTyped, WTyped
  <1>6. ASSUME NEW m \in Months, NEW v \in Worths, ImportTransfer(m, v) PROVE WTyped'
    <2>1. paid' \in [Months -> Nat]
      BY <1>0, <1>6 DEF ImportTransfer, WTyped
    <2> QED
      BY <1>1, <1>6, <2>1, BegunTyped DEF ImportTransfer, WTyped, wtables, SyncTyped
  <1> QED
    BY <1>2, <1>3, <1>4, <1>5, <1>6

LEMMA TypedKept ==
  ASSUME WTyped, WNext
  PROVE  WTyped'
  <1>1. CASE Api
    BY <1>1, SumsTyped, CascadeTyped, StopsTyped, EditsTyped DEF Api
  <1>2. CASE Others
    BY <1>2, StopsTyped, ViewTyped, SavedTyped, ProgramsTyped DEF Others
  <1> QED
    BY <1>1, <1>2 DEF WNext
-----------------------------------------------------------------------------
(***************************************************************************)
(* Who is at work.                                                         *)
(***************************************************************************)
Free == NoRequest /\ filling = Nothing /\ syncing = Quiet
Ready == wealthRegime.overlap \/ Free
Goes(r, q) == handlers' = [handlers EXCEPT ![r] = q] /\ UNCHANGED <<filling, syncing, wealthRegime>>
Starts(r) == Ready /\ handlers[r] = Quiet /\ \E q : /\ Goes(r, q) /\ q.pc = "read"
                                                    /\ q.cascade = Nothing \/ "holding" \in wealthRegime.ops
Continues(r) == handlers[r] # Quiet /\ \E q :
  /\ Goes(r, q)
  /\ handlers[r].pc # "cascade" /\ handlers[r].cascade = Nothing => q = Quiet \/ (q.pc # "cascade" /\ q.cascade = Nothing)
Stops == handlers' = [r \in Handlers |-> Quiet] /\ UNCHANGED <<filling, syncing, wealthRegime>>
Elsewise == UNCHANGED <<handlers, wealthRegime>> /\ (\/ Ready /\ (UNCHANGED filling \/ UNCHANGED syncing)
                                                     \/ filling' \in {filling, Nothing} /\ UNCHANGED syncing
                                                     \/ syncing # Quiet /\ UNCHANGED filling)

LEMMA BegunReady ==
  \A op : Begins(op) => Ready
  BY DEF Begins, Ready, Free

LEMMA WorkApi ==
  ASSUME WTyped, NEW r \in Handlers
  PROVE  /\ ReadSums(r) \/ WriteSums(r) \/ SumFails(r) \/ Cascade(r) \/ CascadeFails(r) => Continues(r)
         /\ \A m \in Months :
              /\ \A v \in Worths : UpsertBalance(r, m, v) \/ UpsertDebt(r, m, v) => Starts(r)
              /\ \A a \in Assets, v \in Worths : UpsertHolding(r, m, a, v) => Starts(r)
              /\ \A a \in Assets : DeleteHolding(r, m, a) => Starts(r)
              /\ \A o \in Owners : DeleteBalance(r, m, o) => Starts(r)
              /\ DeleteDebt(r, m) \/ CreateSnapshot(r, m) \/ Rollover(r, m) => Starts(r)
  <1>1. ASSUME NEW op, NEW m, NEW c, Begins(op), handlers[r] = Quiet, Then(r, {m}, c), Unbothered,
               c = Nothing \/ "holding" \in wealthRegime.ops
        PROVE  Starts(r)
    <2> DEFINE q == [pc |-> "read", months |-> {m}, cascade |-> c, sums |-> Nothing]
    <2>1. Goes(r, q) /\ q.pc = "read" /\ q.cascade = c
      BY <1>1 DEF Then, Unbothered, Goes
    <2> HIDE DEF q
    <2> QED
      BY <1>1, <2>1, BegunReady DEF Starts
  <1>2. ASSUME NEW m \in Months
        PROVE  /\ \A v \in Worths : UpsertBalance(r, m, v) \/ UpsertDebt(r, m, v) => Starts(r)
               /\ \A a \in Assets, v \in Worths : UpsertHolding(r, m, a, v) => Starts(r)
               /\ \A a \in Assets : DeleteHolding(r, m, a) => Starts(r)
               /\ \A o \in Owners : DeleteBalance(r, m, o) => Starts(r)
               /\ DeleteDebt(r, m) \/ CreateSnapshot(r, m) \/ Rollover(r, m) => Starts(r)
    <2>1. \A a \in Assets, v \in Worths : UpsertHolding(r, m, a, v) => Starts(r)
      <3> SUFFICES ASSUME NEW a \in Assets, NEW v \in Worths, UpsertHolding(r, m, a, v) PROVE Starts(r)
        OBVIOUS
      <3> DEFINE c == IF a \in Stable THEN [month |-> m, asset |-> a] ELSE Nothing
      <3>1. Then(r, {m}, c) /\ Begins("holding") /\ Unbothered /\ handlers[r] = Quiet
        BY DEF UpsertHolding
      <3>2. "holding" \in wealthRegime.ops
        BY <3>1 DEF Begins
      <3> HIDE DEF c
      <3> QED
        BY <1>1, <3>1, <3>2
    <2>2. \A v \in Worths : UpsertBalance(r, m, v) \/ UpsertDebt(r, m, v) => Starts(r)
      BY <1>1 DEF UpsertBalance, UpsertDebt
    <2>3. \A a \in Assets : DeleteHolding(r, m, a) => Starts(r)
      BY <1>1 DEF DeleteHolding
    <2>4. \A o \in Owners : DeleteBalance(r, m, o) => Starts(r)
      BY <1>1 DEF DeleteBalance
    <2>5. DeleteDebt(r, m) \/ CreateSnapshot(r, m) \/ Rollover(r, m) => Starts(r)
      BY <1>1 DEF DeleteDebt, CreateSnapshot, Rollover
    <2> QED
      BY <2>1, <2>2, <2>3, <2>4, <2>5
  <1> DEFINE p == handlers[r]
  <1>3. p \in Handler /\ (p.pc # "idle" => p # Quiet /\ p \in Handler \ {Quiet})
    BY DEF WTyped, RequestsTyped, Quiet
  <1>4. ASSUME ReadSums(r) PROVE Continues(r)
    <2> DEFINE q == [p EXCEPT !.pc = "write", !.sums = Aggregate(holdings, Min(p.months))]
    <2>1. p # Quiet /\ p \in Handler \ {Quiet}
      BY <1>3, <1>4 DEF ReadSums
    <2>2. Goes(r, q)
      BY <1>4 DEF ReadSums, Goes
    <2>3. q.pc = "write" /\ q.cascade = p.cascade
      <3> HIDE DEF p
      <3> DEFINE x == [p EXCEPT !.pc = "write"]
      <3>1. x = [pc |-> "write", months |-> p.months, cascade |-> p.cascade, sums |-> p.sums]
        BY <2>1 DEF Handler
      <3> QED
        BY <3>1
    <2> HIDE DEF q
    <2> QED
      BY <2>1, <2>2, <2>3 DEF Continues
  <1>5. ASSUME WriteSums(r) \/ SumFails(r) PROVE Continues(r)
    <2> DEFINE q == Onward(p)
    <2>1. RequestFits(p) /\ p.pc \in {"read", "write"}
      BY <1>5 DEF WriteSums, SumFails, Summing, WTyped, RequestsTyped
    <2>2. p # Quiet /\ (p.cascade = Nothing => q = Quiet \/ (q.pc # "cascade" /\ q.cascade = Nothing))
      BY <1>3, <2>1, OnwardIs
    <2>3. Goes(r, q)
      BY <1>5 DEF WriteSums, SumFails, Goes
    <2> HIDE DEF q
    <2> QED
      BY <2>2, <2>3 DEF Continues
  <1>6. ASSUME Cascade(r) PROVE Continues(r)
    <2>1. p.pc = "cascade" /\ p # Quiet
      BY <1>3, <1>6 DEF Cascade
    <2>2. \E q : Goes(r, q)
      BY <1>6 DEF Cascade, Goes, Then, Unbothered
    <2> QED
      BY <2>1, <2>2 DEF Continues
  <1>7. ASSUME CascadeFails(r) PROVE Continues(r)
    <2>1. p.pc = "cascade" /\ p # Quiet /\ Goes(r, Quiet)
      BY <1>3, <1>7 DEF CascadeFails, Goes, Unbothered
    <2> QED
      BY <2>1 DEF Continues
  <1> QED
    BY <1>2, <1>4, <1>5, <1>6, <1>7

LEMMA WorkKinds ==
  ASSUME WTyped, WNext
  PROVE  Elsewise \/ Stops \/ \E r \in Handlers : Starts(r) \/ Continues(r)
  <1>1. CASE Api
    BY <1>1, WorkApi DEF Api
  <1>2. CASE Others
    <2>1. ASSUME NEW m \in Months, ViewHoldings(m) PROVE Elsewise
      BY <2>1, BegunReady DEF ViewHoldings, Unbothered, Elsewise
    <2>2. ASSUME NEW m \in Months, NEW v \in Worths, SaveBalance(m, v) \/ SaveCard(m, v) \/ ImportTransfer(m, v) PROVE Elsewise
      BY <2>2, BegunReady DEF SaveBalance, SaveCard, ImportTransfer, wprograms, Elsewise
    <2>3. ASSUME NEW m \in Months, NEW st \in Statements, SavePortfolio(m, st) \/ SaveBonds(m, st) \/ SaveFunds(m, st)
          PROVE  Elsewise
      BY <2>3, BegunReady DEF SavePortfolio, SaveBonds, SaveFunds, SaveStatement, Elsewise
    <2>4. ASSUME MapOwner \/ FillGap \/ ReadTransfers \/ SyncAsset PROVE Elsewise
      BY <2>4 DEF MapOwner, FillGap, ReadTransfers, SyncAsset, wtables, Elsewise, Quiet
    <2>5. ApiStops => Stops
      BY DEF ApiStops, Stops
    <2> QED
      BY <1>2, <2>1, <2>2, <2>3, <2>4, <2>5 DEF Others
  <1> QED
    BY <1>1, <1>2 DEF WNext

LEMMA ExclusiveKept ==
  ASSUME WTyped, Exclusive, CascadesAsked, WNext
  PROVE  Exclusive' /\ CascadesAsked'
  <1>0. handlers \in [Handlers -> Handler]
    BY DEF WTyped, RequestsTyped
  <1>1. CASE Elsewise
    BY <1>1 DEF Elsewise, Exclusive, CascadesAsked, Ready, Free, NoRequest
  <1>2. ASSUME NEW r \in Handlers, Starts(r) PROVE Exclusive' /\ CascadesAsked'
    BY <1>0, <1>2 DEF Starts, Goes, Exclusive, CascadesAsked, Ready, Free, NoRequest
  <1>3. ASSUME NEW r \in Handlers, Continues(r) PROVE Exclusive' /\ CascadesAsked'
    <2>1. Exclusive'
      BY <1>0, <1>3 DEF Continues, Goes, Exclusive, NoRequest
    <2>2. CascadesAsked'
      BY <1>0, <1>3 DEF Continues, Goes, CascadesAsked
    <2> QED
      BY <2>1, <2>2
  <1>4. CASE Stops
    <2>1. \A r \in Handlers : handlers'[r] = Quiet
      BY <1>4 DEF Stops
    <2> QED
      BY <1>4, <2>1 DEF Stops, Exclusive, CascadesAsked, NoRequest
  <1> QED
    BY <1>1, <1>2, <1>3, <1>4, WorkKinds

\* At once nothing else than what is at work.
LEMMA AtWork ==
  ASSUME Exclusive, ~ wealthRegime.overlap, NEW r \in Handlers, handlers[r] # Quiet
  PROVE  /\ \A q \in Handlers : q # r => handlers[q] = Quiet
         /\ filling = Nothing /\ syncing = Quiet
  BY DEF Exclusive, NoRequest
-----------------------------------------------------------------------------
(***************************************************************************)
(* Statements and owners.                                                  *)
(***************************************************************************)
LEMMA RegimeStays ==
  ASSUME WTyped, WNext
  PROVE  wealthRegime' = wealthRegime
  BY WorkKinds DEF Elsewise, Stops, Starts, Continues, Goes

LEMMA PositionsOfStatements ==
  ASSUME NEW st \in Statements
  PROVE  DOMAIN st \subseteq Assets \ Stable /\ \A a \in DOMAIN st : st[a] \in Nat
  BY WealthAssumption

Standing == stated' = stated /\ \A n \in Months, a \in Assets \ Stable :
              holdings[n][a] # Nothing => holdings'[n][a] = holdings[n][a]

LEMMA StandingKept ==
  ASSUME WTyped, StatementStands, Standing, wealthRegime' = wealthRegime
  PROVE  StatementStands'
  <1> SUFFICES ASSUME "holding" \notin wealthRegime.ops, "delete" \notin wealthRegime.ops,
                      NEW m \in Months, stated[m] # Nothing, NEW a \in DOMAIN stated[m]
               PROVE  holdings'[m][a] = Entered(stated[m][a])
    BY DEF StatementStands, Standing
  <1>1. stated[m] \in Statements
    BY DEF WTyped
  <1>2. a \in Assets \ Stable /\ stated[m][a] \in Nat
    BY <1>1, PositionsOfStatements
  <1>3. holdings[m][a] = Entered(stated[m][a])
    BY DEF StatementStands
  <1> QED
    BY <1>2, <1>3, CellsMade DEF Standing

LEMMA CarryingStands ==
  ASSUME WTyped, NEW m \in Months, holdings' = CarriedForward(m), UNCHANGED stated
  PROVE  Standing
  BY CarriedTyped DEF Standing, WTyped, Missing

LEMMA StatementsKept ==
  ASSUME WTyped, CascadesAsked, StatementStands, WNext
  PROVE  StatementStands'
  <1>0. wealthRegime' = wealthRegime /\ holdings \in HoldingsType
    BY RegimeStays DEF WTyped
  <1> SUFFICES ASSUME "holding" \notin wealthRegime.ops, "delete" \notin wealthRegime.ops PROVE StatementStands'
    BY <1>0 DEF StatementStands
  <1>1. UNCHANGED <<holdings, stated>> => Standing
    BY DEF Standing
  <1>2. CASE Api
    <2> PICK r \in Handlers :
          \/ ReadSums(r) \/ WriteSums(r) \/ SumFails(r) \/ Cascade(r) \/ CascadeFails(r)
          \/ \E m \in Months :
               \/ \E v \in Worths : UpsertBalance(r, m, v) \/ UpsertDebt(r, m, v)
               \/ \E a \in Assets, v \in Worths : UpsertHolding(r, m, a, v)
               \/ \E a \in Assets : DeleteHolding(r, m, a)
               \/ \E o \in Owners : DeleteBalance(r, m, o)
               \/ DeleteDebt(r, m) \/ CreateSnapshot(r, m) \/ Rollover(r, m)
      BY <1>2 DEF Api
    <2>1. CASE ReadSums(r) \/ WriteSums(r) \/ SumFails(r) \/ CascadeFails(r)
      BY <1>0, <1>1, <2>1, StandingKept DEF ReadSums, WriteSums, SumFails, CascadeFails, Unbothered, wtables
    <2>2. ~ Cascade(r)
      <3> SUFFICES ASSUME Cascade(r) PROVE FALSE
        OBVIOUS
      <3>1. handlers[r].pc = "cascade"
        BY DEF Cascade
      <3> QED
        BY <3>1 DEF CascadesAsked, Quiet
    <2>3. ASSUME NEW m \in Months, NEW v \in Worths, UpsertBalance(r, m, v) \/ UpsertDebt(r, m, v)
          PROVE  StatementStands'
      BY <1>0, <1>1, <2>3, StandingKept DEF UpsertBalance, UpsertDebt, Unbothered
    <2>4. ASSUME NEW m \in Months
          PROVE  /\ ~ (\E a \in Assets, v \in Worths : UpsertHolding(r, m, a, v))
                 /\ ~ (\E a \in Assets : DeleteHolding(r, m, a)) /\ ~ (\E o \in Owners : DeleteBalance(r, m, o))
                 /\ ~ DeleteDebt(r, m)
      BY DEF UpsertHolding, DeleteHolding, DeleteBalance, DeleteDebt, Begins
    <2>5. ASSUME NEW m \in Months, CreateSnapshot(r, m) \/ Rollover(r, m) PROVE StatementStands'
      BY <1>0, <1>1, <2>5, StandingKept, CarryingStands DEF CreateSnapshot, Rollover, Unbothered
    <2> QED
      BY <2>1, <2>2, <2>3, <2>4, <2>5
  <1>3. CASE Others
    <2>1. ASSUME NEW m \in Months, ViewHoldings(m) PROVE StatementStands'
      BY <1>0, <1>1, <2>1, StandingKept, CarryingStands DEF ViewHoldings, CarriedAndSummed, Unbothered
    <2>2. ASSUME NEW m \in Months, NEW v \in Worths, SaveBalance(m, v) \/ SaveCard(m, v) \/ ImportTransfer(m, v)
          PROVE  StatementStands'
      BY <1>0, <1>1, <2>2, StandingKept DEF SaveBalance, SaveCard, ImportTransfer, wtables
    <2>3. ASSUME NEW m \in Months, NEW st \in Statements, SaveStatement(m, st) PROVE StatementStands'
      <3> SUFFICES ASSUME NEW n \in Months, stated'[n] # Nothing, NEW a \in DOMAIN stated'[n]
                   PROVE  holdings'[n][a] = Entered(stated'[n][a])
        BY DEF StatementStands
      <3>1. /\ holdings' = WithPositions(m, st) /\ stated' = [stated EXCEPT ![m] = st]
            /\ stated \in [Months -> Statements \cup {Nothing}]
        BY <2>3 DEF SaveStatement, WTyped
      <3>2. CASE n = m
        <4>1. stated'[n] = st /\ a \in Assets
          BY <3>1, <3>2, PositionsOfStatements
        <4> QED
          BY <1>0, <3>1, <3>2, <4>1, WithPositionsTyped
      <3>3. CASE n # m
        <4>1. stated'[n] = stated[n]
          BY <3>1, <3>3
        <4>2. holdings'[n] = holdings[n]
          BY <1>0, <3>1, <3>3, WithPositionsTyped
        <4> QED
          BY <4>1, <4>2 DEF StatementStands
      <3> QED
        BY <3>2, <3>3
    <2>4. CASE FillGap
      <3>1. filling.month \in Months /\ filling.shows \in Statements /\ holdings' = Fill(filling.shows, filling.month)
        BY <2>4 DEF FillGap, WTyped
      <3>2. Standing
        BY <1>0, <2>4, <3>1, FilledTyped DEF FillGap, Standing
      <3> QED
        BY <1>0, <3>2, StandingKept
    <2>5. CASE ApiStops \/ MapOwner \/ ReadTransfers
      BY <1>0, <1>1, <2>5, StandingKept DEF ApiStops, MapOwner, ReadTransfers, wtables
    <2>6. CASE SyncAsset
      <3>1. \A n \in Months, a \in Assets \ Stable : holdings'[n][a] = holdings[n][a]
        BY <1>0, <2>6, WealthAssumption DEF SyncAsset, HoldingsType
      <3> QED
        BY <1>0, <2>6, <3>1, StandingKept DEF SyncAsset, Standing
    <2> QED
      BY <1>3, <2>1, <2>2, <2>3, <2>4, <2>5, <2>6 DEF Others, SaveBonds, SaveFunds, SavePortfolio
  <1> QED
    BY <1>2, <1>3 DEF WNext

LEMMA OwnersKept ==
  ASSUME WTyped, OneOwner, WNext
  PROVE  OneOwner'
  <1>0. wealthRegime' = wealthRegime /\ balances \in [Months -> [Owners -> Nat \cup {Nothing}]] /\ mapped \in BOOLEAN
    BY RegimeStays DEF WTyped
  <1> SUFFICES ASSUME "balance" \notin wealthRegime.ops PROVE OneOwner'
    BY <1>0 DEF OneOwner
  <1>1. UNCHANGED balances /\ (mapped => mapped') => OneOwner'
    BY <1>0 DEF OneOwner
  <1>2. ASSUME NEW r \in Handlers, NEW m \in Months, NEW o \in Owners, DeleteBalance(r, m, o) PROVE OneOwner'
    BY <1>0, <1>2 DEF DeleteBalance, OneOwner, Unbothered, Owners
  <1>3. ASSUME NEW m \in Months, NEW v \in Worths, SaveBalance(m, v) PROVE OneOwner'
    BY <1>0, <1>3 DEF SaveBalance, Settled, OneOwner, wprograms, Owners
  <1>4. CASE Api
    <2>1. ASSUME NEW r \in Handlers, ReadSums(r) \/ WriteSums(r) \/ SumFails(r) \/ Cascade(r) \/ CascadeFails(r)
          PROVE  OneOwner'
      BY <1>1, <2>1 DEF ReadSums, WriteSums, SumFails, Cascade, CascadeFails, wtables, Unbothered
    <2>2. ASSUME NEW r \in Handlers, NEW m \in Months
          PROVE  /\ ~ (\E v \in Worths : UpsertBalance(r, m, v))
                 /\ \A v \in Worths : UpsertDebt(r, m, v) => OneOwner'
                 /\ \A a \in Assets, v \in Worths : UpsertHolding(r, m, a, v) => OneOwner'
                 /\ \A a \in Assets : DeleteHolding(r, m, a) => OneOwner'
                 /\ DeleteDebt(r, m) \/ CreateSnapshot(r, m) \/ Rollover(r, m) => OneOwner'
      BY <1>1 DEF UpsertBalance, UpsertDebt, UpsertHolding, DeleteHolding, DeleteDebt, CreateSnapshot, Rollover, Begins, Unbothered
    <2> QED
      BY <1>2, <1>4, <2>1, <2>2 DEF Api
  <1>5. CASE Others
    <2>1. ASSUME NEW m \in Months
          PROVE  /\ ViewHoldings(m) => OneOwner'
                 /\ \A v \in Worths : SaveCard(m, v) \/ ImportTransfer(m, v) => OneOwner'
                 /\ \A st \in Statements : SaveStatement(m, st) => OneOwner'
      BY <1>1 DEF ViewHoldings, Unbothered, SaveCard, ImportTransfer, SaveStatement, wtables, wprograms
    <2>2. CASE ApiStops \/ MapOwner \/ FillGap \/ ReadTransfers \/ SyncAsset
      BY <1>1, <2>2 DEF ApiStops, MapOwner, FillGap, ReadTransfers, SyncAsset, wtables
    <2> QED
      BY <1>3, <1>5, <2>1, <2>2 DEF Others, SaveBonds, SaveFunds, SavePortfolio
  <1> QED
    BY <1>4, <1>5 DEF WNext

LEMMA OwnersCountOnce ==
  ASSUME OneOwner
  PROVE  CountedOnce
  <1> SUFFICES ASSUME NEW m \in Months, "balance" \notin wealthRegime.ops PROVE Cardinality(Kept(m)) <= 1
    BY DEF CountedOnce
  <1>1. Kept(m) \subseteq {"named", "Unknown"}
    BY DEF Kept, Owners
  <1>3. balances[m]["named"] = Nothing \/ balances[m]["Unknown"] = Nothing
    BY DEF OneOwner
  <1>4. "named" \notin Kept(m) \/ "Unknown" \notin Kept(m)
    BY <1>3, Zenon DEF Kept
  <1>2. PICK o : Kept(m) = {} \/ Kept(m) = {o}
    <2>1. Kept(m) \in {{}, {"named"}, {"Unknown"}}
      BY <1>1, <1>4
    <2> QED
      BY <2>1
  <1>5. Cardinality({}) = 0 /\ Cardinality({o}) = 1
    BY FS_EmptySet, FS_Singleton
  <1> QED
    BY <1>2, <1>5
-----------------------------------------------------------------------------
(***************************************************************************)
(* The value of the synced asset.                                          *)
(***************************************************************************)
LEMMA SyncedIsStable == Synced \in Stable /\ Synced \in Assets
  BY WealthAssumption

SyncedStays == /\ UNCHANGED <<paid, syncing, wealthRegime>>
               /\ \A n \in Months : holdings'[n][Synced] = holdings[n][Synced]

LEMMA PaymentsStay ==
  ASSUME paid' = paid, NEW m
  PROVE  PaidBy(m)' = PaidBy(m)
  BY DEF PaidBy

LEMMA SyncedStaysPaid ==
  ASSUME WTyped, PaidFor, SyncedStays
  PROVE  PaidFor'
  <1>0. Now \in Nat /\ Months = 1 .. Now
    BY WealthAssumption DEF Months
  <1> SUFFICES ASSUME ~ wealthRegime.overlap, Unhandled PROVE PaidFor'
    BY DEF PaidFor, SyncedStays, Unhandled
  <1>1. \A m : PaidBy(m)' = PaidBy(m)
    BY PaymentsStay DEF SyncedStays
  <1>2. ASSUME syncing = Quiet, NEW m \in Months PROVE Valued(m)'
    <2>1. Valued(m)
      BY <1>2 DEF PaidFor
    <2>2. paid'[m] # 0 => \A k \in 1 .. m : holdings'[k][Synced] # Nothing
      BY <1>0, <2>1 DEF Valued, SyncedStays
    <2>3. holdings'[m][Synced] # Nothing => holdings'[m][Synced].value = PaidBy(m)'
      BY <1>1, <2>1 DEF Valued, SyncedStays
    <2> QED
      BY <2>2, <2>3 DEF Valued
  <1>3. ASSUME syncing.pc = "read"
        PROVE  /\ \A m \in DOMAIN syncing' .values : syncing'.values[m] = PaidBy(m)'
               /\ \A m \in Months : paid'[m] # 0 \/ holdings'[m][Synced] # Nothing => m \in DOMAIN syncing'.values
    BY <1>1, <1>3 DEF PaidFor, SyncedStays
  <1> QED
    BY <1>2, <1>3 DEF PaidFor, SyncedStays

LEMMA CarryingValues ==
  ASSUME WTyped, PaidFor, ~ wealthRegime.overlap, Unhandled, syncing = Quiet, NEW m \in Months,
         holdings' = CarriedForward(m), UNCHANGED <<paid, syncing, wealthRegime>>
  PROVE  PaidFor'
  <1>0. /\ Now \in Nat /\ Months = 1 .. Now /\ holdings \in HoldingsType /\ paid \in [Months -> Nat]
        /\ \A n \in Months : Valued(n)
    BY WealthAssumption DEF WTyped, Months, PaidFor
  <1>1. \A k : PaidBy(k)' = PaidBy(k)
    BY PaymentsStay
  <1>2. \A n \in Months : holdings[n][Synced] # Nothing => holdings'[n][Synced] = holdings[n][Synced]
    BY <1>0, CarriedTyped, SyncedIsStable DEF Missing
  <1>3. \A n \in Months : n # m => holdings'[n][Synced] = holdings[n][Synced]
    BY <1>0, CarriedTyped, SyncedIsStable
  <1>4. ASSUME Synced \in Missing(m)
        PROVE  holdings'[m][Synced].value = PaidBy(m)
    <2>1. holdings'[m][Synced] = Carried(Newest(m, Synced)) /\ holdings[m][Synced] = Nothing
      BY <1>0, <1>4, CarriedTyped, SyncedIsStable DEF Missing
    <2>2. PICK n \in Months : /\ n < m /\ holdings[n][Synced] # Nothing /\ Newest(m, Synced) = holdings[n][Synced].value
                              /\ \A i \in 1 .. (m - 1) : i > n => holdings[i][Synced] = Nothing
      <3>1. PICK k \in 1 .. (m - 1) : holdings[k][Synced] # Nothing
        BY <1>4 DEF Missing
      <3> QED
        BY <1>0, <3>1, NewestIsNat, SyncedIsStable
    <2>3. \A i \in (n + 1) .. m : paid[i] = 0
      <3> SUFFICES ASSUME NEW i \in (n + 1) .. m PROVE paid[i] = 0
        OBVIOUS
      <3>1. i \in Months /\ i \in 1 .. i /\ holdings[i][Synced] = Nothing
        BY <1>0, <2>1, <2>2
      <3> QED
        BY <1>0, <3>1 DEF Valued
    <2>4. PaidBy(m) = PaidBy(n)
      BY <1>0, <2>2, <2>3, PaidBetween
    <2>5. holdings[n][Synced].value = PaidBy(n)
      BY <1>0, <2>2 DEF Valued
    <2> QED
      BY <2>1, <2>2, <2>4, <2>5 DEF Carried
  <1>5. ASSUME NEW n \in Months PROVE Valued(n)'
    <2>1. paid'[n] # 0 => \A k \in 1 .. n : holdings'[k][Synced] # Nothing
      BY <1>0, <1>2 DEF Valued
    <2>2. holdings'[n][Synced] # Nothing => holdings'[n][Synced].value = PaidBy(n)'
      <3>1. CASE holdings'[n][Synced] = holdings[n][Synced]
        BY <1>0, <1>1, <3>1 DEF Valued
      <3>2. CASE holdings'[n][Synced] # holdings[n][Synced]
        <4>1. n = m /\ Synced \in Missing(m)
          BY <1>0, <1>3, <3>2, CarriedTyped, SyncedIsStable
        <4> QED
          BY <1>1, <1>4, <4>1
      <3> QED
        BY <3>1, <3>2
    <2> QED
      BY <2>1, <2>2 DEF Valued
  <1>6. syncing'.pc # "read"
    BY DEF Quiet
  <1> QED
    BY <1>5, <1>6 DEF PaidFor

LEMMA PaidKept ==
  ASSUME WTyped, Exclusive, CascadesAsked, PaidFor, WNext
  PROVE  PaidFor'
  <1>0. /\ wealthRegime' = wealthRegime /\ holdings \in HoldingsType /\ Now \in Nat /\ Months = 1 .. Now
        /\ paid \in [Months -> Nat]
    BY RegimeStays, WealthAssumption DEF WTyped, Months
  <1> SUFFICES ASSUME ~ wealthRegime.overlap, Unhandled PROVE PaidFor'
    BY <1>0 DEF PaidFor, Unhandled
  <1>1. UNCHANGED <<holdings, paid, syncing>> => PaidFor'
    BY <1>0, SyncedStaysPaid DEF SyncedStays
  <1>2. ASSUME NEW op, Begins(op) PROVE syncing = Quiet
    BY <1>2 DEF Begins
  <1>3. CASE Api
    <2> PICK r \in Handlers :
          \/ ReadSums(r) \/ WriteSums(r) \/ SumFails(r) \/ Cascade(r) \/ CascadeFails(r)
          \/ \E m \in Months :
               \/ \E v \in Worths : UpsertBalance(r, m, v) \/ UpsertDebt(r, m, v)
               \/ \E a \in Assets, v \in Worths : UpsertHolding(r, m, a, v)
               \/ \E a \in Assets : DeleteHolding(r, m, a)
               \/ \E o \in Owners : DeleteBalance(r, m, o)
               \/ DeleteDebt(r, m) \/ CreateSnapshot(r, m) \/ Rollover(r, m)
      BY <1>3 DEF Api
    <2>1. CASE ReadSums(r) \/ WriteSums(r) \/ SumFails(r) \/ CascadeFails(r)
      BY <1>1, <2>1 DEF ReadSums, WriteSums, SumFails, CascadeFails, Unbothered, wtables
    <2>2. ~ Cascade(r)
      <3> SUFFICES ASSUME Cascade(r) PROVE FALSE
        OBVIOUS
      <3>1. handlers[r].pc = "cascade"
        BY DEF Cascade
      <3> QED
        BY <3>1 DEF CascadesAsked, Quiet, Unhandled
    <2>3. ASSUME NEW m \in Months, NEW v \in Worths, UpsertBalance(r, m, v) \/ UpsertDebt(r, m, v) PROVE PaidFor'
      BY <1>1, <2>3 DEF UpsertBalance, UpsertDebt, Unbothered
    <2>4. ASSUME NEW m \in Months
          PROVE  /\ ~ (\E a \in Assets, v \in Worths : UpsertHolding(r, m, a, v))
                 /\ ~ (\E a \in Assets : DeleteHolding(r, m, a)) /\ ~ (\E o \in Owners : DeleteBalance(r, m, o))
                 /\ ~ DeleteDebt(r, m)
      BY DEF UpsertHolding, DeleteHolding, DeleteBalance, DeleteDebt, Begins, Unhandled
    <2>5. ASSUME NEW m \in Months, CreateSnapshot(r, m) \/ Rollover(r, m) PROVE PaidFor'
      BY <1>0, <1>1, <1>2, <2>5, CarryingValues DEF CreateSnapshot, Rollover, Unbothered
    <2> QED
      BY <2>1, <2>2, <2>3, <2>4, <2>5
  <1>4. CASE Others
    <2>1. ASSUME NEW m \in Months, ViewHoldings(m) PROVE PaidFor'
      BY <1>0, <1>1, <1>2, <2>1, CarryingValues DEF ViewHoldings, CarriedAndSummed, Unbothered
    <2>2. ASSUME NEW m \in Months, NEW v \in Worths, SaveBalance(m, v) \/ SaveCard(m, v) PROVE PaidFor'
      BY <1>1, <2>2 DEF SaveBalance, SaveCard, wprograms
    <2>3. ASSUME NEW m \in Months, NEW st \in Statements, SaveStatement(m, st) PROVE PaidFor'
      <3>1. holdings' = WithPositions(m, st) /\ Synced \notin DOMAIN st /\ Synced \in Assets
        BY <2>3, PositionsOfStatements, SyncedIsStable DEF SaveStatement
      <3>2. \A n \in Months : holdings'[n][Synced] = holdings[n][Synced]
        <4>1. holdings'[m][Synced] = holdings[m][Synced]
          BY <1>0, <3>1, WithPositionsTyped
        <4>2. \A n \in Months : n # m => holdings'[n] = holdings[n]
          BY <1>0, <3>1, WithPositionsTyped
        <4> QED
          BY <4>1, <4>2
      <3> QED
        BY <2>3, <3>2, SyncedStaysPaid DEF SaveStatement, SyncedStays
    <2>4. CASE FillGap
      <3>1. filling.month \in Months /\ filling.shows \in Statements /\ holdings' = Fill(filling.shows, filling.month)
        BY <2>4 DEF FillGap, WTyped
      <3>2. Synced \notin DOMAIN filling.shows /\ Synced \in Assets
        BY <3>1, PositionsOfStatements, SyncedIsStable
      <3>3. \A n \in Months : holdings'[n][Synced] = holdings[n][Synced]
        BY <1>0, <3>1, <3>2, FilledTyped
      <3> QED
        BY <1>0, <2>4, <3>3, SyncedStaysPaid DEF FillGap, SyncedStays
    <2>5. CASE ApiStops \/ MapOwner
      BY <1>1, <2>5 DEF ApiStops, MapOwner, wtables
    <2>6. CASE ReadTransfers
      <3>1. PICK n \in Months : Covered = 1 .. n /\ \A m \in Months : Held(holdings, m) # {} \/ paid[m] # 0 => m <= n
        BY CoveredMonths
      <3>2. \A m : PaidBy(m)' = PaidBy(m)
        BY <2>6, PaymentsStay DEF ReadTransfers
      <3>3. syncing' = [pc |-> "read", values |-> [m \in 1 .. n |-> PaidBy(m)]] /\ UNCHANGED <<paid, holdings>>
        BY <2>6, <3>1 DEF ReadTransfers, Appraisal, wtables
      <3>4. \A m \in Months : holdings[m][Synced] # Nothing => Held(holdings, m) # {}
        BY SyncedIsStable DEF Held
      <3>5. \A m \in Months : paid'[m] # 0 \/ holdings'[m][Synced] # Nothing => m \in 1 .. n
        BY <1>0, <3>1, <3>3, <3>4
      <3>6. syncing' # Quiet /\ syncing'.pc = "read" /\ DOMAIN syncing'.values = 1 .. n
            /\ \A m \in 1 .. n : syncing'.values[m] = PaidBy(m)'
        BY <3>2, <3>3 DEF Quiet
      <3> QED
        BY <3>5, <3>6 DEF PaidFor
    <2>7. CASE SyncAsset
      <3>1. syncing.pc = "read"
        BY <2>7 DEF SyncAsset
      <3>2. PICK n \in Months : syncing.values \in [1 .. n -> Nat]
        BY <3>1 DEF WTyped, SyncTyped, Quiet
      <3>3. /\ \A m \in 1 .. n : syncing.values[m] = PaidBy(m)
            /\ \A m \in Months : paid[m] # 0 \/ holdings[m][Synced] # Nothing => m \in 1 .. n
        BY <3>1, <3>2 DEF PaidFor
      <3>4. \A m \in Months : holdings'[m][Synced] = IF m \in 1 .. n THEN Entered(syncing.values[m]) ELSE holdings[m][Synced]
        BY <1>0, <2>7, <3>2, SyncedIsStable DEF SyncAsset, HoldingsType
      <3>5. \A m : PaidBy(m)' = PaidBy(m)
        BY <2>7, PaymentsStay DEF SyncAsset
      <3>6. \A m \in 1 .. n : m \in Months /\ syncing.values[m] \in Nat
        BY <1>0, <3>2
      <3>7. ASSUME NEW m \in Months PROVE Valued(m)'
        <4>1. holdings'[m][Synced] # Nothing => holdings'[m][Synced].value = PaidBy(m)'
          <5>1. CASE m \in 1 .. n
            <6>1. holdings'[m][Synced] = Entered(syncing.values[m]) /\ syncing.values[m] = PaidBy(m)
              BY <3>3, <3>4, <5>1
            <6>2. PaidBy(m)' = PaidBy(m)
              BY <3>5
            <6> QED
              BY <6>1, <6>2 DEF Entered
          <5>2. CASE m \notin 1 .. n
            BY <3>3, <3>4, <5>2
          <5> QED
            BY <5>1, <5>2
        <4>2. paid'[m] # 0 => \A k \in 1 .. m : holdings'[k][Synced] # Nothing
          <5> SUFFICES ASSUME paid'[m] # 0, NEW k \in 1 .. m PROVE holdings'[k][Synced] # Nothing
            OBVIOUS
          <5>1. paid[m] # 0
            BY <2>7 DEF SyncAsset
          <5>2. k \in 1 .. n
            BY <1>0, <3>3, <5>1
          <5> QED
            BY <3>4, <3>6, <5>2, CellsMade
        <4> QED
          BY <4>1, <4>2 DEF Valued
      <3>8. syncing'.pc # "read"
        BY <2>7 DEF SyncAsset, Quiet
      <3> QED
        BY <3>7, <3>8 DEF PaidFor
    <2>8. ASSUME NEW m \in Months, NEW v \in Worths, ImportTransfer(m, v) PROVE PaidFor'
      <3>1. syncing' # Quiet /\ syncing'.pc # "read"
        BY <2>8 DEF ImportTransfer, Quiet
      <3> QED
        BY <3>1 DEF PaidFor
    <2> QED
      BY <1>4, <2>1, <2>2, <2>3, <2>4, <2>5, <2>6, <2>7, <2>8 DEF Others, SaveBonds, SaveFunds, SavePortfolio
  <1> QED
    BY <1>3, <1>4 DEF WNext
-----------------------------------------------------------------------------
(***************************************************************************)
(* The snapshots.                                                          *)
(***************************************************************************)
SameRows(m) == balances'[m] = balances[m] /\ holdings'[m] = holdings[m] /\ \A n \in 1 .. m : debts'[n] = debts[n]

LEMMA SumsStay ==
  ASSUME NEW m \in Months, SameRows(m)
  PROVE  AssetSum(holdings, m)' = AssetSum(holdings, m) /\ Debt(m)' = Debt(m)
  <1>1. AssetSum(holdings, m)' = Total(balances'[m], holdings'[m])
    BY Zenon DEF AssetSum, Total, Held, Kept
  <1>2. AssetSum(holdings, m) = Total(balances[m], holdings[m])
    BY SumsOfRows
  <1>3. Debt(m)' = Debt(m)
    BY DebtUpto DEF SameRows
  <1> QED
    BY <1>1, <1>2, <1>3 DEF SameRows

LEMMA RightStays ==
  ASSUME NEW m \in Months, SameRows(m), snapshots'[m] = snapshots[m], RightMonth(m)
  PROVE  RightMonth(m)'
  BY SumsStay DEF RightMonth, RightSum

LEMMA NothingUnsummed == NoRequest => Unsummed = {}
  BY DEF NoRequest, Unsummed, Summing, Quiet

\* A request that begins changes nothing but the month that it will sum.
LEMMA StartedCurrent ==
  ASSUME WTyped, Correct, ~ wealthRegime.overlap, NoRequest, NEW r \in Handlers, NEW m \in Months, NEW c,
         Then(r, {m}, c), UNCHANGED <<snapshots, wealthRegime>>, stale \subseteq stale',
         \A n \in Months : n \in stale' \/ n = m \/ SameRows(n)
  PROVE  Correct'
  <1>1. handlers'[r].pc = "read" /\ handlers'[r].months = {m} /\ \A q \in Handlers : q # r => handlers'[q] = Quiet
    BY DEF Then, WTyped, RequestsTyped, NoRequest
  <1>2. m \in Unsummed'
    BY <1>1 DEF Unsummed, Summing
  <1>3. \A q \in Handlers : handlers'[q].pc # "write"
    BY <1>1 DEF Quiet
  <1>4. ASSUME NEW n \in Months PROVE n \in stale' \/ n \in Unsummed' \/ RightMonth(n)'
    <2>1. n \in stale \/ RightMonth(n)
      BY NothingUnsummed DEF Correct
    <2> QED
      BY <1>2, <2>1, RightStays
  <1> QED
    BY <1>3, <1>4 DEF Correct

\* A program that does not sum names the months that it writes.
LEMMA WrittenCurrent ==
  ASSUME WTyped, Correct, ~ wealthRegime.overlap, NoRequest,
         UNCHANGED <<handlers, snapshots, wealthRegime>>, stale \subseteq stale',
         \A n \in Months : n \in stale' \/ SameRows(n)
  PROVE  Correct'
  <1>1. \A q \in Handlers : handlers'[q].pc # "write"
    BY DEF NoRequest, Quiet
  <1>2. ASSUME NEW n \in Months PROVE n \in stale' \/ RightMonth(n)'
    <2>1. n \in stale \/ RightMonth(n)
      BY NothingUnsummed DEF Correct
    <2> QED
      BY <2>1, RightStays
  <1> QED
    BY <1>1, <1>2 DEF Correct

LEMMA TablesStayCurrent ==
  ASSUME WTyped, Correct, UNCHANGED <<balances, holdings, debts, snapshots, handlers, stale, wealthRegime>>
  PROVE  Correct'
  <1> SUFFICES ASSUME ~ wealthRegime.overlap PROVE Correct'
    BY DEF Correct
  <1>1. \A n \in Months : SameRows(n)
    BY DEF SameRows
  <1>2. Unsummed' = Unsummed
    BY DEF Unsummed, Summing
  <1>3. \A n \in Months : n \in stale' \/ n \in Unsummed' \/ RightMonth(n)'
    BY <1>1, <1>2, RightStays DEF Correct
  <1>4. ASSUME NEW r \in Handlers, handlers'[r].pc = "write"
        PROVE  RightSum(handlers[r].sums, Min(handlers[r].months))'
    <2>1. handlers[r].pc = "write" /\ RightSum(handlers[r].sums, Min(handlers[r].months))
      BY <1>4 DEF Correct
    <2>2. handlers[r].months \in SUBSET Months /\ handlers[r].months # {}
      BY <2>1 DEF WTyped, RequestsTyped, Handler, RequestFits, Quiet
    <2>3. Min(handlers[r].months) \in Months
      BY <2>2, EarliestMonth
    <2> DEFINE q == handlers[r]
               n == Min(q.months)
    <2>4. AssetSum(holdings, n)' = AssetSum(holdings, n) /\ Debt(n)' = Debt(n)
      <3>1. \A k \in Months : AssetSum(holdings, k)' = AssetSum(holdings, k) /\ Debt(k)' = Debt(k)
        BY <1>1, SumsStay
      <3> QED
        BY Zenon DEF AssetSum, Held, Kept, Debt
    <2> QED
      BY <2>1, <2>4 DEF RightSum
  <1> QED
    BY <1>3, <1>4 DEF Correct

LEMMA RightNext ==
  ASSUME NEW r \in Handlers, NEW n, n = Min(handlers'[r].months),
         handlers'[r].sums.assets = AssetSum(holdings, n)', handlers'[r].sums.debt = Debt(n)'
  PROVE  RightSum(handlers[r].sums, Min(handlers[r].months))'
  BY Zenon DEF RightSum, AssetSum, Held, Kept, Debt

LEMMA ReadSumsCurrent ==
  ASSUME WTyped, Exclusive, Correct, NEW r \in Handlers, ReadSums(r), wealthRegime' = wealthRegime
  PROVE  Correct'
  <1> SUFFICES ASSUME ~ wealthRegime.overlap PROVE Correct'
    BY DEF Correct
  <1> DEFINE p == handlers[r]
  <1>1. p.pc = "read" /\ p \in Handler \ {Quiet} /\ p.months \in SUBSET Months /\ p.months # {}
    BY DEF ReadSums, WTyped, RequestsTyped, Handler, RequestFits, Quiet
  <1>2. PICK first \in Months : first = Min(p.months)
    BY <1>1, EarliestMonth
  <1> DEFINE found == Aggregate(holdings, first)
             x == [p EXCEPT !.pc = "write"]
             q == [x EXCEPT !.sums = found]
  <1>3. found.assets = AssetSum(holdings, first) /\ found.debt = Debt(first)
    BY <1>2, Aggregated DEF WTyped
  <1>4. handlers' = [handlers EXCEPT ![r] = q] /\ UNCHANGED <<balances, holdings, debts, snapshots, stale>>
    BY <1>2 DEF ReadSums, wtables
  <1>5. \A k \in Handlers : k # r => handlers[k] = Quiet
    BY <1>1, AtWork DEF Quiet
  <1>6. \A n \in Months : SameRows(n)
    BY <1>4 DEF SameRows
  <1>7. AssetSum(holdings, first)' = AssetSum(holdings, first) /\ Debt(first)' = Debt(first)
    BY <1>6, SumsStay
  <1> HIDE DEF found
  <1>8. q.pc = "write" /\ q.months = p.months /\ q.sums = found
    <2> HIDE DEF p
    <2>1. x = [pc |-> "write", months |-> p.months, cascade |-> p.cascade, sums |-> p.sums]
      BY <1>1 DEF Handler
    <2> QED
      BY <2>1
  <1> HIDE DEF q, x
  <1>9. handlers'[r] = q /\ \A k \in Handlers : k # r => handlers'[k] = Quiet
    BY <1>4, <1>5 DEF WTyped, RequestsTyped
  <1>10. \A n \in Months : n \in Unsummed => n \in Unsummed'
    <2> SUFFICES ASSUME NEW n \in Months, n \in Unsummed PROVE n \in Unsummed'
      OBVIOUS
    <2>1. PICK k \in Handlers : Summing(k) /\ n \in handlers[k].months
      BY DEF Unsummed
    <2>2. k = r
      BY <1>5, <2>1 DEF Summing, Quiet
    <2>3. Summing(r)' /\ n \in handlers'[r].months
      BY <1>8, <1>9, <2>1, <2>2 DEF Summing
    <2> QED
      BY <2>3 DEF Unsummed
  <1>11. \A n \in Months : n \in stale' \/ n \in Unsummed' \/ RightMonth(n)'
    BY <1>4, <1>6, <1>10, RightStays DEF Correct
  <1>12. \A k \in Handlers : handlers'[k].pc = "write" => k = r
    BY <1>9 DEF Quiet
  <1>13. RightSum(handlers[r].sums, Min(handlers[r].months))'
    <2>1. first = Min(handlers'[r].months)
      BY <1>2, <1>8, <1>9
    <2>2. handlers'[r].sums.assets = AssetSum(holdings, first)' /\ handlers'[r].sums.debt = Debt(first)'
      BY <1>3, <1>7, <1>8, <1>9
    <2> QED
      BY <2>1, <2>2, RightNext
  <1> QED
    BY <1>11, <1>12, <1>13 DEF Correct

\* The month a request leaves behind it: the others it still has to sum.
LEMMA PassedOn ==
  ASSUME WTyped, Exclusive, ~ wealthRegime.overlap, NEW r \in Handlers, Summing(r),
         handlers' = [handlers EXCEPT ![r] = Onward(handlers[r])]
  PROVE  /\ Min(handlers[r].months) \in Months
         /\ \A n \in Unsummed : n = Min(handlers[r].months) \/ n \in Unsummed'
         /\ \A k \in Handlers : handlers'[k].pc # "write"
  <1> DEFINE p == handlers[r]
             q == Onward(p)
  <1>1. p \in Handler /\ RequestFits(p) /\ p.pc \in {"read", "write"}
    BY DEF WTyped, RequestsTyped, Summing
  <1>2. /\ p # Quiet /\ p.months \in SUBSET Months /\ p.months # {} /\ q.pc # "write"
        /\ Rest(p.months) # {} => q.pc = "read" /\ q.months = Rest(p.months)
    BY <1>1, OnwardIs
  <1>3. \A k \in Handlers : k # r => handlers[k] = Quiet
    BY <1>2, AtWork
  <1>4. handlers'[r] = q /\ \A k \in Handlers : k # r => handlers'[k] = Quiet
    BY <1>3 DEF WTyped, RequestsTyped
  <1> HIDE DEF q
  <1>5. ASSUME NEW n \in Unsummed, n # Min(p.months) PROVE n \in Unsummed'
    <2>1. n \in Months /\ \E k \in Handlers : Summing(k) /\ n \in handlers[k].months
      BY DEF Unsummed
    <2>2. n \in p.months
      BY <1>3, <2>1 DEF Summing, Quiet
    <2>3. n \in Rest(p.months)
      BY <1>5, <2>2 DEF Rest
    <2>4. Summing(r)' /\ n \in handlers'[r].months
      BY <1>2, <1>4, <2>3 DEF Summing
    <2> QED
      BY <2>1, <2>4 DEF Unsummed
  <1>6. \A k \in Handlers : handlers'[k].pc # "write"
    BY <1>2, <1>4 DEF Quiet
  <1> QED
    BY <1>2, <1>5, <1>6, EarliestMonth

LEMMA WriteSumsCurrent ==
  ASSUME WTyped, Exclusive, Correct, NEW r \in Handlers, WriteSums(r), wealthRegime' = wealthRegime
  PROVE  Correct'
  <1> SUFFICES ASSUME ~ wealthRegime.overlap PROVE Correct'
    BY DEF Correct
  <1> DEFINE p == handlers[r]
  <1>1. /\ p.pc = "write" /\ Summing(r) /\ handlers' = [handlers EXCEPT ![r] = Onward(p)]
        /\ UNCHANGED <<balances, holdings, debts>>
    BY DEF WriteSums, Summing
  <1>2. PICK first \in Months : first = Min(p.months)
    BY <1>1, PassedOn
  <1>3. p.sums.assets = AssetSum(holdings, first) /\ p.sums.debt = Debt(first)
    BY <1>1, <1>2 DEF Correct, RightSum
  <1>4. snapshots' = [snapshots EXCEPT ![first] = p.sums] /\ stale' = stale \ {first}
    BY <1>2 DEF WriteSums
  <1>5. \A n \in Months : SameRows(n)
    BY <1>1 DEF SameRows
  <1>6. AssetSum(holdings, first)' = AssetSum(holdings, first) /\ Debt(first)' = Debt(first)
    BY <1>5, SumsStay
  <1>7. RightMonth(first)'
    <2>1. snapshots'[first] = p.sums
      BY <1>2, <1>4 DEF WTyped
    <2> QED
      BY <1>3, <1>6, <2>1 DEF RightMonth, RightSum
  <1>8. ASSUME NEW n \in Months PROVE n \in stale' \/ n \in Unsummed' \/ RightMonth(n)'
    <2>1. CASE n = first
      BY <1>7, <2>1, Zenon
    <2>2. CASE n # first
      <3>1. snapshots'[n] = snapshots[n] /\ (n \in stale => n \in stale')
        BY <1>4, <2>2 DEF WTyped
      <3>2. n \in Unsummed => n \in Unsummed'
        BY <1>1, <1>2, <2>2, PassedOn
      <3> QED
        BY <1>5, <3>1, <3>2, RightStays DEF Correct
    <2> QED
      BY <2>1, <2>2
  <1>9. \A k \in Handlers : handlers'[k].pc # "write"
    BY <1>1, PassedOn
  <1> QED
    BY <1>8, <1>9 DEF Correct

\* A sum that raises leaves its own month out of date, and no other.
LEMMA SumFailsCurrent ==
  ASSUME WTyped, Exclusive, Correct, NEW r \in Handlers, SumFails(r), wealthRegime' = wealthRegime
  PROVE  Correct'
  <1> SUFFICES ASSUME ~ wealthRegime.overlap PROVE Correct'
    BY DEF Correct
  <1> DEFINE p == handlers[r]
  <1>1. /\ Summing(r) /\ handlers' = [handlers EXCEPT ![r] = Onward(p)] /\ stale' = stale \cup {Min(p.months)}
        /\ UNCHANGED <<balances, holdings, debts, snapshots>>
    BY DEF SumFails, wtables
  <1>2. \A n \in Months : SameRows(n)
    BY <1>1 DEF SameRows
  <1>3. ASSUME NEW n \in Months PROVE n \in stale' \/ n \in Unsummed' \/ RightMonth(n)'
    <2>1. n \in Unsummed => n \in stale' \/ n \in Unsummed'
      BY <1>1, PassedOn
    <2> QED
      BY <1>1, <1>2, <2>1, RightStays DEF Correct
  <1>4. \A k \in Handlers : handlers'[k].pc # "write"
    BY <1>1, PassedOn
  <1> QED
    BY <1>3, <1>4 DEF Correct

\* So does a process that ends, with the months it had still to sum.
LEMMA StopsCurrent ==
  ASSUME WTyped, Exclusive, Correct, ApiStops \/ \E r \in Handlers : CascadeFails(r), wealthRegime' = wealthRegime
  PROVE  Correct'
  <1> SUFFICES ASSUME ~ wealthRegime.overlap PROVE Correct'
    BY DEF Correct
  <1>1. /\ UNCHANGED <<balances, holdings, debts, snapshots>> /\ stale \cup Unsummed \subseteq stale'
        /\ \A k \in Handlers : handlers'[k].pc # "write"
    <2>1. CASE ApiStops
      BY <2>1 DEF ApiStops, wtables, Quiet
    <2>2. ASSUME NEW r \in Handlers, CascadeFails(r)
          PROVE  Unsummed = {} /\ \A k \in Handlers : handlers'[k].pc # "write"
      <3>1. handlers[r].pc = "cascade" /\ handlers' = [handlers EXCEPT ![r] = Quiet]
        BY <2>2 DEF CascadeFails
      <3>2. \A k \in Handlers : k # r => handlers[k] = Quiet
        BY <3>1, AtWork DEF Quiet
      <3> QED
        BY <3>1, <3>2 DEF Unsummed, Summing, Quiet, WTyped, RequestsTyped
    <2> QED
      BY <2>1, <2>2 DEF CascadeFails, wtables
  <1>2. \A n \in Months : SameRows(n)
    BY <1>1 DEF SameRows
  <1>3. ASSUME NEW n \in Months PROVE n \in stale' \/ RightMonth(n)'
    BY <1>1, <1>2, RightStays DEF Correct
  <1> QED
    BY <1>1, <1>3 DEF Correct

LEMMA CascadeCurrent ==
  ASSUME WTyped, Exclusive, Correct, NEW r \in Handlers, Cascade(r), wealthRegime' = wealthRegime
  PROVE  Correct'
  <1> SUFFICES ASSUME ~ wealthRegime.overlap PROVE Correct'
    BY DEF Correct
  <1> DEFINE c == handlers[r].cascade
             source == holdings[c.month][c.asset]
             later == IF source = Nothing THEN {} ELSE Affected(c.month, c.asset)
  <1>1. \A k \in Handlers : k # r => handlers[k] = Quiet
    BY AtWork DEF Cascade, Quiet
  <1>2. Unsummed = {}
    BY <1>1 DEF Unsummed, Summing, Cascade, Quiet
  <1>3. \A n \in Months : n \notin later => holdings'[n] = holdings[n]
    BY DEF Cascade
  <1>4. /\ UNCHANGED <<balances, debts, snapshots, stale>>
        /\ IF later = {} THEN handlers' = [handlers EXCEPT ![r] = Quiet] ELSE Then(r, later, Nothing)
    BY DEF Cascade
  <1> HIDE DEF later
  <1>5. /\ later # {} => handlers'[r].pc = "read" /\ handlers'[r].months = later
        /\ \A k \in Handlers : handlers'[k].pc # "write"
    BY <1>1, <1>4 DEF Then, WTyped, RequestsTyped, Quiet
  <1>6. \A n \in later \cap Months : n \in Unsummed'
    BY <1>5 DEF Unsummed, Summing
  <1>7. ASSUME NEW n \in Months PROVE n \in stale' \/ n \in Unsummed' \/ RightMonth(n)'
    <2>1. n \in stale \/ RightMonth(n)
      BY <1>2 DEF Correct
    <2>2. n \notin later => SameRows(n)
      BY <1>3, <1>4 DEF SameRows
    <2> QED
      BY <1>4, <1>6, <2>1, <2>2, RightStays
  <1> QED
    BY <1>5, <1>7 DEF Correct

\* An operation that begins alone finds nothing at work.
LEMMA BegunAlone ==
  \A op : Begins(op) /\ ~ wealthRegime.overlap => NoRequest /\ filling = Nothing /\ syncing = Quiet
  BY DEF Begins

LEMMA EditsCurrent ==
  ASSUME WTyped, Correct, NEW r \in Handlers, NEW m \in Months, wealthRegime' = wealthRegime,
         \/ \E v \in Worths : UpsertBalance(r, m, v) \/ UpsertDebt(r, m, v)
         \/ \E a \in Assets, v \in Worths : UpsertHolding(r, m, a, v)
         \/ \E a \in Assets : DeleteHolding(r, m, a)
         \/ \E o \in Owners : DeleteBalance(r, m, o)
         \/ DeleteDebt(r, m) \/ CreateSnapshot(r, m) \/ Rollover(r, m)
  PROVE  Correct'
  <1> SUFFICES ASSUME ~ wealthRegime.overlap PROVE Correct'
    BY DEF Correct
  <1>0. /\ Now \in Nat /\ Months = 1 .. Now /\ holdings \in HoldingsType
        /\ balances \in [Months -> [Owners -> Nat \cup {Nothing}]] /\ debts \in [Months -> Nat \cup {Nothing}]
    BY WealthAssumption DEF Months, WTyped
  <1>1. CASE \/ \E v \in Worths : UpsertBalance(r, m, v)
             \/ \E o \in Owners : DeleteBalance(r, m, o)
    <2>1. /\ NoRequest /\ Then(r, {m}, Nothing) /\ UNCHANGED <<holdings, debts, snapshots, stale>>
          /\ \A n \in Months : n # m => balances'[n] = balances[n]
      BY <1>0, <1>1, BegunAlone DEF UpsertBalance, DeleteBalance
    <2>2. \A n \in Months : n = m \/ SameRows(n)
      BY <2>1 DEF SameRows
    <2> QED
      BY <2>1, <2>2, StartedCurrent
  <1>2. CASE DeleteDebt(r, m) \/ \E v \in Worths : UpsertDebt(r, m, v)
    <2>1. /\ NoRequest /\ Then(r, {m}, Nothing) /\ UNCHANGED <<balances, holdings, snapshots>>
          /\ stale' = stale \cup LaterThan(m) /\ \A n \in Months : n # m => debts'[n] = debts[n]
      BY <1>0, <1>2, BegunAlone DEF UpsertDebt, DeleteDebt
    <2>2. \A n \in Months : n \in stale' \/ n = m \/ SameRows(n)
      BY <1>0, <2>1 DEF SameRows, LaterThan
    <2> QED
      BY <2>1, <2>2, StartedCurrent
  <1>3. CASE \E a \in Assets, v \in Worths : UpsertHolding(r, m, a, v)
    <2> PICK a \in Assets, v \in Worths : UpsertHolding(r, m, a, v)
      BY <1>3
    <2> DEFINE c == IF a \in Stable THEN [month |-> m, asset |-> a] ELSE Nothing
    <2>1. /\ NoRequest /\ Then(r, {m}, c) /\ UNCHANGED <<balances, debts, snapshots, stale>>
          /\ \A n \in Months : n # m => holdings'[n] = holdings[n]
      BY <1>0, BegunAlone DEF UpsertHolding, HoldingsType
    <2> HIDE DEF c
    <2>2. \A n \in Months : n = m \/ SameRows(n)
      BY <2>1 DEF SameRows
    <2> QED
      BY <2>1, <2>2, StartedCurrent
  <1>4. CASE CreateSnapshot(r, m) \/ Rollover(r, m) \/ \E a \in Assets : DeleteHolding(r, m, a)
    <2>1. /\ NoRequest /\ Then(r, {m}, Nothing) /\ UNCHANGED <<balances, debts, snapshots, stale>>
      BY <1>4, BegunAlone DEF CreateSnapshot, Rollover, DeleteHolding
    <2>2. \A n \in Months : n # m => holdings'[n] = holdings[n]
      <3>1. CASE CreateSnapshot(r, m)
        BY <3>1 DEF CreateSnapshot
      <3>2. CASE Rollover(r, m)
        BY <1>0, <3>2, CarriedTyped DEF Rollover
      <3>3. CASE \E a \in Assets : DeleteHolding(r, m, a)
        BY <1>0, <3>3 DEF DeleteHolding, HoldingsType
      <3> QED
        BY <1>4, <3>1, <3>2, <3>3
    <2>3. \A n \in Months : n = m \/ SameRows(n)
      BY <2>1, <2>2 DEF SameRows
    <2> QED
      BY <2>1, <2>3, StartedCurrent
  <1> QED
    BY <1>1, <1>2, <1>3, <1>4

LEMMA ViewCurrent ==
  ASSUME WTyped, Correct, NEW m \in Months, ViewHoldings(m), wealthRegime' = wealthRegime
  PROVE  Correct'
  <1> SUFFICES ASSUME ~ wealthRegime.overlap PROVE Correct'
    BY DEF Correct
  <1>0. NoRequest /\ UNCHANGED <<balances, debts, handlers>> /\ holdings \in HoldingsType
    BY BegunAlone DEF ViewHoldings, WTyped
  <1>1. CASE UNCHANGED <<holdings, snapshots, stale>>
    BY <1>0, <1>1, TablesStayCurrent
  <1>3. CASE holdings' = CarriedForward(m) /\ stale' = stale \cup {m} /\ UNCHANGED snapshots
    <2>1. \A n \in Months : n # m => holdings'[n] = holdings[n]
      BY <1>0, <1>3, CarriedTyped
    <2>2. \A n \in Months : n \in stale' \/ SameRows(n)
      BY <1>0, <1>3, <2>1 DEF SameRows
    <2> QED
      BY <1>0, <1>3, <2>2, WrittenCurrent
  <1>2. CASE /\ holdings' = CarriedForward(m) /\ stale' = stale \ {m}
             /\ snapshots' = [snapshots EXCEPT ![m] = Aggregate(CarriedForward(m), m)]
    <2>1. CarriedForward(m) \in HoldingsType /\ \A n \in Months : n # m => holdings'[n] = holdings[n]
      BY <1>0, <1>2, CarriedTyped
    <2>2. \A n \in Months : n # m => SameRows(n) /\ snapshots'[n] = snapshots[n] /\ (n \in stale => n \in stale')
      BY <1>0, <1>2, <2>1 DEF SameRows, WTyped
    <2>3. \A n \in Months : n \in stale \/ RightMonth(n)
      BY <1>0, NothingUnsummed DEF Correct
    <2>4. RightMonth(m)'
      <3>1. snapshots'[m] = Aggregate(CarriedForward(m), m)
        BY <1>2 DEF WTyped
      <3>2. snapshots'[m].assets = AssetSum(CarriedForward(m), m) /\ snapshots'[m].debt = Debt(m)
        BY <2>1, <3>1, Aggregated
      <3>3. AssetSum(holdings, m)' = AssetSum(CarriedForward(m), m)
        BY <1>0, <1>2, Zenon DEF AssetSum, Held, Kept
      <3>4. Debt(m)' = Debt(m)
        BY <1>0, DebtUpto
      <3> QED
        BY <3>2, <3>3, <3>4 DEF RightMonth, RightSum
    <2>5. ASSUME NEW n \in Months PROVE n \in stale' \/ RightMonth(n)'
      <3>1. CASE n = m
        BY <2>4, <3>1, Zenon
      <3>2. CASE n # m
        BY <2>2, <2>3, <3>2, RightStays
      <3> QED
        BY <3>1, <3>2
    <2>6. \A q \in Handlers : handlers'[q].pc # "write"
      BY <1>0 DEF NoRequest, Quiet
    <2> QED
      BY <2>5, <2>6 DEF Correct
  <1> QED
    BY <1>1, <1>2, <1>3 DEF ViewHoldings, CarriedAndSummed

LEMMA ProgramsCurrent ==
  ASSUME WTyped, Exclusive, Correct, wealthRegime' = wealthRegime,
         \/ \E m \in Months, v \in Worths : SaveBalance(m, v) \/ SaveCard(m, v) \/ ImportTransfer(m, v)
         \/ \E m \in Months, st \in Statements : SaveStatement(m, st)
         \/ MapOwner \/ FillGap \/ ReadTransfers \/ SyncAsset
  PROVE  Correct'
  <1> SUFFICES ASSUME ~ wealthRegime.overlap PROVE Correct'
    BY DEF Correct
  <1>0. /\ Now \in Nat /\ Months = 1 .. Now /\ holdings \in HoldingsType
        /\ balances \in [Months -> [Owners -> Nat \cup {Nothing}]] /\ debts \in [Months -> Nat \cup {Nothing}]
    BY WealthAssumption DEF Months, WTyped
  <1>1. ASSUME NEW m \in Months, NEW v \in Worths, SaveBalance(m, v) PROVE Correct'
    <2>1. /\ NoRequest /\ UNCHANGED <<holdings, debts, snapshots, handlers>> /\ stale' = stale \cup {m}
          /\ \A n \in Months : n # m => balances'[n] = balances[n]
      BY <1>0, <1>1, BegunAlone DEF SaveBalance, Settled, wprograms
    <2>2. \A n \in Months : n \in stale' \/ SameRows(n)
      BY <2>1 DEF SameRows
    <2> QED
      BY <2>1, <2>2, WrittenCurrent
  <1>2. ASSUME NEW m \in Months, NEW v \in Worths, SaveCard(m, v) PROVE Correct'
    <2>1. /\ NoRequest /\ UNCHANGED <<balances, holdings, snapshots, handlers>> /\ stale' = stale \cup (m .. Now)
          /\ \A n \in Months : n # m => debts'[n] = debts[n]
      BY <1>0, <1>2, BegunAlone DEF SaveCard, wprograms
    <2>2. \A n \in Months : n \in stale' \/ SameRows(n)
      BY <1>0, <2>1 DEF SameRows
    <2> QED
      BY <2>1, <2>2, WrittenCurrent
  <1>3. ASSUME NEW m \in Months, NEW st \in Statements, SaveStatement(m, st) PROVE Correct'
    <2>1. /\ NoRequest /\ UNCHANGED <<balances, debts, snapshots, handlers>> /\ stale' = stale \cup {m}
          /\ \A n \in Months : n # m => holdings'[n] = holdings[n]
      BY <1>0, <1>3, BegunAlone, WithPositionsTyped DEF SaveStatement
    <2>2. \A n \in Months : n \in stale' \/ SameRows(n)
      BY <2>1 DEF SameRows
    <2> QED
      BY <2>1, <2>2, WrittenCurrent
  <1>4. CASE FillGap
    <2>1. filling.month \in Months /\ filling.shows \in Statements /\ NoRequest
      BY <1>4 DEF FillGap, WTyped, Exclusive
    <2>2. /\ UNCHANGED <<balances, debts, snapshots, handlers>> /\ stale' = stale \cup Gap(filling.month)
          /\ \A n \in Months : n \notin Gap(filling.month) => holdings'[n] = holdings[n]
      BY <1>0, <1>4, <2>1, FilledTyped DEF FillGap
    <2>3. \A n \in Months : n \in stale' \/ SameRows(n)
      BY <2>2 DEF SameRows
    <2> QED
      BY <2>1, <2>2, <2>3, WrittenCurrent
  <1>5. CASE SyncAsset
    <2>1. NoRequest
      BY <1>5 DEF SyncAsset, Exclusive, Quiet
    <2>2. /\ UNCHANGED <<balances, debts, snapshots, handlers>> /\ stale' = stale \cup DOMAIN syncing.values
          /\ \A n \in Months : n \notin DOMAIN syncing.values => holdings'[n] = holdings[n]
      BY <1>5 DEF SyncAsset
    <2>3. \A n \in Months : n \in stale' \/ SameRows(n)
      BY <2>2 DEF SameRows
    <2> QED
      BY <2>1, <2>2, <2>3, WrittenCurrent
  <1>6. CASE MapOwner \/ ReadTransfers
    BY <1>6, TablesStayCurrent DEF MapOwner, ReadTransfers, wtables
  <1>7. ASSUME NEW m \in Months, NEW v \in Worths, ImportTransfer(m, v) PROVE Correct'
    BY <1>7, TablesStayCurrent DEF ImportTransfer, wtables
  <1> QED
    BY <1>1, <1>2, <1>3, <1>4, <1>5, <1>6, <1>7

LEMMA CurrentKept ==
  ASSUME WTyped, Exclusive, Correct, WNext
  PROVE  Correct'
  <1>0. wealthRegime' = wealthRegime
    BY RegimeStays
  <1>1. CASE Api
    BY <1>0, <1>1, ReadSumsCurrent, WriteSumsCurrent, SumFailsCurrent, StopsCurrent, CascadeCurrent, EditsCurrent DEF Api
  <1>2. CASE Others
    BY <1>0, <1>2, StopsCurrent, ViewCurrent, ProgramsCurrent DEF Others, SaveBonds, SaveFunds, SavePortfolio
  <1> QED
    BY <1>1, <1>2 DEF WNext
-----------------------------------------------------------------------------
(***************************************************************************)
(* The invariant.                                                          *)
(***************************************************************************)
LEMMA WealthBegins == WInit => WInv
  <1> SUFFICES ASSUME WInit PROVE WInv
    OBVIOUS
  <1>0. Now \in Nat /\ Months = 1 .. Now
    BY WealthAssumption DEF Months
  <1>1. /\ balances = [m \in Months |-> [o \in Owners |-> Nothing]]
        /\ holdings = [m \in Months |-> [a \in Assets |-> Nothing]]
        /\ handlers = [r \in Handlers |-> Quiet] /\ filling = Nothing /\ syncing = Quiet
    BY DEF WInit
  <1>2. WTyped
    <2>1. RequestsTyped /\ SyncTyped /\ holdings \in HoldingsType
      BY <1>1 DEF RequestsTyped, Handler, RequestFits, Quiet, SyncTyped, HoldingsType
    <2> QED
      BY <1>1, <2>1 DEF WTyped, WInit
  <1>3. NoRequest /\ (\A r \in Handlers : handlers[r] = Quiet)
    BY <1>1 DEF NoRequest
  <1>4. Exclusive /\ CascadesAsked
    BY <1>1, <1>3 DEF Exclusive, CascadesAsked
  <1>5. StatementStands /\ OneOwner
    BY <1>1 DEF StatementStands, OneOwner, Owners, WInit
  <1>6. PaidFor
    <2>1. \A m \in Months : Valued(m)
      BY <1>1, SyncedIsStable DEF Valued, WInit
    <2> QED
      BY <1>1, <2>1 DEF PaidFor, Quiet
  <1>7. Correct
    BY <1>3 DEF Correct, RightMonth, WInit, Quiet
  <1> QED
    BY <1>2, <1>4, <1>5, <1>6, <1>7 DEF WInv

LEMMA WealthKept ==
  ASSUME WInv, [WNext]_wvars
  PROVE  WInv'
  <1>1. CASE WNext
    BY <1>1, TypedKept, ExclusiveKept, StatementsKept, OwnersKept, PaidKept, CurrentKept DEF WInv
  <1>2. CASE UNCHANGED wvars
    <2>0. UNCHANGED <<balances, holdings, debts, snapshots, handlers, filling, mapped, paid, syncing,
                      stated, stale, wealthRegime, steps>>
      BY <1>2 DEF wvars, wtables, wprograms, whistory
    <2>1. WTyped' /\ Exclusive' /\ CascadesAsked' /\ OneOwner'
      BY <2>0 DEF WInv, WTyped, RequestsTyped, SyncTyped, Exclusive, NoRequest, CascadesAsked, OneOwner
    <2>2. StatementStands'
      BY <2>0 DEF WInv, StatementStands
    <2>3. PaidFor'
      BY <2>0, SyncedStaysPaid DEF WInv, SyncedStays
    <2>4. Correct'
      BY <2>0, TablesStayCurrent DEF WInv
    <2> QED
      BY <2>1, <2>2, <2>3, <2>4 DEF WInv
  <1> QED
    BY <1>1, <1>2

LEMMA WealthInvariant == WSpec => []WInv
  BY WealthBegins, WealthKept, PTL DEF WSpec

(***************************************************************************)
(* The positions of a month are those of its own statement, in whatever    *)
(* order statements are parsed; an account counts once when its owner      *)
(* becomes known (_upsert_closing_balance); the property that the importer *)
(* values is worth what was transferred for it by every month's end.       *)
(***************************************************************************)
THEOREM HoldingsAlwaysStand == WSpec => []HoldingsStand
  <1>1. WInv => HoldingsStand
    <2> SUFFICES ASSUME WInv PROVE HoldingsStand
      OBVIOUS
    <2>1. WTypeOK
      <3>1. \A r \in Handlers : handlers[r].pc \in {"idle", "read", "write", "cascade"}
        BY DEF WInv, WTyped, RequestsTyped, Handler, Quiet
      <3>2. \A m \in Months : snapshots[m] # Nothing =>
              snapshots[m].assets \in Nat /\ snapshots[m].debt \in Nat /\ snapshots[m].change \in Int
        BY DEF WInv, WTyped, SumRow
      <3> QED
        BY <3>1, <3>2 DEF WInv, WTypeOK, WTyped, HoldingsType
    <2>2. CountedOnce
      BY OwnersCountOnce DEF WInv
    <2>3. WorthWhatWasPaid
      BY DEF WInv, PaidFor, Unhandled, Valued, WorthWhatWasPaid
    <2> QED
      BY <2>1, <2>2, <2>3 DEF WInv, HoldingsStand
  <1> QED
    BY <1>1, WealthInvariant, PTL

(***************************************************************************)
(* With requests one at a time, the snapshot of a month is the sum of what *)
(* the tables hold, unless a program that does not sum wrote it, a debt    *)
(* before it changed, or its own sum raised or was cut off by the API's    *)
(* end: an edit that cascades (_cascade_holding_update) sums every other   *)
(* month that it touched, also when one of its sums is lost.               *)
(***************************************************************************)
THEOREM SnapshotsAlwaysCurrent == WSpec => []SnapshotCurrent
  <1>1. WInv => SnapshotCurrent
    BY NothingUnsummed DEF WInv, Correct, RightMonth, RightSum, SnapshotCurrent
  <1> QED
    BY <1>1, WealthInvariant, PTL
-----------------------------------------------------------------------------
(***************************************************************************)
(* Copies.                                                                 *)
(***************************************************************************)
IsEntered(c) == c # Nothing /\ c.origin = "entered"
Yields(m, a) == IsEntered(holdings[m][a]) =>
                  (holdings'[m][a] = Nothing \/ holdings'[m][a].origin = "entered"
                     \/ \E n \in 1 .. (m - 1) : holdings'[m][a] = holdings[n][a])

LEMMA EnteredStands ==
  ASSUME NEW m \in Months, NEW a \in Assets, IsEntered(holdings[m][a]) => holdings'[m][a] = holdings[m][a]
  PROVE  Yields(m, a)
  BY DEF Yields, IsEntered

LEMMA CarryingYields ==
  ASSUME WTyped, NEW k \in Months, holdings' = CarriedForward(k), NEW m \in Months, NEW a \in Assets
  PROVE  Yields(m, a)
  <1>1. IsEntered(holdings[m][a]) => a \notin Missing(m)
    BY DEF IsEntered, Missing
  <1>2. IsEntered(holdings[m][a]) => holdings'[m][a] = holdings[m][a]
    <2>1. CASE m = k
      BY <1>1, <2>1, CarriedTyped DEF WTyped
    <2>2. CASE m # k
      BY <2>2, CarriedTyped DEF WTyped
    <2> QED
      BY <2>1, <2>2
  <1> QED
    BY <1>2, EnteredStands

LEMMA CascadeYields ==
  ASSUME WTyped, NEW r \in Handlers, Cascade(r), NEW m \in Months, NEW a \in Assets
  PROVE  Yields(m, a)
  <1> DEFINE c == handlers[r].cascade
             source == holdings[c.month][c.asset]
             later == IF source = Nothing THEN {} ELSE Affected(c.month, c.asset)
  <1>0. Now \in Nat /\ Months = 1 .. Now /\ holdings \in HoldingsType
    BY WealthAssumption DEF Months, WTyped
  <1>1. c \in Asked
    BY DEF Cascade, WTyped, RequestsTyped, RequestFits
  <1>2. PICK n \in Months, b \in Assets : c.month = n /\ c.asset = b
    BY <1>1 DEF Asked
  <1>3. holdings'[m] = IF m \in later THEN [holdings[m] EXCEPT ![b] = holdings[n][b]] ELSE holdings[m]
    BY <1>2 DEF Cascade
  <1>4. m \in later => n \in 1 .. (m - 1)
    BY <1>0, <1>2 DEF Affected, LaterThan
  <1> HIDE DEF later, c, source
  <1>5. CASE m \in later /\ a = b
    <2>1. holdings'[m][a] = holdings[n][a]
      BY <1>0, <1>3, <1>5 DEF HoldingsType
    <2> QED
      BY <1>4, <1>5, <2>1 DEF Yields
  <1>6. CASE ~ (m \in later /\ a = b)
    <2>1. holdings'[m][a] = holdings[m][a]
      BY <1>0, <1>3, <1>6 DEF HoldingsType
    <2> QED
      BY <2>1, EnteredStands
  <1> QED
    BY <1>5, <1>6

LEMMA EveryStepYields ==
  ASSUME WTyped, WNext, NEW m \in Months, NEW a \in Assets
  PROVE  Yields(m, a)
  <1>0. holdings \in HoldingsType
    BY DEF WTyped
  <1>1. UNCHANGED holdings => Yields(m, a)
    BY EnteredStands
  <1>2. ASSUME NEW b \in Assets, NEW k \in Months, NEW v, v = Nothing \/ v.origin = "entered",
               holdings' = [holdings EXCEPT ![k][b] = v]
        PROVE  Yields(m, a)
    <2>1. holdings'[m][a] = IF m = k /\ a = b THEN v ELSE holdings[m][a]
      BY <1>0, <1>2 DEF HoldingsType
    <2> QED
      BY <1>2, <2>1 DEF Yields, IsEntered
  <1>3. CASE Api
    <2> PICK r \in Handlers :
          \/ ReadSums(r) \/ WriteSums(r) \/ SumFails(r) \/ Cascade(r) \/ CascadeFails(r)
          \/ \E k \in Months :
               \/ \E v \in Worths : UpsertBalance(r, k, v) \/ UpsertDebt(r, k, v)
               \/ \E b \in Assets, v \in Worths : UpsertHolding(r, k, b, v)
               \/ \E b \in Assets : DeleteHolding(r, k, b)
               \/ \E o \in Owners : DeleteBalance(r, k, o)
               \/ DeleteDebt(r, k) \/ CreateSnapshot(r, k) \/ Rollover(r, k)
      BY <1>3 DEF Api
    <2>1. CASE ReadSums(r) \/ WriteSums(r) \/ SumFails(r) \/ CascadeFails(r)
      BY <1>1, <2>1 DEF ReadSums, WriteSums, SumFails, CascadeFails, Unbothered, wtables
    <2>2. CASE Cascade(r)
      BY <2>2, CascadeYields
    <2>3. ASSUME NEW k \in Months, \/ \E v \in Worths : UpsertBalance(r, k, v) \/ UpsertDebt(r, k, v)
                                   \/ \E o \in Owners : DeleteBalance(r, k, o)
                                   \/ DeleteDebt(r, k) \/ CreateSnapshot(r, k)
          PROVE  Yields(m, a)
      BY <1>1, <2>3 DEF UpsertBalance, UpsertDebt, DeleteBalance, DeleteDebt, CreateSnapshot
    <2>4. ASSUME NEW k \in Months, NEW b \in Assets, NEW v \in Worths, UpsertHolding(r, k, b, v) PROVE Yields(m, a)
      <3>1. Entered(v).origin = "entered" /\ holdings' = [holdings EXCEPT ![k][b] = Entered(v)]
        BY <2>4 DEF UpsertHolding, Entered
      <3> QED
        BY <1>2, <3>1
    <2>5. ASSUME NEW k \in Months, NEW b \in Assets, DeleteHolding(r, k, b) PROVE Yields(m, a)
      BY <1>2, <2>5 DEF DeleteHolding
    <2>6. ASSUME NEW k \in Months, Rollover(r, k) PROVE Yields(m, a)
      BY <2>6, CarryingYields DEF Rollover
    <2> QED
      BY <2>1, <2>2, <2>3, <2>4, <2>5, <2>6
  <1>4. CASE Others
    <2>1. ASSUME NEW k \in Months, ViewHoldings(k) PROVE Yields(m, a)
      BY <1>1, <2>1, CarryingYields DEF ViewHoldings, CarriedAndSummed
    <2>2. ASSUME NEW k \in Months, NEW v \in Worths, SaveBalance(k, v) \/ SaveCard(k, v) \/ ImportTransfer(k, v)
          PROVE  Yields(m, a)
      BY <1>1, <2>2 DEF SaveBalance, SaveCard, ImportTransfer, wtables
    <2>3. ASSUME NEW k \in Months, NEW st \in Statements, SaveStatement(k, st) PROVE Yields(m, a)
      <3>1. holdings' = WithPositions(k, st)
        BY <2>3 DEF SaveStatement
      <3>2. CASE m = k /\ a \in DOMAIN st
        <4>1. holdings'[m][a] = Entered(st[a])
          BY <1>0, <3>1, <3>2, WithPositionsTyped
        <4> QED
          BY <4>1 DEF Yields, Entered
      <3>3. CASE ~ (m = k /\ a \in DOMAIN st)
        <4>1. holdings'[m][a] = holdings[m][a]
          BY <1>0, <3>1, <3>3, WithPositionsTyped
        <4> QED
          BY <4>1, EnteredStands
      <3> QED
        BY <3>2, <3>3
    <2>4. CASE FillGap
      <3>1. filling.month \in Months /\ filling.shows \in Statements /\ holdings' = Fill(filling.shows, filling.month)
        BY <2>4 DEF FillGap, WTyped
      <3>2. IsEntered(holdings[m][a]) => holdings'[m][a] = holdings[m][a]
        BY <1>0, <3>1, FilledTyped DEF IsEntered
      <3> QED
        BY <3>2, EnteredStands
    <2>5. CASE ApiStops \/ MapOwner \/ ReadTransfers
      BY <1>1, <2>5 DEF ApiStops, MapOwner, ReadTransfers, wtables
    <2>6. CASE SyncAsset
      <3>1. holdings'[m] = IF m \in DOMAIN syncing.values
                           THEN [holdings[m] EXCEPT ![Synced] = Entered(syncing.values[m])] ELSE holdings[m]
        BY <2>6 DEF SyncAsset
      <3>2. holdings'[m][a] = holdings[m][a] \/ holdings'[m][a] = Entered(syncing.values[m])
        BY <1>0, <3>1 DEF HoldingsType
      <3>3. Entered(syncing.values[m]).origin = "entered"
        BY DEF Entered
      <3> QED
        BY <3>2, <3>3, EnteredStands DEF Yields
    <2> QED
      BY <1>4, <2>1, <2>2, <2>3, <2>4, <2>5, <2>6 DEF Others, SaveBonds, SaveFunds, SavePortfolio
  <1> QED
    BY <1>3, <1>4 DEF WNext

(***************************************************************************)
(* What was entered or read from a statement gives way to nothing but      *)
(* another entry or, in a cascade, the operator's own earlier month: no    *)
(* carrying forward or gap-filling replaces it.                            *)
(***************************************************************************)
THEOREM CopiesAlwaysYield == WSpec => CopiesYield
  <1> DEFINE Yielding == \A m \in Months, a \in Assets :
       (holdings[m][a] # Nothing /\ holdings[m][a].origin = "entered") =>
         (holdings'[m][a] = Nothing \/ holdings'[m][a].origin = "entered"
            \/ \E n \in 1..(m - 1) : holdings'[m][a] = holdings[n][a])
  <1>1. WInv /\ [WNext]_wvars => [Yielding]_wvars
    <2> SUFFICES ASSUME WInv, WNext PROVE Yielding
      OBVIOUS
    <2> QED
      BY EveryStepYields DEF WInv, Yields, IsEntered
  <1> QED
    BY <1>1, WealthInvariant, PTL DEF WSpec, CopiesYield

(***************************************************************************)
(* PdfPipeline. Types.                                                     *)
(***************************************************************************)
Stems == {Stem[f] : f \in Files}
Paid == Files \ Empty
Statuses == Final \cup {"pending", "running"}
Outcomes == Final \cup {"none", "dry-run"}
Job == [file : Files, status : Statuses]
Attempt ==
  [pc : {"idle", "unlock", "parse", "load", "save", "ended", "imported", "recorded"},
   file : Files \cup {NoFile}, pages : Files \cup {NoFile}, copy : SUBSET Paid,
   outcome : Outcomes, job : Nat]
CyclePcs == {"off", "start", "scan", "work", "months", "alert", "record", "finish", "dead"}

ReadTyped == reading \in [Actors -> Attempt]
FilesTyped ==
  /\ inbox \subseteq Files /\ zip \in {"none", "ok", "error"}
  /\ book \subseteq Paid /\ db \subseteq Paid
RecordsTyped ==
  /\ registry \in [Files -> {"none", "ok", "partial", "error", "dry-run"}]
  /\ last \in [Files -> Outcomes] /\ latest \in [Files -> BOOLEAN]
CopiesTyped ==
  /\ unlocked \in [Stems -> (inbox \cap Locked) \cup {NoFile}]
  /\ \A s \in Stems : unlocked[s] # NoFile => Stem[unlocked[s]] = s
CycleTyped ==
  /\ cycle \in [pc : CyclePcs, unseen : SUBSET inbox, todo : SUBSET inbox, ok : BOOLEAN]
  /\ timer \in BOOLEAN /\ month \in [notified : BOOLEAN, alerts : Nat]
PdfBounded == pdfRegime \in PdfRegimes /\ faults \in [n : Nat, seen : SUBSET Faults]

(***************************************************************************)
(* The queue holds pending jobs in the order of their creation, and the    *)
(* job being run is none of them.                                          *)
(***************************************************************************)
QueueSound ==
  /\ jobs \in Seq(Job) /\ queue \in Seq(Nat)
  /\ \A j \in DOMAIN jobs : jobs[j].file \in inbox
  /\ \A i \in DOMAIN queue : queue[i] \in DOMAIN jobs /\ jobs[queue[i]].status = "pending"
  /\ \A i, k \in DOMAIN queue : i < k => queue[i] < queue[k]
  /\ Reads("worker") # "idle" =>
       reading["worker"].job \in DOMAIN jobs /\ jobs[reading["worker"].job].status = "running"

(***************************************************************************)
(* What an actor relies on at each step of reading a statement.            *)
(***************************************************************************)
Relies(a) ==
  /\ Reads(a) # "idle" => Of(a) \in inbox /\ a \in pdfRegime.actors
  /\ Reads(a) \in {"parse", "load", "save"} =>
       /\ reading[a].pages \in inbox
       /\ reading[a].pages # Of(a) => reading[a].pages \in Twins(Of(a))
  /\ Reads(a) \in {"load", "save"} => reading[a].outcome \in {"done", "partial"}
  /\ Reads(a) \in {"ended", "imported", "recorded"} =>
       reading[a].outcome \in IF a = "batch" THEN Outcomes \ {"none"} ELSE Final
  /\ Reads(a) = "save" /\ Alone => reading[a].copy = book
  /\ Reads(a) \in {"imported", "recorded"} => a = "worker"

Employed ==
  /\ queue # <<>> => "worker" \in pdfRegime.actors
  /\ LockHeld \/ timer => "pipeline" \in pdfRegime.actors
  /\ Reads("pipeline") # "idle" => cycle.pc = "work"

Sound ==
  /\ PdfBounded /\ ReadTyped /\ FilesTyped /\ RecordsTyped /\ CopiesTyped /\ CycleTyped
  /\ QueueSound /\ Employed
  /\ \A a \in Actors : Relies(a)

(***************************************************************************)
(* The actors' steps, as changes of one entry of reading.                  *)
(***************************************************************************)
Alters(a, attempt) == reading' = [reading EXCEPT ![a] = attempt]

LEMMA AltersOne ==
  ASSUME ReadTyped, NEW a \in Actors, NEW attempt \in Attempt, Alters(a, attempt)
  PROVE  /\ ReadTyped' /\ reading'[a] = attempt
         /\ \A b \in Actors \ {a} : reading'[b] = reading[b]
  BY DEF ReadTyped, Alters

LEMMA BegunIs ==
  ASSUME NEW f \in Files, NEW j \in Nat
  PROVE  /\ Begun(f) \in Attempt /\ [Begun(f) EXCEPT !.job = j] \in Attempt
         /\ Begun(f).pc = "unlock" /\ Begun(f).file = f
         /\ [Begun(f) EXCEPT !.job = j].pc = "unlock"
         /\ [Begun(f) EXCEPT !.job = j].file = f
         /\ [Begun(f) EXCEPT !.job = j].job = j
         /\ AtRest \in Attempt /\ AtRest.pc = "idle"
  BY DEF Begun, AtRest, Attempt, Outcomes, Final

(***************************************************************************)
(* What the registry says, beyond the properties themselves.               *)
(***************************************************************************)
\* The statement is exported before its attempt is recorded.
Exported(f) == f \in book \/ Twins(f) # {} \/ \E g \in inbox \ {f} : f \in Replaced(g)

ExportSound ==
  Alone =>
    /\ \A f \in Seen \ Empty : Exported(f)
    /\ \A a \in Actors :
         Reads(a) \in {"ended", "imported"} /\ reading[a].outcome = "done" /\ Of(a) \notin Empty
           => Exported(Of(a))

\* The worker imports after every export; the pipeline reads no recorded file
\* again, and imports at the end of a cycle with a success.
WorkerImports ==
  book \subseteq db \/ (Reads("worker") = "ended" /\ reading["worker"].outcome # "error")

PipelineImports ==
  /\ Reads("pipeline") # "idle" => Of("pipeline") \notin cycle.todo
  /\ \A f \in Seen :
       /\ f \notin cycle.todo
       /\ Reads("pipeline") # "idle" => Of("pipeline") # f
       /\ f \in book /\ Twins(f) = {} => f \in db \/ (cycle.pc = "work" /\ cycle.ok)

ImportSound ==
  Alone /\ "batch" \notin pdfRegime.actors /\ faults.seen \cap {"import", "record", "restart"} = {}
    => /\ pdfRegime.actors = {"worker"} => WorkerImports
       /\ pdfRegime.actors = {"pipeline"} => PipelineImports

\* A job that is newer than the record of its file has not been recorded.
Outstanding(f) ==
  \/ \E i \in DOMAIN queue : jobs[queue[i]].file = f
  \/ Reads("worker") \notin {"idle", "recorded"} /\ Of("worker") = f

ShownSound ==
  faults.seen \cap {"record", "restart"} = {} =>
    \A f \in Files :
      /\ registry[f] = StatusOf(last[f])
      /\ latest[f] \/ Outstanding(f) \/ \A j \in DOMAIN jobs : jobs[j].file # f

\* An alert was sent for the record, or for one that a restart prevented.
MonthSound ==
  /\ cycle.pc \in {"alert", "record"} => ~ Notified
  /\ month.alerts <= (IF "restart" \in faults.seen THEN faults.n ELSE 0)
                       + (IF Notified \/ cycle.pc = "record" THEN 1 ELSE 0)

(***************************************************************************)
(* Lemmas about one actor's step.                                          *)
(***************************************************************************)
\* What another actor relies on.
LEMMA OthersRely ==
  ASSUME Sound, NEW b \in Actors, reading'[b] = reading[b], inbox \subseteq inbox', pdfRegime' = pdfRegime,
         Alone => book' = book \/ Reads(b) # "save"
  PROVE  Relies(b)'
  <1>1. Relies(b) /\ Alone' = Alone
    BY DEF Sound, Alone
  <1> QED
    BY <1>1 DEF Relies, Reads, Of, Twins

\* Only one actor is at work.
LEMMA Lonely ==
  ASSUME Sound, Alone, NEW a \in Actors, NEW b \in Actors, Reads(a) # "idle", Reads(b) # "idle"
  PROVE  a = b
  <1>1. {a, b} \subseteq pdfRegime.actors
    BY DEF Sound, Relies
  <1> QED
    BY <1>1 DEF Alone

LEMMA StepSound ==
  ASSUME Sound, NEW a \in Actors, NEW attempt \in Attempt, Alters(a, attempt),
         Reads(a) # "idle", attempt.pc # "idle",
         attempt.file = Of(a), attempt.job = reading[a].job,
         UNCHANGED <<files, bridge, cycle, timer, pdfRegime>>, Relies(a)'
  PROVE  ReadTyped' /\ QueueSound' /\ Employed' /\ \A b \in Actors : Relies(b)'
  <1>1. /\ ReadTyped' /\ reading'[a] = attempt
        /\ \A b \in Actors \ {a} : reading'[b] = reading[b]
    BY AltersOne DEF Sound
  <1>2. UNCHANGED <<inbox, zip, jobs, queue, cycle, timer, pdfRegime>>
    BY DEF files, bridge
  <1>3. "worker" \in Actors /\ "pipeline" \in Actors
    BY DEF Actors
  <1>4. QueueSound'
    <2>1. QueueSound /\ (Reads("worker")' # "idle" <=> Reads("worker") # "idle")
                     /\ reading'["worker"].job = reading["worker"].job
      BY <1>1, <1>3 DEF Sound, Reads
    <2> QED
      BY <2>1, <1>2 DEF QueueSound
  <1>5. Employed'
    BY <1>1, <1>2, <1>3 DEF Sound, Employed, Reads, LockHeld
  <1>6. ASSUME NEW b \in Actors PROVE Relies(b)'
    <2>1. CASE b = a
      BY <2>1
    <2>2. CASE b # a
      <3>1. Alone => Reads(b) # "save"
        BY <2>2, Lonely
      <3> QED
        BY <2>2, <3>1, <1>1, <1>2, OthersRely
    <2> QED
      BY <2>1, <2>2
  <1> QED
    BY <1>1, <1>4, <1>5, <1>6

LEMMA CountTyped ==
  ASSUME PdfBounded, NEW fault \in Faults, Count(fault), pdfRegime' = pdfRegime
  PROVE  PdfBounded'
  BY DEF PdfBounded, Count

LEMMA UnlockSound ==
  ASSUME Sound, NEW a \in Actors, UnlockPdf(a)
  PROVE  Sound'
  <1> DEFINE f == Of(a)
             held == unlocked[Stem[f]]
             pages == IF f \in Locked /\ held # NoFile THEN held ELSE f
             attempt == [reading[a] EXCEPT !.pc = "parse", !.pages = pages]
  <1>1. /\ Reads(a) = "unlock"
        /\ reading' = [reading EXCEPT ![a].pc = "parse", ![a].pages = pages]
        /\ unlocked' = IF f \in Locked THEN [unlocked EXCEPT ![Stem[f]] = pages] ELSE unlocked
        /\ UNCHANGED <<files, book, db, registry, bridge, cycle, timer, month, latest, last,
                       faults, pdfRegime>>
    BY DEF UnlockPdf
  <1>2. reading[a] \in Attempt /\ f \in inbox /\ a \in pdfRegime.actors /\ f \in Files /\ Stem[f] \in Stems
        /\ Relies(a)
    BY <1>1 DEF Sound, ReadTyped, Relies, FilesTyped, Stems
  <1>3. pages \in inbox /\ pages \in Files /\ Stem[pages] = Stem[f] /\ (f \in Locked => pages \in Locked)
        /\ pages # NoFile
    BY <1>2, FilesAssumption DEF Sound, CopiesTyped, FilesTyped
  <1>4. pages # f => pages \in Twins(f)
    BY <1>2, <1>3 DEF Twins
  <1> HIDE DEF pages
  <1>5. /\ attempt \in Attempt /\ attempt.pc = "parse" /\ attempt.pages = pages
        /\ attempt.file = Of(a) /\ attempt.job = reading[a].job
    BY <1>2, <1>3 DEF Attempt, Of
  <1>6. Alters(a, attempt)
    BY <1>1, <1>2 DEF Alters, Sound, ReadTyped
  <1> HIDE DEF attempt
  <1>7. reading'[a] = attempt /\ UNCHANGED <<inbox, zip, pdfRegime>>
    BY <1>1, <1>5, <1>6, AltersOne DEF Sound, files
  <1>8. Relies(a)'
    BY <1>2, <1>3, <1>4, <1>5, <1>7 DEF Relies, Reads, Of, Twins
  <1>9. CopiesTyped'
    BY <1>1, <1>2, <1>3, <1>7 DEF Sound, CopiesTyped
  <1>10. ReadTyped' /\ QueueSound' /\ Employed' /\ \A b \in Actors : Relies(b)'
    BY <1>1, <1>5, <1>6, <1>8, StepSound
  <1>11. PdfBounded' /\ FilesTyped' /\ RecordsTyped' /\ CycleTyped'
    BY <1>1, <1>7 DEF Sound, PdfBounded, FilesTyped, RecordsTyped, CycleTyped
  <1> QED
    BY <1>9, <1>10, <1>11 DEF Sound

LEMMA CannotReadSound ==
  ASSUME Sound, NEW a \in Actors, CannotRead(a)
  PROVE  Sound'
  <1> DEFINE attempt == [reading[a] EXCEPT !.pc = "ended", !.outcome = "error"]
  <1>1. /\ Reads(a) \in {"unlock", "parse", "load", "save"} /\ Count("read")
        /\ reading' = [reading EXCEPT ![a].pc = "ended", ![a].outcome = "error"]
        /\ UNCHANGED <<files, unlocked, book, db, registry, bridge, cycle, timer, month, latest,
                       last, pdfRegime>>
    BY DEF CannotRead, Outcome
  <1>2. reading[a] \in Attempt /\ Relies(a)
    BY DEF Sound, ReadTyped
  <1>3. /\ attempt \in Attempt /\ attempt.pc = "ended" /\ attempt.outcome = "error"
        /\ attempt.file = Of(a) /\ attempt.job = reading[a].job
    BY <1>2 DEF Attempt, Of, Outcomes, Final
  <1>4. Alters(a, attempt)
    BY <1>1, <1>2 DEF Alters, Sound, ReadTyped
  <1> HIDE DEF attempt
  <1>5. reading'[a] = attempt /\ UNCHANGED <<inbox, zip, pdfRegime>>
    BY <1>1, <1>3, <1>4, AltersOne DEF Sound, files
  <1>6. Relies(a)'
    BY <1>1, <1>2, <1>3, <1>5 DEF Relies, Reads, Of, Final, Outcomes
  <1>7. ReadTyped' /\ QueueSound' /\ Employed' /\ \A b \in Actors : Relies(b)'
    BY <1>1, <1>3, <1>4, <1>6, StepSound
  <1>8. PdfBounded'
    BY <1>1, <1>5, CountTyped DEF Sound, Faults
  <1>9. CopiesTyped' /\ FilesTyped' /\ RecordsTyped' /\ CycleTyped'
    BY <1>1, <1>5 DEF Sound, CopiesTyped, FilesTyped, RecordsTyped, CycleTyped
  <1> QED
    BY <1>7, <1>8, <1>9 DEF Sound

LEMMA ParseSound ==
  ASSUME Sound, NEW a \in Actors, ParsePdf(a)
  PROVE  Sound'
  <1>1. PICK outcome \in {"done", "partial"} :
          reading' = [reading EXCEPT ![a].pc = "load", ![a].outcome = outcome]
    BY DEF ParsePdf
  <1> DEFINE attempt == [reading[a] EXCEPT !.pc = "load", !.outcome = outcome]
  <1>2. /\ Reads(a) = "parse" /\ (faults' = faults \/ Count("warn"))
        /\ UNCHANGED <<files, unlocked, book, db, registry, bridge, cycle, timer, month, latest,
                       last, pdfRegime>>
    BY DEF ParsePdf
  <1>3. reading[a] \in Attempt /\ Relies(a)
    BY DEF Sound, ReadTyped
  <1>4. /\ attempt \in Attempt /\ attempt.pc = "load" /\ attempt.outcome = outcome
        /\ attempt.file = Of(a) /\ attempt.job = reading[a].job /\ attempt.pages = reading[a].pages
    BY <1>3 DEF Attempt, Of, Outcomes, Final
  <1>5. Alters(a, attempt)
    BY <1>1, <1>3 DEF Alters, Sound, ReadTyped
  <1> HIDE DEF attempt
  <1>6. reading'[a] = attempt /\ UNCHANGED <<inbox, zip, pdfRegime>>
    BY <1>2, <1>4, <1>5, AltersOne DEF Sound, files
  <1>7. Relies(a)'
    BY <1>2, <1>3, <1>4, <1>6 DEF Relies, Reads, Of, Twins
  <1>8. ReadTyped' /\ QueueSound' /\ Employed' /\ \A b \in Actors : Relies(b)'
    BY <1>2, <1>4, <1>5, <1>7, StepSound
  <1>9. PdfBounded'
    BY <1>2, <1>6, CountTyped DEF Sound, PdfBounded, Faults
  <1>10. CopiesTyped' /\ FilesTyped' /\ RecordsTyped' /\ CycleTyped'
    BY <1>2, <1>6 DEF Sound, CopiesTyped, FilesTyped, RecordsTyped, CycleTyped
  <1> QED
    BY <1>8, <1>9, <1>10 DEF Sound

LEMMA LoadSound ==
  ASSUME Sound, NEW a \in Actors, Load(a)
  PROVE  Sound'
  <1> DEFINE attempt == [reading[a] EXCEPT !.pc = "save", !.copy = book]
  <1>1. /\ Reads(a) = "load"
        /\ reading' = [reading EXCEPT ![a].pc = "save", ![a].copy = book]
        /\ UNCHANGED <<files, unlocked, book, db, registry, bridge, cycle, timer, month, latest,
                       last, faults, pdfRegime>>
    BY DEF Load
  <1>2. reading[a] \in Attempt /\ Relies(a) /\ book \in SUBSET Paid
    BY DEF Sound, ReadTyped, FilesTyped
  <1>3. /\ attempt \in Attempt /\ attempt.pc = "save" /\ attempt.copy = book
        /\ attempt.file = Of(a) /\ attempt.job = reading[a].job
        /\ attempt.pages = reading[a].pages /\ attempt.outcome = reading[a].outcome
    BY <1>2 DEF Attempt, Of
  <1>4. Alters(a, attempt)
    BY <1>1, <1>2 DEF Alters, Sound, ReadTyped
  <1> HIDE DEF attempt
  <1>5. reading'[a] = attempt /\ UNCHANGED <<inbox, zip, pdfRegime, book>>
    BY <1>1, <1>3, <1>4, AltersOne DEF Sound, files
  <1>6. Relies(a)'
    BY <1>1, <1>2, <1>3, <1>5 DEF Relies, Reads, Of, Twins
  <1>7. ReadTyped' /\ QueueSound' /\ Employed' /\ \A b \in Actors : Relies(b)'
    BY <1>1, <1>3, <1>4, <1>6, StepSound
  <1>8. PdfBounded' /\ CopiesTyped' /\ FilesTyped' /\ RecordsTyped' /\ CycleTyped'
    BY <1>1, <1>5 DEF Sound, PdfBounded, CopiesTyped, FilesTyped, RecordsTyped, CycleTyped
  <1> QED
    BY <1>7, <1>8 DEF Sound

\* A step that moves an actor on.
LEMMA StepIs ==
  ASSUME ReadTyped, NEW a \in Actors, NEW pc \in {"ended", "imported", "recorded"}, Step(a, pc)
  PROVE  LET attempt == [reading[a] EXCEPT !.pc = pc]
         IN  /\ attempt \in Attempt /\ attempt.pc = pc /\ attempt.outcome = reading[a].outcome
             /\ attempt.file = Of(a) /\ attempt.job = reading[a].job
             /\ Alters(a, attempt)
  BY DEF ReadTyped, Attempt, Step, Alters, Of

LEMMA SaveSound ==
  ASSUME Sound, NEW a \in Actors, Save(a)
  PROVE  Sound'
  <1> DEFINE attempt == [reading[a] EXCEPT !.pc = "ended"]
             f == reading[a].pages
  <1>1. /\ Reads(a) = "save" /\ Step(a, "ended")
        /\ book' = (reading[a].copy \ Replaced(f)) \cup ({f} \ Empty)
        /\ UNCHANGED <<files, unlocked, db, registry, bridge, cycle, timer, month, latest, last,
                       faults, pdfRegime>>
    BY DEF Save
  <1>2. reading[a] \in Attempt /\ Relies(a) /\ f \in Files /\ reading[a].copy \in SUBSET Paid
    BY <1>1 DEF Sound, ReadTyped, Relies, FilesTyped, Attempt
  <1>3. /\ attempt \in Attempt /\ attempt.pc = "ended" /\ attempt.outcome = reading[a].outcome
        /\ attempt.file = Of(a) /\ attempt.job = reading[a].job /\ Alters(a, attempt)
    BY <1>1, StepIs DEF Sound
  <1> HIDE DEF attempt
  <1>4. reading'[a] = attempt /\ UNCHANGED <<inbox, zip, pdfRegime>>
    BY <1>1, <1>3, AltersOne DEF Sound, files
  <1>5. Relies(a)'
    BY <1>1, <1>2, <1>3, <1>4 DEF Relies, Reads, Of, Final, Outcomes
  <1>6. ReadTyped' /\ QueueSound' /\ Employed' /\ \A b \in Actors : Relies(b)'
    BY <1>1, <1>3, <1>5, StepSound
  <1>7. FilesTyped'
    BY <1>1, <1>2, <1>4 DEF Sound, FilesTyped, Paid
  <1>8. PdfBounded' /\ CopiesTyped' /\ RecordsTyped' /\ CycleTyped'
    BY <1>1, <1>4 DEF Sound, PdfBounded, CopiesTyped, RecordsTyped, CycleTyped
  <1> QED
    BY <1>6, <1>7, <1>8 DEF Sound

(***************************************************************************)
(* The job worker.                                                         *)
(***************************************************************************)
\* Nobody reads on, and nothing they rely on changes.
LEMMA AllRely ==
  ASSUME Sound, UNCHANGED reading, inbox \subseteq inbox', pdfRegime' = pdfRegime, book' = book
  PROVE  ReadTyped' /\ \A b \in Actors : Relies(b)'
  BY OthersRely DEF Sound, ReadTyped

LEMMA ProcessFileSound ==
  ASSUME Sound, NEW f \in Files, ProcessFile(f)
  PROVE  Sound'
  <1> DEFINE job == [file |-> f, status |-> "pending"]
  <1>1. /\ "worker" \in pdfRegime.actors /\ f \in inbox
        /\ jobs' = Append(jobs, job) /\ queue' = Append(queue, Len(jobs'))
        /\ latest' = [latest EXCEPT ![f] = FALSE]
        /\ UNCHANGED <<files, unlocked, book, db, registry, reading, cycle, timer, month,
                       last, faults, pdfRegime>>
    BY DEF ProcessFile
  <1>2. job \in Job /\ job.file = f /\ job.status = "pending"
    BY DEF Job, Statuses
  <1> HIDE DEF job
  <1>3. UNCHANGED <<inbox, zip, pdfRegime, reading>> /\ QueueSound
    BY <1>1 DEF Sound, files
  <1>4. /\ jobs' \in Seq(Job) /\ Len(jobs') = Len(jobs) + 1 /\ Len(jobs) \in Nat
        /\ DOMAIN jobs = 1 .. Len(jobs) /\ DOMAIN jobs' = 1 .. Len(jobs')
        /\ \A j \in DOMAIN jobs : jobs'[j] = jobs[j]
        /\ jobs'[Len(jobs')] = job
    BY <1>1, <1>2, <1>3 DEF QueueSound
  <1>5. /\ queue' \in Seq(Nat) /\ Len(queue') = Len(queue) + 1 /\ Len(queue) \in Nat
        /\ DOMAIN queue = 1 .. Len(queue) /\ DOMAIN queue' = 1 .. Len(queue')
        /\ \A i \in DOMAIN queue : queue'[i] = queue[i]
        /\ queue'[Len(queue')] = Len(jobs')
    BY <1>1, <1>3, <1>4 DEF QueueSound
  <1>6. QueueSound'
    <2>1. \A j \in DOMAIN jobs' : jobs'[j].file \in inbox'
      BY <1>1, <1>2, <1>3, <1>4 DEF QueueSound
    <2>2. \A i \in DOMAIN queue' :
            queue'[i] \in DOMAIN jobs' /\ jobs'[queue'[i]].status = "pending"
      <3> TAKE i \in DOMAIN queue'
      <3>1. CASE i \in DOMAIN queue
        <4>1. queue'[i] = queue[i] /\ queue[i] \in DOMAIN jobs /\ jobs[queue[i]].status = "pending"
          BY <3>1, <1>3, <1>5 DEF QueueSound
        <4>2. jobs'[queue[i]] = jobs[queue[i]] /\ queue[i] \in DOMAIN jobs'
          BY <4>1, <1>4
        <4> QED
          BY <4>1, <4>2
      <3>2. CASE i = Len(queue')
        BY <3>2, <1>2, <1>4, <1>5
      <3> QED
        BY <3>1, <3>2, <1>5
    <2>3. \A i, k \in DOMAIN queue' : i < k => queue'[i] < queue'[k]
      <3> TAKE i, k \in DOMAIN queue'
      <3>1. i < k => i \in DOMAIN queue
        BY <1>5
      <3>2. CASE k \in DOMAIN queue
        <4>1. i < k => queue[i] < queue[k]
          BY <3>1, <3>2, <1>3 DEF QueueSound
        <4> QED
          BY <3>1, <3>2, <4>1, <1>5
      <3>3. CASE k = Len(queue')
        <4>1. i \in DOMAIN queue => queue[i] \in 1 .. Len(jobs) /\ queue'[i] = queue[i]
          BY <1>3, <1>4, <1>5 DEF QueueSound
        <4> QED
          BY <3>1, <3>3, <4>1, <1>4, <1>5
      <3> QED
        BY <3>2, <3>3, <1>5
    <2>4. Reads("worker")' # "idle" =>
            reading'["worker"].job \in DOMAIN jobs' /\ jobs'[reading'["worker"].job].status = "running"
      BY <1>3, <1>4 DEF QueueSound, Reads
    <2> QED
      BY <1>4, <1>5, <2>1, <2>2, <2>3, <2>4 DEF QueueSound
  <1>7. Employed'
    BY <1>1, <1>3 DEF Sound, Employed, Reads, LockHeld
  <1>8. ReadTyped' /\ \A b \in Actors : Relies(b)'
    BY <1>1, <1>3, AllRely
  <1>9. PdfBounded' /\ FilesTyped' /\ RecordsTyped' /\ CopiesTyped' /\ CycleTyped'
    BY <1>1, <1>3 DEF Sound, PdfBounded, FilesTyped, RecordsTyped, CopiesTyped, CycleTyped
  <1> QED
    BY <1>6, <1>7, <1>8, <1>9 DEF Sound

LEMMA RunJobSound ==
  ASSUME Sound, RunJob
  PROVE  Sound'
  <1> DEFINE j == Head(queue)
             job == [jobs[j] EXCEPT !.status = "running"]
             attempt == [Begun(jobs[j].file) EXCEPT !.job = j]
  <1>1. /\ Reads("worker") = "idle" /\ queue # <<>> /\ queue' = Tail(queue)
        /\ jobs' = [jobs EXCEPT ![j].status = "running"]
        /\ reading' = [reading EXCEPT !["worker"] = attempt]
        /\ UNCHANGED <<files, unlocked, book, db, registry, cycle, timer, month, latest, last,
                       faults, pdfRegime>>
    BY DEF RunJob
  <1>2. UNCHANGED <<inbox, zip, pdfRegime>> /\ QueueSound /\ "worker" \in Actors /\ "pipeline" \in Actors
    BY <1>1 DEF Sound, files, Actors
  <1>3. /\ j = queue[1] /\ 1 \in DOMAIN queue /\ j \in Nat /\ j \in DOMAIN jobs
        /\ Len(queue') = Len(queue) - 1 /\ queue' \in Seq(Nat) /\ Len(queue) \in Nat \ {0}
        /\ DOMAIN queue = 1 .. Len(queue) /\ DOMAIN queue' = 1 .. Len(queue')
        /\ \A i \in DOMAIN queue' : queue'[i] = queue[i + 1] /\ i + 1 \in DOMAIN queue
    BY <1>1, <1>2 DEF QueueSound
  <1>4. jobs[j] \in Job /\ jobs[j].file \in inbox /\ jobs[j].file \in Files /\ jobs[j].status = "pending"
    <2>1. jobs[j] \in Job /\ jobs[j].file \in inbox
      BY <1>2, <1>3 DEF QueueSound
    <2>2. jobs[queue[1]].status = "pending"
      BY <1>2, <1>3 DEF QueueSound
    <2> QED
      BY <1>3, <2>1, <2>2 DEF Job
  <1>5. job \in Job /\ job.file = jobs[j].file /\ job.status = "running"
    BY <1>4 DEF Job, Statuses
  <1>6. jobs' = [jobs EXCEPT ![j] = job]
    BY <1>1, <1>3
  <1>7. /\ attempt \in Attempt /\ attempt.pc = "unlock" /\ attempt.file = jobs[j].file
        /\ attempt.job = j /\ Alters("worker", attempt)
    BY <1>1, <1>3, <1>4, BegunIs DEF Alters
  <1> HIDE DEF job, attempt, j
  <1>8. /\ jobs' \in Seq(Job) /\ DOMAIN jobs' = DOMAIN jobs /\ jobs'[j] = job
        /\ \A k \in DOMAIN jobs : k # j => jobs'[k] = jobs[k]
    BY <1>2, <1>3, <1>5, <1>6 DEF QueueSound
  <1>9. /\ ReadTyped' /\ reading'["worker"] = attempt
        /\ \A b \in Actors \ {"worker"} : reading'[b] = reading[b]
    BY <1>2, <1>7, AltersOne DEF Sound
  <1>10. QueueSound'
    <2>1. \A k \in DOMAIN jobs' : jobs'[k].file \in inbox'
      BY <1>2, <1>4, <1>5, <1>8 DEF QueueSound
    <2>2. \A i \in DOMAIN queue' : queue'[i] # j /\ queue'[i] \in DOMAIN jobs /\ jobs[queue'[i]].status = "pending"
      <3> TAKE i \in DOMAIN queue'
      <3>1. i + 1 \in DOMAIN queue /\ queue'[i] = queue[i + 1] /\ 1 < i + 1
        BY <1>3
      <3>2. queue[1] < queue[i + 1] /\ queue[i + 1] \in DOMAIN jobs /\ jobs[queue[i + 1]].status = "pending"
        BY <3>1, <1>2, <1>3 DEF QueueSound
      <3>3. queue[i + 1] \in Nat
        BY <3>1, <1>2 DEF QueueSound
      <3> QED
        BY <3>1, <3>2, <3>3, <1>3
    <2>3. \A i, k \in DOMAIN queue' : i < k => queue'[i] < queue'[k]
      <3> TAKE i, k \in DOMAIN queue'
      <3>1. /\ i + 1 \in DOMAIN queue /\ queue'[i] = queue[i + 1]
            /\ k + 1 \in DOMAIN queue /\ queue'[k] = queue[k + 1]
        BY <1>3
      <3>2. i + 1 < k + 1 => queue[i + 1] < queue[k + 1]
        BY <3>1, <1>2 DEF QueueSound
      <3>3. i < k => i + 1 < k + 1
        BY <1>3
      <3> QED
        BY <3>1, <3>2, <3>3
    <2>4. Reads("worker")' # "idle" =>
            reading'["worker"].job \in DOMAIN jobs' /\ jobs'[reading'["worker"].job].status = "running"
      BY <1>3, <1>5, <1>7, <1>8, <1>9
    <2> QED
      BY <1>3, <1>8, <2>1, <2>2, <2>3, <2>4 DEF QueueSound
  <1>11. Employed' /\ "worker" \in pdfRegime.actors
    <2>1. "worker" \in pdfRegime.actors
      BY <1>1 DEF Sound, Employed
    <2> QED
      BY <1>1, <1>2, <1>9, <2>1 DEF Sound, Employed, Reads, LockHeld
  <1>12. ASSUME NEW b \in Actors PROVE Relies(b)'
    <2>1. CASE b = "worker"
      BY <2>1, <1>2, <1>4, <1>7, <1>9, <1>11 DEF Relies, Reads, Of
    <2>2. CASE b # "worker"
      BY <2>2, <1>1, <1>2, <1>9, OthersRely
    <2> QED
      BY <2>1, <2>2
  <1>13. PdfBounded' /\ FilesTyped' /\ RecordsTyped' /\ CopiesTyped' /\ CycleTyped'
    BY <1>1, <1>2 DEF Sound, PdfBounded, FilesTyped, RecordsTyped, CopiesTyped, CycleTyped
  <1> QED
    BY <1>9, <1>10, <1>11, <1>12, <1>13 DEF Sound

LEMMA ImportJobSound ==
  ASSUME Sound, ImportJob
  PROVE  Sound'
  <1>1. /\ Reads("worker") = "ended" /\ (faults' = faults \/ Count("import"))
        /\ (db' = db \/ db' = db \cup book)
        /\ UNCHANGED <<files, unlocked, book, registry, bridge, cycle, timer, month, latest,
                       last, pdfRegime>>
    BY DEF ImportJob
  <1>2. "worker" \in Actors /\ reading["worker"] \in Attempt /\ Relies("worker")
    BY DEF Actors, Sound, ReadTyped
  <1>3. PICK outcome \in {reading["worker"].outcome, "error"} :
          reading' = [reading EXCEPT !["worker"] =
                        [reading["worker"] EXCEPT !.pc = "imported", !.outcome = outcome]]
    <2>1. reading["worker"] = [reading["worker"] EXCEPT !.outcome = reading["worker"].outcome]
      BY <1>2 DEF Attempt
    <2>2. CASE Step("worker", "imported")
      BY <2>1, <2>2, <1>2 DEF Step, Sound, ReadTyped, Attempt
    <2>3. CASE reading' = [reading EXCEPT !["worker"].pc = "imported", !["worker"].outcome = "error"]
      BY <2>3, <1>2 DEF Sound, ReadTyped
    <2> QED
      BY <2>2, <2>3 DEF ImportJob
  <1> DEFINE attempt == [reading["worker"] EXCEPT !.pc = "imported", !.outcome = outcome]
  <1>4. outcome \in Final
    BY <1>1, <1>2 DEF Relies, Final
  <1>5. /\ attempt \in Attempt /\ attempt.pc = "imported" /\ attempt.outcome = outcome
        /\ attempt.file = Of("worker") /\ attempt.job = reading["worker"].job
    BY <1>2, <1>4 DEF Attempt, Of, Outcomes, Final
  <1>6. Alters("worker", attempt)
    BY <1>3 DEF Alters
  <1> HIDE DEF attempt
  <1>7. reading'["worker"] = attempt /\ UNCHANGED <<inbox, zip, pdfRegime>>
    BY <1>1, <1>2, <1>5, <1>6, AltersOne DEF Sound, files
  <1>8. Relies("worker")'
    BY <1>1, <1>2, <1>4, <1>5, <1>7 DEF Relies, Reads, Of
  <1>9. ReadTyped' /\ QueueSound' /\ Employed' /\ \A b \in Actors : Relies(b)'
    BY <1>1, <1>2, <1>5, <1>6, <1>8, StepSound
  <1>10. PdfBounded'
    BY <1>1, <1>7, CountTyped DEF Sound, PdfBounded, Faults
  <1>11. FilesTyped' /\ CopiesTyped' /\ RecordsTyped' /\ CycleTyped'
    BY <1>1, <1>7 DEF Sound, CopiesTyped, FilesTyped, RecordsTyped, CycleTyped
  <1> QED
    BY <1>9, <1>10, <1>11 DEF Sound

LEMMA RecordTyped ==
  ASSUME RecordsTyped, NEW f \in Files, NEW status \in {"ok", "partial", "error", "dry-run"},
         NEW outcome \in Outcomes,
         Record(f, status) \/ UNCHANGED <<registry, latest>>, last' = [last EXCEPT ![f] = outcome]
  PROVE  RecordsTyped'
  BY DEF RecordsTyped, Record

LEMMA RecordJobSound ==
  ASSUME Sound, RecordJob
  PROVE  Sound'
  <1> DEFINE attempt == [reading["worker"] EXCEPT !.pc = "recorded"]
             f == Of("worker")
             outcome == reading["worker"].outcome
  <1>1. /\ Reads("worker") = "imported" /\ (faults' = faults \/ Count("record"))
        /\ Record(f, StatusOf(outcome)) \/ UNCHANGED <<registry, latest>>
        /\ last' = [last EXCEPT ![f] = outcome]
        /\ Step("worker", "recorded")
        /\ UNCHANGED <<files, unlocked, book, db, bridge, cycle, timer, month, pdfRegime>>
    BY DEF RecordJob
  <1>2. "worker" \in Actors /\ reading["worker"] \in Attempt /\ Relies("worker")
    BY DEF Actors, Sound, ReadTyped
  <1>3. f \in Files /\ outcome \in Final
    BY <1>1, <1>2 DEF Relies, Sound, FilesTyped
  <1>4. RecordsTyped'
    BY <1>1, <1>3, RecordTyped DEF Sound, StatusOf, Final, Outcomes
  <1>5. /\ attempt \in Attempt /\ attempt.pc = "recorded" /\ attempt.outcome = outcome
        /\ attempt.file = Of("worker") /\ attempt.job = reading["worker"].job
        /\ Alters("worker", attempt)
    BY <1>1, <1>2, StepIs DEF Sound
  <1> HIDE DEF attempt
  <1>6. reading'["worker"] = attempt /\ UNCHANGED <<inbox, zip, pdfRegime>>
    BY <1>1, <1>2, <1>5, AltersOne DEF Sound, files
  <1>7. Relies("worker")'
    BY <1>1, <1>2, <1>3, <1>5, <1>6 DEF Relies, Reads, Of
  <1>8. ReadTyped' /\ QueueSound' /\ Employed' /\ \A b \in Actors : Relies(b)'
    BY <1>1, <1>2, <1>5, <1>7, StepSound
  <1>9. PdfBounded'
    BY <1>1, <1>6, CountTyped DEF Sound, PdfBounded, Faults
  <1>10. FilesTyped' /\ CopiesTyped' /\ CycleTyped'
    BY <1>1, <1>6 DEF Sound, CopiesTyped, FilesTyped, CycleTyped
  <1> QED
    BY <1>4, <1>8, <1>9, <1>10 DEF Sound

\* An actor that is done.
LEMMA EndRelies ==
  ASSUME Sound, NEW a \in Actors, reading' = [reading EXCEPT ![a] = AtRest],
         UNCHANGED <<inbox, pdfRegime, book>>
  PROVE  /\ ReadTyped' /\ reading'[a] = AtRest /\ AtRest.pc = "idle"
         /\ \A b \in Actors \ {a} : reading'[b] = reading[b]
         /\ \A b \in Actors : Relies(b)'
  <1>1. AtRest \in Attempt /\ AtRest.pc = "idle"
    BY DEF AtRest, Attempt, Outcomes, Final
  <1>2. /\ ReadTyped' /\ reading'[a] = AtRest
        /\ \A b \in Actors \ {a} : reading'[b] = reading[b]
    BY <1>1, AltersOne DEF Sound, Alters
  <1>3. Relies(a)'
    BY <1>1, <1>2 DEF Relies, Reads
  <1>4. ASSUME NEW b \in Actors \ {a} PROVE Relies(b)'
    BY <1>2, <1>4, OthersRely
  <1> QED
    BY <1>1, <1>2, <1>3, <1>4

LEMMA EndJobSound ==
  ASSUME Sound, EndJob
  PROVE  Sound'
  <1> DEFINE j == reading["worker"].job
             outcome == reading["worker"].outcome
             job == [jobs[j] EXCEPT !.status = outcome]
  <1>1. /\ Reads("worker") = "recorded"
        /\ jobs' = [jobs EXCEPT ![j].status = outcome]
        /\ reading' = [reading EXCEPT !["worker"] = AtRest]
        /\ UNCHANGED <<files, unlocked, book, db, registry, queue, cycle, timer, month, latest,
                       last, faults, pdfRegime>>
    BY DEF EndJob
  <1>2. UNCHANGED <<inbox, zip, pdfRegime>> /\ QueueSound /\ "worker" \in Actors /\ "pipeline" \in Actors
    BY <1>1 DEF Sound, files, Actors
  <1>3. outcome \in Final /\ j \in DOMAIN jobs /\ jobs[j].status = "running" /\ jobs[j] \in Job
    BY <1>1, <1>2 DEF Sound, Relies, QueueSound
  <1>4. job \in Job /\ job.file = jobs[j].file
    BY <1>3 DEF Job, Statuses
  <1>5. jobs' = [jobs EXCEPT ![j] = job]
    BY <1>1, <1>3
  <1> HIDE DEF job, j
  <1>6. /\ jobs' \in Seq(Job) /\ DOMAIN jobs' = DOMAIN jobs /\ jobs'[j] = job
        /\ \A k \in DOMAIN jobs : k # j => jobs'[k] = jobs[k]
    BY <1>2, <1>3, <1>4, <1>5 DEF QueueSound
  <1>7. /\ ReadTyped' /\ reading'["worker"] = AtRest /\ AtRest.pc = "idle"
        /\ \A b \in Actors \ {"worker"} : reading'[b] = reading[b]
        /\ \A b \in Actors : Relies(b)'
    BY <1>1, <1>2, EndRelies
  <1>8. QueueSound'
    <2>1. \A k \in DOMAIN jobs' : jobs'[k].file \in inbox'
      BY <1>2, <1>3, <1>4, <1>6 DEF QueueSound
    <2>2. \A i \in DOMAIN queue :
            queue[i] # j /\ queue[i] \in DOMAIN jobs /\ jobs[queue[i]].status = "pending"
      BY <1>2, <1>3 DEF QueueSound
    <2>3. \A i \in DOMAIN queue : queue[i] \in DOMAIN jobs' /\ jobs'[queue[i]].status = "pending"
      BY <1>6, <2>2
    <2>4. Reads("worker")' = "idle" /\ queue' = queue
      BY <1>1, <1>7 DEF Reads
    <2>5. queue \in Seq(Nat) /\ \A i, k \in DOMAIN queue : i < k => queue[i] < queue[k]
      BY <1>2 DEF QueueSound
    <2> QED
      BY <1>6, <2>1, <2>3, <2>4, <2>5 DEF QueueSound
  <1>9. Employed'
    BY <1>1, <1>2, <1>7 DEF Sound, Employed, Reads, LockHeld
  <1>10. PdfBounded' /\ FilesTyped' /\ RecordsTyped' /\ CopiesTyped' /\ CycleTyped'
    BY <1>1, <1>2 DEF Sound, PdfBounded, FilesTyped, RecordsTyped, CopiesTyped, CycleTyped
  <1> QED
    BY <1>7, <1>8, <1>9, <1>10 DEF Sound

(***************************************************************************)
(* The pipeline.                                                           *)
(***************************************************************************)
\* A step that changes the cycle, the timer, the month or the database.
LEMMA CycleSound ==
  ASSUME Sound, UNCHANGED <<files, unlocked, book, registry, bridge, reading, latest, last, pdfRegime>>,
         db' = db \/ db' = db \cup book,
         CycleTyped', PdfBounded',
         cycle'.pc # "off" \/ timer' => "pipeline" \in pdfRegime.actors,
         Reads("pipeline") = "idle" \/ cycle' = cycle
  PROVE  Sound'
  <1>1. UNCHANGED <<inbox, zip, jobs, queue, pdfRegime, reading, unlocked, book, registry, latest, last>>
    BY DEF files, bridge
  <1>2. QueueSound'
    BY <1>1 DEF Sound, QueueSound, Reads
  <1>3. Employed'
    BY <1>1 DEF Sound, Employed, Reads, LockHeld
  <1>4. ReadTyped' /\ \A b \in Actors : Relies(b)'
    BY <1>1, AllRely
  <1>5. FilesTyped' /\ RecordsTyped' /\ CopiesTyped'
    BY <1>1 DEF Sound, FilesTyped, RecordsTyped, CopiesTyped
  <1> QED
    BY <1>2, <1>3, <1>4, <1>5 DEF Sound

LEMMA OffTyped ==
  ASSUME NEW pc \in CyclePcs
  PROVE  /\ [Off EXCEPT !.pc = pc] \in [pc : CyclePcs, unseen : SUBSET inbox, todo : SUBSET inbox, ok : BOOLEAN]
         /\ [Off EXCEPT !.pc = pc].pc = pc
         /\ Off \in [pc : CyclePcs, unseen : SUBSET inbox, todo : SUBSET inbox, ok : BOOLEAN]
         /\ Off.pc = "off" /\ Off.todo = {} /\ [Off EXCEPT !.pc = pc].todo = {}
  BY DEF Off, CyclePcs

LEMMA StartsSound ==
  ASSUME Sound, Trigger \/ Scheduled
  PROVE  Sound'
  <1>1. /\ UNCHANGED <<files, unlocked, book, db, registry, bridge, reading, month, latest, last,
                       faults, pdfRegime>>
        /\ timer' \in {timer, FALSE}
        /\ cycle' = cycle \/ (~ LockHeld /\ Acquire)
        /\ "pipeline" \in pdfRegime.actors
    <2>1. CASE Trigger
      BY <2>1 DEF Trigger
    <2>2. CASE Scheduled
      BY <2>2 DEF Scheduled, Sound, Employed
    <2> QED
      BY <2>1, <2>2
  <1>2. CycleTyped' /\ PdfBounded' /\ UNCHANGED inbox
    BY <1>1, OffTyped DEF Sound, CycleTyped, PdfBounded, files, Acquire, CyclePcs
  <1>3. Reads("pipeline") = "idle" \/ cycle' = cycle
    BY <1>1 DEF Sound, Employed, LockHeld
  <1> QED
    BY <1>1, <1>2, <1>3, CycleSound

\* A step of a cycle that reads no file meanwhile.
LEMMA CycleStepsSound ==
  ASSUME Sound,
         StartCycle \/ Look \/ ImportCycle \/ FindCompleted \/ SendCompleted
           \/ RecordCompleted \/ FinishCycle
  PROVE  Sound'
  <1>1. /\ UNCHANGED <<files, unlocked, book, registry, bridge, reading, latest, last, pdfRegime>>
        /\ db' = db \/ db' = db \cup book
        /\ cycle.pc # "off"
    BY DEF StartCycle, Look, ImportCycle, FindCompleted, SendCompleted, RecordCompleted, FinishCycle
  <1>2. /\ UNCHANGED inbox /\ cycle \in [pc : CyclePcs, unseen : SUBSET inbox, todo : SUBSET inbox, ok : BOOLEAN]
        /\ timer \in BOOLEAN /\ month \in [notified : BOOLEAN, alerts : Nat]
        /\ "pipeline" \in pdfRegime.actors
    BY <1>1 DEF Sound, CycleTyped, files, Employed, LockHeld
  <1>3. Reads("pipeline") = "idle"
    BY DEF Sound, Employed, StartCycle, Look, ImportCycle, FindCompleted, SendCompleted,
           RecordCompleted, FinishCycle
  <1>4. CycleTyped'
    <2> USE <1>2 DEF CycleTyped, CyclePcs
    <2>1. CASE StartCycle
      <3>1. CASE cycle' = [cycle EXCEPT !.pc = "scan", !.unseen = inbox]
        BY <2>1, <3>1 DEF StartCycle
      <3>2. CASE cycle' = [cycle EXCEPT !.pc = "dead"]
        BY <2>1, <3>2 DEF StartCycle
      <3> QED
        BY <2>1, <3>1, <3>2 DEF StartCycle
    <2>2. CASE Look
      <3>1. CASE cycle' = [cycle EXCEPT !.pc = "work"]
        BY <2>2, <3>1 DEF Look
      <3>2. ASSUME NEW f \in cycle.unseen,
                   cycle' = [cycle EXCEPT !.unseen = @ \ {f}, !.todo = @ \cup ({f} \ Seen)]
            PROVE  CycleTyped'
        <4>1. cycle.unseen \ {f} \subseteq inbox /\ cycle.todo \cup ({f} \ Seen) \subseteq inbox
          OBVIOUS
        <4> QED
          BY <2>2, <3>2, <4>1 DEF Look
      <3> QED
        BY <2>2, <3>1, <3>2 DEF Look
    <2>3. CASE ImportCycle \/ FindCompleted
      <3>1. PICK pc \in {"months", "alert", "finish"} : cycle' = [cycle EXCEPT !.pc = pc]
        BY <2>3 DEF ImportCycle, FindCompleted
      <3>2. UNCHANGED <<timer, month>>
        BY <2>3 DEF ImportCycle, FindCompleted
      <3> QED
        BY <3>1, <3>2
    <2>4. CASE SendCompleted
      BY <2>4 DEF SendCompleted
    <2>5. CASE RecordCompleted
      BY <2>5 DEF RecordCompleted
    <2>6. CASE FinishCycle
      BY <2>6, OffTyped DEF FinishCycle
    <2> QED
      BY <2>1, <2>2, <2>3, <2>4, <2>5, <2>6
  <1>5. PdfBounded'
    <2>1. faults' = faults \/ \E fault \in Faults : Count(fault)
      BY DEF StartCycle, Look, ImportCycle, FindCompleted, SendCompleted, RecordCompleted,
             FinishCycle, Faults
    <2> QED
      BY <2>1, <1>1, CountTyped DEF Sound, PdfBounded
  <1> QED
    BY <1>1, <1>2, <1>3, <1>4, <1>5, CycleSound

\* An actor that takes up a file.
LEMMA BeginSound ==
  ASSUME Sound, NEW a \in Actors \ {"worker"}, NEW f \in inbox,
         reading' = [reading EXCEPT ![a] = Begun(f)], a \in pdfRegime.actors,
         UNCHANGED <<files, unlocked, book, db, registry, bridge, timer, month, latest, last,
                     faults, pdfRegime>>,
         CycleTyped', LockHeld' => LockHeld,
         Reads("pipeline") = "idle" \/ cycle' = cycle,
         a = "pipeline" => cycle'.pc = "work"
  PROVE  Sound'
  <1>1. UNCHANGED <<inbox, zip, jobs, queue, book, pdfRegime>> /\ f \in Files
    BY DEF files, bridge, Sound, FilesTyped
  <1>2. Begun(f) \in Attempt /\ Begun(f).pc = "unlock" /\ Begun(f).file = f
    BY <1>1, BegunIs
  <1>3. /\ ReadTyped' /\ reading'[a] = Begun(f)
        /\ \A b \in Actors \ {a} : reading'[b] = reading[b]
    BY <1>2, AltersOne DEF Sound, Alters
  <1>4. "worker" \in Actors /\ "pipeline" \in Actors
    BY DEF Actors
  <1>5. QueueSound'
    BY <1>1, <1>3, <1>4 DEF Sound, QueueSound, Reads
  <1>6. Employed'
    BY <1>1, <1>3, <1>4 DEF Sound, Employed, Reads, LockHeld
  <1>7. Relies(a)'
    BY <1>1, <1>2, <1>3 DEF Relies, Reads, Of
  <1>8. ASSUME NEW b \in Actors \ {a} PROVE Relies(b)'
    BY <1>1, <1>3, OthersRely
  <1>9. FilesTyped' /\ RecordsTyped' /\ CopiesTyped' /\ PdfBounded'
    BY <1>1 DEF Sound, FilesTyped, RecordsTyped, CopiesTyped, PdfBounded
  <1> QED
    BY <1>3, <1>5, <1>6, <1>7, <1>8, <1>9 DEF Sound

LEMMA TakeSound ==
  ASSUME Sound, Take
  PROVE  Sound'
  <1>1. PICK f \in cycle.todo :
          /\ reading' = [reading EXCEPT !["pipeline"] = Begun(f)]
          /\ cycle' = [cycle EXCEPT !.todo = @ \ {f}]
    BY DEF Take
  <1>2. /\ cycle.pc = "work" /\ Reads("pipeline") = "idle"
        /\ UNCHANGED <<files, unlocked, book, db, registry, bridge, timer, month, latest, last,
                       faults, pdfRegime>>
    BY DEF Take
  <1>3. /\ cycle \in [pc : CyclePcs, unseen : SUBSET inbox, todo : SUBSET inbox, ok : BOOLEAN]
        /\ UNCHANGED inbox /\ "pipeline" \in pdfRegime.actors
    BY <1>2 DEF Sound, CycleTyped, files, Employed, LockHeld
  <1>4. CycleTyped' /\ cycle'.pc = "work" /\ f \in inbox
    BY <1>1, <1>2, <1>3 DEF Sound, CycleTyped
  <1> QED
    BY <1>1, <1>2, <1>3, <1>4, BeginSound DEF Actors, LockHeld

LEMMA RecordFileSound ==
  ASSUME Sound, RecordFile
  PROVE  Sound'
  <1> DEFINE f == Of("pipeline")
             verdict == Verdict(reading["pipeline"].outcome)
  <1>1. /\ Reads("pipeline") = "ended" /\ (faults' = faults \/ Count("record"))
        /\ Record(f, verdict) \/ UNCHANGED <<registry, latest>>
        /\ last' = [last EXCEPT ![f] = IF verdict = "ok" THEN "done" ELSE "error"]
        /\ \/ cycle' = [cycle EXCEPT !.ok = OkAfter(verdict)]
           \/ cycle' = [cycle EXCEPT !.pc = "finish"]
        /\ reading' = [reading EXCEPT !["pipeline"] = AtRest]
        /\ UNCHANGED <<files, unlocked, book, db, bridge, timer, month, pdfRegime>>
    BY DEF RecordFile
  <1>2. /\ "pipeline" \in Actors /\ "worker" \in Actors /\ verdict \in {"ok", "error"}
        /\ UNCHANGED <<inbox, zip, jobs, queue, book, pdfRegime>>
    BY <1>1 DEF Actors, Verdict, files, bridge
  <1>3. f \in Files /\ "pipeline" \in pdfRegime.actors /\ cycle.pc = "work"
    BY <1>1, <1>2 DEF Sound, Relies, FilesTyped, Employed
  <1>4. /\ ReadTyped' /\ reading'["pipeline"] = AtRest /\ AtRest.pc = "idle"
        /\ \A b \in Actors \ {"pipeline"} : reading'[b] = reading[b]
        /\ \A b \in Actors : Relies(b)'
    BY <1>1, <1>2, EndRelies
  <1>5. RecordsTyped'
    <2>1. (IF verdict = "ok" THEN "done" ELSE "error") \in Outcomes
      BY DEF Outcomes, Final
    <2> QED
      BY <2>1, <1>1, <1>2, <1>3, RecordTyped DEF Sound
  <1>6. CycleTyped'
    BY <1>1, <1>2, <1>3 DEF Sound, CycleTyped, OkAfter, CyclePcs
  <1>7. QueueSound'
    BY <1>2, <1>4 DEF Sound, QueueSound, Reads
  <1>8. Employed'
    BY <1>1, <1>2, <1>3, <1>4 DEF Sound, Employed, Reads, LockHeld
  <1>9. PdfBounded'
    BY <1>1, <1>2, CountTyped DEF Sound, PdfBounded, Faults
  <1>10. FilesTyped' /\ CopiesTyped'
    BY <1>1, <1>2 DEF Sound, FilesTyped, CopiesTyped
  <1> QED
    BY <1>4, <1>5, <1>6, <1>7, <1>8, <1>9, <1>10 DEF Sound

(***************************************************************************)
(* Arrivals, the batch script, and a restart of the bridge.                *)
(***************************************************************************)
LEMMA InboxGrowsSound ==
  ASSUME Sound, inbox \subseteq inbox', inbox' \subseteq Files, zip' \in {"none", "ok", "error"},
         UNCHANGED <<unlocked, book, db, registry, bridge, reading, cycle, timer, month,
                     latest, last, pdfRegime>>,
         PdfBounded'
  PROVE  Sound'
  <1>1. UNCHANGED <<jobs, queue>>
    BY DEF bridge
  <1>2. FilesTyped' /\ RecordsTyped' /\ CopiesTyped'
    BY DEF Sound, FilesTyped, RecordsTyped, CopiesTyped
  <1>3. CycleTyped'
    BY DEF Sound, CycleTyped
  <1>4. QueueSound' /\ Employed'
    BY <1>1 DEF Sound, QueueSound, Employed, Reads, LockHeld
  <1>5. ReadTyped' /\ \A b \in Actors : Relies(b)'
    BY AllRely
  <1> QED
    BY <1>2, <1>3, <1>4, <1>5 DEF Sound

LEMMA ArrivalsSound ==
  ASSUME Sound, Unzip \/ \E f \in Files : Arrive(f)
  PROVE  Sound'
  <1>1. CASE \E f \in Files : Arrive(f)
    <2>1. PdfBounded' /\ zip' \in {"none", "ok", "error"}
      BY <1>1 DEF Arrive, Sound, PdfBounded, FilesTyped
    <2>2. inbox \subseteq inbox' /\ inbox' \subseteq Files
      BY <1>1 DEF Arrive, Sound, FilesTyped
    <2> QED
      BY <1>1, <2>1, <2>2, InboxGrowsSound DEF Arrive
  <1>2. CASE Unzip
    <2>1. PICK extracted \in SUBSET Members :
            /\ faults' = faults \/ Count("extract")
            /\ inbox' = inbox \cup extracted
            /\ zip' = IF extracted = {} THEN "error" ELSE "ok"
      BY <1>2 DEF Unzip
    <2>2. UNCHANGED <<unlocked, book, db, registry, bridge, reading, cycle, timer, month,
                      latest, last, pdfRegime>>
      BY <1>2 DEF Unzip
    <2>3. Members \subseteq Files
      BY FilesAssumption
    <2>4. inbox \subseteq inbox' /\ inbox' \subseteq Files /\ zip' \in {"none", "ok", "error"}
      BY <2>1, <2>3 DEF Sound, FilesTyped
    <2>5. PdfBounded'
      BY <2>1, <2>2, CountTyped DEF Sound, PdfBounded, Faults
    <2> QED
      BY <2>2, <2>4, <2>5, InboxGrowsSound
  <1> QED
    BY <1>1, <1>2

LEMMA ScanNextSound ==
  ASSUME Sound, ScanNext
  PROVE  Sound'
  <1>1. PICK f \in inbox : reading' = [reading EXCEPT !["batch"] = Begun(f)]
    BY DEF ScanNext
  <1>2. /\ "batch" \in pdfRegime.actors /\ "batch" \in Actors \ {"worker"}
        /\ UNCHANGED <<files, unlocked, book, db, registry, bridge, cycle, timer, month, latest,
                       last, faults, pdfRegime>>
    BY DEF ScanNext, Actors
  <1>3. CycleTyped'
    BY <1>2 DEF Sound, CycleTyped, files
  <1> QED
    BY <1>1, <1>2, <1>3, BeginSound DEF LockHeld

LEMMA DryRunSound ==
  ASSUME Sound, DryRun
  PROVE  Sound'
  <1> DEFINE attempt == [reading["batch"] EXCEPT !.pc = "ended", !.outcome = "dry-run"]
  <1>1. /\ Reads("batch") = "parse"
        /\ reading' = [reading EXCEPT !["batch"].pc = "ended", !["batch"].outcome = "dry-run"]
        /\ UNCHANGED <<files, unlocked, book, db, registry, bridge, cycle, timer, month, latest,
                       last, faults, pdfRegime>>
    BY DEF DryRun, Outcome
  <1>2. "batch" \in Actors /\ reading["batch"] \in Attempt /\ Relies("batch")
    BY DEF Sound, ReadTyped, Actors
  <1>3. /\ attempt \in Attempt /\ attempt.pc = "ended" /\ attempt.outcome = "dry-run"
        /\ attempt.file = Of("batch") /\ attempt.job = reading["batch"].job
    BY <1>2 DEF Attempt, Of, Outcomes, Final
  <1>4. Alters("batch", attempt)
    BY <1>1, <1>2 DEF Alters, Sound, ReadTyped
  <1> HIDE DEF attempt
  <1>5. reading'["batch"] = attempt /\ UNCHANGED <<inbox, zip, pdfRegime>>
    BY <1>1, <1>2, <1>3, <1>4, AltersOne DEF Sound, files
  <1>6. Relies("batch")'
    BY <1>1, <1>2, <1>3, <1>5 DEF Relies, Reads, Of, Final, Outcomes
  <1>7. ReadTyped' /\ QueueSound' /\ Employed' /\ \A b \in Actors : Relies(b)'
    BY <1>1, <1>2, <1>3, <1>4, <1>6, StepSound
  <1>8. PdfBounded' /\ CopiesTyped' /\ FilesTyped' /\ RecordsTyped' /\ CycleTyped'
    BY <1>1, <1>5 DEF Sound, PdfBounded, CopiesTyped, FilesTyped, RecordsTyped, CycleTyped
  <1> QED
    BY <1>7, <1>8 DEF Sound

LEMMA RecordScanSound ==
  ASSUME Sound, RecordScan
  PROVE  Sound'
  <1> DEFINE f == Of("batch")
             outcome == reading["batch"].outcome
  <1>1. /\ Reads("batch") = "ended" /\ Record(f, StatusOf(outcome))
        /\ last' = [last EXCEPT ![f] = outcome]
        /\ reading' = [reading EXCEPT !["batch"] = AtRest]
        /\ UNCHANGED <<files, unlocked, book, db, bridge, cycle, timer, month, faults, pdfRegime>>
    BY DEF RecordScan
  <1>2. /\ "batch" \in Actors /\ "worker" \in Actors /\ "pipeline" \in Actors
        /\ UNCHANGED <<inbox, zip, jobs, queue, book, pdfRegime, cycle, timer>>
    BY <1>1 DEF Actors, files, bridge
  <1>3. f \in Files /\ outcome \in Outcomes \ {"none"}
    BY <1>1, <1>2 DEF Sound, Relies, FilesTyped
  <1>4. /\ ReadTyped' /\ reading'["batch"] = AtRest /\ AtRest.pc = "idle"
        /\ \A b \in Actors \ {"batch"} : reading'[b] = reading[b]
        /\ \A b \in Actors : Relies(b)'
    BY <1>1, <1>2, EndRelies
  <1>5. RecordsTyped'
    BY <1>1, <1>3, RecordTyped DEF Sound, StatusOf, Outcomes, Final
  <1>6. QueueSound' /\ Employed'
    BY <1>2, <1>4 DEF Sound, QueueSound, Employed, Reads, LockHeld
  <1>7. PdfBounded' /\ FilesTyped' /\ CopiesTyped' /\ CycleTyped'
    BY <1>1, <1>2 DEF Sound, PdfBounded, FilesTyped, CopiesTyped, CycleTyped
  <1> QED
    BY <1>4, <1>5, <1>6, <1>7 DEF Sound

LEMMA RestartSound ==
  ASSUME Sound, RestartBridge
  PROVE  Sound'
  <1>1. /\ Count("restart") /\ queue' = <<>> /\ cycle' = Off
        /\ reading' = [reading EXCEPT !["worker"] = AtRest, !["pipeline"] = AtRest]
        /\ timer' = ("pipeline" \in pdfRegime.actors)
        /\ UNCHANGED <<files, unlocked, book, db, registry, jobs, month, latest, last, pdfRegime>>
    BY DEF RestartBridge
  <1>2. UNCHANGED <<inbox, zip>> /\ AtRest \in Attempt /\ AtRest.pc = "idle"
    BY <1>1 DEF files, AtRest, Attempt, Outcomes, Final
  <1>3. /\ ReadTyped' /\ reading'["worker"] = AtRest /\ reading'["pipeline"] = AtRest
        /\ \A b \in Actors \ {"worker", "pipeline"} : reading'[b] = reading[b]
    BY <1>1, <1>2 DEF Sound, ReadTyped, Actors
  <1>4. ASSUME NEW b \in Actors PROVE Relies(b)'
    <2>1. CASE b \in {"worker", "pipeline"}
      BY <2>1, <1>2, <1>3 DEF Relies, Reads
    <2>2. CASE b \notin {"worker", "pipeline"}
      BY <2>2, <1>1, <1>2, <1>3, OthersRely
    <2> QED
      BY <2>1, <2>2
  <1>5. QueueSound'
    BY <1>1, <1>2, <1>3 DEF Sound, QueueSound, Reads
  <1>6. CycleTyped' /\ cycle'.pc = "off"
    BY <1>1, <1>2, OffTyped DEF Sound, CycleTyped, CyclePcs
  <1>7. Employed'
    BY <1>1, <1>2, <1>3, <1>6 DEF Employed, Reads, LockHeld
  <1>8. PdfBounded'
    BY <1>1, CountTyped DEF Sound, Faults
  <1>9. FilesTyped' /\ RecordsTyped' /\ CopiesTyped'
    BY <1>1, <1>2 DEF Sound, FilesTyped, RecordsTyped, CopiesTyped
  <1> QED
    BY <1>3, <1>4, <1>5, <1>6, <1>7, <1>8, <1>9 DEF Sound

LEMMA InitSound ==
  ASSUME PInit
  PROVE  Sound
  <1>1. PdfBounded /\ FilesTyped /\ RecordsTyped
    BY DEF PInit, PdfBounded, FilesTyped, RecordsTyped, Outcomes, Final
  <1>2. CopiesTyped
    BY DEF PInit, CopiesTyped, Stems
  <1>3. ReadTyped /\ \A a \in Actors : Reads(a) = "idle"
    <2>1. AtRest \in Attempt /\ AtRest.pc = "idle"
      BY DEF AtRest, Attempt, Outcomes, Final
    <2> QED
      BY <2>1 DEF PInit, ReadTyped, Reads
  <1>4. CycleTyped /\ cycle.pc = "off"
    BY DEF PInit, CycleTyped, Off, CyclePcs
  <1>5. QueueSound /\ Employed
    <2>1. "worker" \in Actors /\ "pipeline" \in Actors
      BY DEF Actors
    <2>2. jobs = <<>> /\ queue = <<>> /\ (timer <=> "pipeline" \in pdfRegime.actors)
      BY DEF PInit
    <2>3. QueueSound
      BY <2>1, <2>2, <1>3 DEF QueueSound
    <2>4. Employed
      BY <2>1, <2>2, <1>3, <1>4 DEF Employed, LockHeld
    <2> QED
      BY <2>3, <2>4
  <1>6. \A a \in Actors : Relies(a)
    BY <1>3 DEF Relies
  <1> QED
    BY <1>1, <1>2, <1>3, <1>4, <1>5, <1>6 DEF Sound

\* The steps, by what they may concern.
ReadingStep == \E a \in Actors : ReadSteps(a) \/ CannotRead(a)
JobStep == (\E f \in Files : ProcessFile(f)) \/ RunJob \/ ImportJob \/ RecordJob \/ EndJob
FileStep == Take \/ RecordFile
CycleStep ==
  \/ Trigger \/ Scheduled \/ StartCycle \/ Look \/ ImportCycle \/ FindCompleted
  \/ SendCompleted \/ RecordCompleted \/ FinishCycle
ArrivalStep == Unzip \/ \E f \in Files : Arrive(f)
ScriptStep == ScanNext \/ DryRun \/ RecordScan

LEMMA Steps ==
  ASSUME PNext
  PROVE  \/ ReadingStep \/ JobStep \/ FileStep \/ CycleStep \/ ArrivalStep \/ ScriptStep
         \/ RestartBridge
  BY DEF PNext, Worker, Cycle, Script, ReadingStep, JobStep, FileStep, CycleStep, ArrivalStep,
         ScriptStep, Actors

LEMMA SoundInductive ==
  ASSUME Sound, [PNext]_pvars
  PROVE  Sound'
  <1>1. CASE ReadingStep
    BY <1>1, UnlockSound, ParseSound, LoadSound, SaveSound, CannotReadSound DEF ReadingStep, ReadSteps
  <1>2. CASE JobStep
    BY <1>2, ProcessFileSound, RunJobSound, ImportJobSound, RecordJobSound, EndJobSound DEF JobStep
  <1>3. CASE FileStep
    BY <1>3, TakeSound, RecordFileSound DEF FileStep
  <1>4. CASE CycleStep
    BY <1>4, StartsSound, CycleStepsSound DEF CycleStep
  <1>5. CASE ArrivalStep
    BY <1>5, ArrivalsSound DEF ArrivalStep
  <1>6. CASE ScriptStep
    BY <1>6, ScanNextSound, DryRunSound, RecordScanSound DEF ScriptStep
  <1>7. CASE RestartBridge
    BY <1>7, RestartSound
  <1>8. CASE UNCHANGED pvars
    <2>1. /\ UNCHANGED <<files, unlocked, book, registry, bridge, reading, latest, last, pdfRegime>>
          /\ UNCHANGED <<db, cycle, timer, month, faults, inbox>>
      BY <1>8 DEF pvars, files
    <2>2. CycleTyped' /\ PdfBounded' /\ (cycle'.pc # "off" \/ timer' => "pipeline" \in pdfRegime.actors)
      BY <2>1 DEF Sound, CycleTyped, PdfBounded, Employed, LockHeld
    <2>3. cycle' = cycle /\ db' = db
      BY <2>1
    <2> QED
      BY <2>1, <2>2, <2>3, CycleSound
  <1> QED
    BY <1>1, <1>2, <1>3, <1>4, <1>5, <1>6, <1>7, <1>8, Steps

(***************************************************************************)
(* What a step of reading does, and what every step does to the faults.    *)
(***************************************************************************)
LEMMA ReadStepIs ==
  ASSUME Sound, NEW a \in Actors, ReadSteps(a) \/ CannotRead(a)
  PROVE  /\ UNCHANGED <<inbox, zip, jobs, queue, registry, db, cycle, timer, month, latest, last, pdfRegime>>
         /\ Reads(a) \in {"unlock", "parse", "load", "save"}
         /\ Reads(a)' \in {"parse", "load", "save", "ended"} /\ Of(a)' = Of(a)
         /\ \A b \in Actors \ {a} : reading'[b] = reading[b]
         /\ book' = book \/ Save(a)
         /\ Reads(a)' = "ended" => Save(a) \/ reading'[a].outcome = "error"
         /\ faults' = faults \/ Count("read") \/ Count("warn")
  <1>1. reading \in [Actors -> Attempt] /\ reading[a] \in Attempt
    BY DEF Sound, ReadTyped
  <1>2. CASE UnlockPdf(a)
    BY <1>1, <1>2 DEF UnlockPdf, Reads, Of, Attempt, files, bridge
  <1>3. CASE ParsePdf(a)
    <2>1. PICK outcome \in {"done", "partial"} :
            reading' = [reading EXCEPT ![a].pc = "load", ![a].outcome = outcome]
      BY <1>3 DEF ParsePdf
    <2> QED
      BY <2>1, <1>1, <1>3 DEF ParsePdf, Reads, Of, Attempt, files, bridge
  <1>4. CASE Load(a)
    BY <1>1, <1>4 DEF Load, Reads, Of, Attempt, files, bridge
  <1>5. CASE Save(a)
    BY <1>1, <1>5 DEF Save, Step, Reads, Of, Attempt, files, bridge
  <1>6. CASE CannotRead(a)
    BY <1>1, <1>6 DEF CannotRead, Outcome, Reads, Of, Attempt, files, bridge
  <1> QED
    BY <1>2, <1>3, <1>4, <1>5, <1>6 DEF ReadSteps

LEMMA FaultsGrow ==
  ASSUME Sound, [PNext]_pvars
  PROVE  /\ faults.n \in Nat /\ faults'.n \in Nat /\ faults.n <= faults'.n
         /\ faults.seen \subseteq faults'.seen
         /\ pdfRegime' = pdfRegime /\ inbox \subseteq inbox'
  <1>1. /\ faults' = faults \/ \E fault \in Faults : Count(fault)
        /\ pdfRegime' = pdfRegime /\ inbox \subseteq inbox'
    <2>1. CASE ReadingStep
      BY <2>1, ReadStepIs DEF ReadingStep, Faults
    <2>2. CASE JobStep
      BY <2>2 DEF JobStep, ProcessFile, RunJob, ImportJob, RecordJob, EndJob, Faults, files
    <2>3. CASE FileStep \/ ScriptStep \/ RestartBridge
      BY <2>3 DEF FileStep, Take, RecordFile, ScriptStep, ScanNext, DryRun, RecordScan,
                  RestartBridge, Faults, files
    <2>4. CASE CycleStep
      BY <2>4 DEF CycleStep, Trigger, Scheduled, StartCycle, Look, ImportCycle, FindCompleted,
                  SendCompleted, RecordCompleted, FinishCycle, Faults, files
    <2>5. CASE ArrivalStep
      BY <2>5 DEF ArrivalStep, Unzip, Arrive, Faults
    <2>6. CASE UNCHANGED pvars
      BY <2>6 DEF pvars, files
    <2> QED
      BY <2>1, <2>2, <2>3, <2>4, <2>5, <2>6, Steps
  <1>2. faults.n \in Nat /\ faults.seen \in SUBSET Faults
    BY DEF Sound, PdfBounded
  <1> QED
    BY <1>1, <1>2 DEF Count

(***************************************************************************)
(* What is shown.                                                          *)
(***************************************************************************)
Undisturbed == faults.seen \cap {"record", "restart"} = {}
Told(f) ==
  /\ registry[f] = StatusOf(last[f])
  /\ latest[f] \/ Outstanding(f) \/ \A j \in DOMAIN jobs : jobs[j].file # f

\* A step that records nothing, and leaves queue and worker what they have.
LEMMA ToldKept ==
  ASSUME Sound, NEW f \in Files, Told(f), UNCHANGED <<registry, last, latest, jobs, queue>>,
         Reads("worker") \notin {"idle", "recorded"}
           => Reads("worker")' \notin {"idle", "recorded"} /\ Of("worker")' = Of("worker")
  PROVE  Told(f)'
  BY DEF Told, Outstanding, Reads, Of

LEMMA ToldByJobs ==
  ASSUME Sound, \A f \in Files : Told(f), Undisturbed', JobStep
  PROVE  \A f \in Files : Told(f)'
  <1> TAKE f \in Files
  <1>1. Told(f) /\ QueueSound /\ "worker" \in Actors /\ reading["worker"] \in Attempt /\ RecordsTyped
    BY DEF Sound, Actors, ReadTyped
  <1>2. ASSUME NEW g \in Files, ProcessFile(g) PROVE Told(f)'
    <2>1. /\ jobs' = Append(jobs, [file |-> g, status |-> "pending"])
          /\ queue' = Append(queue, Len(jobs')) /\ latest' = [latest EXCEPT ![g] = FALSE]
          /\ UNCHANGED <<registry, last, reading>>
      BY <1>2 DEF ProcessFile
    <2>2. /\ Len(jobs) \in Nat /\ DOMAIN jobs = 1 .. Len(jobs) /\ DOMAIN jobs' = 1 .. Len(jobs) + 1
          /\ \A j \in DOMAIN jobs : jobs'[j] = jobs[j]
          /\ jobs'[Len(jobs) + 1].file = g /\ Len(jobs') = Len(jobs) + 1
      BY <2>1, <1>1 DEF QueueSound
    <2>3. /\ Len(queue) \in Nat /\ DOMAIN queue = 1 .. Len(queue) /\ DOMAIN queue' = 1 .. Len(queue) + 1
          /\ \A i \in DOMAIN queue : queue'[i] = queue[i] /\ queue[i] \in DOMAIN jobs
          /\ queue'[Len(queue) + 1] = Len(jobs')
      BY <2>1, <1>1 DEF QueueSound
    <2>4. CASE f = g
      <3>1. Outstanding(f)'
        <4>1. Len(queue) + 1 \in DOMAIN queue' /\ jobs'[queue'[Len(queue) + 1]].file = f
          BY <2>2, <2>3, <2>4
        <4> QED
          BY <4>1 DEF Outstanding
      <3> QED
        BY <3>1, <2>1, <1>1 DEF Told
    <2>5. CASE f # g
      <3>1. latest'[f] = latest[f]
        BY <2>1, <2>5, <1>1 DEF RecordsTyped
      <3>2. Outstanding(f) => Outstanding(f)'
        <4>1. \A i \in DOMAIN queue : i \in DOMAIN queue' /\ jobs'[queue'[i]] = jobs[queue[i]]
          BY <2>2, <2>3
        <4> QED
          BY <4>1, <2>1 DEF Outstanding, Reads, Of
      <3>3. (\A j \in DOMAIN jobs : jobs[j].file # f) => \A j \in DOMAIN jobs' : jobs'[j].file # f
        BY <2>2, <2>5
      <3> QED
        BY <3>1, <3>2, <3>3, <2>1, <1>1 DEF Told
    <2> QED
      BY <2>4, <2>5
  <1>3. ASSUME RunJob PROVE Told(f)'
    <2> DEFINE h == Head(queue)
    <2>1. /\ Reads("worker") = "idle" /\ queue # <<>> /\ queue' = Tail(queue)
          /\ jobs' = [jobs EXCEPT ![h].status = "running"]
          /\ reading'["worker"] = [Begun(jobs[h].file) EXCEPT !.job = h]
          /\ UNCHANGED <<registry, last, latest>>
      BY <1>1, <1>3 DEF RunJob, Sound, ReadTyped
    <2>2. /\ h = queue[1] /\ h \in DOMAIN jobs /\ h \in Nat
          /\ \A i \in DOMAIN queue : i = 1 \/ (i - 1 \in DOMAIN queue' /\ queue'[i - 1] = queue[i])
      BY <2>1, <1>1 DEF QueueSound
    <2> HIDE DEF h
    <2>3. DOMAIN jobs' = DOMAIN jobs /\ \A j \in DOMAIN jobs : jobs'[j].file = jobs[j].file
      <3>1. \A j \in DOMAIN jobs : jobs[j] \in Job
        BY <1>1 DEF QueueSound
      <3>2. jobs' = [jobs EXCEPT ![h].status = "running"]
        BY <2>1
      <3> QED
        BY <3>1, <3>2 DEF Job
    <2>4. Of("worker")' = jobs[h].file /\ Reads("worker")' = "unlock"
      <3>1. jobs[h].file \in Files
        <4>1. jobs[h] \in Job
          BY <2>2, <1>1 DEF QueueSound
        <4> QED
          BY <4>1 DEF Job
      <3> QED
        BY <2>1, <2>2, <3>1, BegunIs DEF Of, Reads
    <2>5. Outstanding(f) => Outstanding(f)'
      <3>1. \A i \in DOMAIN queue : queue[i] \in DOMAIN jobs
        BY <1>1 DEF QueueSound
      <3>2. ASSUME NEW i \in DOMAIN queue, jobs[queue[i]].file = f PROVE Outstanding(f)'
        <4>1. CASE i = 1
          BY <3>2, <4>1, <2>2, <2>4 DEF Outstanding
        <4>2. CASE i # 1
          <5>1. i - 1 \in DOMAIN queue' /\ jobs'[queue'[i - 1]].file = f
            BY <3>1, <3>2, <4>2, <2>2, <2>3
          <5> QED
            BY <5>1 DEF Outstanding
        <4> QED
          BY <4>1, <4>2
      <3> QED
        BY <3>2, <2>1 DEF Outstanding
    <2> QED
      BY <2>1, <2>3, <2>5, <1>1 DEF Told
  <1>4. ASSUME ImportJob PROVE Told(f)'
    <2>1. UNCHANGED <<registry, last, latest, jobs, queue>>
      BY <1>4 DEF ImportJob, bridge
    <2>2. Reads("worker")' = "imported" /\ Of("worker")' = Of("worker")
      BY <1>1, <1>4 DEF ImportJob, Step, Reads, Of, Sound, ReadTyped, Attempt
    <2> QED
      BY <1>1, <2>1, <2>2, ToldKept
  <1>5. ASSUME RecordJob PROVE Told(f)'
    <2> DEFINE g == Of("worker")
               outcome == reading["worker"].outcome
    <2>1. /\ Record(g, StatusOf(outcome)) /\ last' = [last EXCEPT ![g] = outcome]
          /\ UNCHANGED <<jobs, queue>>
      BY <1>5 DEF RecordJob, Undisturbed, Count, bridge
    <2>2. g \in Files
      BY <1>1, <1>5 DEF RecordJob, Sound, Relies, FilesTyped
    <2>3. CASE f = g
      BY <2>1, <2>2, <2>3, <1>1 DEF Told, Record, RecordsTyped
    <2>4. CASE f # g
      <3>1. registry'[f] = registry[f] /\ last'[f] = last[f] /\ latest'[f] = latest[f]
        BY <2>1, <2>2, <2>4, <1>1 DEF Record, RecordsTyped
      <3> QED
        BY <3>1, <2>1, <2>4, <1>1 DEF Told, Outstanding
    <2> QED
      BY <2>3, <2>4
  <1>6. ASSUME EndJob PROVE Told(f)'
    <2>1. /\ Reads("worker") = "recorded" /\ UNCHANGED <<registry, last, latest, queue>>
          /\ jobs' = [jobs EXCEPT ![reading["worker"].job].status = reading["worker"].outcome]
      BY <1>6 DEF EndJob
    <2>2. DOMAIN jobs' = DOMAIN jobs /\ \A j \in DOMAIN jobs : jobs'[j].file = jobs[j].file
      <3>1. \A j \in DOMAIN jobs : jobs[j] \in Job
        BY <1>1 DEF QueueSound
      <3> QED
        BY <2>1, <3>1 DEF Job
    <2>3. \A i \in DOMAIN queue : queue[i] \in DOMAIN jobs
      BY <1>1 DEF QueueSound
    <2> QED
      BY <2>1, <2>2, <2>3, <1>1 DEF Told, Outstanding
  <1> QED
    BY <1>2, <1>3, <1>4, <1>5, <1>6 DEF JobStep

LEMMA ShownInductive ==
  ASSUME Sound, ShownSound, [PNext]_pvars
  PROVE  ShownSound'
  <1> SUFFICES ASSUME Undisturbed' PROVE \A f \in Files : Told(f)'
    BY DEF ShownSound, Undisturbed, Told
  <1>1. Undisturbed
    BY FaultsGrow DEF Undisturbed
  <1>2. \A f \in Files : Told(f)
    BY <1>1 DEF ShownSound, Undisturbed, Told
  <1>3. "worker" \in Actors /\ reading["worker"] \in Attempt /\ RecordsTyped
    BY DEF Sound, Actors, ReadTyped
  <1>4. CASE ReadingStep
    <2>1. PICK a \in Actors : ReadSteps(a) \/ CannotRead(a)
      BY <1>4 DEF ReadingStep
    <2>2. UNCHANGED <<registry, last, latest, jobs, queue>>
      BY <2>1, ReadStepIs
    <2>3. Reads("worker") \notin {"idle", "recorded"}
            => Reads("worker")' \notin {"idle", "recorded"} /\ Of("worker")' = Of("worker")
      <3>1. CASE a = "worker"
        BY <3>1, <2>1, ReadStepIs
      <3>2. CASE a # "worker"
        <4>1. reading'["worker"] = reading["worker"]
          BY <3>2, <2>1, <1>3, ReadStepIs
        <4> QED
          BY <4>1 DEF Reads, Of
      <3> QED
        BY <3>1, <3>2
    <2> QED
      BY <1>2, <2>2, <2>3, ToldKept
  <1>5. CASE JobStep
    BY <1>2, <1>5, ToldByJobs
  <1>6. ASSUME NEW a \in Actors \ {"worker"}, NEW outcome, NEW status,
               Record(Of(a), status), last' = [last EXCEPT ![Of(a)] = outcome],
               status = StatusOf(outcome), Reads(a) # "idle",
               UNCHANGED <<jobs, queue>>, reading' = [reading EXCEPT ![a] = AtRest]
        PROVE  \A f \in Files : Told(f)'
    <2> TAKE f \in Files
    <2>1. Of(a) \in Files
      BY <1>6 DEF Sound, Relies, FilesTyped
    <2>2. reading'["worker"] = reading["worker"]
      BY <1>6 DEF Sound, ReadTyped
    <2>3. CASE f = Of(a)
      BY <1>3, <1>6, <2>1, <2>3 DEF Told, Record, RecordsTyped
    <2>4. CASE f # Of(a)
      <3>1. registry'[f] = registry[f] /\ last'[f] = last[f] /\ latest'[f] = latest[f]
        BY <1>3, <1>6, <2>1, <2>4 DEF Record, RecordsTyped
      <3> QED
        BY <3>1, <1>2, <1>6, <2>2 DEF Told, Outstanding, Reads, Of
    <2> QED
      BY <2>3, <2>4
  <1>7. CASE RecordFile
    <2> DEFINE verdict == Verdict(reading["pipeline"].outcome)
               outcome == IF verdict = "ok" THEN "done" ELSE "error"
    <2>1. /\ Record(Of("pipeline"), verdict) /\ last' = [last EXCEPT ![Of("pipeline")] = outcome]
          /\ Reads("pipeline") # "idle" /\ UNCHANGED <<jobs, queue>>
          /\ reading' = [reading EXCEPT !["pipeline"] = AtRest]
      BY <1>7 DEF RecordFile, Undisturbed, Count, bridge
    <2>2. verdict = StatusOf(outcome) /\ "pipeline" \in Actors \ {"worker"}
      BY DEF Verdict, StatusOf, Actors
    <2> QED
      BY <2>1, <2>2, <1>6
  <1>8. CASE RecordScan
    <2> DEFINE outcome == reading["batch"].outcome
    <2>1. /\ Record(Of("batch"), StatusOf(outcome)) /\ last' = [last EXCEPT ![Of("batch")] = outcome]
          /\ Reads("batch") # "idle" /\ UNCHANGED <<jobs, queue>>
          /\ reading' = [reading EXCEPT !["batch"] = AtRest]
      BY <1>8 DEF RecordScan, bridge
    <2> QED
      BY <2>1, <1>6 DEF Actors
  <1>9. CASE Take \/ ScanNext \/ DryRun
    <2>1. UNCHANGED <<registry, last, latest, jobs, queue>>
      BY <1>9 DEF Take, ScanNext, DryRun, bridge
    <2>2. reading'["worker"] = reading["worker"]
      BY <1>9, <1>3 DEF Take, ScanNext, DryRun, Outcome, Sound, ReadTyped
    <2> QED
      BY <2>1, <2>2, <1>2, ToldKept DEF Reads, Of
  <1>10. CASE CycleStep \/ ArrivalStep \/ UNCHANGED pvars
    <2>1. UNCHANGED <<registry, last, latest, jobs, queue, reading>>
      BY <1>10 DEF CycleStep, Trigger, Scheduled, StartCycle, Look, ImportCycle, FindCompleted,
                   SendCompleted, RecordCompleted, FinishCycle, ArrivalStep, Unzip, Arrive, pvars, bridge
    <2> QED
      BY <2>1, <1>2, ToldKept DEF Reads, Of
  <1>11. ~ RestartBridge
    BY DEF RestartBridge, Count, Undisturbed
  <1> QED
    BY <1>4, <1>5, <1>7, <1>8, <1>9, <1>10, <1>11, Steps DEF FileStep, ScriptStep

(***************************************************************************)
(* The month is announced once.                                            *)
(***************************************************************************)
LEMMA MonthKept ==
  ASSUME Sound, MonthSound, [PNext]_pvars, month' = month,
         cycle.pc = "record" => cycle'.pc = "record" \/ (Count("restart") /\ cycle'.pc = "off"),
         cycle'.pc \in {"alert", "record"} => cycle.pc = cycle'.pc \/ (cycle'.pc = "alert" /\ ~ Notified)
  PROVE  MonthSound'
  <1>1. /\ month.alerts \in Nat /\ faults.n \in Nat /\ faults'.n \in Nat /\ faults.n <= faults'.n
        /\ faults.seen \subseteq faults'.seen
    BY FaultsGrow DEF Sound, CycleTyped
  <1>2. Count("restart") => "restart" \in faults'.seen /\ faults'.n = faults.n + 1
    BY DEF Count
  <1> QED
    BY <1>1, <1>2 DEF MonthSound, Notified

LEMMA MonthInductive ==
  ASSUME Sound, MonthSound, [PNext]_pvars
  PROVE  MonthSound'
  <1>1. /\ month \in [notified : BOOLEAN, alerts : Nat] /\ faults.n \in Nat
        /\ cycle \in [pc : CyclePcs, unseen : SUBSET inbox, todo : SUBSET inbox, ok : BOOLEAN]
    BY DEF Sound, CycleTyped, PdfBounded
  <1>2. CASE SendCompleted
    <2>1. /\ cycle.pc = "alert" /\ month' = [month EXCEPT !.alerts = @ + 1]
          /\ cycle' = [cycle EXCEPT !.pc = "record"] /\ faults' = faults
      BY <1>2 DEF SendCompleted
    <2>2. /\ month'.alerts = month.alerts + 1 /\ month'.notified = month.notified
          /\ cycle'.pc = "record"
      BY <2>1, <1>1
    <2> QED
      BY <2>1, <2>2, <1>1 DEF MonthSound, Notified
  <1>3. CASE RecordCompleted
    <2>1. /\ cycle.pc = "record" /\ month' = [month EXCEPT !.notified = TRUE]
          /\ cycle' = [cycle EXCEPT !.pc = "finish"] /\ faults' = faults
      BY <1>3 DEF RecordCompleted
    <2>2. month'.alerts = month.alerts /\ month'.notified = TRUE /\ cycle'.pc = "finish"
      BY <2>1, <1>1
    <2> QED
      BY <2>1, <2>2, <1>1 DEF MonthSound, Notified
  <1>4. CASE FindCompleted
    <2>1. /\ cycle.pc = "months" /\ month' = month
          /\ cycle' = [cycle EXCEPT !.pc = IF Complete /\ ~ Notified THEN "alert" ELSE "finish"]
      BY <1>4 DEF FindCompleted
    <2>2. cycle'.pc = IF Complete /\ ~ Notified THEN "alert" ELSE "finish"
      BY <2>1, <1>1
    <2> QED
      BY <2>1, <2>2, MonthKept
  <1>5. CASE RestartBridge
    <2>1. Count("restart") /\ cycle' = Off /\ month' = month
      BY <1>5 DEF RestartBridge
    <2> QED
      BY <2>1, MonthKept, OffTyped DEF CyclePcs
  <1>6. CASE Trigger \/ Scheduled \/ StartCycle \/ Look \/ ImportCycle \/ FinishCycle
    <2>1. month' = month /\ (cycle' = cycle \/ cycle.pc # "record")
      BY <1>6, <1>1 DEF Sound, Trigger, Scheduled, StartCycle, Look, ImportCycle, FinishCycle, LockHeld
    <2>2. cycle' = cycle \/ cycle'.pc \notin {"alert", "record"}
      <3>1. CASE Trigger \/ Scheduled
        BY <3>1, OffTyped DEF Trigger, Scheduled, Acquire, CyclePcs
      <3>2. CASE StartCycle
        BY <3>2, <1>1 DEF StartCycle
      <3>3. CASE Look
        BY <3>3, <1>1 DEF Look
      <3>4. CASE ImportCycle
        BY <3>4, <1>1 DEF ImportCycle
      <3>5. CASE FinishCycle
        BY <3>5, OffTyped DEF FinishCycle, CyclePcs
      <3> QED
        BY <1>6, <3>1, <3>2, <3>3, <3>4, <3>5
    <2> QED
      BY <2>1, <2>2, MonthKept
  <1>7. CASE FileStep
    <2>1. month' = month /\ cycle.pc = "work"
      BY <1>7 DEF FileStep, Take, RecordFile, Sound, Employed
    <2>2. cycle'.pc \in {"work", "finish"}
      <3>1. CASE Take
        BY <3>1, <1>1 DEF Take
      <3>2. CASE RecordFile
        BY <3>2, <2>1, <1>1 DEF RecordFile
      <3> QED
        BY <1>7, <3>1, <3>2 DEF FileStep
    <2> QED
      BY <2>1, <2>2, MonthKept
  <1>8. CASE ReadingStep \/ JobStep \/ ArrivalStep \/ ScriptStep \/ UNCHANGED pvars
    <2>1. month' = month /\ cycle' = cycle
      <3>1. CASE ReadingStep
        BY <3>1, ReadStepIs DEF ReadingStep
      <3>2. CASE JobStep
        BY <3>2 DEF JobStep, ProcessFile, RunJob, ImportJob, RecordJob, EndJob
      <3>3. CASE ArrivalStep \/ ScriptStep \/ UNCHANGED pvars
        BY <3>3 DEF ArrivalStep, Unzip, Arrive, ScriptStep, ScanNext, DryRun, RecordScan, pvars
      <3> QED
        BY <1>8, <3>1, <3>2, <3>3
    <2> QED
      BY <2>1, MonthKept
  <1> QED
    BY <1>2, <1>3, <1>4, <1>5, <1>6, <1>7, <1>8, Steps DEF CycleStep

(***************************************************************************)
(* What is recorded was exported.                                          *)
(***************************************************************************)
\* The end of a successful attempt.
Succeeded(a) == Reads(a) \in {"ended", "imported"} /\ reading[a].outcome = "done"

ExportsStand ==
  /\ \A f \in Seen \ Empty : Exported(f)
  /\ \A a \in Actors : Succeeded(a) /\ Of(a) \notin Empty => Exported(Of(a))

LEMMA ExportedKept ==
  ASSUME book' = book, inbox \subseteq inbox', NEW f, Exported(f)
  PROVE  Exported(f)'
  BY DEF Exported, Twins

\* A step that exports nothing and records what was exported.
LEMMA ExportsKept ==
  ASSUME ExportsStand, book' = book, inbox \subseteq inbox',
         Seen' \subseteq Seen \cup {Of(a) : a \in {b \in Actors : Succeeded(b)}},
         \A a \in Actors : Succeeded(a)' => Succeeded(a) /\ Of(a)' = Of(a)
  PROVE  ExportsStand'
  <1>1. \A f : Exported(f) => Exported(f)'
    BY ExportedKept
  <1>2. ASSUME NEW f \in Seen' \ Empty PROVE Exported(f)
    BY <1>2 DEF ExportsStand
  <1>3. ASSUME NEW a \in Actors, Succeeded(a)', Of(a)' \notin Empty PROVE Exported(Of(a))'
    <2>1. PICK f : f = Of(a)
      OBVIOUS
    <2>2. Exported(f) /\ f = Of(a)'
      BY <1>3, <2>1 DEF ExportsStand
    <2>3. Exported(f)'
      BY <2>2, <1>1
    <2> QED
      BY <2>2, <2>3
  <1> QED
    BY <1>1, <1>2, <1>3 DEF ExportsStand

LEMMA SaveExports ==
  ASSUME Sound, ExportsStand, Alone, NEW a \in Actors, Save(a)
  PROVE  ExportsStand'
  <1> DEFINE p == reading[a].pages
  <1>1. /\ Reads(a) = "save" /\ book' = (book \ Replaced(p)) \cup ({p} \ Empty)
        /\ UNCHANGED <<inbox, registry>>
    BY DEF Save, files, Sound, Relies
  <1>2. p \in inbox /\ (p # Of(a) => p \in Twins(Of(a))) /\ Of(a)' = Of(a)
    BY <1>1, ReadStepIs DEF Sound, Relies, ReadSteps
  <1>3. ASSUME NEW f, f \notin Empty, Exported(f) PROVE Exported(f)'
    <2>1. CASE f \in book /\ f \notin book'
      <3>1. p # f /\ f \in Replaced(p)
        BY <1>1, <1>3, <2>1
      <3> QED
        BY <3>1, <1>1, <1>2 DEF Exported
    <2> QED
      BY <2>1, <1>1, <1>3 DEF Exported, Twins
  <1>4. Seen' = Seen
    BY <1>1 DEF Seen
  <1>5. ASSUME NEW b \in Actors, Succeeded(b)', Of(b)' \notin Empty PROVE Exported(Of(b))'
    <2>1. CASE b = a
      <3>1. CASE p = Of(a)
        BY <3>1, <2>1, <1>1, <1>2, <1>5 DEF Exported
      <3>2. CASE p # Of(a)
        BY <3>2, <2>1, <1>1, <1>2 DEF Exported, Twins
      <3> QED
        BY <3>1, <3>2
    <2>2. CASE b # a
      <3>1. reading'[b] = reading[b]
        BY <2>2, <1>5, ReadStepIs DEF ReadSteps
      <3>2. Reads(b) # "idle"
        BY <3>1, <1>5 DEF Succeeded, Reads
      <3> QED
        BY <3>2, <2>2, <1>1, Lonely
    <2> QED
      BY <2>1, <2>2
  <1> QED
    BY <1>3, <1>4, <1>5 DEF ExportsStand

LEMMA ExportInductive ==
  ASSUME Sound, ExportSound, [PNext]_pvars
  PROVE  ExportSound'
  <1> SUFFICES ASSUME Alone' PROVE ExportsStand'
    BY DEF ExportSound, ExportsStand, Succeeded
  <1>1. Alone /\ inbox \subseteq inbox'
    BY FaultsGrow DEF Alone
  <1>2. ExportsStand /\ reading \in [Actors -> Attempt]
    BY <1>1 DEF ExportSound, ExportsStand, Succeeded, Sound, ReadTyped
  <1>3. CASE ReadingStep
    <2>1. PICK a \in Actors : ReadSteps(a) \/ CannotRead(a)
      BY <1>3 DEF ReadingStep
    <2>2. CASE Save(a)
      BY <2>2, <1>1, <1>2, SaveExports
    <2>3. CASE ~ Save(a)
      <3>1. /\ book' = book /\ registry' = registry
            /\ Reads(a)' = "ended" => reading'[a].outcome = "error"
            /\ Reads(a)' # "imported"
            /\ \A b \in Actors \ {a} : reading'[b] = reading[b]
        BY <2>1, <2>3, ReadStepIs
      <3>2. \A b \in Actors : Succeeded(b)' => Succeeded(b) /\ Of(b)' = Of(b)
        BY <3>1 DEF Succeeded, Reads, Of
      <3> QED
        BY <3>1, <3>2, <1>1, <1>2, ExportsKept DEF Seen
    <2> QED
      BY <2>2, <2>3
  <1>4. ASSUME NEW a \in Actors, NEW status, Record(Of(a), status) \/ registry' = registry,
               status = "ok" => Succeeded(a), book' = book,
               \A b \in Actors : Succeeded(b)' => Succeeded(b) /\ Of(b)' = Of(b)
        PROVE  ExportsStand'
    <2>1. Seen' \subseteq Seen \cup {Of(b) : b \in {c \in Actors : Succeeded(c)}}
      BY <1>4 DEF Seen, Record, Sound, RecordsTyped
    <2> QED
      BY <2>1, <1>1, <1>2, <1>4, ExportsKept
  <1>5. CASE RecordJob
    <2>1. StatusOf(reading["worker"].outcome) = "ok" => Succeeded("worker")
      BY <1>5 DEF RecordJob, StatusOf, Succeeded, Reads, Sound, Relies, Final, Actors
    <2>2. \A b \in Actors : Succeeded(b)' => Succeeded(b) /\ Of(b)' = Of(b)
      BY <1>2, <1>5 DEF RecordJob, Step, Succeeded, Reads, Of, Attempt, Actors
    <2> QED
      BY <2>1, <2>2, <1>4, <1>5 DEF RecordJob, Actors
  <1>6. CASE RecordFile
    <2>1. Verdict(reading["pipeline"].outcome) = "ok" => Succeeded("pipeline")
      BY <1>6 DEF RecordFile, Verdict, Succeeded, Reads
    <2>2. \A b \in Actors : Succeeded(b)' => Succeeded(b) /\ Of(b)' = Of(b)
      BY <1>2, <1>6 DEF RecordFile, AtRest, Succeeded, Reads, Of
    <2> QED
      BY <2>1, <2>2, <1>4, <1>6 DEF RecordFile, Actors
  <1>7. CASE RecordScan
    <2>1. StatusOf(reading["batch"].outcome) = "ok" => Succeeded("batch")
      BY <1>7 DEF RecordScan, StatusOf, Succeeded, Reads, Sound, Relies, Outcomes, Final, Actors
    <2>2. \A b \in Actors : Succeeded(b)' => Succeeded(b) /\ Of(b)' = Of(b)
      BY <1>2, <1>7 DEF RecordScan, AtRest, Succeeded, Reads, Of
    <2> QED
      BY <2>1, <2>2, <1>4, <1>7 DEF RecordScan, Actors
  <1>8. CASE ImportJob
    <2>1. book' = book /\ registry' = registry
      BY <1>8 DEF ImportJob
    <2>2. \A b \in Actors : Succeeded(b)' => Succeeded(b) /\ Of(b)' = Of(b)
      BY <1>2, <1>8 DEF ImportJob, Step, Succeeded, Reads, Of, Attempt, Actors
    <2> QED
      BY <2>1, <2>2, <1>1, <1>2, ExportsKept DEF Seen
  <1>9. CASE RunJob \/ EndJob \/ Take \/ ScanNext \/ DryRun \/ RestartBridge
    <2>1. book' = book /\ registry' = registry
      BY <1>9 DEF RunJob, EndJob, Take, ScanNext, DryRun, RestartBridge
    <2>2. \A b \in Actors : Succeeded(b)' => Succeeded(b) /\ Of(b)' = Of(b)
      <3>1. CASE RunJob
        BY <1>2, <3>1 DEF RunJob, Begun, AtRest, Succeeded, Reads, Of
      <3>2. CASE EndJob \/ RestartBridge
        BY <1>2, <3>2 DEF EndJob, RestartBridge, AtRest, Succeeded, Reads, Of
      <3>3. CASE Take \/ ScanNext
        BY <1>2, <3>3 DEF Take, ScanNext, Begun, AtRest, Succeeded, Reads, Of
      <3>4. CASE DryRun
        BY <1>2, <3>4 DEF DryRun, Outcome, Succeeded, Reads, Of, Attempt
      <3> QED
        BY <1>9, <3>1, <3>2, <3>3, <3>4
    <2> QED
      BY <2>1, <2>2, <1>1, <1>2, ExportsKept DEF Seen
  <1>10. CASE CycleStep \/ ArrivalStep \/ (\E f \in Files : ProcessFile(f)) \/ UNCHANGED pvars
    <2>1. UNCHANGED <<book, registry, reading>>
      BY <1>10 DEF CycleStep, Trigger, Scheduled, StartCycle, Look, ImportCycle, FindCompleted,
                   SendCompleted, RecordCompleted, FinishCycle, ArrivalStep, Unzip, Arrive,
                   ProcessFile, pvars
    <2>2. \A b \in Actors : Succeeded(b)' => Succeeded(b) /\ Of(b)' = Of(b)
      BY <2>1 DEF Succeeded, Reads, Of
    <2> QED
      BY <2>1, <2>2, <1>1, <1>2, ExportsKept DEF Seen
  <1> QED
    BY <1>3, <1>5, <1>6, <1>7, <1>8, <1>9, <1>10, Steps DEF JobStep, FileStep, ScriptStep

(***************************************************************************)
(* What is recorded was imported.                                          *)
(***************************************************************************)
Reliable == faults.seen \cap {"import", "record", "restart"} = {}

\* The actors that are not in a behaviour do nothing.
LEMMA Absent ==
  ASSUME Sound
  PROVE  /\ pdfRegime.actors = {"worker"} => ~ FileStep /\ ~ CycleStep /\ ~ ScriptStep
         /\ pdfRegime.actors = {"pipeline"} => ~ JobStep /\ ~ ScriptStep /\ ~ Unzip
         /\ \A a \in Actors : ReadSteps(a) \/ CannotRead(a) => a \in pdfRegime.actors
  <1>1. /\ \A a \in Actors : Reads(a) # "idle" => a \in pdfRegime.actors
        /\ Employed
    BY DEF Sound, Relies
  <1>2. \A a \in Actors : ReadSteps(a) \/ CannotRead(a) => a \in pdfRegime.actors
    BY <1>1, ReadStepIs
  <1>3. pdfRegime.actors = {"worker"} => ~ FileStep /\ ~ ScriptStep
    BY <1>1 DEF FileStep, ScriptStep, Take, RecordFile, ScanNext, DryRun, RecordScan, Actors,
                Employed, LockHeld
  <1>4. pdfRegime.actors = {"worker"} => ~ CycleStep
    BY <1>1 DEF CycleStep, Trigger, Scheduled, StartCycle, Look, ImportCycle, FindCompleted,
                SendCompleted, RecordCompleted, FinishCycle, Employed, LockHeld
  <1>5. pdfRegime.actors = {"pipeline"} => ~ JobStep
    BY <1>1 DEF JobStep, ProcessFile, RunJob, ImportJob, RecordJob, EndJob, Employed, Actors
  <1>6. pdfRegime.actors = {"pipeline"} => ~ ScriptStep /\ ~ Unzip
    BY <1>1 DEF ScriptStep, ScanNext, DryRun, RecordScan, Unzip, Actors
  <1> QED
    BY <1>2, <1>3, <1>4, <1>5, <1>6

LEMMA WorkerInductive ==
  ASSUME Sound, WorkerImports, pdfRegime.actors = {"worker"}, Reliable', [PNext]_pvars
  PROVE  WorkerImports'
  <1>1. "worker" \in Actors /\ reading \in [Actors -> Attempt] /\ reading["worker"] \in Attempt
    BY DEF Actors, Sound, ReadTyped
  <1>2. CASE ReadingStep
    <2>1. ReadSteps("worker") \/ CannotRead("worker")
      BY <1>2, Absent DEF ReadingStep
    <2>2. db' = db /\ book \subseteq db
      BY <2>1, <1>1, ReadStepIs DEF WorkerImports
    <2>3. CASE Save("worker")
      <3>1. Reads("worker") = "save" /\ Step("worker", "ended")
        BY <2>3 DEF Save
      <3>2. Reads("worker")' = "ended" /\ reading'["worker"].outcome = reading["worker"].outcome
        BY <3>1, <1>1 DEF Step, Reads, Attempt
      <3>3. reading["worker"].outcome # "error"
        BY <3>1, <1>1 DEF Sound, Relies
      <3> QED
        BY <3>2, <3>3 DEF WorkerImports
    <2>4. CASE ~ Save("worker")
      BY <2>1, <2>2, <2>4, <1>1, ReadStepIs DEF WorkerImports
    <2> QED
      BY <2>3, <2>4
  <1>3. CASE ImportJob
    <2>1. ~ Count("import") /\ book' = book
      BY <1>3 DEF ImportJob, Count, Reliable
    <2>2. CASE reading["worker"].outcome = "error"
      BY <2>1, <2>2, <1>3 DEF ImportJob, WorkerImports
    <2>3. CASE reading["worker"].outcome # "error"
      BY <2>1, <2>3, <1>3 DEF ImportJob, WorkerImports
    <2> QED
      BY <2>2, <2>3
  <1>4. CASE RunJob \/ RecordJob \/ EndJob
    <2>1. UNCHANGED <<book, db>> /\ Reads("worker") # "ended"
      BY <1>4 DEF RunJob, RecordJob, EndJob
    <2> QED
      BY <2>1 DEF WorkerImports
  <1>5. CASE ArrivalStep \/ (\E f \in Files : ProcessFile(f)) \/ UNCHANGED pvars
    <2>1. UNCHANGED <<book, db, reading>>
      BY <1>5 DEF ArrivalStep, Unzip, Arrive, ProcessFile, pvars
    <2> QED
      BY <2>1 DEF WorkerImports, Reads
  <1>6. ~ RestartBridge
    BY DEF RestartBridge, Count, Reliable
  <1> QED
    BY <1>2, <1>3, <1>4, <1>5, <1>6, Absent, Steps DEF JobStep

\* One recorded statement, and the file the pipeline is reading.
Left(f) == f \notin cycle.todo /\ (Reads("pipeline") # "idle" => Of("pipeline") # f)
Imported(f) == f \in book /\ Twins(f) = {} => f \in db \/ (cycle.pc = "work" /\ cycle.ok)

LEMMA PipelineKept ==
  ASSUME PipelineImports, UNCHANGED <<registry, reading, book>>, inbox \subseteq inbox',
         db \subseteq db', cycle'.todo \cap Seen \subseteq cycle.todo,
         Reads("pipeline") # "idle" => cycle'.todo \subseteq cycle.todo,
         cycle.pc = "work" /\ cycle.ok => (cycle'.pc = "work" /\ cycle'.ok) \/ book \subseteq db'
  PROVE  PipelineImports'
  <1>1. \A f : Twins(f) \subseteq Twins(f)'
    BY DEF Twins
  <1>2. Seen' = Seen
    BY DEF Seen
  <1> QED
    BY <1>1, <1>2 DEF PipelineImports, Reads, Of

LEMMA PipelineReads ==
  ASSUME Sound, PipelineImports, Alone, ReadSteps("pipeline") \/ CannotRead("pipeline")
  PROVE  PipelineImports'
  <1> DEFINE p == reading["pipeline"].pages
  <1>1. "pipeline" \in Actors /\ Relies("pipeline")
    BY DEF Actors, Sound
  <1>2. /\ UNCHANGED <<inbox, registry, db, cycle>>
        /\ Reads("pipeline") # "idle" /\ Of("pipeline")' = Of("pipeline")
        /\ book' = book \/ Save("pipeline")
    BY <1>1, ReadStepIs
  <1>3. Seen' = Seen /\ \A f : Twins(f)' = Twins(f)
    BY <1>2 DEF Seen, Twins
  <1>4. ASSUME NEW f \in Seen, f \in book', Twins(f) = {} PROVE f \in book
    <2>1. CASE Save("pipeline")
      <3>1. /\ Reads("pipeline") = "save"
            /\ book' \subseteq book \cup {p}
        BY <2>1, <1>1 DEF Save, Relies
      <3>2. CASE f = p
        <4>1. p # Of("pipeline")
          BY <3>2, <1>2 DEF PipelineImports
        <4>2. p \in Twins(Of("pipeline")) /\ Of("pipeline") \in inbox
          BY <3>1, <4>1, <1>1 DEF Relies
        <4>3. Of("pipeline") \in Twins(p)
          BY <4>1, <4>2 DEF Twins
        <4> QED
          BY <3>2, <4>3, <1>4
      <3> QED
        BY <3>1, <3>2, <1>4
    <2> QED
      BY <2>1, <1>2, <1>4
  <1> QED
    BY <1>2, <1>3, <1>4 DEF PipelineImports

LEMMA PipelineInductive ==
  ASSUME Sound, PipelineImports, pdfRegime.actors = {"pipeline"}, Reliable', [PNext]_pvars
  PROVE  PipelineImports'
  <1>1. /\ "pipeline" \in Actors /\ reading \in [Actors -> Attempt]
        /\ cycle \in [pc : CyclePcs, unseen : SUBSET inbox, todo : SUBSET inbox, ok : BOOLEAN]
        /\ Employed /\ RecordsTyped /\ inbox \subseteq inbox'
    BY FaultsGrow DEF Actors, Sound, ReadTyped, CycleTyped
  <1>2. CASE ReadingStep
    <2>1. Alone
      BY <1>1 DEF Alone
    <2> QED
      BY <1>2, <2>1, Absent, PipelineReads DEF ReadingStep
  <1>3. CASE Take
    <2>1. PICK f \in cycle.todo :
            /\ reading' = [reading EXCEPT !["pipeline"] = Begun(f)]
            /\ cycle' = [cycle EXCEPT !.todo = @ \ {f}]
      BY <1>3 DEF Take
    <2>2. UNCHANGED <<registry, book, db, inbox>>
      BY <1>3 DEF Take, files
    <2>3. /\ Of("pipeline")' = f /\ cycle'.todo = cycle.todo \ {f}
          /\ cycle'.pc = cycle.pc /\ cycle'.ok = cycle.ok
      BY <2>1, <1>1 DEF Of, Begun, AtRest
    <2>4. Seen' = Seen /\ \A g : Twins(g)' = Twins(g)
      BY <2>2 DEF Seen, Twins
    <2> QED
      BY <2>2, <2>3, <2>4 DEF PipelineImports
  <1>4. CASE RecordFile
    <2> DEFINE f == Of("pipeline")
               verdict == Verdict(reading["pipeline"].outcome)
    <2>1. /\ Reads("pipeline") = "ended" /\ Record(f, verdict)
          /\ cycle' = [cycle EXCEPT !.ok = OkAfter(verdict)]
          /\ reading' = [reading EXCEPT !["pipeline"] = AtRest]
          /\ UNCHANGED <<book, db, inbox>>
      BY <1>4 DEF RecordFile, Count, Reliable, files
    <2>2. Reads("pipeline")' = "idle" /\ f \notin cycle.todo /\ cycle.pc = "work"
      BY <2>1, <1>1 DEF Reads, AtRest, PipelineImports, Employed
    <2>3. cycle'.todo = cycle.todo /\ cycle'.pc = "work" /\ cycle'.ok = (cycle.ok \/ verdict = "ok")
      BY <2>1, <2>2, <1>1 DEF OkAfter
    <2>4. \A g \in Seen' : g \in Seen \/ (g = f /\ verdict = "ok")
      BY <2>1, <1>1 DEF Seen, Record, RecordsTyped
    <2>5. \A g : Twins(g)' = Twins(g)
      BY <2>1 DEF Twins
    <2> QED
      BY <2>1, <2>2, <2>3, <2>4, <2>5 DEF PipelineImports
  <1>5. CASE Trigger \/ Scheduled
    <2>1. UNCHANGED <<registry, reading, book, db>> /\ (cycle' = cycle \/ (~ LockHeld /\ Acquire))
      BY <1>5 DEF Trigger, Scheduled
    <2>2. CASE ~ LockHeld /\ Acquire
      <3>1. cycle'.todo = {} /\ cycle.pc = "off"
        BY <2>2, OffTyped DEF Acquire, LockHeld, CyclePcs
      <3> QED
        BY <3>1, <2>1, <1>1, PipelineKept
    <2> QED
      BY <2>1, <2>2, <1>1, PipelineKept
  <1>6. CASE Look
    <2>1. /\ cycle.pc = "scan" /\ Reads("pipeline") = "idle"
          /\ UNCHANGED <<registry, reading, book, db>>
      BY <1>6, <1>1 DEF Look, Employed
    <2>2. cycle'.todo \cap Seen \subseteq cycle.todo
      <3>1. CASE cycle' = [cycle EXCEPT !.pc = "work"]
        BY <3>1, <1>1
      <3>2. ASSUME NEW f \in cycle.unseen,
                   cycle' = [cycle EXCEPT !.unseen = @ \ {f}, !.todo = @ \cup ({f} \ Seen)]
            PROVE  cycle'.todo \cap Seen \subseteq cycle.todo
        <4>1. cycle'.todo = cycle.todo \cup ({f} \ Seen)
          BY <3>2, <1>1
        <4> QED
          BY <4>1
      <3> QED
        BY <3>1, <3>2, <1>6 DEF Look
    <2> QED
      BY <2>1, <2>2, <1>1, PipelineKept
  <1>7. CASE ImportCycle
    <2>1. /\ cycle' = [cycle EXCEPT !.pc = "months"]
          /\ db' = IF cycle.ok THEN db \cup book ELSE db
          /\ UNCHANGED <<registry, reading, book>>
      BY <1>7 DEF ImportCycle, Count, Reliable
    <2>2. cycle'.todo = cycle.todo
      BY <2>1, <1>1
    <2>3. db \subseteq db' /\ (cycle.ok => book \subseteq db')
      BY <2>1
    <2> QED
      BY <2>1, <2>2, <2>3, <1>1, PipelineKept
  <1>8. CASE StartCycle \/ FindCompleted \/ SendCompleted \/ RecordCompleted \/ FinishCycle
    <2>1. UNCHANGED <<registry, reading, book, db>> /\ cycle.pc # "work"
      BY <1>8 DEF StartCycle, FindCompleted, SendCompleted, RecordCompleted, FinishCycle
    <2>2. cycle'.todo \subseteq cycle.todo
      <3>1. CASE StartCycle
        BY <3>1, <1>1 DEF StartCycle
      <3>2. CASE FindCompleted
        BY <3>2, <1>1 DEF FindCompleted
      <3>3. CASE SendCompleted \/ RecordCompleted
        BY <3>3, <1>1 DEF SendCompleted, RecordCompleted
      <3>4. CASE FinishCycle
        BY <3>4, OffTyped DEF FinishCycle, CyclePcs
      <3> QED
        BY <1>8, <3>1, <3>2, <3>3, <3>4
    <2> QED
      BY <2>1, <2>2, <1>1, PipelineKept
  <1>9. CASE (\E f \in Files : Arrive(f)) \/ UNCHANGED pvars
    <2>1. UNCHANGED <<registry, reading, book, db, cycle>>
      BY <1>9 DEF Arrive, pvars
    <2> QED
      BY <2>1, <1>1, PipelineKept
  <1>10. ~ RestartBridge
    BY DEF RestartBridge, Count, Reliable
  <1> QED
    BY <1>2, <1>3, <1>4, <1>5, <1>6, <1>7, <1>8, <1>9, <1>10, Absent, Steps
       DEF FileStep, CycleStep, ArrivalStep

LEMMA ImportInductive ==
  ASSUME Sound, ImportSound, [PNext]_pvars
  PROVE  ImportSound'
  <1>1. pdfRegime' = pdfRegime /\ (Reliable' => Reliable)
    BY FaultsGrow DEF Reliable
  <1> QED
    BY <1>1, WorkerInductive, PipelineInductive DEF ImportSound, Reliable, Alone

(***************************************************************************)
(* The theorem.                                                            *)
(***************************************************************************)
Records == Sound /\ ExportSound /\ ImportSound /\ ShownSound /\ MonthSound

LEMMA RecordsInit ==
  ASSUME PInit
  PROVE  Records
  <1>1. Sound
    BY InitSound
  <1>2. /\ Seen = {} /\ book = {} /\ \A a \in Actors : Reads(a) = "idle"
        /\ "worker" \in Actors /\ "pipeline" \in Actors /\ cycle.todo = {} /\ cycle.pc = "off"
    BY DEF PInit, Seen, Reads, AtRest, Actors, Off
  <1>3. ExportSound /\ ImportSound
    BY <1>2 DEF ExportSound, ImportSound, WorkerImports, PipelineImports
  <1>4. ShownSound
    BY DEF PInit, ShownSound, StatusOf
  <1>5. MonthSound
    BY <1>2 DEF PInit, MonthSound, Notified
  <1> QED
    BY <1>1, <1>3, <1>4, <1>5 DEF Records

LEMMA RecordsTrue ==
  ASSUME Records
  PROVE  RecordsAreTrue
  <1>1. PTypeOK
    <2>1. /\ inbox \subseteq Files /\ zip \in {"none", "ok", "error"}
          /\ \A s \in DOMAIN unlocked : unlocked[s] \in Locked \cup {NoFile}
          /\ book \subseteq Files \ Empty /\ db \subseteq Files \ Empty
          /\ registry \in [Files -> {"none", "ok", "partial", "error", "dry-run"}]
      BY DEF Records, Sound, FilesTyped, CopiesTyped, RecordsTyped, Paid
    <2>2. /\ \A j \in DOMAIN jobs : jobs[j].file \in inbox
                                    /\ jobs[j].status \in Final \cup {"pending", "running"}
          /\ \A i \in DOMAIN queue : jobs[queue[i]].status = "pending"
      <3>1. \A j \in DOMAIN jobs : jobs[j] \in Job
        BY DEF Records, Sound, QueueSound
      <3> QED
        BY <3>1 DEF Records, Sound, QueueSound, Job, Statuses
    <2>3. \A a \in Actors :
            /\ Reads(a) \in {"idle", "unlock", "parse", "load", "save", "ended", "imported", "recorded"}
            /\ Reads(a) # "idle" => Of(a) \in inbox
            /\ Reads(a) \in {"parse", "load", "save"} => reading[a].pages \in Files
      BY <2>1 DEF Records, Sound, ReadTyped, Attempt, Relies, Reads
    <2>4. /\ cycle.pc \in CyclePcs /\ cycle.unseen \subseteq inbox /\ cycle.todo \subseteq inbox
          /\ timer \in BOOLEAN /\ month.alerts \in Nat
      BY DEF Records, Sound, CycleTyped
    <2> QED
      BY <2>1, <2>2, <2>3, <2>4 DEF PTypeOK, CyclePcs
  <1>2. RecordedAreExported
    BY DEF Records, ExportSound, RecordedAreExported, Exported
  <1>3. RecordedAreImported
    <2> SUFFICES ASSUME Alone, "batch" \notin pdfRegime.actors, Calm, ~ LockHeld, Reliable,
                        NEW f \in Seen \cap book
                 PROVE  f \in db \/ Twins(f) # {}
      BY DEF RecordedAreImported, Reliable
    <2>1. pdfRegime.actors \in {{"worker"}, {"pipeline"}}
      BY DEF Alone, Actors
    <2>2. Reads("worker") = "idle" /\ cycle.pc = "off"
      BY DEF Calm, Actors, LockHeld
    <2> QED
      BY <2>1, <2>2 DEF Records, ImportSound, WorkerImports, PipelineImports, Reliable
  <1>4. ShownIsLast
    <2> SUFFICES ASSUME NEW f \in Files, \A a \in Actors : Of(a) # f, Undisturbed,
                        ~ \E i \in DOMAIN queue : jobs[queue[i]].file = f
                 PROVE  Shown(f) = IF last[f] = "dry-run" THEN "none" ELSE last[f]
      BY DEF ShownIsLast, Undisturbed
    <2>1. Told(f) /\ ~ Outstanding(f)
      BY DEF Records, ShownSound, Undisturbed, Told, Outstanding, Actors
    <2>2. Shown(f) = CASE registry[f] = "ok" -> "done"
                       [] registry[f] = "dry-run" -> "none"
                       [] OTHER -> registry[f]
      BY <2>1 DEF Shown, Told
    <2>3. last[f] \in Outcomes /\ registry[f] = StatusOf(last[f])
      BY <2>1 DEF Records, Sound, RecordsTyped, Told
    <2> QED
      BY <2>2, <2>3 DEF StatusOf, Outcomes, Final
  <1>5. MonthAlertedOnce
    <2>1. month.alerts \in Nat /\ faults.n \in Nat
      BY DEF Records, Sound, CycleTyped, PdfBounded
    <2> QED
      BY <2>1 DEF Records, MonthSound, MonthAlertedOnce
  <1> QED
    BY <1>1, <1>2, <1>3, <1>4, <1>5 DEF RecordsAreTrue

(***************************************************************************)
(* Whichever PDFs there are and whatever fails: types, what the registry   *)
(* calls done was exported and imported, the PWA is shown how the last     *)
(* attempt ended, and a month is announced once (pipeline.py,              *)
(* pdf_handler.py, batch_process.py).                                      *)
(***************************************************************************)
THEOREM RecordsAlwaysTrue == PSpec => []RecordsAreTrue
  <1>1. PInit => Records
    BY RecordsInit
  <1>2. Records /\ [PNext]_pvars => Records'
    BY SoundInductive, ExportInductive, ImportInductive, ShownInductive, MonthInductive DEF Records
  <1>3. Records => RecordsAreTrue
    BY RecordsTrue
  <1> QED
    BY <1>1, <1>2, <1>3, PTL DEF PSpec
-----------------------------------------------------------------------------
====
