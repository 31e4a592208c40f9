---------------------------- MODULE StatementsProofs ----------------------------
(***************************************************************************)
(* Proofs about Statements, for every bank, card, account, security,       *)
(* currency and figure, and any number of lines, pages and rows.           *)
(*                                                                         *)
(* A behaviour is one statement of one bank, printed line by line.  The    *)
(* invariant StatementsInv has a part for each kind, which says how far    *)
(* what the parser knows agrees with what is printed: the parsers of cards *)
(* and accounts follow the bank at every line; brokers' texts and first    *)
(* pages are complete before they are read, so that their parts say which  *)
(* texts a bank can print.  The bank alone decides the kind, so that only  *)
(* steps of its own kind are possible, and they keep its part.             *)
(***************************************************************************)
EXTENDS Statements, FiniteSetTheorems, SequenceTheorems, WellFoundedInduction, TLAPS

LEMMA LeastNumber ==
  ASSUME NEW S \in SUBSET Nat, S # {}
  PROVE  \E m \in S : \A n \in S : m <= n
  <1> DEFINE sets == {0 .. i : i \in S}
  <1>1. \A i \in S : 0 .. i \in SUBSET Nat /\ IsFiniteSet(0 .. i) BY FS_Interval
  <1>2. sets \subseteq FiniteSubsetsOf(Nat) /\ sets # {} BY <1>1 DEF FiniteSubsetsOf
  <1>3. PICK x \in sets : \A y \in sets : ~ (<<y, x>> \in StrictSubsetOrdering(Nat))
    <2>1. IsWellFoundedOn(StrictSubsetOrdering(Nat), FiniteSubsetsOf(Nat))
      BY FS_StrictSubsetOrderingWellFounded
    <2> HIDE DEF sets
    <2> QED BY <1>2, <2>1, WFMin
  <1>4. PICK m \in S : x = 0 .. m BY <1>3
  <1>5. ASSUME NEW n \in S, n < m
        PROVE  FALSE
    <2>1. 0 .. n \subseteq 0 .. m /\ m \in 0 .. m /\ m \notin 0 .. n BY <1>5
    <2>2. <<0 .. n, 0 .. m>> \in StrictSubsetOrdering(Nat) BY <1>1, <2>1 DEF StrictSubsetOrdering
    <2> QED BY <1>3, <1>4, <2>2
  <1> QED BY <1>5

(* StatementReading. The positions of a set in their order. *)
\* Of a set of numbers that holds 0 and with each number the next, nothing below n is missing.
LEMMA UpFromZero ==
  ASSUME NEW n \in Nat, NEW good, 0 \in good, \A i \in 0 .. (n - 1) : i \in good => i + 1 \in good
  PROVE  0 .. n \subseteq good
  <1> DEFINE bad == {i \in 0 .. n : i \notin good}
  <1> SUFFICES ASSUME bad # {} PROVE FALSE
    OBVIOUS
  <1>1. PICK k \in bad : \A j \in bad : k <= j
    <2>1. bad \in SUBSET Nat OBVIOUS
    <2> HIDE DEF bad
    <2> QED BY <2>1, LeastNumber
  <1>2. k # 0 /\ k - 1 \in 0 .. (n - 1) /\ ~ (k <= k - 1) BY <1>1
  <1>3. k - 1 \in good BY <1>1, <1>2
  <1> QED BY <1>1, <1>2, <1>3

PlacedBy(f, I, n) ==
  f = [i \in 0 .. n |-> IF i = 0 THEN <<>> ELSE IF i \in I THEN Append(f[i - 1], i) ELSE f[i - 1]]

LEMMA PlacingExists ==
  ASSUME NEW I, NEW n \in Nat
  PROVE  \E f : PlacedBy(f, I, n)
  <1> DEFINE good == {k \in 0 .. n : \E f : PlacedBy(f, I, k)}
  <1>1. 0 \in good
    <2>1. PlacedBy([k \in 0 .. 0 |-> <<>>], I, 0) BY DEF PlacedBy
    <2> QED BY <2>1
  <1>2. ASSUME NEW j \in 0 .. (n - 1), NEW f, PlacedBy(f, I, j)
        PROVE  \E g : PlacedBy(g, I, j + 1)
    <2> DEFINE k == j + 1
               g == [i \in 0 .. k |-> IF i = 0 THEN <<>> ELSE IF i \in I THEN Append(f[i - 1], i) ELSE f[i - 1]]
    <2>1. \A i \in 0 .. j : i \in 0 .. k /\ g[i] = f[i]
      <3>1. \A i \in 0 .. j : f[i] = IF i = 0 THEN <<>> ELSE IF i \in I THEN Append(f[i - 1], i) ELSE f[i - 1]
        BY <1>2 DEF PlacedBy
      <3>2. \A i \in 0 .. j : i \in 0 .. k OBVIOUS
      <3>3. \A i \in 0 .. k : g[i] = IF i = 0 THEN <<>> ELSE IF i \in I THEN Append(f[i - 1], i) ELSE f[i - 1]
        OBVIOUS
      <3> HIDE DEF g, k
      <3> QED BY <3>1, <3>2, <3>3
    <2>2. \A i \in 0 .. k : i # 0 => i - 1 \in 0 .. j OBVIOUS
    <2>3. \A i \in 0 .. k : i # 0 => f[i - 1] = g[i - 1]
      <3> HIDE DEF g, k
      <3> QED BY <2>1, <2>2
    <2>4. PlacedBy(g, I, k)
      <3> HIDE DEF k
      <3> QED BY <2>3, Zenon DEF PlacedBy
    <2> QED BY <2>4
  <1>3. \A i \in 0 .. (n - 1) : i \in good => i + 1 \in good BY <1>2
  <1>4. 0 .. n \subseteq good
    <2> HIDE DEF good
    <2> QED BY <1>1, <1>3, UpFromZero
  <1> QED BY <1>4

LEMMA PlacedStep ==
  ASSUME NEW f, NEW I, NEW n \in Nat, PlacedBy(f, I, n)
  PROVE  /\ f[0] = <<>>
         /\ \A i \in 0 .. (n - 1) : f[i + 1] = IF i + 1 \in I THEN Append(f[i], i + 1) ELSE f[i]
  <1>1. \A i \in 0 .. n : f[i] = IF i = 0 THEN <<>> ELSE IF i \in I THEN Append(f[i - 1], i) ELSE f[i - 1]
    BY DEF PlacedBy
  <1>2. \A i \in 0 .. (n - 1) : i + 1 \in 0 .. n /\ i + 1 # 0 /\ (i + 1) - 1 = i OBVIOUS
  <1>3. 0 \in 0 .. n OBVIOUS
  <1> QED BY <1>1, <1>2, <1>3

LEMMA PlacedAlike ==
  ASSUME NEW I, NEW J, NEW n \in Nat, NEW f, NEW g, NEW m \in Nat, n <= m,
         PlacedBy(f, I, n), PlacedBy(g, J, m), \A i \in 1 .. n : i \in I <=> i \in J
  PROVE  \A i \in 0 .. n : f[i] = g[i]
  <1> DEFINE good == {i \in 0 .. n : f[i] = g[i]}
  <1>f. f[0] = <<>> /\ \A i \in 0 .. (n - 1) : f[i + 1] = IF i + 1 \in I THEN Append(f[i], i + 1) ELSE f[i]
    <2>1. PlacedBy(f, I, n) OBVIOUS
    <2> QED BY ONLY <2>1, n \in Nat, PlacedStep
  <1>g. g[0] = <<>> /\ \A i \in 0 .. (m - 1) : g[i + 1] = IF i + 1 \in J THEN Append(g[i], i + 1) ELSE g[i]
    BY PlacedStep
  <1>1. 0 \in good BY <1>f, <1>g
  <1>2. ASSUME NEW i \in 0 .. (n - 1), f[i] = g[i]
        PROVE  f[i + 1] = g[i + 1]
    <2>1. f[i + 1] = IF i + 1 \in I THEN Append(f[i], i + 1) ELSE f[i] BY <1>f
    <2>2. i \in 0 .. (m - 1) /\ i + 1 \in 1 .. n OBVIOUS
    <2>3. g[i + 1] = IF i + 1 \in J THEN Append(g[i], i + 1) ELSE g[i] BY <1>g, <2>2
    <2> QED BY <1>2, <2>1, <2>2, <2>3
  <1>3. 0 .. n \subseteq good
    <2>1. \A i \in 0 .. (n - 1) : i \in good => i + 1 \in good BY <1>2
    <2> HIDE DEF good
    <2> QED BY <1>1, <2>1, UpFromZero
  <1> QED BY <1>3

LEMMA PlacesBy ==
  ASSUME NEW I, NEW n \in Nat
  PROVE  \E f : PlacedBy(f, I, n) /\ Places(I, n) = f[n]
  <1> DEFINE f == CHOOSE f : PlacedBy(f, I, n)
  <1>1. Places(I, n) = f[n] BY DEF Places, PlacedBy
  <1>2. PlacedBy(f, I, n) BY PlacingExists
  <1> QED BY <1>1, <1>2

\* Only what of the set is no larger than n counts.
LEMMA PlacesOfSame ==
  ASSUME NEW I, NEW J, NEW n \in Nat, \A i \in 1 .. n : i \in I <=> i \in J
  PROVE  Places(I, n) = Places(J, n)
  <1>1. PICK f : PlacedBy(f, I, n) /\ Places(I, n) = f[n] BY PlacesBy
  <1>2. PICK g : PlacedBy(g, J, n) /\ Places(J, n) = g[n] BY PlacesBy
  <1>3. n <= n /\ n \in 0 .. n OBVIOUS
  <1>4. f[n] = g[n]
    BY ONLY <1>1, <1>2, <1>3, n \in Nat, \A i \in 1 .. n : i \in I <=> i \in J, PlacedAlike
  <1> QED BY <1>1, <1>2, <1>4

LEMMA NoPlaces ==
  ASSUME NEW I
  PROVE  Places(I, 0) = <<>>
  <1>1. PICK f : PlacedBy(f, I, 0) /\ Places(I, 0) = f[0] BY PlacesBy
  <1> QED BY <1>1 DEF PlacedBy

LEMMA NextPlace ==
  ASSUME NEW I, NEW n \in Nat
  PROVE  Places(I, n + 1) = IF n + 1 \in I THEN Append(Places(I, n), n + 1) ELSE Places(I, n)
  <1>1. PICK f : PlacedBy(f, I, n) /\ Places(I, n) = f[n] BY PlacesBy
  <1>2. PICK g : PlacedBy(g, I, n + 1) /\ Places(I, n + 1) = g[n + 1] BY PlacesBy
  <1>3. f[n] = g[n] BY <1>1, <1>2, PlacedAlike
  <1>4. g[n + 1] = IF n + 1 \in I THEN Append(g[n], n + 1) ELSE g[n]
    <2>1. n \in 0 .. ((n + 1) - 1) /\ n + 1 \in Nat OBVIOUS
    <2> QED BY <1>2, <2>1, PlacedStep
  <1> QED BY <1>1, <1>2, <1>3, <1>4

\* What holds of the positions up to 0 and stays so with each next position holds of all.
LEMMA PlacesAreNumbers ==
  ASSUME NEW I, NEW n \in Nat
  PROVE  /\ Places(I, n) \in Seq(1 .. n)
         /\ \A j \in 1 .. Len(Places(I, n)) : Places(I, n)[j] \in I
         /\ \A i \in 1 .. n : i \in I => \E j \in 1 .. Len(Places(I, n)) : Places(I, n)[j] = i
  <1> DEFINE at(k) == Places(I, k)
             right(k) == /\ at(k) \in Seq(1 .. n)
                         /\ \A j \in 1 .. Len(at(k)) : at(k)[j] \in I
                         /\ \A i \in 1 .. k : i \in I => \E j \in 1 .. Len(at(k)) : at(k)[j] = i
             good == {k \in 0 .. n : right(k)}
  <1>1. right(0)
    <2>1. at(0) = <<>> BY NoPlaces
    <2>2. 1 .. 0 = {} /\ <<>> \in Seq(1 .. n) /\ Len(<<>>) = 0 OBVIOUS
    <2> QED BY <2>1, <2>2
  <1>2. ASSUME NEW k \in 0 .. (n - 1), right(k)
        PROVE  right(k + 1)
    <2>1. k \in Nat /\ k + 1 \in 1 .. n /\ at(k) \in Seq(1 .. n) /\ Len(at(k)) \in Nat BY <1>2
    <2>2. at(k + 1) = IF k + 1 \in I THEN Append(at(k), k + 1) ELSE at(k) BY <2>1, NextPlace
    <2>3. CASE k + 1 \in I
      <3> DEFINE old == at(k)
                 new == at(k + 1)
      <3>1. new = Append(old, k + 1) BY <2>2, <2>3
      <3>2. old \in Seq(1 .. n) /\ Len(old) \in Nat BY <2>1
      <3>3. /\ \A j \in 1 .. Len(old) : old[j] \in I
            /\ \A i \in 1 .. k : i \in I => \E j \in 1 .. Len(old) : old[j] = i
        BY <1>2
      <3> HIDE DEF old, new
      <3>4. new \in Seq(1 .. n) /\ Len(new) = Len(old) + 1 BY <2>1, <3>1, <3>2
      <3>5. \A j \in 1 .. Len(old) : new[j] = old[j] BY <3>1, <3>2
      <3>6. new[Len(old) + 1] = k + 1 BY <3>1, <3>2
      <3>7. \A j \in 1 .. Len(new) : new[j] \in I
        <4>1. \A j \in 1 .. Len(new) : j \in 1 .. Len(old) \/ j = Len(old) + 1 BY <3>2, <3>4
        <4> QED BY <2>3, <3>3, <3>5, <3>6, <4>1
      <3>8. \A i \in 1 .. (k + 1) : i \in I => \E j \in 1 .. Len(new) : new[j] = i
        <4> SUFFICES ASSUME NEW i \in 1 .. (k + 1), i \in I PROVE \E j \in 1 .. Len(new) : new[j] = i
          OBVIOUS
        <4>1. CASE i = k + 1 BY <3>2, <3>4, <3>6, <4>1
        <4>2. CASE i # k + 1
          <5>0. i \in 1 .. k BY <2>1, <4>2
          <5>1. PICK j \in 1 .. Len(old) : old[j] = i BY <3>3, <5>0
          <5> QED BY <3>2, <3>4, <3>5, <5>1
        <4> QED BY <4>1, <4>2
      <3> QED BY <3>4, <3>7, <3>8 DEF new
    <2>4. CASE k + 1 \notin I
      <3>1. at(k + 1) = at(k) BY <2>2, <2>4
      <3>2. \A i \in 1 .. (k + 1) : i \in I => i \in 1 .. k BY <2>1, <2>4
      <3> HIDE DEF at
      <3> QED BY <1>2, <2>1, <3>1, <3>2
    <2> QED BY <2>3, <2>4
  <1>3. 0 .. n \subseteq good
    <2>1. 0 \in good
      <3> HIDE DEF right
      <3> QED BY <1>1
    <2>2. \A k \in 0 .. (n - 1) : k \in good => k + 1 \in good
      <3> HIDE DEF right
      <3> QED BY <1>2
    <2> HIDE DEF good
    <2> QED BY <2>1, <2>2, UpFromZero
  <1>4. n \in good
    <2> HIDE DEF good
    <2> QED BY <1>3
  <1> QED BY <1>4

LEMMA AllPlaces ==
  ASSUME NEW n \in Nat, NEW I, 1 .. n \subseteq I
  PROVE  Places(I, n) = [i \in 1 .. n |-> i]
  <1> DEFINE right(k) == Places(I, k) = [i \in 1 .. k |-> i]
             good == {k \in 0 .. n : right(k)}
  <1>1. right(0)
    <2>1. [i \in 1 .. 0 |-> i] = <<>> OBVIOUS
    <2> QED BY <2>1, NoPlaces
  <1>2. ASSUME NEW k \in 0 .. (n - 1), right(k)
        PROVE  right(k + 1)
    <2>1. k \in Nat /\ k + 1 \in I OBVIOUS
    <2>2. Places(I, k + 1) = Append([i \in 1 .. k |-> i], k + 1) BY <1>2, <2>1, NextPlace
    <2>3. Append([i \in 1 .. k |-> i], k + 1) = [i \in 1 .. (k + 1) |-> i] BY <2>1
    <2> QED BY <2>2, <2>3
  <1>3. 0 .. n \subseteq good
    <2>1. 0 \in good
      <3> HIDE DEF right
      <3> QED BY <1>1
    <2>2. \A k \in 0 .. (n - 1) : k \in good => k + 1 \in good
      <3> HIDE DEF right
      <3> QED BY <1>2
    <2> HIDE DEF good
    <2> QED BY <2>1, <2>2, UpFromZero
  <1>4. n \in good
    <2> HIDE DEF good
    <2> QED BY <1>3
  <1> QED BY <1>4

LEMMA PickedAll ==
  ASSUME NEW S, NEW s \in Seq(S), NEW I, DOMAIN s \subseteq I
  PROVE  Picked(s, I) = s
  <1>1. Len(s) \in Nat /\ DOMAIN s = 1 .. Len(s) OBVIOUS
  <1>2. Places(I, Len(s)) = [i \in 1 .. Len(s) |-> i] BY <1>1, AllPlaces
  <1>3. Picked(s, I) = [j \in 1 .. Len(s) |-> s[j]] BY <1>1, <1>2 DEF Picked
  <1> QED BY <1>1, <1>3

(* StatementReading. Sheets, parsers and rows. *)
SheetFields == {"k", "of", "pages", "stray", "opening", "saldo", "rows", "accounts", "booked", "text"}
ReadFields == {"on", "done", "more", "dated", "of", "currency", "opening", "closing", "saldo", "rows", "accounts", "booked", "error"}
FieldsKept == DOMAIN sheet = SheetFields /\ DOMAIN read = ReadFields

Bookings(S) == [of : S, year : {-1, 0}, amount : Int, saldo : Int, lines : Int, fx : BOOLEAN, whole : BOOLEAN]

RowPrinted(of, year, amount, saldo, whole) == [Row(of, year, amount, saldo) EXCEPT !.whole = whole]

LEMMA RowMade ==
  ASSUME NEW S, NEW of \in S, NEW year \in {-1, 0}, NEW amount \in Int, NEW saldo \in Int, NEW whole \in BOOLEAN
  PROVE  RowPrinted(of, year, amount, saldo, whole) \in Bookings(S) /\ Row(of, year, amount, saldo) \in Bookings(S)
  <1> DEFINE row == Row(of, year, amount, saldo)
  <1>1. row = [of |-> of, year |-> year, amount |-> amount, saldo |-> saldo, lines |-> 1, fx |-> FALSE, whole |-> TRUE]
    BY DEF Row
  <1> HIDE DEF row
  <1>2. row \in Bookings(S) /\ row.whole = TRUE BY <1>1 DEF Bookings
  <1>3. [row EXCEPT !.whole = whole] \in Bookings(S) BY <1>2 DEF Bookings
  <1> QED BY <1>2, <1>3 DEF row, RowPrinted

LEMMA RowPrintedWhole ==
  ASSUME NEW of, NEW year, NEW amount, NEW saldo, NEW whole
  PROVE  RowPrinted(of, year, amount, saldo, whole).whole = whole
  BY DEF RowPrinted, Row

LEMMA RowWholePrinted ==
  ASSUME NEW of, NEW year, NEW amount, NEW saldo
  PROVE  Row(of, year, amount, saldo).whole = TRUE
  BY DEF Row

LEMMA RowsGrow ==
  ASSUME NEW R, NEW rows \in Seq(R), NEW row \in R, NEW new, new = Append(rows, row)
  PROVE  /\ new \in Seq(R) /\ Len(new) = Len(rows) + 1 /\ Len(rows) \in Nat /\ new # <<>>
         /\ new[Len(new)] = row
         /\ \A i \in 1 .. Len(rows) : new[i] = rows[i]
         /\ \A i \in 1 .. Len(new) : i \in 1 .. Len(rows) \/ i = Len(new)
  <1>1. /\ new \in Seq(R) /\ new # <<>> /\ Len(new) = Len(rows) + 1 /\ new[Len(new)] = row
        /\ \A i \in 1 .. Len(rows) : new[i] = rows[i]
    BY AppendProperties
  <1>2. Len(rows) \in Nat OBVIOUS
  <1>3. \A i \in 1 .. (Len(rows) + 1) : i \in 1 .. Len(rows) \/ i = Len(rows) + 1 BY <1>2
  <1> QED BY <1>1, <1>2, <1>3

LEMMA LastRowInside ==
  ASSUME NEW R, NEW rows \in Seq(R), rows # <<>>
  PROVE  Len(rows) \in Nat /\ Len(rows) \in 1 .. Len(rows)
  OBVIOUS

\* The last row of a sequence of rows changed.
LEMMA LastChanged ==
  ASSUME NEW R, NEW rows \in Seq(R), rows # <<>>, NEW row \in R, NEW new, new = [rows EXCEPT ![Len(rows)] = row]
  PROVE  /\ new \in Seq(R) /\ Len(new) = Len(rows) /\ new # <<>>
         /\ new[Len(rows)] = row
         /\ \A i \in 1 .. (Len(rows) - 1) : new[i] = rows[i]
  <1>1. Len(rows) \in Nat /\ Len(rows) >= 1 /\ Len(rows) \in 1 .. Len(rows) OBVIOUS
  <1>2. /\ new \in Seq(R) /\ Len(new) = Len(rows)
        /\ \A j \in 1 .. Len(rows) : new[j] = IF j = Len(rows) THEN row ELSE rows[j]
    BY <1>1, ExceptSeq
  <1>3. new # <<>> BY <1>1, <1>2
  <1>4. \A i \in 1 .. (Len(rows) - 1) : i \in 1 .. Len(rows) /\ i # Len(rows) BY <1>1
  <1> QED BY <1>1, <1>2, <1>3, <1>4

LEMMA WrappedRows ==
  ASSUME NEW S, NEW rows \in Seq(Bookings(S)), rows # <<>>
  PROVE  /\ Wrapped(rows) \in Seq(Bookings(S)) /\ Len(Wrapped(rows)) = Len(rows) /\ Wrapped(rows) # <<>>
         /\ \A i \in 1 .. Len(rows) : Wrapped(rows)[i].whole = rows[i].whole
  <1> DEFINE final == rows[Len(rows)]
             row == [final EXCEPT !.lines = @ + 1]
  <1>1. Len(rows) \in Nat /\ Len(rows) >= 1 /\ final \in Bookings(S) OBVIOUS
  <1>2. row \in Bookings(S) /\ row.whole = final.whole BY <1>1 DEF Bookings
  <1>3. Wrapped(rows) = [rows EXCEPT ![Len(rows)] = row] BY <1>1 DEF Wrapped
  <1> HIDE DEF row
  <1> QED BY <1>1, <1>2, <1>3, LastChanged

LEMMA MarkedWhole ==
  ASSUME NEW S, NEW rows \in Seq(Bookings(S)), rows # <<>>
  PROVE  /\ LastRow(rows, "whole", TRUE) \in Seq(Bookings(S)) /\ Len(LastRow(rows, "whole", TRUE)) = Len(rows)
         /\ LastRow(rows, "whole", TRUE) # <<>>
         /\ LastRow(rows, "whole", TRUE)[Len(rows)].whole = TRUE
         /\ \A i \in 1 .. (Len(rows) - 1) : LastRow(rows, "whole", TRUE)[i] = rows[i]
  <1> DEFINE final == rows[Len(rows)]
             row == [final EXCEPT !["whole"] = TRUE]
  <1>1. Len(rows) \in Nat /\ Len(rows) >= 1 /\ final \in Bookings(S) OBVIOUS
  <1>2. row \in Bookings(S) /\ row.whole = TRUE BY <1>1 DEF Bookings
  <1> DEFINE new == LastRow(rows, "whole", TRUE)
  <1>3. new = [rows EXCEPT ![Len(rows)] = row] BY <1>1 DEF LastRow
  <1> HIDE DEF row, new
  <1>4. /\ new \in Seq(Bookings(S)) /\ Len(new) = Len(rows) /\ new # <<>> /\ new[Len(rows)] = row
        /\ \A i \in 1 .. (Len(rows) - 1) : new[i] = rows[i]
    BY <1>1, <1>2, <1>3, LastChanged
  <1> QED BY <1>2, <1>4 DEF new

LEMMA MarkedForeign ==
  ASSUME NEW S, NEW rows \in Seq(Bookings(S)), rows # <<>>
  PROVE  /\ LastRow(rows, "fx", TRUE) \in Seq(Bookings(S)) /\ Len(LastRow(rows, "fx", TRUE)) = Len(rows)
         /\ LastRow(rows, "fx", TRUE) # <<>>
         /\ \A i \in 1 .. Len(rows) : LastRow(rows, "fx", TRUE)[i].whole = rows[i].whole
  <1> DEFINE final == rows[Len(rows)]
             row == [final EXCEPT !["fx"] = TRUE]
  <1>1. Len(rows) \in Nat /\ Len(rows) >= 1 /\ final \in Bookings(S) OBVIOUS
  <1>2. row \in Bookings(S) /\ row.whole = final.whole BY <1>1 DEF Bookings
  <1> DEFINE new == LastRow(rows, "fx", TRUE)
  <1>3. new = [rows EXCEPT ![Len(rows)] = row] BY <1>1 DEF LastRow
  <1> HIDE DEF row, new
  <1>4. /\ new \in Seq(Bookings(S)) /\ Len(new) = Len(rows) /\ new # <<>> /\ new[Len(rows)] = row
        /\ \A i \in 1 .. (Len(rows) - 1) : new[i] = rows[i]
    BY <1>1, <1>2, <1>3, LastChanged
  <1>5. \A i \in 1 .. Len(rows) : new[i].whole = rows[i].whole
    <2>1. \A i \in 1 .. Len(rows) : i = Len(rows) \/ i \in 1 .. (Len(rows) - 1) BY <1>1
    <2> QED BY <1>2, <1>4, <2>1
  <1> QED BY <1>4, <1>5 DEF new

\* A row that is marked as it is stays the same.
LEMMA MarkedAgain ==
  ASSUME NEW S, NEW rows \in Seq(Bookings(S)), rows # <<>>, NEW whole, rows[Len(rows)].whole = whole
  PROVE  LastRow(rows, "whole", whole) = rows
  <1> DEFINE final == rows[Len(rows)]
             row == [final EXCEPT !["whole"] = whole]
  <1>1. Len(rows) \in Nat /\ Len(rows) >= 1 /\ final \in Bookings(S) /\ rows = [i \in 1 .. Len(rows) |-> rows[i]]
    OBVIOUS
  <1>2. row = final BY <1>1 DEF Bookings
  <1>3. LastRow(rows, "whole", whole) = [rows EXCEPT ![Len(rows)] = row] BY <1>1 DEF LastRow
  <1> DEFINE new == LastRow(rows, "whole", whole)
  <1>4. new \in Seq(Bookings(S)) /\ Len(new) = Len(rows) /\ \A i \in 1 .. Len(rows) : new[i] = rows[i]
    <2> HIDE DEF row
    <2>1. /\ new \in Seq(Bookings(S)) /\ Len(new) = Len(rows) /\ new[Len(rows)] = row
          /\ \A i \in 1 .. (Len(rows) - 1) : new[i] = rows[i]
      BY <1>1, <1>2, <1>3, LastChanged
    <2>2. \A i \in 1 .. Len(rows) : i = Len(rows) \/ i \in 1 .. (Len(rows) - 1) BY <1>1
    <2> QED BY <1>2, <2>1, <2>2
  <1> QED BY <1>4, SeqEqual

LEMMA AllWhole ==
  ASSUME NEW R, NEW rows \in Seq(R), \A i \in 1 .. Len(rows) : rows[i].whole
  PROVE  WholeRows(rows) = rows
  <1>1. DOMAIN rows \subseteq {i \in DOMAIN rows : rows[i].whole} OBVIOUS
  <1> QED BY <1>1, PickedAll DEF WholeRows

(* Credit cards. The parser follows the bank line by line. *)
(* Its rows are those printed, at every line; only Maybank's last row may *)
(* not have its amount yet, and whether the inner loop for wrapped lines *)
(* would go on and whether the table has been entered follow from the line.*)
CardOf == {<<Cards[i], OwnerOf(Cards[i])>> : i \in Nat}
CardLines == Open \cup {"start", "outside", "total", "closed"}
CardTyped ==
  /\ bank \in CardBanks /\ FieldsKept
  /\ sheet.k \in CardLines /\ sheet.of \in Nat /\ sheet.rows \in Seq(Bookings(CardOf))
  /\ sheet.k \in {"row", "text", "rest", "note"} => sheet.rows # <<>>
CardBankLines ==
  /\ sheet.k = "total" => bank = "CIMB CC"
  /\ sheet.k = "outside" => bank = "Permata CC"
  /\ sheet.k = "rest" => bank = "Maybank CC"
  /\ bank \in {"BCA CC", "Maybank CC"} => sheet.of = 1
CardFollowed ==
  /\ read.on \in BOOLEAN /\ read.more \in BOOLEAN
  /\ read.rows = sheet.rows /\ read.of = Cards[sheet.of]
  /\ (bank # "BCA CC" /\ sheet.k \in Open \cup {"total"}) => read.on = TRUE
  /\ sheet.k \in {"start", "outside"} => read.on = FALSE
  /\ sheet.k # "closed" => read.done = FALSE
  /\ sheet.k \in {"row", "text", "rest"} => read.more = TRUE
CardBalanced ==
  bank = "CIMB CC" => read.opening = sheet.opening /\ (sheet.k \in {"total", "closed"} => read.closing = CardDue)
CardFinished ==
  \A i \in 1 .. Len(sheet.rows) :
    sheet.rows[i].whole \/ (i = Len(sheet.rows) /\ sheet.k \in {"row", "text"} /\ bank = "Maybank CC")
CardInv == CardTyped /\ CardBankLines /\ CardFollowed /\ CardBalanced /\ CardFinished

ParserOf(r) == DOMAIN r = ReadFields /\ r.on \in BOOLEAN /\ r.more \in BOOLEAN

BcaCCOutcome(r, l, new) ==
  /\ ParserOf(new)
  /\ new.of = r.of /\ new.on = r.on /\ new.done = r.done
  /\ l.k = "row" => new.rows = Booked(r, l, YearOf(l.month)) /\ new.more = TRUE
  /\ l.k = "text" => new.rows = (IF r.more = TRUE THEN Wrapped(r.rows) ELSE r.rows) /\ new.more = r.more
  /\ l.k \notin {"row", "text"} => new.rows = r.rows
LEMMA BcaCCReads ==
  ASSUME NEW r, ParserOf(r), NEW l, NEW new, new = ReadBcaCC(r, l)
  PROVE  BcaCCOutcome(r, l, new)
  BY DEF BcaCCOutcome, ParserOf, ReadBcaCC, ReadFields, Continued, Ended

PermataCCOutcome(r, l, new) ==
  /\ ParserOf(new)
  /\ new.of = IF l.k = "card" /\ r.on = TRUE THEN l.of ELSE r.of
  /\ new.on = IF l.k = "enter" THEN TRUE ELSE IF l.k = "leave" THEN FALSE ELSE r.on
  /\ new.done = r.done
  /\ l.k = "row" /\ r.on = TRUE => new.rows = Booked(r, l, YearOf(l.month)) /\ new.more = TRUE
  /\ l.k = "text" /\ r.on = TRUE => new.rows = (IF r.more = TRUE THEN Wrapped(r.rows) ELSE r.rows) /\ new.more = r.more
  /\ l.k = "note" /\ r.on = TRUE => new.rows = (IF r.rows = <<>> THEN r.rows ELSE LastRow(r.rows, "fx", TRUE))
  /\ r.on = FALSE \/ l.k \notin {"row", "text", "note"} => new.rows = r.rows
LEMMA PermataCCReads ==
  ASSUME NEW r, ParserOf(r), NEW l, NEW new, new = ReadPermataCC(r, l)
  PROVE  PermataCCOutcome(r, l, new)
  BY DEF PermataCCOutcome, ParserOf, ReadPermataCC, ReadFields, Continued, Ended, NotedAnywhere

CimbCCOutcome(r, l, new) ==
  /\ ParserOf(new)
  /\ new.of = IF l.k = "card" /\ r.on = TRUE THEN l.of ELSE r.of
  /\ new.on = IF l.k = "enter" THEN TRUE ELSE r.on
  /\ new.done = IF l.k = "leave" /\ r.on = TRUE THEN TRUE ELSE FALSE
  /\ new.opening = IF l.k = "opening" /\ r.on = TRUE THEN l.amount ELSE r.opening
  /\ new.closing = IF l.k = "closing" /\ r.on = TRUE THEN l.amount ELSE r.closing
  /\ l.k = "row" /\ r.on = TRUE => new.rows = Booked(r, l, YearOf(l.month)) /\ new.more = TRUE
  /\ l.k = "text" /\ r.on = TRUE => new.rows = (IF r.more = TRUE THEN Wrapped(r.rows) ELSE r.rows) /\ new.more = r.more
  /\ l.k = "note" /\ r.on = TRUE => new.rows = (IF r.more = TRUE THEN LastRow(r.rows, "fx", TRUE) ELSE r.rows)
  /\ l.k \notin {"row", "text", "note"} => new.rows = r.rows
LEMMA CimbCCReads ==
  ASSUME NEW r, ParserOf(r), r.done = FALSE, NEW l, NEW new, new = ReadCimbCC(r, l)
  PROVE  CimbCCOutcome(r, l, new)
  BY DEF CimbCCOutcome, ParserOf, ReadCimbCC, ReadFields, Continued, Ended, NotedInRow

MaybankCCOutcome(r, l, new) ==
  /\ ParserOf(new)
  /\ new.of = r.of
  /\ new.on = IF l.k = "enter" THEN TRUE ELSE r.on
  /\ new.done = IF l.k = "leave" /\ r.on = TRUE THEN TRUE ELSE FALSE
  /\ l.k = "opening" /\ r.on = TRUE => new.rows = <<Row(<<r.of, OwnerOf(r.of)>>, 0, l.amount, 0)>> \o r.rows
  /\ l.k = "row" /\ r.on = TRUE => new.rows = Booked(r, l, l.year) /\ new.more = TRUE
  /\ l.k = "text" /\ r.on = TRUE =>
       new.rows = (IF r.more = TRUE THEN LastRow(Wrapped(r.rows), "whole", FALSE) ELSE r.rows) /\ new.more = r.more
  /\ l.k = "rest" /\ r.on = TRUE =>
       new.rows = (IF r.more = TRUE THEN LastRow(Wrapped(r.rows), "whole", TRUE) ELSE r.rows) /\ new.more = r.more
  /\ l.k = "note" /\ r.on = TRUE => new.rows = (IF r.more = TRUE THEN LastRow(r.rows, "fx", TRUE) ELSE r.rows)
  /\ l.k \notin {"opening", "row", "text", "rest", "note"} => new.rows = r.rows
LEMMA MaybankCCReads ==
  ASSUME NEW r, ParserOf(r), r.done = FALSE, NEW l, NEW new, new = ReadMaybankCC(r, l)
  PROVE  MaybankCCOutcome(r, l, new)
  BY DEF MaybankCCOutcome, ParserOf, ReadMaybankCC, ReadFields, Joined, Ended, NotedInRow

LEMMA CardPrinted ==
  ASSUME NEW l, NEW k, NEW s, PrintCard(l, k, s), DOMAIN s = SheetFields
  PROVE  /\ sheet'.k = k /\ DOMAIN sheet' = SheetFields /\ bank' = bank
         /\ sheet'.of = s.of /\ sheet'.rows = s.rows /\ sheet'.opening = s.opening
         /\ bank = "BCA CC" => read' = ReadBcaCC(read, l)
         /\ bank = "CIMB CC" => read' = ReadCimbCC(read, l)
         /\ bank = "Maybank CC" => read' = ReadMaybankCC(read, l)
         /\ bank = "Permata CC" => read' = ReadPermataCC(read, l)
  BY DEF PrintCard, ReadCard, SheetFields

\* A line that leaves rows, cards and balances as they are.
LEMMA CardLinePassed ==
  ASSUME CardInv, NEW l, NEW k \in CardLines \ {"row", "text", "rest", "note"}, NEW s, PrintCard(l, k, s), DOMAIN s = SheetFields,
         s.of = sheet.of, s.rows = sheet.rows, s.opening = sheet.opening,
         k = "total" => bank = "CIMB CC", k = "outside" => bank = "Permata CC",
         \/ l.k = "stray" /\ sheet.k \in Open /\ k \in Open
         \/ l.k = "enter" /\ k = "enter"
         \/ l.k = "leave" /\ k = "closed"
         \/ l.k = "leave" /\ k = "outside"
         \/ l.k = "row" /\ sheet.k = "outside" /\ k = "outside"
         \/ l.k = "closing" /\ sheet.k \in Open /\ k = "total" /\ l.amount = CardDue,
         k = "closed" => sheet.k # "start" /\ (bank = "CIMB CC" => sheet.k = "total"),
         sheet.k # "closed", RowIsWhole \/ sheet.k \notin {"row", "text"}
  PROVE  CardInv'
  <1>1. /\ sheet'.k = k /\ DOMAIN sheet' = SheetFields /\ bank' = bank
        /\ sheet'.of = sheet.of /\ sheet'.rows = sheet.rows /\ sheet'.opening = sheet.opening
        /\ bank = "BCA CC" => read' = ReadBcaCC(read, l)
        /\ bank = "CIMB CC" => read' = ReadCimbCC(read, l)
        /\ bank = "Maybank CC" => read' = ReadMaybankCC(read, l)
        /\ bank = "Permata CC" => read' = ReadPermataCC(read, l)
    BY CardPrinted
  <1>2. ParserOf(read) /\ read.done = FALSE /\ bank \in CardBanks
    BY DEF CardInv, CardTyped, FieldsKept, CardFollowed, ParserOf
  <1>3. /\ ParserOf(read') /\ read'.rows = sheet.rows /\ read'.of = Cards[sheet.of]
        /\ (bank # "BCA CC" /\ k \in Open \cup {"total"}) => read'.on = TRUE
        /\ k \in {"start", "outside"} => read'.on = FALSE
        /\ k # "closed" => read'.done = FALSE
        /\ bank = "CIMB CC" => read'.opening = sheet.opening /\ (k \in {"total", "closed"} => read'.closing = CardDue)
    <2>1. CASE bank = "BCA CC"
      <3>1. BcaCCOutcome(read, l, read') BY <1>1, <1>2, <2>1, BcaCCReads
      <3> QED BY <1>1, <1>2, <2>1, <3>1 DEF CardInv, CardFollowed, CardBankLines, CardLines, Open, BcaCCOutcome
    <2>2. CASE bank = "CIMB CC"
      <3>1. CimbCCOutcome(read, l, read') BY <1>1, <1>2, <2>2, CimbCCReads
      <3> QED BY <1>1, <1>2, <2>2, <3>1 DEF CardInv, CardFollowed, CardBankLines, CardBalanced, CardLines, Open, CimbCCOutcome
    <2>3. CASE bank = "Maybank CC"
      <3>1. MaybankCCOutcome(read, l, read') BY <1>1, <1>2, <2>3, MaybankCCReads
      <3> QED BY <1>1, <1>2, <2>3, <3>1 DEF CardInv, CardFollowed, CardBankLines, CardLines, Open, MaybankCCOutcome
    <2>4. CASE bank = "Permata CC"
      <3>1. PermataCCOutcome(read, l, read') BY <1>1, <1>2, <2>4, PermataCCReads
      <3> QED BY <1>1, <1>2, <2>4, <3>1 DEF CardInv, CardFollowed, CardBankLines, CardLines, Open, PermataCCOutcome
    <2> QED BY <1>2, <2>1, <2>2, <2>3, <2>4 DEF CardBanks
  <1>4. \A i \in 1 .. Len(sheet.rows) : sheet.rows[i].whole
    BY DEF CardInv, CardTyped, CardFinished, RowIsWhole
  <1> QED BY <1>1, <1>3, <1>4 DEF CardInv, CardTyped, CardBankLines, CardFollowed, CardBalanced, CardFinished, FieldsKept, CardDue, ParserOf

LEMMA CardLineKinds ==
  ASSUME NEW k
  PROVE  DOMAIN Line(k) = {"k", "of", "month", "year", "amount", "saldo", "beside", "whole"} /\ Line(k).k = k
  BY DEF Line

LEMMA CardPassing ==
  ASSUME CardInv, CardOpens \/ CardStray \/ CardPoints \/ CardOutside \/ CardPage \/ CardTotal \/ CardCloses
  PROVE  CardInv'
  <1>0. DOMAIN sheet = SheetFields /\ bank \in CardBanks /\ sheet.k \in CardLines
    BY DEF CardInv, CardTyped, FieldsKept
  <1>w. RowIsWhole \/ sheet.k \in {"row", "text"}
    <2>1. sheet.rows # <<>> => Len(sheet.rows) \in 1 .. Len(sheet.rows) BY DEF CardInv, CardTyped
    <2> QED BY <2>1 DEF CardInv, CardFinished, RowIsWhole
  <1>1. CASE CardOpens
    BY <1>0, <1>1, <1>w, CardLineKinds, CardLinePassed DEF CardOpens, CardLines, Open
  <1>2. CASE CardStray
    <2> DEFINE s == [sheet EXCEPT !.stray = @ + 1]
    <2>1. DOMAIN s = SheetFields /\ s.of = sheet.of /\ s.rows = sheet.rows /\ s.opening = sheet.opening
      BY <1>0 DEF SheetFields
    <2>2. PrintCard(Line("stray"), "stray", s) /\ sheet.k \in Open /\ RowIsWhole
      BY <1>2 DEF CardStray, Between
    <2> HIDE DEF s
    <2> QED BY <1>0, <2>1, <2>2, CardLineKinds, CardLinePassed DEF CardLines, Open
  <1>3. CASE CardPoints
    BY <1>0, <1>3, CardLineKinds, CardLinePassed DEF CardPoints, Between, CardLines, Open
  <1>4. CASE CardOutside
    <2> DEFINE s == [sheet EXCEPT !.stray = @ + 1]
               l == [Line("row") EXCEPT !.amount = 1]
    <2>1. DOMAIN s = SheetFields /\ s.of = sheet.of /\ s.rows = sheet.rows /\ s.opening = sheet.opening
      BY <1>0 DEF SheetFields
    <2>2. PrintCard(l, "outside", s) /\ sheet.k = "outside" /\ bank = "Permata CC"
      BY <1>4 DEF CardOutside, CardInv, CardBankLines
    <2>3. l.k = "row" BY CardLineKinds
    <2> HIDE DEF s, l
    <2> QED BY <1>0, <2>1, <2>2, <2>3, CardLinePassed DEF CardLines, Open
  <1>5. CASE CardPage
    <2> DEFINE s == [sheet EXCEPT !.pages = @ + 1]
    <2>1. DOMAIN s = SheetFields /\ s.of = sheet.of /\ s.rows = sheet.rows /\ s.opening = sheet.opening
      BY <1>0 DEF SheetFields
    <2>2. PrintCard(Line("enter"), "enter", s) /\ ((sheet.k \in Open /\ RowIsWhole) \/ sheet.k = "outside")
      BY <1>5 DEF CardPage, Between
    <2> HIDE DEF s
    <2> QED BY <1>0, <2>1, <2>2, CardLineKinds, CardLinePassed DEF CardLines, Open
  <1>6. CASE CardTotal
    <2> DEFINE l == [Line("closing") EXCEPT !.amount = CardDue]
    <2>1. l.k = "closing" /\ l.amount = CardDue BY CardLineKinds
    <2>2. PrintCard(l, "total", sheet) /\ sheet.k \in Open /\ RowIsWhole /\ bank = "CIMB CC"
      BY <1>6 DEF CardTotal, Between
    <2> HIDE DEF l
    <2> QED BY <1>0, <2>1, <2>2, CardLinePassed DEF CardLines, Open
  <1>7. CASE CardCloses
    <2>1. PrintCard(Line("leave"), "closed", sheet) /\ (bank = "CIMB CC" => sheet.k = "total") /\ sheet.k \notin {"start", "closed"}
      BY <1>7 DEF CardCloses, Between, Open
    <2>2. RowIsWhole BY <1>7, <1>w, <2>1 DEF CardCloses, Between
    <2> QED BY <1>0, <2>1, <2>2, CardLineKinds, CardLinePassed DEF CardLines, Open
  <1> QED BY <1>1, <1>2, <1>3, <1>4, <1>5, <1>6, <1>7

LEMMA CardInitial == CardInit => CardInv
  <1> SUFFICES ASSUME CardInit PROVE CardInv
    OBVIOUS
  <1>1. /\ DOMAIN sheet = SheetFields /\ sheet.k = "start" /\ sheet.of = 1 /\ sheet.rows = <<>> /\ sheet.opening = 0
        /\ DOMAIN read = ReadFields /\ read.of = Cards[1] /\ read.on = FALSE /\ read.more = FALSE /\ read.done = FALSE /\ read.rows = <<>> /\ read.opening = 0
        /\ bank \in CardBanks
    BY DEF CardInit, NewSheet, NewRead, SheetFields, ReadFields
  <1>2. sheet.rows \in Seq(Bookings(CardOf)) /\ Len(sheet.rows) = 0 /\ 1 .. 0 = {} BY <1>1
  <1>3. CardTyped BY <1>1, <1>2 DEF CardTyped, FieldsKept, CardLines
  <1>4. CardBankLines /\ CardBalanced BY <1>1 DEF CardBankLines, CardBalanced
  <1>5. CardFollowed BY <1>1 DEF CardFollowed, Open
  <1>6. CardFinished BY <1>2 DEF CardFinished
  <1> QED BY <1>3, <1>4, <1>5, <1>6 DEF CardInv

LEMMA CardHeard ==
  ASSUME CardInv, sheet.k # "closed", NEW l, NEW k, NEW s, PrintCard(l, k, s), DOMAIN s = SheetFields
  PROVE  /\ sheet'.k = k /\ DOMAIN sheet' = SheetFields /\ bank' = bank
         /\ sheet'.of = s.of /\ sheet'.rows = s.rows /\ sheet'.opening = s.opening
         /\ bank = "BCA CC" => BcaCCOutcome(read, l, read')
         /\ bank = "CIMB CC" => CimbCCOutcome(read, l, read')
         /\ bank = "Maybank CC" => MaybankCCOutcome(read, l, read')
         /\ bank = "Permata CC" => PermataCCOutcome(read, l, read')
  <1>1. /\ sheet'.k = k /\ DOMAIN sheet' = SheetFields /\ bank' = bank
        /\ sheet'.of = s.of /\ sheet'.rows = s.rows /\ sheet'.opening = s.opening
        /\ bank = "BCA CC" => read' = ReadBcaCC(read, l)
        /\ bank = "CIMB CC" => read' = ReadCimbCC(read, l)
        /\ bank = "Maybank CC" => read' = ReadMaybankCC(read, l)
        /\ bank = "Permata CC" => read' = ReadPermataCC(read, l)
    BY CardPrinted
  <1>2. ParserOf(read) /\ read.done = FALSE
    BY DEF CardInv, CardTyped, FieldsKept, CardFollowed, ParserOf
  <1> QED BY <1>1, <1>2, BcaCCReads, CimbCCReads, MaybankCCReads, PermataCCReads

\* What the bank prints as a row is booked.
LEMMA CardRowKept ==
  ASSUME CardInv, CardRow
  PROVE  CardInv'
  <1>0. /\ DOMAIN sheet = SheetFields /\ bank \in CardBanks /\ sheet.k \in Open /\ RowIsWhole
        /\ sheet.of \in Nat /\ sheet.rows \in Seq(Bookings(CardOf))
    BY DEF CardInv, CardTyped, FieldsKept, CardRow, Between
  <1>w. \A i \in 1 .. Len(sheet.rows) : sheet.rows[i].whole
    <2>1. \A i \in 1 .. Len(sheet.rows) : sheet.rows[i].whole \/ i = Len(sheet.rows)
      BY DEF CardInv, CardFinished
    <2>2. \A i \in 1 .. Len(sheet.rows) : sheet.rows # <<>> BY <1>0
    <2> QED BY <1>0, <2>1, <2>2 DEF RowIsWhole
  <1>1. PICK date \in RowDates, value \in Figures, credit \in BOOLEAN, whole \in BOOLEAN :
          /\ whole = TRUE \/ bank = "Maybank CC"
          /\ LET amount == IF credit THEN -value ELSE value
                 row == Row(<<Cards[sheet.of], OwnerOf(Cards[sheet.of])>>, date[2], amount, 0)
             IN PrintCard([Line("row") EXCEPT !.month = date[1], !.year = date[2], !.amount = amount, !.whole = whole], "row",
                  [sheet EXCEPT !.rows = Append(@, [row EXCEPT !.whole = whole])])
    BY Zenon DEF CardRow
  <1> DEFINE amount == IF credit THEN -value ELSE value
             made == Row(<<Cards[sheet.of], OwnerOf(Cards[sheet.of])>>, date[2], amount, 0)
             row == [made EXCEPT !.whole = whole]
             l == [Line("row") EXCEPT !.month = date[1], !.year = date[2], !.amount = amount, !.whole = whole]
             s == [sheet EXCEPT !.rows = Append(@, row)]
  <1>2. PrintCard(l, "row", s) BY <1>1
  <1>3. l.k = "row" /\ l.month = date[1] /\ l.year = date[2] /\ l.amount = amount /\ l.whole = whole
    BY CardLineKinds
  <1>4. DOMAIN s = SheetFields /\ s.of = sheet.of /\ s.rows = Append(sheet.rows, row) /\ s.opening = sheet.opening
    BY <1>0 DEF SheetFields
  <1>5. amount \in Int /\ date[2] \in {-1, 0} /\ whole \in BOOLEAN /\ YearOf(date[1]) = date[2]
    <2>1. value \in Int /\ -value \in Int BY ReadingAssumption
    <2>2. date[2] = IF date[1] > StatementMonth THEN -1 ELSE 0 BY ReadingAssumption
    <2> QED BY <2>1, <2>2 DEF YearOf
  <1>6. row \in Bookings(CardOf) /\ row.whole = whole
    <2>1. <<Cards[sheet.of], OwnerOf(Cards[sheet.of])>> \in CardOf BY <1>0 DEF CardOf
    <2>2. 0 \in Int OBVIOUS
    <2>3. amount \in Int /\ date[2] \in {-1, 0} /\ whole \in BOOLEAN BY <1>5
    <2> DEFINE of == <<Cards[sheet.of], OwnerOf(Cards[sheet.of])>>
               year == date[2]
    <2>4. of \in CardOf /\ year \in {-1, 0} BY <2>1, <2>3
    <2> HIDE DEF amount, of, year
    <2>5. RowPrinted(of, year, amount, 0, whole) \in Bookings(CardOf) BY <2>2, <2>3, <2>4, RowMade
    <2>6. RowPrinted(of, year, amount, 0, whole).whole = whole BY RowPrintedWhole
    <2> QED BY <2>5, <2>6, Zenon DEF of, year, RowPrinted
  <1>7. Booked(read, l, date[2]) = Append(sheet.rows, row)
    <2>1. read.rows = sheet.rows /\ read.of = Cards[sheet.of] BY DEF CardInv, CardFollowed
    <2> HIDE DEF amount, l
    <2> QED BY <1>3, <2>1 DEF Booked
  <1> HIDE DEF l, s, row, amount
  <1> DEFINE rows == Append(sheet.rows, row)
  <1>8. /\ rows \in Seq(Bookings(CardOf)) /\ rows # <<>> /\ Len(rows) = Len(sheet.rows) + 1 /\ Len(sheet.rows) \in Nat
        /\ \A i \in 1 .. Len(rows) : rows[i].whole \/ (i = Len(rows) /\ bank = "Maybank CC")
    <2> HIDE DEF rows
    <2>1. /\ rows \in Seq(Bookings(CardOf)) /\ Len(rows) = Len(sheet.rows) + 1 /\ Len(sheet.rows) \in Nat /\ rows # <<>>
          /\ rows[Len(rows)] = row
          /\ \A i \in 1 .. Len(sheet.rows) : rows[i] = sheet.rows[i]
          /\ \A i \in 1 .. Len(rows) : i \in 1 .. Len(sheet.rows) \/ i = Len(rows)
      BY <1>0, <1>6, RowsGrow DEF rows
    <2>6. whole \/ bank = "Maybank CC" BY <1>1
    <2> QED BY <1>w, <1>6, <2>1, <2>6
  <1>9. /\ sheet'.k = "row" /\ DOMAIN sheet' = SheetFields /\ bank' = bank
        /\ sheet'.of = sheet.of /\ sheet'.rows = rows /\ sheet'.opening = sheet.opening
        /\ bank = "BCA CC" => BcaCCOutcome(read, l, read')
        /\ bank = "CIMB CC" => CimbCCOutcome(read, l, read')
        /\ bank = "Maybank CC" => MaybankCCOutcome(read, l, read')
        /\ bank = "Permata CC" => PermataCCOutcome(read, l, read')
    <2>1. sheet.k # "closed" BY <1>0 DEF Open
    <2> QED BY <1>2, <1>4, <2>1, CardHeard
  <1>10. read.done = FALSE /\ read.of = Cards[sheet.of] /\ (bank # "BCA CC" => read.on = TRUE)
    BY <1>0 DEF CardInv, CardFollowed, Open
  <1> HIDE DEF rows
  <1>11. /\ ParserOf(read') /\ read'.rows = rows /\ read'.of = Cards[sheet.of] /\ read'.more = TRUE /\ read'.done = FALSE
         /\ bank # "BCA CC" => read'.on = TRUE
         /\ bank = "CIMB CC" => read'.opening = read.opening
    <2>1. CASE bank = "BCA CC" BY <1>3, <1>5, <1>7, <1>9, <1>10, <2>1 DEF BcaCCOutcome, rows
    <2>2. CASE bank = "CIMB CC" BY <1>3, <1>5, <1>7, <1>9, <1>10, <2>2 DEF CimbCCOutcome, rows
    <2>3. CASE bank = "Maybank CC" BY <1>3, <1>5, <1>7, <1>9, <1>10, <2>3 DEF MaybankCCOutcome, rows
    <2>4. CASE bank = "Permata CC" BY <1>3, <1>5, <1>7, <1>9, <1>10, <2>4 DEF PermataCCOutcome, rows
    <2> QED BY <1>0, <2>1, <2>2, <2>3, <2>4 DEF CardBanks
  <1>12. CardTyped' BY <1>0, <1>8, <1>9, <1>11 DEF CardTyped, FieldsKept, CardLines, Open, ParserOf
  <1>13. CardBankLines' /\ CardBalanced' BY <1>9, <1>11 DEF CardInv, CardBankLines, CardBalanced
  <1>14. CardFollowed' BY <1>9, <1>11 DEF CardFollowed, ParserOf, Open
  <1>15. CardFinished' BY <1>8, <1>9 DEF CardFinished
  <1> QED BY <1>12, <1>13, <1>14, <1>15 DEF CardInv

\* A line that changes the last row, in the statement as in the parser.
LEMMA CardRowChanged ==
  ASSUME CardInv, NEW l, NEW k \in {"text", "rest", "note"}, NEW rows \in Seq(Bookings(CardOf)), rows # <<>>,
         PrintCard(l, k, [sheet EXCEPT !.rows = rows]), l.k = k, sheet.k \in Open, sheet.rows # <<>>,
         k \in {"text", "rest"} => sheet.k \in {"row", "text"},
         k = "text" => rows = Wrapped(sheet.rows),
         k = "text" /\ bank = "Maybank CC" => LastRow(Wrapped(sheet.rows), "whole", FALSE) = Wrapped(sheet.rows),
         k = "rest" => bank = "Maybank CC" /\ rows = LastRow(Wrapped(sheet.rows), "whole", TRUE),
         k = "note" => /\ bank # "BCA CC" /\ rows = LastRow(sheet.rows, "fx", TRUE)
                       /\ sheet.k \in {"row", "text", "rest"} \/ bank = "Permata CC",
         \A i \in 1 .. Len(rows) : rows[i].whole \/ (i = Len(rows) /\ k = "text" /\ bank = "Maybank CC")
  PROVE  CardInv'
  <1> DEFINE s == [sheet EXCEPT !.rows = rows]
  <1>0. DOMAIN sheet = SheetFields /\ bank \in CardBanks /\ sheet.k # "closed"
    BY DEF CardInv, CardTyped, FieldsKept, Open
  <1>1. DOMAIN s = SheetFields /\ s.of = sheet.of /\ s.rows = rows /\ s.opening = sheet.opening
    BY <1>0 DEF SheetFields
  <1>2. PrintCard(l, k, s) OBVIOUS
  <1> HIDE DEF s
  <1>3. /\ sheet'.k = k /\ DOMAIN sheet' = SheetFields /\ bank' = bank
        /\ sheet'.of = sheet.of /\ sheet'.rows = rows /\ sheet'.opening = sheet.opening
        /\ bank = "BCA CC" => BcaCCOutcome(read, l, read')
        /\ bank = "CIMB CC" => CimbCCOutcome(read, l, read')
        /\ bank = "Maybank CC" => MaybankCCOutcome(read, l, read')
        /\ bank = "Permata CC" => PermataCCOutcome(read, l, read')
    BY ONLY CardInv, <1>0, <1>1, <1>2, CardHeard
  <1>4. /\ read.rows = sheet.rows /\ read.of = Cards[sheet.of] /\ read.done = FALSE
        /\ bank # "BCA CC" => read.on = TRUE
        /\ sheet.k \in {"row", "text", "rest"} => read.more = TRUE
    BY <1>0 DEF CardInv, CardFollowed, Open
  <1>5. /\ ParserOf(read') /\ read'.rows = rows /\ read'.of = Cards[sheet.of] /\ read'.done = FALSE
        /\ k \in {"text", "rest"} => read'.more = TRUE
        /\ bank # "BCA CC" => read'.on = TRUE
        /\ bank = "CIMB CC" => read'.opening = read.opening
    <2>1. CASE bank = "BCA CC" BY <1>3, <1>4, <2>1 DEF BcaCCOutcome
    <2>2. CASE bank = "CIMB CC" BY <1>3, <1>4, <2>2 DEF CimbCCOutcome
    <2>3. CASE bank = "Maybank CC" BY <1>3, <1>4, <2>3 DEF MaybankCCOutcome
    <2>4. CASE bank = "Permata CC" BY <1>3, <1>4, <2>4 DEF PermataCCOutcome
    <2> QED BY <1>0, <2>1, <2>2, <2>3, <2>4 DEF CardBanks
  <1>6. CardTyped' BY <1>3, <1>5 DEF CardInv, CardTyped, FieldsKept, CardLines, Open, ParserOf
  <1>7. CardBankLines' /\ CardBalanced' BY <1>3, <1>5 DEF CardInv, CardBankLines, CardBalanced
  <1>8. CardFollowed' BY <1>3, <1>5 DEF CardFollowed, ParserOf, Open
  <1>9. CardFinished' BY <1>3 DEF CardFinished
  <1> QED BY <1>6, <1>7, <1>8, <1>9 DEF CardInv

LEMMA CardRowsWhole ==
  ASSUME CardInv, RowIsWhole
  PROVE  \A i \in 1 .. Len(sheet.rows) : sheet.rows[i].whole
  <1>1. \A i \in 1 .. Len(sheet.rows) : sheet.rows[i].whole \/ i = Len(sheet.rows)
    BY DEF CardInv, CardFinished
  <1>2. \A i \in 1 .. Len(sheet.rows) : sheet.rows # <<>> BY DEF CardInv, CardTyped
  <1> QED BY <1>1, <1>2 DEF RowIsWhole

LEMMA CardTextKept ==
  ASSUME CardInv, CardWraps
  PROVE  CardInv'
  <1> DEFINE old == sheet.rows
             rows == Wrapped(sheet.rows)
  <1>1. sheet.k \in {"row", "text"} /\ old # <<>> /\ old \in Seq(Bookings(CardOf)) /\ sheet.k \in Open
    BY DEF CardWraps, CardInv, CardTyped, Open
  <1>2. /\ rows \in Seq(Bookings(CardOf)) /\ Len(rows) = Len(old) /\ rows # <<>>
        /\ \A i \in 1 .. Len(old) : rows[i].whole = old[i].whole
    BY <1>1, WrappedRows
  <1>3. bank = "Maybank CC" => old[Len(old)].whole = FALSE
    <2>0. Len(old) \in 1 .. Len(old) BY <1>1, LastRowInside
    <2>1. old[Len(old)].whole \in BOOLEAN
      <3>1. old[Len(old)] \in Bookings(CardOf) BY <1>1, <2>0
      <3> HIDE DEF old
      <3> QED BY <3>1 DEF Bookings
    <2> QED BY <2>1 DEF CardWraps, RowIsWhole
  <1>4. bank = "Maybank CC" => LastRow(rows, "whole", FALSE) = rows
    <2>1. Len(old) \in 1 .. Len(old) BY <1>1, LastRowInside
    <2> HIDE DEF old, rows
    <2> QED BY <1>2, <1>3, <2>1, MarkedAgain
  <1>5. \A i \in 1 .. Len(rows) : rows[i].whole \/ (i = Len(rows) /\ bank = "Maybank CC")
    <2>1. \A i \in 1 .. Len(old) : old[i].whole \/ (i = Len(old) /\ bank = "Maybank CC")
      BY DEF CardInv, CardFinished
    <2> HIDE DEF old, rows
    <2> QED BY <1>2, <2>1
  <1>6. PrintCard(Line("text"), "text", [sheet EXCEPT !.rows = rows])
    BY <1>1 DEF CardWraps, CardInv, CardTyped, FieldsKept, SheetFields
  <1> QED BY <1>1, <1>2, <1>4, <1>5, <1>6, CardLineKinds, CardRowChanged

LEMMA CardRestKept ==
  ASSUME CardInv, CardRest
  PROVE  CardInv'
  <1> DEFINE old == sheet.rows
             wide == Wrapped(sheet.rows)
             rows == LastRow(wide, "whole", TRUE)
  <1>1. sheet.k \in {"row", "text"} /\ old # <<>> /\ old \in Seq(Bookings(CardOf)) /\ sheet.k \in Open
    BY DEF CardRest, CardInv, CardTyped, Open
  <1>2. /\ wide \in Seq(Bookings(CardOf)) /\ Len(wide) = Len(old) /\ wide # <<>>
        /\ \A i \in 1 .. Len(old) : wide[i].whole = old[i].whole
    BY <1>1, WrappedRows
  <1>3. Len(old) \in Nat /\ Len(old) \in 1 .. Len(old) BY <1>1, LastRowInside
  <1>4. bank = "Maybank CC" BY <1>3 DEF CardRest, RowIsWhole, CardInv, CardFinished
  <1>5. /\ rows \in Seq(Bookings(CardOf)) /\ Len(rows) = Len(old) /\ rows # <<>>
        /\ rows[Len(old)].whole = TRUE
        /\ \A i \in 1 .. (Len(old) - 1) : rows[i] = wide[i]
    <2> HIDE DEF wide
    <2> QED BY <1>2, MarkedWhole
  <1>6. \A i \in 1 .. Len(rows) : rows[i].whole
    <2>1. \A i \in 1 .. Len(old) : old[i].whole \/ i = Len(old) BY DEF CardInv, CardFinished
    <2>2. \A i \in 1 .. Len(old) : i = Len(old) \/ i \in 1 .. (Len(old) - 1) BY <1>3
    <2> HIDE DEF old, rows, wide
    <2> QED BY <1>2, <1>5, <2>1, <2>2
  <1>7. PrintCard(Line("rest"), "rest", [sheet EXCEPT !.rows = rows])
    BY <1>1 DEF CardRest, CardInv, CardTyped, FieldsKept, SheetFields
  <1>8. rows = LastRow(Wrapped(sheet.rows), "whole", TRUE) /\ Line("rest").k = "rest"
    BY CardLineKinds
  <1> HIDE DEF old, rows, wide
  <1> QED BY <1>1, <1>4, <1>5, <1>6, <1>7, <1>8, CardRowChanged DEF old

LEMMA CardNoteKept ==
  ASSUME CardInv, CardNote
  PROVE  CardInv'
  <1> DEFINE old == sheet.rows
             rows == LastRow(sheet.rows, "fx", TRUE)
  <1>1. /\ old # <<>> /\ old \in Seq(Bookings(CardOf)) /\ sheet.k \in Open /\ bank # "BCA CC" /\ RowIsWhole
        /\ sheet.k \in {"row", "text", "rest"} \/ bank = "Permata CC"
    BY DEF CardNote, CardInv, CardTyped, Open
  <1>2. /\ rows \in Seq(Bookings(CardOf)) /\ Len(rows) = Len(old) /\ rows # <<>>
        /\ \A i \in 1 .. Len(old) : rows[i].whole = old[i].whole
    BY <1>1, MarkedForeign
  <1>3. \A i \in 1 .. Len(rows) : rows[i].whole
    <2>1. \A i \in 1 .. Len(old) : old[i].whole BY <1>1, CardRowsWhole
    <2> HIDE DEF old, rows
    <2> QED BY <1>2, <2>1
  <1>4. PrintCard(Line("note"), "note", [sheet EXCEPT !.rows = rows])
    BY <1>1 DEF CardNote, CardInv, CardTyped, FieldsKept, SheetFields
  <1> HIDE DEF rows
  <1> QED BY <1>1, <1>2, <1>3, <1>4, CardLineKinds, CardRowChanged DEF rows

LEMMA CardNextKept ==
  ASSUME CardInv, CardNext
  PROVE  CardInv'
  <1> DEFINE l == [Line("card") EXCEPT !.of = Cards[sheet.of + 1]]
             s == [sheet EXCEPT !.of = @ + 1]
  <1>0. DOMAIN sheet = SheetFields /\ bank \in CardBanks /\ sheet.k \in Open /\ sheet.k # "closed" /\ RowIsWhole /\ sheet.of \in Nat
    BY DEF CardInv, CardTyped, FieldsKept, CardNext, Between, Open
  <1>1. DOMAIN s = SheetFields /\ s.of = sheet.of + 1 /\ s.rows = sheet.rows /\ s.opening = sheet.opening
    BY <1>0 DEF SheetFields
  <1>2. PrintCard(l, "card", s) /\ bank \in {"CIMB CC", "Permata CC"} BY DEF CardNext
  <1>3. l.k = "card" /\ l.of = Cards[sheet.of + 1] BY CardLineKinds
  <1> HIDE DEF l, s
  <1>4. /\ sheet'.k = "card" /\ DOMAIN sheet' = SheetFields /\ bank' = bank
        /\ sheet'.of = sheet.of + 1 /\ sheet'.rows = sheet.rows /\ sheet'.opening = sheet.opening
        /\ bank = "CIMB CC" => CimbCCOutcome(read, l, read')
        /\ bank = "Permata CC" => PermataCCOutcome(read, l, read')
    BY ONLY CardInv, <1>0, <1>1, <1>2, CardHeard
  <1>5. read.rows = sheet.rows /\ read.done = FALSE /\ read.on = TRUE
    BY <1>0, <1>2 DEF CardInv, CardFollowed
  <1>6. /\ ParserOf(read') /\ read'.rows = sheet.rows /\ read'.of = Cards[sheet.of + 1] /\ read'.done = FALSE
        /\ read'.on = TRUE
        /\ bank = "CIMB CC" => read'.opening = read.opening
    <2>1. CASE bank = "CIMB CC" BY <1>3, <1>4, <1>5, <2>1 DEF CimbCCOutcome
    <2>2. CASE bank = "Permata CC" BY <1>3, <1>4, <1>5, <2>2 DEF PermataCCOutcome
    <2> QED BY <1>2, <2>1, <2>2
  <1>7. CardTyped'
    <2>1. sheet.of + 1 \in Nat /\ sheet.rows \in Seq(Bookings(CardOf))
      BY <1>0 DEF CardInv, CardTyped
    <2> QED BY <1>0, <1>4, <1>6, <2>1 DEF CardTyped, FieldsKept, CardLines, Open, ParserOf
  <1>8. CardBankLines' /\ CardBalanced' BY <1>2, <1>4, <1>6 DEF CardInv, CardBankLines, CardBalanced
  <1>9. CardFollowed' BY <1>4, <1>6 DEF CardFollowed, ParserOf, Open
  <1>10. CardFinished' BY <1>0, <1>4, CardRowsWhole DEF CardFinished
  <1> QED BY <1>7, <1>8, <1>9, <1>10 DEF CardInv

LEMMA CardOpeningKept ==
  ASSUME CardInv, CardOpening
  PROVE  CardInv'
  <1>0. /\ DOMAIN sheet = SheetFields /\ bank \in {"CIMB CC", "Maybank CC"} /\ sheet.k = "enter" /\ sheet.rows = <<>> /\ sheet.of \in Nat
        /\ bank = "Maybank CC" => sheet.of = 1
    BY DEF CardInv, CardTyped, FieldsKept, CardBankLines, CardOpening
  <1>1. PICK amount \in Figures \cup {-v : v \in Figures} :
          PrintCard([Line("opening") EXCEPT !.amount = amount], "opening",
            IF bank = "CIMB CC" THEN [sheet EXCEPT !.opening = amount]
            ELSE [sheet EXCEPT !.rows = <<Row(<<Cards[1], OwnerOf(Cards[1])>>, 0, amount, 0)>>])
    BY DEF CardOpening
  <1> DEFINE l == [Line("opening") EXCEPT !.amount = amount]
             row == Row(<<Cards[1], OwnerOf(Cards[1])>>, 0, amount, 0)
             rows == IF bank = "CIMB CC" THEN <<>> ELSE <<row>>
             s == IF bank = "CIMB CC" THEN [sheet EXCEPT !.opening = amount] ELSE [sheet EXCEPT !.rows = <<row>>]
  <1>2. PrintCard(l, "opening", s) BY <1>1
  <1>3. l.k = "opening" /\ l.amount = amount BY CardLineKinds
  <1>4. DOMAIN s = SheetFields /\ s.of = sheet.of /\ s.rows = rows /\ s.opening = IF bank = "CIMB CC" THEN amount ELSE sheet.opening
    BY <1>0 DEF SheetFields
  <1>5. row \in Bookings(CardOf) /\ row.whole = TRUE
    <2>1. <<Cards[1], OwnerOf(Cards[1])>> \in CardOf /\ 0 \in {-1, 0} /\ 0 \in Int BY DEF CardOf
    <2>2. amount \in Int BY ReadingAssumption
    <2>3. TRUE \in BOOLEAN OBVIOUS
    <2> QED BY <2>1, <2>2, <2>3, RowMade, RowWholePrinted
  <1>6. /\ rows \in Seq(Bookings(CardOf)) /\ \A i \in 1 .. Len(rows) : rows[i].whole
    <2> HIDE DEF row
    <2>1. <<>> \in Seq(Bookings(CardOf)) /\ Len(<<>>) = 0 /\ 1 .. 0 = {} OBVIOUS
    <2>2. <<row>> \in Seq(Bookings(CardOf)) /\ Len(<<row>>) = 1 /\ <<row>>[1] = row /\ \A i \in 1 .. 1 : i = 1
      BY <1>5
    <2> QED BY <1>5, <2>1, <2>2
  <1>7. read.rows = <<>> /\ read.of = Cards[sheet.of] /\ read.done = FALSE /\ read.on = TRUE /\ sheet.k # "closed"
    BY <1>0 DEF CardInv, CardFollowed, Open
  <1>8. bank = "Maybank CC" => <<Row(<<read.of, OwnerOf(read.of)>>, 0, l.amount, 0)>> \o read.rows = rows
    <2>1. <<row>> \o <<>> = <<row>> OBVIOUS
    <2> HIDE DEF l
    <2> QED BY <1>0, <1>3, <1>7, <2>1
  <1> HIDE DEF l, row, rows, s
  <1>9. /\ sheet'.k = "opening" /\ DOMAIN sheet' = SheetFields /\ bank' = bank
        /\ sheet'.of = sheet.of /\ sheet'.rows = rows /\ sheet'.opening = IF bank = "CIMB CC" THEN amount ELSE sheet.opening
        /\ bank = "CIMB CC" => CimbCCOutcome(read, l, read')
        /\ bank = "Maybank CC" => MaybankCCOutcome(read, l, read')
    BY <1>2, <1>4, <1>7, CardHeard
  <1>10. /\ ParserOf(read') /\ read'.rows = rows /\ read'.of = Cards[sheet.of] /\ read'.done = FALSE
         /\ read'.on = TRUE
         /\ bank = "CIMB CC" => read'.opening = amount
    <2>1. CASE bank = "CIMB CC" BY <1>3, <1>7, <1>9, <2>1 DEF CimbCCOutcome, rows
    <2>2. CASE bank = "Maybank CC" BY <1>3, <1>7, <1>8, <1>9, <2>2 DEF MaybankCCOutcome
    <2> QED BY <1>0, <2>1, <2>2
  <1>11. CardTyped'
    BY <1>0, <1>6, <1>9, <1>10 DEF CardInv, CardTyped, FieldsKept, CardLines, Open, ParserOf
  <1>12. CardBankLines' /\ CardBalanced'
    BY <1>0, <1>9, <1>10 DEF CardInv, CardBankLines, CardBalanced
  <1>13. CardFollowed' BY <1>9, <1>10 DEF CardFollowed, ParserOf, Open
  <1>14. CardFinished' BY <1>6, <1>9 DEF CardFinished
  <1> QED BY <1>11, <1>12, <1>13, <1>14 DEF CardInv

LEMMA CardStepsKept ==
  ASSUME CardInv, CardStep
  PROVE  CardInv'
  BY CardPassing, CardRowKept, CardTextKept, CardRestKept, CardNoteKept, CardNextKept, CardOpeningKept DEF CardStep

LEMMA CardUnchanged ==
  ASSUME CardInv, UNCHANGED rvars
  PROVE  CardInv'
  BY DEF CardInv, CardTyped, CardBankLines, CardFollowed, CardBalanced, CardFinished, FieldsKept, CardDue, rvars

LEMMA CardsAsPrinted ==
  ASSUME CardInv
  PROVE  CardReadAsPrinted
  <1> SUFFICES ASSUME sheet.k = "closed" PROVE CardRows = sheet.rows /\ (bank = "CIMB CC" => read.opening = sheet.opening /\ read.opening + SumOf(CardRows) = read.closing)
    BY DEF CardReadAsPrinted
  <1>1. read.rows = sheet.rows /\ sheet.rows \in Seq(Bookings(CardOf)) /\ \A i \in 1 .. Len(sheet.rows) : sheet.rows[i].whole
    BY DEF CardInv, CardTyped, CardFollowed, CardFinished
  <1>2. CardRows = sheet.rows BY <1>1, AllWhole DEF CardRows
  <1> QED BY <1>2 DEF CardInv, CardBalanced, CardDue

(* Accounts. What the parsers of a bank make of one line. *)
(* An Outcome says for every kind of line what the parser changes. *)
AccountOf == {Accts[i] : i \in Nat} \cup {CurrencyOf[Accts[i]] : i \in Nat} \cup {"USD"}
AccountParser(r) == DOMAIN r = ReadFields /\ {r.on, r.more, r.done, r.dated} \subseteq BOOLEAN

LEMMA RowPrintedPlain ==
  ASSUME NEW of, NEW year \in {-1, 0}, NEW amount \in Int, NEW saldo \in Int
  PROVE  RowPrinted(of, year, amount, saldo, TRUE) = Row(of, year, amount, saldo)
  <1> DEFINE row == Row(of, year, amount, saldo)
  <1>1. row \in Bookings({of}) /\ row.whole = TRUE
    <2>1. of \in {of} OBVIOUS
    <2> QED BY <2>1, RowMade, RowWholePrinted
  <1> HIDE DEF row
  <1>2. [row EXCEPT !.whole = TRUE] = row BY <1>1 DEF Bookings
  <1> QED BY <1>2 DEF RowPrinted, row

MaybankOutcome(r, l, new) ==
  /\ DOMAIN new = ReadFields
  /\ new.of = IF l.k = "account" THEN CurrencyOf[l.of] ELSE r.of
  /\ l.k = "opening" => new.rows = Append(r.rows, Row(r.of, 0, l.amount, l.amount))
  /\ l.k = "row" => new.rows = Append(r.rows, Row(r.of, l.year, l.amount, l.saldo))
  /\ l.k \notin {"opening", "row"} => new.rows = r.rows

LEMMA MaybankReads ==
  ASSUME NEW r, DOMAIN r = ReadFields, NEW l, NEW new, new = ReadMaybankAccount(r, l)
  PROVE  MaybankOutcome(r, l, new)
  BY DEF MaybankOutcome, ReadMaybankAccount, ReadFields

CimbOutcome(r, l, new) ==
  /\ DOMAIN new = ReadFields
  /\ new.of = IF l.k = "account" THEN l.of ELSE r.of
  /\ l.k = "opening" =>
       /\ new.saldo = l.amount /\ new.rows = r.rows
       /\ new.accounts = Append(r.accounts, [of |-> r.of, currency |-> CurrencyOf[r.of], opening |-> l.amount, closing |-> 0])
  /\ l.k = "row" /\ l.amount # 0 =>
       /\ new.saldo = r.saldo + l.amount /\ new.accounts = r.accounts
       /\ new.rows = Append(r.rows, Row(r.of, YearOf(l.month), l.amount, r.saldo + l.amount))
  /\ l.k = "total" => new.accounts = LastRow(r.accounts, "closing", l.amount) /\ new.rows = r.rows /\ new.saldo = r.saldo
  /\ l.k \notin {"opening", "row", "total"} => new.rows = r.rows /\ new.accounts = r.accounts /\ new.saldo = r.saldo

LEMMA CimbReads ==
  ASSUME NEW r, DOMAIN r = ReadFields, NEW l, NEW new, new = ReadCimbAccount(r, l)
  PROVE  CimbOutcome(r, l, new)
  BY DEF CimbOutcome, ReadCimbAccount, ReadFields

UsdOutcome(r, l, new) ==
  /\ DOMAIN new = ReadFields
  /\ new.of = IF l.k = "date" THEN l.year ELSE r.of
  /\ new.opening = r.opening
  /\ new.closing = IF l.k = "end" THEN r.saldo ELSE r.closing
  /\ l.k = "row" /\ r.of # Blank =>
       LET amount == IF Debits(l.of) THEN -l.amount ELSE l.amount
       IN new.saldo = r.saldo + amount /\ new.rows = Append(r.rows, Row("USD", r.of, amount, r.saldo + amount))
  /\ l.k # "row" => new.saldo = r.saldo /\ new.rows = r.rows

LEMMA UsdReads ==
  ASSUME NEW r, DOMAIN r = ReadFields, NEW l, NEW new, new = ReadPermataUsd(r, l)
  PROVE  UsdOutcome(r, l, new)
  BY DEF UsdOutcome, ReadPermataUsd, ReadFields

SavingsOutcome(r, l, new) ==
  /\ DOMAIN new = ReadFields /\ new.on \in BOOLEAN /\ new.more \in BOOLEAN /\ new.done \in BOOLEAN
  /\ l.k = "account" /\ l.of = r.of => new = r
  /\ l.k = "account" /\ l.of # r.of =>
       /\ new.of = l.of /\ new.on = FALSE /\ new.rows = r.rows
       /\ new.done = IF r.of = Blank THEN r.done ELSE FALSE
       /\ new.accounts = IF r.of = Blank THEN r.accounts ELSE Append(r.accounts, Section(r))
  /\ l.k = "currency" =>
       /\ r.of # Blank /\ r.done = FALSE => new = [r EXCEPT !.currency = l.of]
       /\ r.done = TRUE => new = r
  /\ l.k = "opening" /\ r.of # Blank =>
       /\ new.opening = l.amount /\ new.saldo = l.amount /\ new.on = TRUE
       /\ new.of = r.of /\ new.rows = r.rows /\ new.accounts = r.accounts /\ new.done = r.done /\ new.currency = r.currency
  /\ l.k = "table" => new = [r EXCEPT !.on = TRUE]
  /\ l.k = "total" /\ r.on = TRUE =>
       /\ new.on = FALSE /\ new.done = TRUE
       /\ new.of = r.of /\ new.rows = r.rows /\ new.accounts = r.accounts /\ new.currency = r.currency
       /\ new.opening = r.opening /\ new.saldo = r.saldo
  /\ l.k = "row" /\ r.on = TRUE =>
       /\ new.saldo = l.saldo /\ new.more = TRUE /\ new.on = TRUE
       /\ new.rows = Append(r.rows, Row(r.of, YearOf(l.month), IF l.saldo < r.saldo THEN -l.amount ELSE l.amount, l.saldo))
       /\ new.of = r.of /\ new.accounts = r.accounts /\ new.done = r.done /\ new.currency = r.currency /\ new.opening = r.opening
  /\ l.k = "text" /\ r.on = TRUE /\ r.more = TRUE => new = [r EXCEPT !.rows = Wrapped(@)]
  /\ l.k = "end" => new.rows = r.rows /\ new.accounts = IF r.of = Blank THEN r.accounts ELSE Append(r.accounts, Section(r))
  /\ l.k \in {"stray", "page"} => new = r

LEMMA SavingsReads ==
  ASSUME NEW r, DOMAIN r = ReadFields, r.on \in BOOLEAN, r.more \in BOOLEAN, r.done \in BOOLEAN, NEW l, NEW new, new = ReadPermataAccount(r, l)
  PROVE  SavingsOutcome(r, l, new)
  <1>1. CASE l.k = "account" /\ l.of = r.of
    <2>1. new = r BY <1>1 DEF ReadPermataAccount
    <2> QED BY <1>1, <2>1 DEF SavingsOutcome
  <1>2. CASE l.k = "account" /\ l.of # r.of
    <2>1. new = [Committed(r) EXCEPT !.of = l.of, !.currency = "IDR", !.on = FALSE, !.more = FALSE]
      BY <1>2 DEF ReadPermataAccount
    <2>2. CASE r.of = Blank BY <1>2, <2>1, <2>2 DEF SavingsOutcome, ReadFields, Committed
    <2>3. CASE r.of # Blank BY <1>2, <2>1, <2>3 DEF SavingsOutcome, ReadFields, Committed
    <2> QED BY <2>2, <2>3
  <1>3. CASE l.k = "currency"
    <2>1. new = IF r.of # Blank /\ ~ r.done THEN [r EXCEPT !.currency = l.of] ELSE r
      BY <1>3 DEF ReadPermataAccount
    <2> QED BY <1>3, <2>1 DEF SavingsOutcome, ReadFields
  <1>4. CASE l.k = "opening"
    <2>1. r.of # Blank => new = [Ended(r) EXCEPT !.opening = l.amount, !.saldo = l.amount, !.on = TRUE]
      BY <1>4 DEF ReadPermataAccount
    <2>2. r.of = Blank => new = r BY <1>4 DEF ReadPermataAccount
    <2> QED BY <1>4, <2>1, <2>2 DEF SavingsOutcome, ReadFields, Ended
  <1>5. CASE l.k = "table" BY <1>5 DEF SavingsOutcome, ReadPermataAccount, ReadFields
  <1>6. CASE l.k = "total"
    <2>1. new = IF r.on = TRUE THEN [Ended(r) EXCEPT !.on = FALSE, !.done = TRUE] ELSE r
      BY <1>6 DEF ReadPermataAccount
    <2> QED BY <1>6, <2>1 DEF SavingsOutcome, ReadFields, Ended
  <1>7. CASE l.k = "row"
    <2>1. new = IF r.on = TRUE THEN [r EXCEPT !.saldo = l.saldo, !.more = TRUE,
                  !.rows = Append(@, Row(r.of, YearOf(l.month), IF l.saldo < r.saldo THEN -l.amount ELSE l.amount, l.saldo))] ELSE r
      BY <1>7 DEF ReadPermataAccount
    <2> QED BY <1>7, <2>1 DEF SavingsOutcome, ReadFields
  <1>8. CASE l.k = "text"
    <2>1. new = IF r.on = TRUE /\ r.more = TRUE THEN [r EXCEPT !.rows = Wrapped(@)] ELSE r
      BY <1>8 DEF ReadPermataAccount, Continued
    <2> QED BY <1>8, <2>1 DEF SavingsOutcome, ReadFields
  <1>9. CASE l.k = "end" BY <1>9 DEF SavingsOutcome, ReadPermataAccount, ReadFields, Committed
  <1>10. CASE l.k \notin {"account", "currency", "opening", "table", "total", "row", "text", "end"}
    BY <1>10 DEF SavingsOutcome, ReadPermataAccount
  <1> QED BY <1>1, <1>2, <1>3, <1>4, <1>5, <1>6, <1>7, <1>8, <1>9, <1>10

BcaOutcome(r, l, new) ==
  LET isRow == l.month = StatementMonth /\ ~ (bank = "BCA RDN" /\ l.of = "SALDO AWAL") IN
  /\ DOMAIN new = ReadFields /\ new.more \in BOOLEAN /\ new.dated \in BOOLEAN
  /\ new.of = r.of
  /\ new.opening = IF l.k = "opening" THEN l.amount ELSE r.opening
  /\ new.closing = IF l.k = "closing" THEN l.amount ELSE r.closing
  /\ l.k = "row" /\ isRow =>
       /\ new.rows = Append(r.rows, RowPrinted(r.of, 0, IF l.whole THEN l.amount ELSE 0, 0, l.whole))
       /\ new.more = TRUE /\ new.dated = FALSE
  /\ l.k = "row" /\ ~ isRow => new.rows = r.rows
  /\ l.k = "text" /\ r.more = TRUE => new = [r EXCEPT !.rows = Wrapped(@)]
  /\ l.k = "rest" /\ r.more = TRUE /\ r.rows[Len(r.rows)].whole = FALSE =>
       new.rows = LastRow(LastRow(r.rows, "whole", TRUE), "amount", l.amount)
  /\ l.k = "blank" => new = r
  /\ l.k = "effective" => new.rows = r.rows /\ (bank = "BCA savings" /\ r.dated = FALSE => new.more = r.more)
  /\ l.k \notin {"row", "text", "rest"} => new.rows = r.rows

LEMMA BcaReads ==
  ASSUME NEW r, DOMAIN r = ReadFields, r.more \in BOOLEAN, r.dated \in BOOLEAN, NEW l, NEW new, new = ReadBcaAccount(r, l)
  PROVE  BcaOutcome(r, l, new)
  <1> DEFINE isRow == l.month = StatementMonth /\ ~ (bank = "BCA RDN" /\ l.of = "SALDO AWAL")
  <1>1. CASE l.k = "row" /\ isRow
    <2>1. new = [r EXCEPT !.more = TRUE, !.dated = FALSE,
            !.rows = Append(@, RowPrinted(r.of, 0, IF l.whole THEN l.amount ELSE 0, 0, l.whole))]
      BY <1>1 DEF ReadBcaAccount, Elsewhere, RowPrinted
    <2> QED BY <1>1, <2>1 DEF BcaOutcome, ReadFields
  <1>2. CASE l.k = "row" /\ ~ isRow
    <2>0. l.k = "row" /\ Elsewhere(l) BY <1>2 DEF Elsewhere
    <2>1. new = [r EXCEPT !.more = FALSE] BY <2>0 DEF ReadBcaAccount, Ended
    <2> QED BY <1>2, <2>1 DEF BcaOutcome, ReadFields
  <1>3. CASE l.k = "text"
    <2>1. new = IF r.more = TRUE THEN [r EXCEPT !.rows = Wrapped(@)] ELSE r
      BY <1>3 DEF ReadBcaAccount, Continued
    <2> QED BY <1>3, <2>1 DEF BcaOutcome, ReadFields
  <1>4. CASE l.k = "rest"
    <2>1. new = Amounted(r, l) BY <1>4 DEF ReadBcaAccount
    <2> QED BY <1>4, <2>1 DEF BcaOutcome, ReadFields, Amounted
  <1>5. CASE l.k = "blank" BY <1>5 DEF BcaOutcome, ReadBcaAccount
  <1>6. CASE l.k = "effective"
    <2>1. new = [r EXCEPT !.dated = r.more] \/ new = [r EXCEPT !.more = FALSE]
      BY <1>6 DEF ReadBcaAccount, Ended
    <2>2. bank = "BCA savings" /\ r.dated = FALSE => new = [r EXCEPT !.dated = r.more]
      BY <1>6 DEF ReadBcaAccount
    <2> QED BY <1>6, <2>1, <2>2 DEF BcaOutcome, ReadFields
  <1>7. CASE l.k = "opening" BY <1>7 DEF BcaOutcome, ReadBcaAccount, ReadFields, Ended
  <1>8. CASE l.k = "closing" BY <1>8 DEF BcaOutcome, ReadBcaAccount, ReadFields, Ended
  <1>9. CASE l.k \notin {"row", "text", "rest", "blank", "effective", "opening", "closing"}
    BY <1>9 DEF BcaOutcome, ReadBcaAccount, ReadFields, Ended
  <1> QED BY <1>1, <1>2, <1>3, <1>4, <1>5, <1>6, <1>7, <1>8, <1>9

\* What one line changes in the statement, and that the parser reads it.
AccountHeard(l, k, of, rows, opening, saldo, accounts) ==
  /\ sheet'.k = k /\ DOMAIN sheet' = SheetFields /\ bank' = bank
  /\ sheet'.of = of /\ sheet'.rows = rows /\ sheet'.opening = opening /\ sheet'.saldo = saldo /\ sheet'.accounts = accounts
  /\ read' = ReadAccount(read, l)

LEMMA AccountPrinted ==
  ASSUME NEW l, NEW k, NEW s, PrintAccount(l, k, s), DOMAIN s = SheetFields
  PROVE  AccountHeard(l, k, s.of, s.rows, s.opening, s.saldo, s.accounts)
  BY DEF PrintAccount, AccountHeard, SheetFields

LEMMA AccountReadBy ==
  ASSUME NEW l, NEW k, NEW of, NEW rows, NEW opening, NEW saldo, NEW accounts, AccountHeard(l, k, of, rows, opening, saldo, accounts),
         DOMAIN read = ReadFields
  PROVE  /\ bank = "CIMB consol" => CimbOutcome(read, l, read')
         /\ bank = "Maybank consol" => MaybankOutcome(read, l, read')
         /\ bank = "Permata USD" => UsdOutcome(read, l, read')
         /\ bank = "Permata savings" /\ read.on \in BOOLEAN /\ read.more \in BOOLEAN /\ read.done \in BOOLEAN => SavingsOutcome(read, l, read')
         /\ bank \in Bca /\ read.more \in BOOLEAN /\ read.dated \in BOOLEAN => BcaOutcome(read, l, read')
  <1>1. read' = ReadAccount(read, l) BY DEF AccountHeard
  <1>2. bank = "CIMB consol" => read' = ReadCimbAccount(read, l) BY <1>1 DEF ReadAccount, Bca
  <1>3. bank = "Maybank consol" => read' = ReadMaybankAccount(read, l) BY <1>1 DEF ReadAccount, Bca
  <1>4. bank = "Permata USD" => read' = ReadPermataUsd(read, l) BY <1>1 DEF ReadAccount, Bca
  <1>5. bank = "Permata savings" => read' = ReadPermataAccount(read, l) BY <1>1 DEF ReadAccount, Bca
  <1>6. bank \in Bca => read' = ReadBcaAccount(read, l) BY <1>1 DEF ReadAccount, Bca
  <1> QED BY <1>2, <1>3, <1>4, <1>5, <1>6, CimbReads, MaybankReads, UsdReads, SavingsReads, BcaReads

LEMMA NextPrinted ==
  ASSUME AccountNext, DOMAIN sheet = SheetFields
  PROVE  \E l : /\ l.k = "account" /\ l.of = Accts[sheet.of + 1]
                /\ AccountHeard(l, "account", sheet.of + 1, sheet.rows, sheet.opening, sheet.saldo, sheet.accounts)
  <1> DEFINE l == [Line("account") EXCEPT !.of = Accts[sheet.of + 1]]
             s == [sheet EXCEPT !.of = @ + 1]
  <1>1. l.k = "account" /\ l.of = Accts[sheet.of + 1] BY CardLineKinds
  <1>2. DOMAIN s = SheetFields /\ s.of = sheet.of + 1 /\ s.rows = sheet.rows /\ s.opening = sheet.opening /\ s.saldo = sheet.saldo /\ s.accounts = sheet.accounts
    BY DEF SheetFields
  <1>3. PrintAccount(l, "account", s) BY DEF AccountNext
  <1> HIDE DEF l, s
  <1>4. AccountHeard(l, "account", s.of, s.rows, s.opening, s.saldo, s.accounts)
    BY <1>2, <1>3, AccountPrinted
  <1> QED BY <1>1, <1>2, <1>4

LEMMA StrayPrinted ==
  ASSUME AccountStray, DOMAIN sheet = SheetFields
  PROVE  \E l : /\ l.k \in {"stray", "row"} /\ l.month = StatementMonth + 1 /\ (bank \notin Bca => l.k = "stray")
                /\ AccountHeard(l, "stray", sheet.of, sheet.rows, sheet.opening, sheet.saldo, sheet.accounts)
  <1>1. PICK k \in (IF bank \in Bca THEN {"stray", "row"} ELSE {"stray"}) :
          PrintAccount([Line(k) EXCEPT !.month = StatementMonth + 1, !.amount = 1], "stray", [sheet EXCEPT !.stray = @ + 1])
    BY DEF AccountStray
  <1> DEFINE l == [Line(k) EXCEPT !.month = StatementMonth + 1, !.amount = 1]
             s == [sheet EXCEPT !.stray = @ + 1]
  <1>2. l.k = k /\ l.month = StatementMonth + 1 BY CardLineKinds
  <1>3. DOMAIN s = SheetFields /\ s.of = sheet.of /\ s.rows = sheet.rows /\ s.opening = sheet.opening /\ s.saldo = sheet.saldo /\ s.accounts = sheet.accounts
    BY DEF SheetFields
  <1>4. PrintAccount(l, "stray", s) BY <1>1
  <1> HIDE DEF l, s
  <1>5. AccountHeard(l, "stray", s.of, s.rows, s.opening, s.saldo, s.accounts)
    BY <1>3, <1>4, AccountPrinted
  <1> QED BY <1>2, <1>3, <1>5

LEMMA PagePrinted ==
  ASSUME AccountPage, DOMAIN sheet = SheetFields
  PROVE  \E l : /\ l.k \in {"account", "page"} /\ (l.k = "account" => l.of = Acct)
                /\ bank \notin {"Permata savings", "CIMB consol"} => l.k = "page"
                /\ bank = "Permata savings" => l.k = "account"
                /\ AccountHeard(l, IF bank = "Permata savings" THEN "paged" ELSE "stray",
                     sheet.of, sheet.rows, sheet.opening, sheet.saldo, sheet.accounts)
  <1> DEFINE k == IF bank = "Permata savings" THEN "paged" ELSE "stray"
             s == [sheet EXCEPT !.pages = @ + 1]
             marked == [Line("account") EXCEPT !.of = Acct]
  <1>1. PICK l \in {marked, Line("page")} :
          /\ bank \notin {"Permata savings", "CIMB consol"} => l = Line("page")
          /\ bank = "Permata savings" => l = marked
          /\ PrintAccount(l, k, s)
    BY DEF AccountPage
  <1>2. marked.k = "account" /\ marked.of = Acct /\ Line("page").k = "page" BY DEF Line
  <1>3. DOMAIN s = SheetFields /\ s.of = sheet.of /\ s.rows = sheet.rows /\ s.opening = sheet.opening /\ s.saldo = sheet.saldo /\ s.accounts = sheet.accounts
    BY DEF SheetFields
  <1> HIDE DEF s, k, marked
  <1>4. AccountHeard(l, k, s.of, s.rows, s.opening, s.saldo, s.accounts)
    BY <1>1, <1>3, AccountPrinted
  <1>5. /\ l.k \in {"account", "page"} /\ (l.k = "account" => l.of = Acct)
        /\ bank \notin {"Permata savings", "CIMB consol"} => l.k = "page"
        /\ bank = "Permata savings" => l.k = "account"
    BY <1>1, <1>2
  <1> QED BY <1>3, <1>4, <1>5 DEF k

LEMMA BondsPrintedBelow ==
  ASSUME AccountBonds, DOMAIN sheet = SheetFields
  PROVE  \E l : l.k = "currency" /\ AccountHeard(l, "total", sheet.of, sheet.rows, sheet.opening, sheet.saldo, sheet.accounts)
  <1>1. PICK currency \in {"IDR", "USD"} : PrintAccount([Line("currency") EXCEPT !.of = currency], "total", [sheet EXCEPT !.stray = @ + 1])
    BY DEF AccountBonds
  <1> DEFINE l == [Line("currency") EXCEPT !.of = currency]
             s == [sheet EXCEPT !.stray = @ + 1]
  <1>2. l.k = "currency" BY CardLineKinds
  <1>3. DOMAIN s = SheetFields /\ s.of = sheet.of /\ s.rows = sheet.rows /\ s.opening = sheet.opening /\ s.saldo = sheet.saldo /\ s.accounts = sheet.accounts
    BY DEF SheetFields
  <1>4. PrintAccount(l, "total", s) BY <1>1
  <1> HIDE DEF l, s
  <1>5. AccountHeard(l, "total", s.of, s.rows, s.opening, s.saldo, s.accounts)
    BY <1>3, <1>4, AccountPrinted
  <1> QED BY <1>2, <1>3, <1>5

LEMMA CurrencyPrinted ==
  ASSUME AccountCurrency, DOMAIN sheet = SheetFields
  PROVE  \E l : /\ l.k = "currency" /\ l.of = CurrencyOf[Acct]
                /\ AccountHeard(l, "currency", sheet.of, sheet.rows, sheet.opening, sheet.saldo, sheet.accounts)
  <1> DEFINE l == [Line("currency") EXCEPT !.of = CurrencyOf[Acct]]
  <1>1. l.k = "currency" /\ l.of = CurrencyOf[Acct] BY CardLineKinds
  <1>2. PrintAccount(l, "currency", sheet) BY DEF AccountCurrency
  <1> HIDE DEF l
  <1> QED BY <1>1, <1>2, AccountPrinted

LEMMA TablePrinted ==
  ASSUME AccountTable, DOMAIN sheet = SheetFields
  PROVE  \E l : l.k = "table" /\ AccountHeard(l, "table", sheet.of, sheet.rows, sheet.opening, sheet.saldo, sheet.accounts)
  <1>1. Line("table").k = "table" BY CardLineKinds
  <1> QED BY <1>1, AccountPrinted DEF AccountTable

LEMMA ClosePrinted ==
  ASSUME AccountCloses, DOMAIN sheet = SheetFields
  PROVE  \E l : l.k = "end" /\ AccountHeard(l, "closed", sheet.of, sheet.rows, sheet.opening, sheet.saldo, sheet.accounts)
  <1>1. Line("end").k = "end" BY CardLineKinds
  <1> QED BY <1>1, AccountPrinted DEF AccountCloses

LEMMA TotalPrinted ==
  ASSUME AccountTotal, DOMAIN sheet = SheetFields
  PROVE  \E l : /\ l.k = "total" /\ l.amount = sheet.saldo
                /\ AccountHeard(l, "total", sheet.of, sheet.rows, sheet.opening, sheet.saldo,
                     Append(sheet.accounts, [of |-> Acct, currency |-> CurrencyOf[Acct], opening |-> sheet.opening, closing |-> sheet.saldo]))
  <1> DEFINE l == [Line("total") EXCEPT !.amount = sheet.saldo]
             kept == Append(sheet.accounts, [of |-> Acct, currency |-> CurrencyOf[Acct], opening |-> sheet.opening, closing |-> sheet.saldo])
             s == [sheet EXCEPT !.accounts = kept]
  <1>1. l.k = "total" /\ l.amount = sheet.saldo BY CardLineKinds
  <1>2. PrintAccount(l, "total", s) BY DEF AccountTotal
  <1> HIDE DEF l, kept
  <1>3. DOMAIN s = SheetFields /\ s.of = sheet.of /\ s.rows = sheet.rows /\ s.opening = sheet.opening /\ s.saldo = sheet.saldo /\ s.accounts = kept
    BY DEF SheetFields
  <1> HIDE DEF s
  <1>4. AccountHeard(l, "total", s.of, s.rows, s.opening, s.saldo, s.accounts)
    BY <1>2, <1>3, AccountPrinted
  <1>5. AccountHeard(l, "total", sheet.of, sheet.rows, sheet.opening, sheet.saldo, kept)
    BY <1>3, <1>4
  <1> QED BY <1>1, <1>5 DEF kept

\* A booking, outside BCA.
LEMMA RowPrintedWhere ==
  ASSUME AccountRow, bank \notin Bca, DOMAIN sheet = SheetFields, sheet.saldo \in Int
  PROVE  \E l, date, amount :
           /\ date \in RowDates /\ date[2] \in {-1, 0} /\ amount \in Int /\ amount # 0 /\ sheet.saldo + amount \in Int
           /\ l.k = "row" /\ YearOf(l.month) = date[2] /\ l.year = date[2] /\ l.saldo = sheet.saldo + amount
           /\ l.amount = IF bank = "Permata savings" /\ amount < 0 THEN -amount ELSE amount
           /\ LET of == IF bank = "Maybank consol" THEN CurrencyOf[Acct] ELSE Acct
              IN AccountHeard(l, "row", sheet.of, Append(sheet.rows, Row(of, date[2], amount, sheet.saldo + amount)),
                   sheet.opening, sheet.saldo + amount, sheet.accounts)
  <1> DEFINE of == IF bank = "Maybank consol" THEN CurrencyOf[Acct] ELSE Acct
             line(date, amount) == [Line("row") EXCEPT !.month = date[1], !.year = date[2], !.whole = TRUE, !.saldo = sheet.saldo + amount,
                            !.amount = IF bank = "Permata savings" /\ amount < 0 THEN -amount ELSE amount]
             next(date, amount) == [sheet EXCEPT !.saldo = sheet.saldo + amount,
                            !.rows = Append(@, [Row(of, date[2], amount, sheet.saldo + amount) EXCEPT !.whole = TRUE])]
  <1>1. PICK date \in RowDates, amount \in Amounts : PrintAccount(line(date, amount), "row", next(date, amount))
    <2>1. PICK date \in RowDates, amount \in Amounts, whole \in {TRUE, bank \notin Bca} :
            PrintAccount([Line("row") EXCEPT !.month = date[1], !.year = date[2], !.whole = whole, !.saldo = sheet.saldo + amount,
                            !.amount = IF bank = "Permata savings" /\ amount < 0 THEN -amount ELSE amount], "row",
               [sheet EXCEPT !.saldo = sheet.saldo + amount,
                 !.rows = Append(@, [Row(of, date[2], amount, IF bank \in Bca THEN 0 ELSE sheet.saldo + amount) EXCEPT !.whole = whole])])
      BY Zenon DEF AccountRow
    <2>2. whole = TRUE BY Zenon
    <2> QED BY <2>1, <2>2, Zenon
  <1> DEFINE l == line(date, amount)
             s == next(date, amount)
             saldo == sheet.saldo + amount
             row == Row(of, date[2], amount, saldo)
  <1>2. amount \in Int /\ amount # 0 /\ saldo \in Int
    <2>1. amount \in Int /\ amount # 0 BY ONLY amount \in Amounts, ReadingAssumption DEF Amounts
    <2> QED BY ONLY <2>1, sheet.saldo \in Int
  <1>3. date[2] \in {-1, 0} /\ YearOf(date[1]) = date[2] BY ReadingAssumption DEF YearOf
  <1>4. /\ l.k = "row" /\ l.month = date[1] /\ l.year = date[2] /\ l.saldo = saldo
        /\ l.amount = IF bank = "Permata savings" /\ amount < 0 THEN -amount ELSE amount
    BY CardLineKinds
  <1>5. [row EXCEPT !.whole = TRUE] = row
    <2> HIDE DEF of, saldo
    <2>1. RowPrinted(of, date[2], amount, saldo, TRUE) = Row(of, date[2], amount, saldo)
      BY <1>2, <1>3, RowPrintedPlain
    <2> QED BY <2>1, Zenon DEF RowPrinted
  <1> HIDE DEF of
  <1>6. /\ DOMAIN s = SheetFields /\ s.of = sheet.of /\ s.rows = Append(sheet.rows, row) /\ s.opening = sheet.opening
        /\ s.saldo = saldo /\ s.accounts = sheet.accounts
    BY <1>5 DEF SheetFields
  <1> HIDE DEF l, s
  <1>7. PrintAccount(l, "row", s) BY <1>1 DEF l, s
  <1>8. AccountHeard(l, "row", s.of, s.rows, s.opening, s.saldo, s.accounts)
    BY <1>6, <1>7, AccountPrinted
  <1>9. AccountHeard(l, "row", sheet.of, Append(sheet.rows, row), sheet.opening, saldo, sheet.accounts)
    BY <1>6, <1>8
  <1> QED BY <1>2, <1>3, <1>4, <1>9 DEF of

\* The line of an opening balance; a BCA statement prints it as a row of its own.
LEMMA OpeningPrinted ==
  ASSUME AccountOpening, DOMAIN sheet = SheetFields
  PROVE  \E l, amount :
           /\ amount \in Figures /\ amount \in Int /\ amount # 0 /\ l.amount = amount
           /\ bank \in Bca => l.k = "row" /\ l.of = "SALDO AWAL" /\ l.month = StatementMonth /\ l.whole = TRUE
           /\ bank \notin Bca => l.k = "opening"
           /\ AccountHeard(l, "opening", sheet.of,
                IF bank = "BCA savings" THEN <<Row(Acct, 0, amount, 0)>>
                ELSE IF bank = "Maybank consol" THEN Append(sheet.rows, Row(CurrencyOf[Acct], 0, amount, amount)) ELSE sheet.rows,
                amount, amount, sheet.accounts)
  <1> DEFINE line(amount) == IF bank \in Bca THEN OpeningRowLine(amount) ELSE [Line("opening") EXCEPT !.amount = amount]
             rowsOf(amount) == IF bank = "BCA savings" THEN <<Row(Acct, 0, amount, 0)>>
                ELSE IF bank = "Maybank consol" THEN Append(sheet.rows, Row(CurrencyOf[Acct], 0, amount, amount)) ELSE sheet.rows
             next(amount) == [sheet EXCEPT !.opening = amount, !.saldo = amount, !.rows = rowsOf(amount)]
  <1>1. PICK amount \in Figures : PrintAccount(line(amount), "opening", next(amount))
    BY Zenon DEF AccountOpening
  <1> DEFINE l == line(amount)
             rows == rowsOf(amount)
             s == next(amount)
  <1>2. amount \in Int /\ amount # 0 BY ReadingAssumption
  <1>3. /\ l.amount = amount
        /\ bank \in Bca => l.k = "row" /\ l.of = "SALDO AWAL" /\ l.month = StatementMonth /\ l.whole = TRUE
        /\ bank \notin Bca => l.k = "opening"
    BY DEF Line, OpeningRowLine
  <1> HIDE DEF rowsOf
  <1>4. /\ DOMAIN s = SheetFields /\ s.of = sheet.of /\ s.rows = rows /\ s.opening = amount /\ s.saldo = amount
        /\ s.accounts = sheet.accounts
    BY DEF SheetFields
  <1>5. PrintAccount(l, "opening", s) BY <1>1
  <1> HIDE DEF l, s, rows
  <1>6. AccountHeard(l, "opening", s.of, s.rows, s.opening, s.saldo, s.accounts)
    BY <1>4, <1>5, AccountPrinted
  <1>7. AccountHeard(l, "opening", sheet.of, rows, amount, amount, sheet.accounts) BY <1>4, <1>6
  <1> QED BY <1>2, <1>3, <1>7 DEF rows, rowsOf

\* A booking of a BCA account, whole or wrapped before its amount.
LEMMA BcaRowPrinted ==
  ASSUME AccountRow, bank \in Bca, DOMAIN sheet = SheetFields, sheet.saldo \in Int
  PROVE  \E l, amount, whole :
           /\ amount \in Int /\ sheet.saldo + amount \in Int /\ whole \in BOOLEAN
           /\ l.k = "row" /\ l.month = StatementMonth /\ l.of = Blank /\ l.amount = amount /\ l.whole = whole
           /\ AccountHeard(l, "row", sheet.of, Append(sheet.rows, RowPrinted(Acct, 0, amount, 0, whole)),
                sheet.opening, sheet.saldo + amount, sheet.accounts)
  <1> DEFINE line(date, amount, whole) ==
               [Line("row") EXCEPT !.month = date[1], !.year = date[2], !.whole = whole, !.saldo = sheet.saldo + amount,
                            !.amount = IF bank = "Permata savings" /\ amount < 0 THEN -amount ELSE amount]
             of == IF bank = "Maybank consol" THEN CurrencyOf[Acct] ELSE Acct
             next(date, amount, whole) ==
               [sheet EXCEPT !.saldo = sheet.saldo + amount,
                 !.rows = Append(@, [Row(of, date[2], amount, IF bank \in Bca THEN 0 ELSE sheet.saldo + amount) EXCEPT !.whole = whole])]
  <1>1. PICK date \in RowDates, amount \in Amounts, whole \in {TRUE, bank \notin Bca} :
          /\ bank \in Bca => date = <<StatementMonth, 0>>
          /\ PrintAccount(line(date, amount, whole), "row", next(date, amount, whole))
    BY Zenon DEF AccountRow
  <1>0. whole \in BOOLEAN BY Zenon
  <1> DEFINE l == line(date, amount, whole)
             s == next(date, amount, whole)
             saldo == sheet.saldo + amount
             row == RowPrinted(Acct, 0, amount, 0, whole)
  <1>2. amount \in Int /\ saldo \in Int BY ReadingAssumption DEF Amounts
  <1>3. date[1] = StatementMonth /\ date[2] = 0 BY <1>1
  <1>4. l.k = "row" /\ l.month = StatementMonth /\ l.of = Blank /\ l.amount = amount /\ l.whole = whole
    BY <1>3 DEF Line, Bca
  <1>5. [Row(of, date[2], amount, IF bank \in Bca THEN 0 ELSE saldo) EXCEPT !.whole = whole] = row
    <2>1. of = Acct BY DEF Bca
    <2> HIDE DEF of, saldo
    <2> QED BY <1>3, <2>1 DEF RowPrinted
  <1> HIDE DEF of, row
  <1>6. /\ DOMAIN s = SheetFields /\ s.of = sheet.of /\ s.rows = Append(sheet.rows, row) /\ s.opening = sheet.opening
        /\ s.saldo = saldo /\ s.accounts = sheet.accounts
    BY <1>5 DEF SheetFields
  <1> HIDE DEF l, s
  <1>7. PrintAccount(l, "row", s) BY <1>1 DEF l, s
  <1>8. AccountHeard(l, "row", s.of, s.rows, s.opening, s.saldo, s.accounts)
    BY <1>6, <1>7, AccountPrinted
  <1>9. AccountHeard(l, "row", sheet.of, Append(sheet.rows, row), sheet.opening, saldo, sheet.accounts)
    BY <1>6, <1>8
  <1> QED BY <1>0, <1>2, <1>4, <1>9 DEF row

LEMMA WrapsPrinted ==
  ASSUME AccountWraps, DOMAIN sheet = SheetFields
  PROVE  \E l : /\ l.k = "text"
                /\ AccountHeard(l, IF sheet.k = "effective" THEN "effective" ELSE "text",
                     sheet.of, Wrapped(sheet.rows), sheet.opening, sheet.saldo, sheet.accounts)
  <1> DEFINE l == Line("text")
             k == IF sheet.k = "effective" THEN "effective" ELSE "text"
             rows == Wrapped(sheet.rows)
             s == [sheet EXCEPT !.rows = rows]
  <1>1. l.k = "text" BY CardLineKinds
  <1>2. PrintAccount(l, k, s) BY DEF AccountWraps, SheetFields
  <1> HIDE DEF rows
  <1>3. /\ DOMAIN s = SheetFields /\ s.of = sheet.of /\ s.rows = rows /\ s.opening = sheet.opening /\ s.saldo = sheet.saldo
        /\ s.accounts = sheet.accounts
    BY DEF SheetFields
  <1> HIDE DEF l, k, s
  <1>4. AccountHeard(l, k, s.of, s.rows, s.opening, s.saldo, s.accounts)
    BY <1>2, <1>3, AccountPrinted
  <1> QED BY <1>1, <1>3, <1>4 DEF k, rows

LEMMA RestPrinted ==
  ASSUME AccountRest, DOMAIN sheet = SheetFields
  PROVE  \E l : /\ l.k = "rest" /\ l.amount = sheet.rows[Len(sheet.rows)].amount
                /\ AccountHeard(l, "rest", sheet.of, LastRow(sheet.rows, "whole", TRUE), sheet.opening, sheet.saldo, sheet.accounts)
  <1> DEFINE l == [Line("rest") EXCEPT !.amount = sheet.rows[Len(sheet.rows)].amount]
             rows == LastRow(sheet.rows, "whole", TRUE)
             s == [sheet EXCEPT !.rows = rows]
  <1>1. l.k = "rest" /\ l.amount = sheet.rows[Len(sheet.rows)].amount BY CardLineKinds
  <1>2. PrintAccount(l, "rest", s) BY DEF AccountRest, SheetFields
  <1> HIDE DEF rows
  <1>3. /\ DOMAIN s = SheetFields /\ s.of = sheet.of /\ s.rows = rows /\ s.opening = sheet.opening /\ s.saldo = sheet.saldo
        /\ s.accounts = sheet.accounts
    BY DEF SheetFields
  <1> HIDE DEF l, s
  <1>4. AccountHeard(l, "rest", s.of, s.rows, s.opening, s.saldo, s.accounts)
    BY <1>2, <1>3, AccountPrinted
  <1> QED BY <1>1, <1>3, <1>4 DEF rows

LEMMA EffectivePrinted ==
  ASSUME AccountEffective, DOMAIN sheet = SheetFields
  PROVE  \E l : l.k = "effective" /\ AccountHeard(l, "effective", sheet.of, sheet.rows, sheet.opening, sheet.saldo, sheet.accounts)
  <1>1. Line("effective").k = "effective" BY CardLineKinds
  <1> QED BY <1>1, AccountPrinted DEF AccountEffective

LEMMA BlankPrinted ==
  ASSUME AccountBlank, DOMAIN sheet = SheetFields
  PROVE  \E l : l.k = "blank" /\ AccountHeard(l, sheet.k, sheet.of, sheet.rows, sheet.opening, sheet.saldo, sheet.accounts)
  <1> DEFINE s == [sheet EXCEPT !.stray = @ + 1]
  <1>1. Line("blank").k = "blank" BY CardLineKinds
  <1>2. /\ DOMAIN s = SheetFields /\ s.of = sheet.of /\ s.rows = sheet.rows /\ s.opening = sheet.opening /\ s.saldo = sheet.saldo
        /\ s.accounts = sheet.accounts
    BY DEF SheetFields
  <1>3. PrintAccount(Line("blank"), sheet.k, s) BY DEF AccountBlank
  <1> HIDE DEF s
  <1>4. AccountHeard(Line("blank"), sheet.k, s.of, s.rows, s.opening, s.saldo, s.accounts)
    BY <1>2, <1>3, AccountPrinted
  <1> QED BY <1>1, <1>2, <1>4

LEMMA SummaryPrinted ==
  ASSUME AccountSummary, DOMAIN sheet = SheetFields
  PROVE  \E l, k :
           /\ \/ l.k = "opening" /\ l.amount = sheet.opening /\ k = "summary" /\ bank \in Bca /\ InTable
              \/ l.k = "closing" /\ l.amount = sheet.saldo /\ k = "total" /\ sheet.k = "summary"
           /\ AccountHeard(l, k, sheet.of, sheet.rows, sheet.opening, sheet.saldo, sheet.accounts)
  <1> DEFINE first == [Line("opening") EXCEPT !.amount = sheet.opening]
             final == [Line("closing") EXCEPT !.amount = sheet.saldo]
  <1>1. first.k = "opening" /\ first.amount = sheet.opening /\ final.k = "closing" /\ final.amount = sheet.saldo
    BY CardLineKinds
  <1>2. \/ bank \in Bca /\ InTable /\ PrintAccount(first, "summary", sheet)
        \/ sheet.k = "summary" /\ PrintAccount(final, "total", sheet)
    BY DEF AccountSummary
  <1> HIDE DEF first, final
  <1> QED BY <1>1, <1>2, AccountPrinted

LEMMA DatePrinted ==
  ASSUME AccountDate, DOMAIN sheet = SheetFields
  PROVE  \E l, year : /\ year \in {-1, 0} /\ l.k = "date" /\ l.year = year
                      /\ AccountHeard(l, "date", year, sheet.rows, sheet.opening, sheet.saldo, sheet.accounts)
  <1>1. PICK date \in RowDates : PrintAccount([Line("date") EXCEPT !.year = date[2]], "date", [sheet EXCEPT !.of = date[2]])
    BY DEF AccountDate
  <1> DEFINE year == date[2]
             l == [Line("date") EXCEPT !.year = year]
             s == [sheet EXCEPT !.of = year]
  <1>2. year \in {-1, 0} BY ReadingAssumption
  <1>3. l.k = "date" /\ l.year = year BY CardLineKinds
  <1>4. PrintAccount(l, "date", s) BY <1>1
  <1> HIDE DEF year
  <1>5. /\ DOMAIN s = SheetFields /\ s.of = year /\ s.rows = sheet.rows /\ s.opening = sheet.opening /\ s.saldo = sheet.saldo
        /\ s.accounts = sheet.accounts
    BY DEF SheetFields
  <1> HIDE DEF l, s
  <1>6. AccountHeard(l, "date", s.of, s.rows, s.opening, s.saldo, s.accounts)
    BY <1>4, <1>5, AccountPrinted
  <1> QED BY <1>2, <1>3, <1>5, <1>6

\* A booking of a USD account, with its sign in its words.
LEMMA WordsPrinted ==
  ASSUME AccountWords, DOMAIN sheet = SheetFields, sheet.saldo \in Int
  PROVE  \E l, amount :
           /\ amount \in Int /\ sheet.saldo + amount \in Int
           /\ l.k = "row" /\ amount = IF Debits(l.of) THEN -l.amount ELSE l.amount
           /\ AccountHeard(l, "row", sheet.of, Append(sheet.rows, Row("USD", sheet.of, amount, sheet.saldo + amount)),
                sheet.opening, sheet.saldo + amount, sheet.accounts)
  <1> DEFINE signed(words, value) == IF words = {"BAGI HASIL"} THEN value ELSE -value
             line(words, value) == [Line("row") EXCEPT !.of = words, !.amount = value]
             next(words, value) == [sheet EXCEPT !.saldo = sheet.saldo + signed(words, value),
               !.rows = Append(@, Row("USD", sheet.of, signed(words, value), sheet.saldo + signed(words, value)))]
  <1>1. PICK words \in Words, value \in Figures : PrintAccount(line(words, value), "row", next(words, value))
    BY Zenon DEF AccountWords
  <1> DEFINE amount == signed(words, value)
             saldo == sheet.saldo + amount
             row == Row("USD", sheet.of, amount, saldo)
             l == line(words, value)
             s == next(words, value)
  <1>2. amount \in Int /\ saldo \in Int
    <2>1. value \in Int BY ReadingAssumption
    <2>2. amount = value \/ amount = -value BY Zenon
    <2> HIDE DEF amount
    <2> QED BY <2>1, <2>2
  <1>3. Debits(words) <=> words # {"BAGI HASIL"}
    <2>1. CASE words = {"BAGI HASIL"} BY <2>1 DEF Debits
    <2>2. CASE words # {"BAGI HASIL"}
      <3>1. words = {"PAJAK", "BAGI HASIL"} \/ words = {"BIAYA"} BY <2>2 DEF Words
      <3> QED BY <2>2, <3>1 DEF Debits
    <2> QED BY <2>1, <2>2
  <1>4. l.k = "row" /\ l.of = words /\ l.amount = value BY CardLineKinds
  <1>5. amount = IF Debits(l.of) THEN -l.amount ELSE l.amount BY <1>3, <1>4
  <1> HIDE DEF amount
  <1>6. /\ DOMAIN s = SheetFields /\ s.of = sheet.of /\ s.rows = Append(sheet.rows, row) /\ s.opening = sheet.opening
        /\ s.saldo = saldo /\ s.accounts = sheet.accounts
    BY DEF SheetFields, amount
  <1>7. PrintAccount(l, "row", s) BY <1>1
  <1> HIDE DEF l, s
  <1>8. AccountHeard(l, "row", s.of, s.rows, s.opening, s.saldo, s.accounts)
    BY <1>6, <1>7, AccountPrinted
  <1>9. AccountHeard(l, "row", sheet.of, Append(sheet.rows, row), sheet.opening, saldo, sheet.accounts)
    BY <1>6, <1>8
  <1> QED BY <1>2, <1>4, <1>5, <1>9

AllRead(rows) == \A i \in 1 .. Len(rows) : rows[i].whole = TRUE
AccountTyped == FieldsKept /\ sheet.of \in Nat /\ sheet.saldo \in Int /\ sheet.rows \in Seq(Bookings(AccountOf))

LEMMA RowAdded ==
  ASSUME NEW S, NEW rows \in Seq(Bookings(S)), NEW of \in S, NEW year \in {-1, 0}, NEW amount \in Int, NEW saldo \in Int
  PROVE  /\ Append(rows, Row(of, year, amount, saldo)) \in Seq(Bookings(S))
         /\ AllRead(rows) => AllRead(Append(rows, Row(of, year, amount, saldo)))
  <1> DEFINE row == Row(of, year, amount, saldo)
             new == Append(rows, row)
  <1>1. row \in Bookings(S) /\ row.whole = TRUE
    <2>1. TRUE \in BOOLEAN OBVIOUS
    <2> QED BY <2>1, RowMade, RowWholePrinted
  <1> HIDE DEF row
  <1>2. /\ new \in Seq(Bookings(S)) /\ Len(new) = Len(rows) + 1
        /\ new[Len(new)] = row /\ \A i \in 1 .. Len(rows) : new[i] = rows[i]
        /\ \A i \in 1 .. Len(new) : i \in 1 .. Len(rows) \/ i = Len(new)
    BY <1>1, RowsGrow
  <1> HIDE DEF new
  <1> QED BY <1>1, <1>2 DEF AllRead, new, row

LEMMA AllReadWhole ==
  ASSUME NEW R, NEW rows \in Seq(R), AllRead(rows)
  PROVE  WholeRows(rows) = rows
  BY AllWhole DEF AllRead

LEMMA AcctNamed ==
  ASSUME sheet.of \in Nat
  PROVE  Acct \in AccountOf /\ CurrencyOf[Acct] \in AccountOf
  BY DEF Acct, AccountOf

(* Maybank. A row is booked under the currency of its table. *)
MaybankInv ==
  /\ bank = "Maybank consol" /\ AccountTyped /\ AllRead(sheet.rows)
  /\ sheet.k \in {"start", "account", "opening", "row", "stray", "total", "closed"}
  /\ read.rows = sheet.rows
  /\ sheet.k \in {"account", "opening", "row", "stray"} => read.of = CurrencyOf[Acct]

LEMMA MaybankActions ==
  ASSUME bank = "Maybank consol", AccountStep, sheet.k \notin {"paged", "summary"}
  PROVE  AccountNext \/ AccountOpening \/ AccountRow \/ AccountStray \/ AccountPage \/ AccountTotal \/ AccountCloses
  BY DEF AccountStep, AccountCurrency, AccountDate, AccountWords, AccountWraps, AccountEffective, AccountRest, AccountBlank,
         AccountTable, AccountBonds, AccountSummary, AccountMonth, Bca

LEMMA MaybankKept ==
  ASSUME MaybankInv, AccountStep
  PROVE  MaybankInv'
  <1>0. /\ bank = "Maybank consol" /\ DOMAIN sheet = SheetFields /\ DOMAIN read = ReadFields /\ sheet.of \in Nat /\ sheet.saldo \in Int
        /\ sheet.rows \in Seq(Bookings(AccountOf)) /\ AllRead(sheet.rows) /\ read.rows = sheet.rows /\ bank \notin Bca
    BY DEF MaybankInv, AccountTyped, FieldsKept, Bca
  <1>1. CASE AccountNext
    <2>1. PICK l : /\ l.k = "account" /\ l.of = Accts[sheet.of + 1]
                   /\ AccountHeard(l, "account", sheet.of + 1, sheet.rows, sheet.opening, sheet.saldo, sheet.accounts)
      BY <1>0, <1>1, NextPrinted
    <2>2. MaybankOutcome(read, l, read') BY <1>0, <2>1, AccountReadBy
    <2>3. sheet.of + 1 \in Nat
      <3>1. sheet.of \in Nat BY <1>0
      <3> QED BY ONLY <3>1
    <2> QED BY <1>0, <2>1, <2>2, <2>3 DEF MaybankInv, AccountTyped, FieldsKept, MaybankOutcome, AccountHeard, Acct
  <1>2. CASE AccountOpening
    <2>1. PICK l, amount :
            /\ amount \in Int /\ l.amount = amount /\ l.k = "opening"
            /\ AccountHeard(l, "opening", sheet.of, Append(sheet.rows, Row(CurrencyOf[Acct], 0, amount, amount)), amount, amount, sheet.accounts)
      BY <1>0, <1>2, OpeningPrinted
    <2>2. MaybankOutcome(read, l, read') BY <1>0, <2>1, AccountReadBy
    <2> DEFINE rows == Append(sheet.rows, Row(CurrencyOf[Acct], 0, amount, amount))
    <2>3. rows \in Seq(Bookings(AccountOf)) /\ AllRead(rows)
      <3>1. CurrencyOf[Acct] \in AccountOf /\ 0 \in {-1, 0} BY <1>0, AcctNamed
      <3> QED BY ONLY <1>0, <2>1, <3>1, RowAdded
    <2>4. read.of = CurrencyOf[Acct] BY <1>0, <1>2 DEF AccountOpening, MaybankInv
    <2>5. read'.rows = rows /\ read'.of = read.of /\ DOMAIN read' = ReadFields
      BY <1>0, <2>1, <2>2, <2>4 DEF MaybankOutcome
    <2> HIDE DEF rows
    <2>6. AccountHeard(l, "opening", sheet.of, rows, amount, amount, sheet.accounts)
      BY <2>1 DEF rows
    <2> QED BY <1>0, <2>1, <2>3, <2>4, <2>5, <2>6 DEF MaybankInv, AccountTyped, FieldsKept, AccountHeard, Acct
  <1>3. CASE AccountRow
    <2>1. PICK l, date, amount :
           /\ date[2] \in {-1, 0} /\ amount \in Int /\ sheet.saldo + amount \in Int
           /\ l.k = "row" /\ l.year = date[2] /\ l.saldo = sheet.saldo + amount /\ l.amount = amount
           /\ AccountHeard(l, "row", sheet.of, Append(sheet.rows, Row(CurrencyOf[Acct], date[2], amount, sheet.saldo + amount)),
                   sheet.opening, sheet.saldo + amount, sheet.accounts)
      BY <1>0, <1>3, RowPrintedWhere
    <2>2. MaybankOutcome(read, l, read') BY <1>0, <2>1, AccountReadBy
    <2> DEFINE saldo == sheet.saldo + amount
               rows == Append(sheet.rows, Row(CurrencyOf[Acct], date[2], amount, saldo))
    <2>3. rows \in Seq(Bookings(AccountOf)) /\ AllRead(rows)
      <3>1. CurrencyOf[Acct] \in AccountOf BY <1>0, AcctNamed
      <3> HIDE DEF saldo
      <3>2. saldo \in Int BY <2>1 DEF saldo
      <3> QED BY ONLY <1>0, <2>1, <3>1, <3>2, RowAdded
    <2>4. read.of = CurrencyOf[Acct] /\ sheet.k \in {"opening", "row", "stray"}
      BY <1>0, <1>3 DEF AccountRow, MaybankInv, InTable
    <2>5. read'.rows = rows /\ read'.of = read.of /\ DOMAIN read' = ReadFields
      BY <1>0, <2>1, <2>2, <2>4 DEF MaybankOutcome
    <2> HIDE DEF rows
    <2>6. AccountHeard(l, "row", sheet.of, rows, sheet.opening, saldo, sheet.accounts)
      BY <2>1 DEF rows
    <2> QED BY <1>0, <2>1, <2>3, <2>4, <2>5, <2>6 DEF MaybankInv, AccountTyped, FieldsKept, AccountHeard, Acct
  <1>4. CASE AccountStray \/ AccountPage
    <2>1. PICK l : l.k \in {"stray", "page"} /\ AccountHeard(l, "stray", sheet.of, sheet.rows, sheet.opening, sheet.saldo, sheet.accounts)
      <3>1. CASE AccountStray
        <4>1. PICK l : /\ bank \notin Bca => l.k = "stray"
                       /\ AccountHeard(l, "stray", sheet.of, sheet.rows, sheet.opening, sheet.saldo, sheet.accounts)
          BY <1>0, <3>1, StrayPrinted
        <4>2. l.k \in {"stray", "page"} BY <1>0, <4>1
        <4>3. AccountHeard(l, "stray", sheet.of, sheet.rows, sheet.opening, sheet.saldo, sheet.accounts)
          BY <1>0, <4>1
        <4> QED BY ONLY <4>2, <4>3
      <3>2. CASE AccountPage
        <4>1. PICK l : /\ bank \notin {"Permata savings", "CIMB consol"} => l.k = "page"
                       /\ AccountHeard(l, IF bank = "Permata savings" THEN "paged" ELSE "stray",
                            sheet.of, sheet.rows, sheet.opening, sheet.saldo, sheet.accounts)
          BY <1>0, <3>2, PagePrinted
        <4>2. l.k \in {"stray", "page"} BY <1>0, <4>1
        <4>3. AccountHeard(l, "stray", sheet.of, sheet.rows, sheet.opening, sheet.saldo, sheet.accounts)
          BY <1>0, <4>1
        <4> QED BY ONLY <4>2, <4>3
      <3> QED BY <1>4, <3>1, <3>2
    <2>2. MaybankOutcome(read, l, read') BY <1>0, <2>1, AccountReadBy
    <2>3. read.of = CurrencyOf[Acct]
      BY <1>0, <1>4 DEF AccountStray, AccountPage, MaybankInv, InTable
    <2> QED BY <1>0, <2>1, <2>2, <2>3 DEF MaybankInv, AccountTyped, FieldsKept, MaybankOutcome, AccountHeard, Acct
  <1>5. CASE AccountTotal \/ AccountCloses
    <2>1. PICK l, k, accounts : l.k \in {"total", "end"} /\ k \in {"total", "closed"} /\ AccountHeard(l, k, sheet.of, sheet.rows, sheet.opening, sheet.saldo, accounts)
      BY <1>0, <1>5, TotalPrinted, ClosePrinted
    <2>2. MaybankOutcome(read, l, read') BY <1>0, <2>1, AccountReadBy
    <2> QED BY <1>0, <2>1, <2>2 DEF MaybankInv, AccountTyped, FieldsKept, MaybankOutcome, AccountHeard, Acct
  <1> QED BY <1>1, <1>2, <1>3, <1>4, <1>5, MaybankActions DEF MaybankInv

LEMMA MaybankAsPrinted ==
  ASSUME MaybankInv
  PROVE  AccountReadAsPrinted
  BY AllReadWhole DEF MaybankInv, AccountTyped, AccountReadAsPrinted, Bca

(* The sections of a statement, one per account in the order printed. *)
Sections == [of : AccountOf, currency : AccountOf, opening : Int, closing : Int]
SectionOf(n, opening, closing) == [of |-> Accts[n], currency |-> CurrencyOf[Accts[n]], opening |-> opening, closing |-> closing]
Numbered(accounts, n) ==
  /\ n \in Nat /\ n <= Len(Accts)
  /\ accounts \in Seq(Sections) /\ Len(accounts) = n
  /\ \A i \in 1 .. n : accounts[i].of = Accts[i]

LEMMA SectionMade ==
  ASSUME NEW n \in Nat, NEW opening \in Int, NEW closing \in Int
  PROVE  SectionOf(n, opening, closing) \in Sections /\ SectionOf(n, opening, closing).of = Accts[n]
  <1>1. Accts[n] \in AccountOf /\ CurrencyOf[Accts[n]] \in AccountOf BY DEF AccountOf
  <1> HIDE DEF AccountOf
  <1> QED BY <1>1 DEF SectionOf, Sections

LEMMA AcctsCounted == Len(Accts) \in Nat /\ DOMAIN Accts = 1 .. Len(Accts)
  <1>1. Len(Accts) \in Nat BY AccountAssumption
  <1>2. DOMAIN Accts = 1 .. Len(Accts) BY AccountAssumption
  <1> QED BY <1>1, <1>2

LEMMA NoneNumbered == Numbered(<<>>, 0)
  <1>1. <<>> \in Seq(Sections) /\ Len(<<>>) = 0 /\ 1 .. 0 = {} OBVIOUS
  <1>2. 0 \in Nat /\ 0 <= Len(Accts) BY ONLY AcctsCounted
  <1> QED BY <1>1, <1>2 DEF Numbered

LEMMA NumberedGrow ==
  ASSUME NEW n \in Nat, n + 1 <= Len(Accts), NEW accounts, Numbered(accounts, n), NEW opening \in Int, NEW closing \in Int
  PROVE  Numbered(Append(accounts, SectionOf(n + 1, opening, closing)), n + 1)
  <1> DEFINE section == SectionOf(n + 1, opening, closing)
             new == Append(accounts, section)
  <1>1. section \in Sections /\ section.of = Accts[n + 1]
    <2>1. n + 1 \in Nat OBVIOUS
    <2> QED BY <2>1, SectionMade
  <1>2. accounts \in Seq(Sections) /\ Len(accounts) = n /\ \A i \in 1 .. n : accounts[i].of = Accts[i]
    BY DEF Numbered
  <1> HIDE DEF section
  <1>3. /\ new \in Seq(Sections) /\ Len(new) = Len(accounts) + 1 /\ new[Len(new)] = section
        /\ \A i \in 1 .. Len(accounts) : new[i] = accounts[i]
        /\ \A i \in 1 .. Len(new) : i \in 1 .. Len(accounts) \/ i = Len(new)
    BY <1>1, <1>2, RowsGrow
  <1> HIDE DEF new
  <1>4. n + 1 \in Nat OBVIOUS
  <1>5. Numbered(new, n + 1) BY <1>1, <1>2, <1>3, <1>4 DEF Numbered
  <1> QED BY <1>5 DEF new, section

LEMMA SectionClosed ==
  ASSUME NEW n \in Nat, NEW accounts \in Seq(Sections), NEW opening \in Int, NEW closing \in Int, NEW before \in Int
  PROVE  LastRow(Append(accounts, SectionOf(n, opening, before)), "closing", closing) = Append(accounts, SectionOf(n, opening, closing))
  <1> DEFINE old == Append(accounts, SectionOf(n, opening, before))
             new == Append(accounts, SectionOf(n, opening, closing))
             m == Len(old)
  <1>1. SectionOf(n, opening, before) \in Sections /\ SectionOf(n, opening, closing) \in Sections
    BY SectionMade
  <1>2. /\ old \in Seq(Sections) /\ old # <<>> /\ m = Len(accounts) + 1 /\ old[m] = SectionOf(n, opening, before)
        /\ \A i \in 1 .. Len(accounts) : old[i] = accounts[i]
    BY <1>1, RowsGrow
  <1>3. /\ new \in Seq(Sections) /\ Len(new) = Len(accounts) + 1 /\ new[Len(new)] = SectionOf(n, opening, closing)
        /\ \A i \in 1 .. Len(accounts) : new[i] = accounts[i]
        /\ \A i \in 1 .. Len(new) : i \in 1 .. Len(accounts) \/ i = Len(new)
    BY <1>1, RowsGrow
  <1> HIDE DEF old, new
  <1>4. [old[m] EXCEPT !["closing"] = closing] = SectionOf(n, opening, closing)
    BY <1>2 DEF SectionOf
  <1>5. m \in Nat /\ m \in 1 .. m /\ Len(accounts) = m - 1 BY <1>2
  <1> DEFINE changed == LastRow(old, "closing", closing)
  <1>6. changed = [old EXCEPT ![m] = SectionOf(n, opening, closing)] BY <1>2, <1>4, <1>5 DEF LastRow
  <1> HIDE DEF changed
  <1>7. /\ changed \in Seq(Sections) /\ Len(changed) = m /\ changed[m] = SectionOf(n, opening, closing)
        /\ \A i \in 1 .. (m - 1) : changed[i] = old[i]
    BY <1>1, <1>2, <1>6, LastChanged
  <1>8. Len(changed) = Len(new) /\ \A i \in 1 .. Len(new) : changed[i] = new[i]
    BY <1>2, <1>3, <1>5, <1>7
  <1>9. changed = new BY <1>3, <1>7, <1>8, SeqEqual
  <1> QED BY <1>9 DEF changed, old, new

\* Of accounts that are all different every one is kept.
LEMMA AllKept ==
  ASSUME NEW n \in Nat, NEW accounts, Numbered(accounts, n)
  PROVE  KeptAccounts(accounts) = accounts
  <1> DEFINE firsts == Places({i \in DOMAIN accounts : \A j \in 1 .. (i - 1) : accounts[j].of # accounts[i].of}, Len(accounts))
  <1>0. /\ n <= Len(Accts) /\ accounts \in Seq(Sections) /\ Len(accounts) = n /\ DOMAIN accounts = 1 .. n
        /\ \A i \in 1 .. n : accounts[i].of = Accts[i]
    BY DEF Numbered
  <1>1. \A i, j \in 1 .. n : accounts[i].of = accounts[j].of => i = j
    <2>1. \A i \in 1 .. n : i \in DOMAIN Accts BY ONLY <1>0, n \in Nat, AcctsCounted
    <2> QED BY <1>0, <2>1, AccountAssumption
  <1>2. firsts = [i \in 1 .. n |-> i]
    <2> DEFINE first == {i \in DOMAIN accounts : \A j \in 1 .. (i - 1) : accounts[j].of # accounts[i].of}
    <2>1. \A i \in 1 .. n : \A j \in 1 .. (i - 1) : j \in 1 .. n /\ i # j OBVIOUS
    <2>2. 1 .. n \subseteq first BY <1>0, <1>1, <2>1
    <2> HIDE DEF first
    <2>3. Places(first, n) = [i \in 1 .. n |-> i] BY <2>2, AllPlaces
    <2> QED BY <1>0, <2>3 DEF first
  <1>3. \A i \in 1 .. n : KeptOf(accounts, i) = accounts[i]
    <2> TAKE i \in 1 .. n
    <2> DEFINE better == {j \in DOMAIN accounts : accounts[j].of = accounts[i].of /\ (accounts[j].opening > 0 \/ accounts[j].closing > 0)}
    <2>1. better \cup {i} = {i} BY <1>0, <1>1
    <2> HIDE DEF better
    <2>2. Max(better \cup {i}) = i BY <2>1 DEF Max
    <2>3. KeptOf(accounts, i) = accounts[Max(better \cup {i})] BY DEF KeptOf, better
    <2> QED BY <2>2, <2>3
  <1>4. KeptAccounts(accounts) = [i \in DOMAIN firsts |-> KeptOf(accounts, firsts[i])]
    BY DEF KeptAccounts
  <1> HIDE DEF firsts
  <1>5. DOMAIN firsts = 1 .. n /\ \A i \in 1 .. n : firsts[i] = i BY <1>2
  <1>6. KeptAccounts(accounts) = [i \in 1 .. n |-> accounts[i]] BY <1>3, <1>4, <1>5
  <1> QED BY <1>0, <1>6

(* CIMB. The balance and the section of an account are kept by the parser. *)
InAccount == sheet.of \in Nat \ {0} /\ sheet.of <= Len(Accts) /\ Numbered(sheet.accounts, sheet.of - 1)
CimbInv ==
  /\ bank = "CIMB consol" /\ AccountTyped /\ AllRead(sheet.rows) /\ sheet.opening \in Int
  /\ sheet.k \in {"start", "account", "opening", "row", "stray", "total", "closed"}
  /\ read.rows = sheet.rows
  /\ sheet.k \in {"start", "total", "closed"} => Numbered(sheet.accounts, sheet.of)
  /\ sheet.k \in {"start", "account", "total", "closed"} => read.accounts = sheet.accounts
  /\ sheet.k \in {"account", "opening", "row", "stray"} => InAccount /\ read.of = Acct
  /\ sheet.k \in {"opening", "row", "stray"} =>
       read.saldo = sheet.saldo /\ read.accounts = Append(sheet.accounts, SectionOf(sheet.of, sheet.opening, 0))

LEMMA CimbActions ==
  ASSUME bank = "CIMB consol", AccountStep, sheet.k \notin {"paged", "summary"}
  PROVE  AccountNext \/ AccountOpening \/ AccountRow \/ AccountStray \/ AccountPage \/ AccountTotal \/ AccountCloses
  BY DEF AccountStep, AccountCurrency, AccountDate, AccountWords, AccountWraps, AccountEffective, AccountRest, AccountBlank,
         AccountTable, AccountBonds, AccountSummary, AccountMonth, Bca

\* What changes when a line is printed and what does not.
LEMMA CimbKept ==
  ASSUME CimbInv, AccountStep
  PROVE  CimbInv'
  <1>0. /\ bank = "CIMB consol" /\ DOMAIN sheet = SheetFields /\ DOMAIN read = ReadFields /\ sheet.of \in Nat /\ sheet.saldo \in Int
        /\ sheet.opening \in Int
        /\ sheet.rows \in Seq(Bookings(AccountOf)) /\ AllRead(sheet.rows) /\ read.rows = sheet.rows /\ bank \notin Bca
    BY DEF CimbInv, AccountTyped, FieldsKept, Bca
  <1>of. sheet.of \in Nat BY <1>0
  <1>1. CASE AccountNext
    <2>1. PICK l : /\ l.k = "account" /\ l.of = Accts[sheet.of + 1]
                   /\ AccountHeard(l, "account", sheet.of + 1, sheet.rows, sheet.opening, sheet.saldo, sheet.accounts)
      BY <1>0, <1>1, NextPrinted
    <2>2. CimbOutcome(read, l, read') BY <1>0, <2>1, AccountReadBy
    <2> DEFINE n == sheet.of + 1
    <2>3. n \in Nat /\ n \in Nat \ {0} /\ n - 1 = sheet.of BY ONLY <1>of
    <2>4. n <= Len(Accts) /\ Numbered(sheet.accounts, sheet.of) /\ read.accounts = sheet.accounts
      <3>1. sheet.of < Len(Accts) /\ sheet.k \in {"start", "total"} BY <1>1 DEF AccountNext
      <3>2. sheet.of + 1 <= Len(Accts) BY ONLY <1>of, <3>1, AcctsCounted
      <3> QED BY <3>1, <3>2 DEF CimbInv
    <2> HIDE DEF n
    <2>5. /\ l.k = "account" /\ l.of = Accts[n]
          /\ AccountHeard(l, "account", n, sheet.rows, sheet.opening, sheet.saldo, sheet.accounts)
      BY <2>1 DEF n
    <2> QED BY <1>0, <2>2, <2>3, <2>4, <2>5 DEF CimbInv, AccountTyped, FieldsKept, CimbOutcome, AccountHeard, Acct, InAccount
  <1>2. CASE AccountOpening
    <2>1. PICK l, amount :
            /\ amount \in Int /\ l.amount = amount /\ l.k = "opening"
            /\ AccountHeard(l, "opening", sheet.of, sheet.rows, amount, amount, sheet.accounts)
      BY <1>0, <1>2, OpeningPrinted
    <2>2. CimbOutcome(read, l, read') BY <1>0, <2>1, AccountReadBy
    <2>3. InAccount /\ read.of = Acct /\ read.accounts = sheet.accounts
      BY <1>0, <1>2 DEF AccountOpening, CimbInv
    <2>4. /\ read'.rows = sheet.rows /\ read'.of = Acct /\ read'.saldo = amount /\ DOMAIN read' = ReadFields
          /\ read'.accounts = Append(sheet.accounts, SectionOf(sheet.of, amount, 0))
      BY <1>0, <2>1, <2>2, <2>3 DEF CimbOutcome, SectionOf, Acct
    <2> QED BY <1>0, <2>1, <2>3, <2>4 DEF CimbInv, AccountTyped, FieldsKept, AccountHeard, Acct, InAccount
  <1>3. CASE AccountRow
    <2>1. PICK l, date, amount :
           /\ date[2] \in {-1, 0} /\ amount \in Int /\ amount # 0 /\ sheet.saldo + amount \in Int
           /\ l.k = "row" /\ YearOf(l.month) = date[2] /\ l.amount = amount
           /\ AccountHeard(l, "row", sheet.of, Append(sheet.rows, Row(Acct, date[2], amount, sheet.saldo + amount)),
                   sheet.opening, sheet.saldo + amount, sheet.accounts)
      BY <1>0, <1>3, RowPrintedWhere
    <2>2. CimbOutcome(read, l, read') BY <1>0, <2>1, AccountReadBy
    <2> DEFINE saldo == sheet.saldo + amount
               rows == Append(sheet.rows, Row(Acct, date[2], amount, saldo))
    <2>3. rows \in Seq(Bookings(AccountOf)) /\ AllRead(rows)
      <3>1. Acct \in AccountOf BY <1>0, AcctNamed
      <3> HIDE DEF saldo
      <3>2. saldo \in Int BY <2>1 DEF saldo
      <3> QED BY ONLY <1>0, <2>1, <3>1, <3>2, RowAdded
    <2>4. /\ read.of = Acct /\ sheet.k \in {"opening", "row", "stray"} /\ InAccount /\ read.saldo = sheet.saldo
          /\ read.accounts = Append(sheet.accounts, SectionOf(sheet.of, sheet.opening, 0))
      BY <1>0, <1>3 DEF AccountRow, CimbInv, InTable
    <2>5. read'.rows = rows /\ read'.of = Acct /\ read'.saldo = saldo /\ read'.accounts = read.accounts /\ DOMAIN read' = ReadFields
      BY <1>0, <2>1, <2>2, <2>4 DEF CimbOutcome
    <2> HIDE DEF rows
    <2>6. AccountHeard(l, "row", sheet.of, rows, sheet.opening, saldo, sheet.accounts)
      BY <2>1 DEF rows
    <2> QED BY <1>0, <2>1, <2>3, <2>4, <2>5, <2>6 DEF CimbInv, AccountTyped, FieldsKept, AccountHeard, Acct, InAccount
  <1>4. CASE AccountStray \/ AccountPage
    <2>1. PICK l : /\ l.k \in {"stray", "page", "account"} /\ (l.k = "account" => l.of = Acct)
                   /\ AccountHeard(l, "stray", sheet.of, sheet.rows, sheet.opening, sheet.saldo, sheet.accounts)
      <3>1. CASE AccountStray
        <4>1. PICK l : /\ bank \notin Bca => l.k = "stray"
                       /\ AccountHeard(l, "stray", sheet.of, sheet.rows, sheet.opening, sheet.saldo, sheet.accounts)
          BY <1>0, <3>1, StrayPrinted
        <4>2. l.k = "stray" /\ l.k \in {"stray", "page", "account"} BY <1>0, <4>1
        <4>3. AccountHeard(l, "stray", sheet.of, sheet.rows, sheet.opening, sheet.saldo, sheet.accounts)
          BY <1>0, <4>1
        <4> QED BY ONLY <4>2, <4>3
      <3>2. CASE AccountPage
        <4>1. PICK l : /\ l.k \in {"account", "page"} /\ (l.k = "account" => l.of = Acct)
                       /\ AccountHeard(l, IF bank = "Permata savings" THEN "paged" ELSE "stray",
                            sheet.of, sheet.rows, sheet.opening, sheet.saldo, sheet.accounts)
          BY <1>0, <3>2, PagePrinted
        <4>2. l.k \in {"stray", "page", "account"} /\ (l.k = "account" => l.of = Acct) BY <1>0, <4>1
        <4>3. AccountHeard(l, "stray", sheet.of, sheet.rows, sheet.opening, sheet.saldo, sheet.accounts)
          BY <1>0, <4>1
        <4> QED BY ONLY <4>2, <4>3
      <3> QED BY <1>4, <3>1, <3>2
    <2>2. CimbOutcome(read, l, read') BY <1>0, <2>1, AccountReadBy
    <2>3. /\ read.of = Acct /\ InAccount /\ read.saldo = sheet.saldo
          /\ read.accounts = Append(sheet.accounts, SectionOf(sheet.of, sheet.opening, 0))
      BY <1>0, <1>4 DEF AccountStray, AccountPage, CimbInv, InTable
    <2>4. read'.rows = sheet.rows /\ read'.of = Acct /\ read'.saldo = read.saldo /\ read'.accounts = read.accounts /\ DOMAIN read' = ReadFields
      BY <1>0, <2>1, <2>2, <2>3 DEF CimbOutcome
    <2> QED BY <1>0, <2>1, <2>3, <2>4 DEF CimbInv, AccountTyped, FieldsKept, AccountHeard, Acct, InAccount
  <1>5. CASE AccountTotal
    <2> DEFINE accounts == Append(sheet.accounts, SectionOf(sheet.of, sheet.opening, sheet.saldo))
    <2>1. PICK l : l.k = "total" /\ l.amount = sheet.saldo /\ AccountHeard(l, "total", sheet.of, sheet.rows, sheet.opening, sheet.saldo, accounts)
      BY <1>0, <1>5, TotalPrinted DEF SectionOf, Acct
    <2>2. CimbOutcome(read, l, read') BY <1>0, <2>1, AccountReadBy
    <2>3. InAccount /\ read.accounts = Append(sheet.accounts, SectionOf(sheet.of, sheet.opening, 0))
      BY <1>0, <1>5 DEF AccountTotal, CimbInv, InTable
    <2>4. LastRow(read.accounts, "closing", sheet.saldo) = accounts
      <3>1. sheet.accounts \in Seq(Sections) BY <2>3 DEF InAccount, Numbered
      <3>2. 0 \in Int OBVIOUS
      <3>3. LastRow(Append(sheet.accounts, SectionOf(sheet.of, sheet.opening, 0)), "closing", sheet.saldo) = accounts
        BY ONLY <1>0, <3>1, <3>2, SectionClosed
      <3> HIDE DEF accounts
      <3> QED BY <2>3, <3>3
    <2>5. Numbered(accounts, sheet.of)
      <3> DEFINE n == sheet.of - 1
      <3>1. n \in Nat /\ n + 1 = sheet.of /\ n + 1 <= Len(Accts) BY <2>3 DEF InAccount
      <3>2. Numbered(sheet.accounts, n) BY <2>3 DEF InAccount
      <3> HIDE DEF n
      <3>3. Numbered(Append(sheet.accounts, SectionOf(n + 1, sheet.opening, sheet.saldo)), n + 1)
        BY <1>0, <3>1, <3>2, NumberedGrow
      <3> QED BY <3>1, <3>3
    <2>6. read'.rows = sheet.rows /\ read'.accounts = accounts /\ DOMAIN read' = ReadFields
      BY <1>0, <2>1, <2>2, <2>4 DEF CimbOutcome
    <2> HIDE DEF accounts
    <2> QED BY <1>0, <2>1, <2>5, <2>6 DEF CimbInv, AccountTyped, FieldsKept, AccountHeard
  <1>6. CASE AccountCloses
    <2>1. PICK l : l.k = "end" /\ AccountHeard(l, "closed", sheet.of, sheet.rows, sheet.opening, sheet.saldo, sheet.accounts)
      BY <1>0, <1>6, ClosePrinted
    <2>2. CimbOutcome(read, l, read') BY <1>0, <2>1, AccountReadBy
    <2>3. Numbered(sheet.accounts, sheet.of) /\ read.accounts = sheet.accounts
      BY <1>0, <1>6 DEF AccountCloses, CimbInv
    <2>4. read'.rows = sheet.rows /\ read'.accounts = sheet.accounts /\ DOMAIN read' = ReadFields
      BY <1>0, <2>1, <2>2, <2>3 DEF CimbOutcome
    <2> QED BY <1>0, <2>1, <2>3, <2>4 DEF CimbInv, AccountTyped, FieldsKept, AccountHeard
  <1> QED BY <1>1, <1>2, <1>3, <1>4, <1>5, <1>6, CimbActions DEF CimbInv

LEMMA CimbAsPrinted ==
  ASSUME CimbInv
  PROVE  AccountReadAsPrinted
  <1> SUFFICES ASSUME sheet.k = "closed" PROVE AccountReadAsPrinted
    BY DEF AccountReadAsPrinted
  <1>1. KeptAccounts(read.accounts) = sheet.accounts BY AllKept DEF CimbInv, Numbered
  <1>2. WholeRows(read.rows) = sheet.rows BY AllReadWhole DEF CimbInv, AccountTyped
  <1> QED BY <1>1, <1>2 DEF AccountReadAsPrinted, CimbInv, Bca

(* Permata USD. The year of a row is that of the date above it. *)
UsdInv ==
  /\ bank = "Permata USD" /\ FieldsKept /\ sheet.saldo \in Int
  /\ sheet.rows \in Seq(Bookings(AccountOf)) /\ AllRead(sheet.rows)
  /\ sheet.k \in {"start", "date", "row", "stray", "closed"}
  /\ read.rows = sheet.rows /\ read.saldo = sheet.saldo /\ read.opening = sheet.opening
  /\ sheet.k \in {"date", "row", "stray"} => read.of = sheet.of /\ sheet.of \in {-1, 0}
  /\ sheet.k = "closed" => read.closing = sheet.saldo

LEMMA UsdActions ==
  ASSUME bank = "Permata USD", AccountStep, sheet.k \notin {"paged", "summary"}
  PROVE  AccountDate \/ AccountWords \/ AccountStray \/ AccountCloses \/ AccountMonth
  BY DEF AccountStep, AccountNext, AccountCurrency, AccountOpening, AccountRow, AccountWraps, AccountEffective, AccountRest, AccountBlank,
         AccountPage, AccountTable, AccountTotal, AccountBonds, AccountSummary, Bca, Sectioned

LEMMA UsdKept ==
  ASSUME UsdInv, AccountStep
  PROVE  UsdInv'
  <1>0. /\ bank = "Permata USD" /\ DOMAIN sheet = SheetFields /\ DOMAIN read = ReadFields /\ sheet.saldo \in Int
        /\ sheet.rows \in Seq(Bookings(AccountOf)) /\ AllRead(sheet.rows) /\ read.rows = sheet.rows /\ bank \notin Bca
        /\ read.saldo = sheet.saldo /\ read.opening = sheet.opening
    BY DEF UsdInv, FieldsKept, Bca
  <1>1. CASE AccountDate
    <2>1. PICK l, year : /\ year \in {-1, 0} /\ l.k = "date" /\ l.year = year
                         /\ AccountHeard(l, "date", year, sheet.rows, sheet.opening, sheet.saldo, sheet.accounts)
      BY <1>0, <1>1, DatePrinted
    <2>2. UsdOutcome(read, l, read') BY <1>0, <2>1, AccountReadBy
    <2>3. read'.rows = sheet.rows /\ read'.saldo = sheet.saldo /\ read'.opening = sheet.opening /\ read'.of = year /\ DOMAIN read' = ReadFields
      BY <1>0, <2>1, <2>2 DEF UsdOutcome
    <2> QED BY <1>0, <2>1, <2>3 DEF UsdInv, FieldsKept, AccountHeard
  <1>2. CASE AccountWords
    <2>1. PICK l, amount :
           /\ amount \in Int /\ sheet.saldo + amount \in Int
           /\ l.k = "row" /\ amount = IF Debits(l.of) THEN -l.amount ELSE l.amount
           /\ AccountHeard(l, "row", sheet.of, Append(sheet.rows, Row("USD", sheet.of, amount, sheet.saldo + amount)),
                sheet.opening, sheet.saldo + amount, sheet.accounts)
      BY <1>0, <1>2, WordsPrinted
    <2>2. UsdOutcome(read, l, read') BY <1>0, <2>1, AccountReadBy
    <2>3. read.of = sheet.of /\ sheet.of \in {-1, 0} /\ read.of # Blank
      <3>1. read.of = sheet.of /\ sheet.of \in {-1, 0} BY <1>0, <1>2 DEF AccountWords, UsdInv
      <3>2. Blank \notin {-1, 0} BY ReadingAssumption
      <3> QED BY <3>1, <3>2
    <2> DEFINE saldo == sheet.saldo + amount
               rows == Append(sheet.rows, Row("USD", sheet.of, amount, saldo))
    <2>4. rows \in Seq(Bookings(AccountOf)) /\ AllRead(rows)
      <3>1. "USD" \in AccountOf BY DEF AccountOf
      <3> HIDE DEF saldo
      <3>2. saldo \in Int BY <2>1 DEF saldo
      <3> QED BY ONLY <1>0, <2>1, <2>3, <3>1, <3>2, RowAdded
    <2>5. read'.rows = rows /\ read'.saldo = saldo /\ read'.opening = sheet.opening /\ read'.of = sheet.of /\ DOMAIN read' = ReadFields
      BY <1>0, <2>1, <2>2, <2>3 DEF UsdOutcome
    <2> HIDE DEF rows
    <2>6. AccountHeard(l, "row", sheet.of, rows, sheet.opening, saldo, sheet.accounts)
      BY <2>1 DEF rows
    <2> QED BY <1>0, <2>1, <2>3, <2>4, <2>5, <2>6 DEF UsdInv, FieldsKept, AccountHeard
  <1>3. CASE AccountStray
    <2>1. PICK l : /\ bank \notin Bca => l.k = "stray"
                   /\ AccountHeard(l, "stray", sheet.of, sheet.rows, sheet.opening, sheet.saldo, sheet.accounts)
      BY <1>0, <1>3, StrayPrinted
    <2>2. UsdOutcome(read, l, read') BY <1>0, <2>1, AccountReadBy
    <2>3. read.of = sheet.of /\ sheet.of \in {-1, 0} BY <1>0, <1>3 DEF AccountStray, UsdInv, InTable
    <2>4. read'.rows = sheet.rows /\ read'.saldo = sheet.saldo /\ read'.opening = sheet.opening /\ read'.of = sheet.of /\ DOMAIN read' = ReadFields
      BY <1>0, <2>1, <2>2, <2>3 DEF UsdOutcome
    <2> QED BY <1>0, <2>1, <2>3, <2>4 DEF UsdInv, FieldsKept, AccountHeard
  <1>4. CASE AccountCloses
    <2>1. PICK l : l.k = "end" /\ AccountHeard(l, "closed", sheet.of, sheet.rows, sheet.opening, sheet.saldo, sheet.accounts)
      BY <1>0, <1>4, ClosePrinted
    <2>2. UsdOutcome(read, l, read') BY <1>0, <2>1, AccountReadBy
    <2>3. /\ read'.rows = sheet.rows /\ read'.saldo = sheet.saldo /\ read'.opening = sheet.opening /\ read'.closing = sheet.saldo
          /\ DOMAIN read' = ReadFields
      BY <1>0, <2>1, <2>2 DEF UsdOutcome
    <2> QED BY <1>0, <2>1, <2>3 DEF UsdInv, FieldsKept, AccountHeard
  <1>5. CASE AccountMonth
    <2>1. /\ sheet.k = "closed" /\ sheet' = [sheet EXCEPT !.k = "start", !.pages = @ + 1, !.rows = <<>>, !.opening = sheet.saldo]
          /\ read' = [read EXCEPT !.opening = read.closing, !.saldo = read.closing, !.rows = <<>>, !.of = Blank] /\ bank' = bank
      BY <1>5 DEF AccountMonth, CarriedOver
    <2>2. read.closing = sheet.saldo BY <2>1 DEF UsdInv
    <2>3. /\ DOMAIN sheet' = SheetFields /\ sheet'.k = "start" /\ sheet'.rows = <<>> /\ sheet'.opening = sheet.saldo /\ sheet'.saldo = sheet.saldo
      BY <1>0, <2>1 DEF SheetFields
    <2>4. DOMAIN read' = ReadFields /\ read'.rows = <<>> /\ read'.opening = sheet.saldo /\ read'.saldo = sheet.saldo
      BY <1>0, <2>1, <2>2 DEF ReadFields
    <2>5. <<>> \in Seq(Bookings(AccountOf)) /\ AllRead(<<>>) BY DEF AllRead
    <2> QED BY <1>0, <2>1, <2>3, <2>4, <2>5 DEF UsdInv, FieldsKept
  <1> QED BY <1>1, <1>2, <1>3, <1>4, <1>5, UsdActions DEF UsdInv

LEMMA UsdAsPrinted ==
  ASSUME UsdInv
  PROVE  AccountReadAsPrinted
  <1>1. WholeRows(read.rows) = sheet.rows BY AllReadWhole DEF UsdInv
  <1> QED BY <1>1 DEF UsdInv, AccountReadAsPrinted, Bca

(* Permata savings. Sections of accounts, kept when the next one starts. *)
(* Until then the section under way is in the parser's own variables: after*)
(* its totals it is the last section printed, and is not kept twice. *)
InSection == {"opening", "row", "text", "stray", "paged", "table"}
SavingsInv ==
  /\ bank = "Permata savings" /\ AccountTyped /\ AllRead(sheet.rows) /\ sheet.opening \in Int
  /\ sheet.k \in {"start", "account", "currency", "total", "closed"} \cup InSection
  /\ read.on \in BOOLEAN /\ read.more \in BOOLEAN /\ read.done \in BOOLEAN /\ read.rows = sheet.rows
  /\ sheet.k = "start" => read.of = Blank
  /\ sheet.k \in {"start", "total", "closed"} => Numbered(sheet.accounts, sheet.of)
  /\ sheet.k \in {"account", "currency"} \cup InSection => InAccount /\ read.of = Acct
  /\ sheet.k \in {"start", "account", "currency"} \cup InSection => read.accounts = sheet.accounts /\ read.done = FALSE
  /\ sheet.k \in {"currency"} \cup InSection => read.currency = CurrencyOf[Acct]
  /\ sheet.k \in InSection => read.on = TRUE /\ read.opening = sheet.opening /\ read.saldo = sheet.saldo
  /\ sheet.k \in {"row", "text"} => read.more = TRUE /\ sheet.rows # <<>>
  /\ sheet.k = "total" => /\ read.done = TRUE /\ sheet.of # 0 /\ read.of = Acct
                          /\ Append(read.accounts, Section(read)) = sheet.accounts
  /\ sheet.k = "closed" => read.accounts = sheet.accounts

LEMMA SavingsActions ==
  ASSUME bank = "Permata savings", AccountStep, sheet.k # "summary"
  PROVE  \/ AccountNext \/ AccountCurrency \/ AccountOpening \/ AccountRow \/ AccountWraps \/ AccountStray \/ AccountPage
         \/ AccountTable \/ AccountTotal \/ AccountBonds \/ AccountCloses
  BY DEF AccountStep, AccountDate, AccountWords, AccountEffective, AccountRest, AccountBlank,
         AccountSummary, AccountMonth, Bca

LEMMA AcctsApart ==
  ASSUME NEW n \in Nat \ {0}, NEW m \in Nat \ {0}, n <= Len(Accts), m <= Len(Accts)
  PROVE  Accts[n] # Blank /\ (n # m => Accts[n] # Accts[m])
  <1>1. n \in DOMAIN Accts /\ m \in DOMAIN Accts BY AcctsCounted
  <1> QED BY <1>1, AccountAssumption

LEMMA SavingsNextKept ==
  ASSUME SavingsInv, AccountNext
  PROVE  SavingsInv'
  <1>0. /\ bank = "Permata savings" /\ DOMAIN sheet = SheetFields /\ DOMAIN read = ReadFields /\ sheet.of \in Nat /\ sheet.saldo \in Int
        /\ sheet.opening \in Int /\ read.on \in BOOLEAN /\ read.more \in BOOLEAN /\ read.done \in BOOLEAN
        /\ sheet.rows \in Seq(Bookings(AccountOf)) /\ AllRead(sheet.rows) /\ read.rows = sheet.rows /\ bank \notin Bca
    BY DEF SavingsInv, AccountTyped, FieldsKept, Bca
  <1>of. sheet.of \in Nat BY <1>0
  <1> DEFINE n == sheet.of + 1
  <1>1. PICK l : /\ l.k = "account" /\ l.of = Accts[n]
                 /\ AccountHeard(l, "account", n, sheet.rows, sheet.opening, sheet.saldo, sheet.accounts)
    BY <1>0, NextPrinted
  <1>2. SavingsOutcome(read, l, read') BY <1>0, <1>1, AccountReadBy
  <1>3. n \in Nat /\ n \in Nat \ {0} /\ n - 1 = sheet.of /\ n # sheet.of BY ONLY <1>of
  <1>4. n <= Len(Accts) /\ sheet.k \in {"start", "total"}
    <2>1. sheet.of < Len(Accts) /\ sheet.k \in {"start", "total"} BY DEF AccountNext
    <2> QED BY ONLY <1>of, <2>1, AcctsCounted
  <1>5. Numbered(sheet.accounts, sheet.of) BY <1>4 DEF SavingsInv
  <1> HIDE DEF n
  <1>6. /\ read'.of = Accts[n] /\ read'.on \in BOOLEAN /\ read'.more \in BOOLEAN /\ read'.done = FALSE /\ read'.rows = sheet.rows
        /\ read'.accounts = sheet.accounts /\ DOMAIN read' = ReadFields
    <2>1. CASE sheet.k = "start"
      <3>1. read.of = Blank /\ read.accounts = sheet.accounts /\ read.done = FALSE
        BY <2>1 DEF SavingsInv
      <3>2. Accts[n] # Blank BY <1>3, <1>4, AcctsApart
      <3> QED BY <1>0, <1>1, <1>2, <3>1, <3>2 DEF SavingsOutcome
    <2>2. CASE sheet.k = "total"
      <3>1. read.of = Acct /\ sheet.of # 0 /\ Append(read.accounts, Section(read)) = sheet.accounts
        BY <2>2 DEF SavingsInv
      <3>2. Acct # Blank /\ Accts[n] # Acct
        <4>1. sheet.of \in Nat \ {0} /\ sheet.of <= Len(Accts)
          BY ONLY <1>of, <1>5, <3>1 DEF Numbered
        <4> QED BY <1>3, <1>4, <4>1, AcctsApart DEF Acct
      <3> QED BY <1>0, <1>1, <1>2, <3>1, <3>2 DEF SavingsOutcome
    <2> QED BY <1>4, <2>1, <2>2
  <1> QED BY <1>0, <1>1, <1>3, <1>4, <1>5, <1>6 DEF SavingsInv, AccountTyped, FieldsKept, AccountHeard, Acct, InAccount, InSection

SavingsKnown ==
  /\ bank = "Permata savings" /\ DOMAIN sheet = SheetFields /\ DOMAIN read = ReadFields /\ sheet.of \in Nat /\ sheet.saldo \in Int
  /\ sheet.opening \in Int /\ read.on \in BOOLEAN /\ read.more \in BOOLEAN /\ read.done \in BOOLEAN
  /\ sheet.rows \in Seq(Bookings(AccountOf)) /\ AllRead(sheet.rows) /\ read.rows = sheet.rows /\ bank \notin Bca

LEMMA SavingsFacts ==
  ASSUME SavingsInv
  PROVE  SavingsKnown
  BY DEF SavingsInv, AccountTyped, FieldsKept, Bca, SavingsKnown

LEMMA AcctGiven ==
  ASSUME InAccount
  PROVE  Acct # Blank
  <1>1. sheet.of \in Nat \ {0} /\ sheet.of <= Len(Accts) BY DEF InAccount
  <1> QED BY <1>1, AcctsApart DEF Acct

\* The lines of a heading.
LEMMA SavingsHeadingKept ==
  ASSUME SavingsInv, AccountCurrency \/ AccountOpening
  PROVE  SavingsInv'
  <1>0. SavingsKnown BY SavingsFacts
  <1>1. sheet.k \in {"account", "currency"}
    BY <1>0 DEF AccountCurrency, AccountOpening, SavingsKnown
  <1>2. InAccount /\ read.of = Acct /\ read.done = FALSE /\ read.accounts = sheet.accounts /\ Acct # Blank
    BY <1>1, AcctGiven DEF SavingsInv
  <1>3. CASE AccountCurrency
    <2>1. PICK l : /\ l.k = "currency" /\ l.of = CurrencyOf[Acct]
                   /\ AccountHeard(l, "currency", sheet.of, sheet.rows, sheet.opening, sheet.saldo, sheet.accounts)
      BY <1>0, <1>3, CurrencyPrinted DEF SavingsKnown
    <2>2. SavingsOutcome(read, l, read') BY <1>0, <2>1, AccountReadBy DEF SavingsKnown
    <2>3. read' = [read EXCEPT !.currency = CurrencyOf[Acct]] BY <1>2, <2>1, <2>2 DEF SavingsOutcome
    <2>4. /\ DOMAIN read' = ReadFields /\ read'.of = read.of /\ read'.done = FALSE /\ read'.accounts = sheet.accounts
          /\ read'.currency = CurrencyOf[Acct] /\ read'.rows = sheet.rows /\ read'.on \in BOOLEAN /\ read'.more \in BOOLEAN
      BY <1>0, <1>2, <2>3 DEF ReadFields, SavingsKnown
    <2> QED BY <1>0, <1>2, <2>1, <2>4 DEF SavingsKnown, SavingsInv, AccountTyped, FieldsKept, AccountHeard, Acct, InAccount, InSection
  <1>4. CASE AccountOpening
    <2>1. PICK l, amount :
            /\ amount \in Int /\ l.amount = amount /\ (bank \notin Bca => l.k = "opening")
            /\ AccountHeard(l, "opening", sheet.of, 
                IF bank = "BCA savings" THEN <<Row(Acct, 0, amount, 0)>>
                ELSE IF bank = "Maybank consol" THEN Append(sheet.rows, Row(CurrencyOf[Acct], 0, amount, amount)) ELSE sheet.rows,
                amount, amount, sheet.accounts)
      BY <1>0, <1>4, OpeningPrinted DEF SavingsKnown
    <2>2. SavingsOutcome(read, l, read') BY <1>0, <2>1, AccountReadBy DEF SavingsKnown
    <2>3. read.currency = CurrencyOf[Acct]
      <3>1. sheet.k = "currency" BY <1>0, <1>4 DEF AccountOpening, SavingsKnown
      <3> QED BY <3>1 DEF SavingsInv
    <2>4. AccountHeard(l, "opening", sheet.of, sheet.rows, amount, amount, sheet.accounts) /\ l.k = "opening"
      BY <1>0, <2>1 DEF SavingsKnown
    <2>5. /\ DOMAIN read' = ReadFields /\ read'.of = Acct /\ read'.done = FALSE /\ read'.accounts = sheet.accounts
          /\ read'.currency = CurrencyOf[Acct] /\ read'.rows = sheet.rows /\ read'.on = TRUE /\ read'.more \in BOOLEAN
          /\ read'.opening = amount /\ read'.saldo = amount
      BY <1>0, <1>2, <2>1, <2>2, <2>3, <2>4 DEF SavingsOutcome, SavingsKnown
    <2> QED BY <1>0, <1>2, <2>1, <2>4, <2>5 DEF SavingsKnown, SavingsInv, AccountTyped, FieldsKept, AccountHeard, Acct, InAccount, InSection
  <1> QED BY <1>3, <1>4

LEMMA SavingsInSection ==
  ASSUME SavingsInv, sheet.k \in InSection
  PROVE  /\ InAccount /\ read.of = Acct /\ read.done = FALSE /\ read.accounts = sheet.accounts /\ read.on = TRUE
         /\ read.opening = sheet.opening /\ read.saldo = sheet.saldo /\ read.currency = CurrencyOf[Acct]
  BY DEF SavingsInv, InSection

\* The lines of a table.
LEMMA SavingsRowKept ==
  ASSUME SavingsInv, AccountRow
  PROVE  SavingsInv'
  <1>0. SavingsKnown BY SavingsFacts
  <1>1. PICK l, date, amount :
         /\ date[2] \in {-1, 0} /\ amount \in Int /\ sheet.saldo + amount \in Int
         /\ l.k = "row" /\ YearOf(l.month) = date[2] /\ l.saldo = sheet.saldo + amount
         /\ l.amount = IF bank = "Permata savings" /\ amount < 0 THEN -amount ELSE amount
         /\ LET of == IF bank = "Maybank consol" THEN CurrencyOf[Acct] ELSE Acct
            IN AccountHeard(l, "row", sheet.of, Append(sheet.rows, Row(of, date[2], amount, sheet.saldo + amount)),
                 sheet.opening, sheet.saldo + amount, sheet.accounts)
    BY <1>0, RowPrintedWhere DEF SavingsKnown
  <1>2. SavingsOutcome(read, l, read') BY <1>0, <1>1, AccountReadBy DEF SavingsKnown
  <1> DEFINE saldo == sheet.saldo + amount
             rows == Append(sheet.rows, Row(Acct, date[2], amount, saldo))
  <1>3. rows \in Seq(Bookings(AccountOf)) /\ AllRead(rows) /\ rows # <<>>
    <2>1. Acct \in AccountOf BY <1>0, AcctNamed DEF SavingsKnown
    <2>2. sheet.rows \in Seq(Bookings(AccountOf)) /\ AllRead(sheet.rows) BY <1>0 DEF SavingsKnown
    <2> HIDE DEF saldo
    <2>3. saldo \in Int BY <1>1 DEF saldo
    <2>4. rows \in Seq(Bookings(AccountOf)) /\ AllRead(rows)
      BY ONLY <1>1, <2>1, <2>2, <2>3, RowAdded
    <2>5. Row(Acct, date[2], amount, saldo) \in Bookings(AccountOf)
      <3>1. TRUE \in BOOLEAN OBVIOUS
      <3> QED BY ONLY <1>1, <2>1, <2>3, <3>1, RowMade
    <2>6. rows # <<>> BY ONLY <2>2, <2>5, AppendProperties
    <2> QED BY <2>4, <2>6
  <1>4. sheet.k \in InSection BY <1>0 DEF AccountRow, InTable, SavingsInv, InSection
  <1>5. /\ InAccount /\ read.of = Acct /\ read.done = FALSE /\ read.accounts = sheet.accounts /\ read.on = TRUE
        /\ read.opening = sheet.opening /\ read.saldo = sheet.saldo /\ read.currency = CurrencyOf[Acct]
    BY <1>4, SavingsInSection
  <1>6. (IF l.saldo < read.saldo THEN -l.amount ELSE l.amount) = amount
    <2>1. l.amount = IF amount < 0 THEN -amount ELSE amount BY <1>0, <1>1 DEF SavingsKnown
    <2>2. sheet.saldo \in Int /\ amount \in Int BY <1>0, <1>1 DEF SavingsKnown
    <2>3. l.saldo = sheet.saldo + amount /\ read.saldo = sheet.saldo BY <1>1, <1>5
    <2> QED BY ONLY <2>1, <2>2, <2>3
  <1>7. /\ read'.rows = rows /\ read'.of = Acct /\ read'.saldo = saldo /\ read'.accounts = sheet.accounts /\ DOMAIN read' = ReadFields
        /\ read'.done = FALSE /\ read'.on = TRUE /\ read'.more = TRUE /\ read'.opening = sheet.opening /\ read'.currency = CurrencyOf[Acct]
    <2>1. read'.rows = Append(read.rows, Row(read.of, YearOf(l.month), IF l.saldo < read.saldo THEN -l.amount ELSE l.amount, l.saldo))
      BY <1>1, <1>2, <1>5 DEF SavingsOutcome
    <2>2. read'.rows = rows BY <1>0, <1>1, <1>5, <1>6, <2>1 DEF SavingsKnown
    <2> QED BY <1>1, <1>2, <1>5, <2>2 DEF SavingsOutcome
  <1>8. AccountHeard(l, "row", sheet.of, rows, sheet.opening, saldo, sheet.accounts)
    BY <1>0, <1>1 DEF SavingsKnown
  <1> HIDE DEF rows
  <1> QED BY <1>0, <1>1, <1>3, <1>5, <1>7, <1>8
       DEF SavingsKnown, SavingsInv, AccountTyped, FieldsKept, AccountHeard, Acct, InAccount, InSection

LEMMA SavingsWrapsKept ==
  ASSUME SavingsInv, AccountWraps
  PROVE  SavingsInv'
  <1>0. SavingsKnown BY SavingsFacts
  <1>1. sheet.k \in {"row", "text"} BY <1>0 DEF AccountWraps, SavingsInv, InSection
  <1>2. PICK l : /\ l.k = "text"
                 /\ AccountHeard(l, IF sheet.k = "effective" THEN "effective" ELSE "text",
                     sheet.of, Wrapped(sheet.rows), sheet.opening, sheet.saldo, sheet.accounts)
    BY <1>0, WrapsPrinted DEF SavingsKnown
  <1>3. SavingsOutcome(read, l, read') BY <1>0, <1>2, AccountReadBy DEF SavingsKnown
  <1> DEFINE rows == Wrapped(sheet.rows)
  <1>4. sheet.k \in InSection /\ read.more = TRUE /\ sheet.rows # <<>>
    BY <1>1 DEF SavingsInv, InSection
  <1>5. /\ InAccount /\ read.of = Acct /\ read.done = FALSE /\ read.accounts = sheet.accounts /\ read.on = TRUE
        /\ read.opening = sheet.opening /\ read.saldo = sheet.saldo /\ read.currency = CurrencyOf[Acct]
    BY <1>4, SavingsInSection
  <1>6. rows \in Seq(Bookings(AccountOf)) /\ AllRead(rows) /\ rows # <<>>
    <2>1. /\ rows \in Seq(Bookings(AccountOf)) /\ Len(rows) = Len(sheet.rows) /\ rows # <<>>
          /\ \A i \in 1 .. Len(sheet.rows) : rows[i].whole = sheet.rows[i].whole
      BY <1>0, <1>4, WrappedRows DEF SavingsKnown
    <2>2. \A i \in 1 .. Len(sheet.rows) : sheet.rows[i].whole = TRUE
      BY <1>0 DEF SavingsKnown, AllRead
    <2> HIDE DEF rows
    <2> QED BY <2>1, <2>2 DEF AllRead
  <1>7. read' = [read EXCEPT !.rows = rows]
    BY <1>0, <1>2, <1>3, <1>4, <1>5 DEF SavingsOutcome, SavingsKnown
  <1> HIDE DEF rows
  <1>8. /\ DOMAIN read' = ReadFields /\ read'.rows = rows /\ read'.of = Acct /\ read'.done = FALSE /\ read'.accounts = sheet.accounts
        /\ read'.on = TRUE /\ read'.opening = sheet.opening /\ read'.saldo = sheet.saldo /\ read'.currency = CurrencyOf[Acct]
        /\ read'.more = TRUE
    BY <1>0, <1>4, <1>5, <1>7 DEF ReadFields, SavingsKnown
  <1>9. AccountHeard(l, "text", sheet.of, rows, sheet.opening, sheet.saldo, sheet.accounts)
    BY <1>1, <1>2 DEF rows
  <1> QED BY <1>0, <1>5, <1>6, <1>8, <1>9 DEF SavingsKnown, SavingsInv, AccountTyped, FieldsKept, AccountHeard, Acct, InAccount, InSection

\* What is printed between the rows of a section.
LEMMA SavingsBetweenKept ==
  ASSUME SavingsInv, AccountStray \/ AccountPage \/ AccountTable
  PROVE  SavingsInv'
  <1>0. SavingsKnown BY SavingsFacts
  <1>1. sheet.k \in InSection
    BY <1>0 DEF AccountStray, AccountPage, AccountTable, InTable, SavingsInv, InSection
  <1>2. /\ InAccount /\ read.of = Acct /\ read.done = FALSE /\ read.accounts = sheet.accounts /\ read.on = TRUE
        /\ read.opening = sheet.opening /\ read.saldo = sheet.saldo /\ read.currency = CurrencyOf[Acct]
    BY <1>1, SavingsInSection
  <1>3. PICK k : /\ \E l : AccountHeard(l, k, sheet.of, sheet.rows, sheet.opening, sheet.saldo, sheet.accounts)
                 /\ read' \in {read, [read EXCEPT !.on = TRUE]} /\ k \in {"stray", "paged", "table"}
    <2>1. CASE AccountStray
      <3>1. PICK l : /\ bank \notin Bca => l.k = "stray"
                     /\ AccountHeard(l, "stray", sheet.of, sheet.rows, sheet.opening, sheet.saldo, sheet.accounts)
        BY <1>0, <2>1, StrayPrinted DEF SavingsKnown
      <3>2. SavingsOutcome(read, l, read') BY <1>0, <3>1, AccountReadBy DEF SavingsKnown
      <3>3. read' = read BY <1>0, <3>1, <3>2 DEF SavingsOutcome, SavingsKnown
      <3> QED BY <3>1, <3>3
    <2>2. CASE AccountPage
      <3>1. PICK l : /\ l.k \in {"account", "page"} /\ (l.k = "account" => l.of = Acct)
                     /\ AccountHeard(l, IF bank = "Permata savings" THEN "paged" ELSE "stray",
                          sheet.of, sheet.rows, sheet.opening, sheet.saldo, sheet.accounts)
        BY <1>0, <2>2, PagePrinted DEF SavingsKnown
      <3>2. SavingsOutcome(read, l, read') BY <1>0, <3>1, AccountReadBy DEF SavingsKnown
      <3>3. read' = read BY <1>2, <3>1, <3>2 DEF SavingsOutcome
      <3>4. AccountHeard(l, "paged", sheet.of, sheet.rows, sheet.opening, sheet.saldo, sheet.accounts)
        BY <1>0, <3>1 DEF SavingsKnown
      <3> QED BY <3>3, <3>4
    <2>3. CASE AccountTable
      <3>1. PICK l : l.k = "table" /\ AccountHeard(l, "table", sheet.of, sheet.rows, sheet.opening, sheet.saldo, sheet.accounts)
        BY <1>0, <2>3, TablePrinted DEF SavingsKnown
      <3>2. SavingsOutcome(read, l, read') BY <1>0, <3>1, AccountReadBy DEF SavingsKnown
      <3>3. read' = [read EXCEPT !.on = TRUE] BY <3>1, <3>2 DEF SavingsOutcome
      <3> QED BY <3>1, <3>3
    <2> QED BY <2>1, <2>2, <2>3
  <1>4. /\ DOMAIN read' = ReadFields /\ read'.rows = sheet.rows /\ read'.of = Acct /\ read'.done = FALSE /\ read'.accounts = sheet.accounts
        /\ read'.on = TRUE /\ read'.opening = sheet.opening /\ read'.saldo = sheet.saldo /\ read'.currency = CurrencyOf[Acct]
        /\ read'.more \in BOOLEAN
    BY <1>0, <1>2, <1>3 DEF ReadFields, SavingsKnown
  <1>5. PICK l : AccountHeard(l, k, sheet.of, sheet.rows, sheet.opening, sheet.saldo, sheet.accounts)
    BY <1>3
  <1> QED BY <1>0, <1>2, <1>3, <1>4, <1>5 DEF SavingsKnown, SavingsInv, AccountTyped, FieldsKept, AccountHeard, Acct, InAccount, InSection

LEMMA SavingsTotalKept ==
  ASSUME SavingsInv, AccountTotal
  PROVE  SavingsInv'
  <1>0. SavingsKnown BY SavingsFacts
  <1>1. sheet.k \in InSection BY <1>0 DEF AccountTotal, InTable, SavingsInv, InSection
  <1>2. /\ InAccount /\ read.of = Acct /\ read.done = FALSE /\ read.accounts = sheet.accounts /\ read.on = TRUE
        /\ read.opening = sheet.opening /\ read.saldo = sheet.saldo /\ read.currency = CurrencyOf[Acct]
    BY <1>1, SavingsInSection
  <1> DEFINE accounts == Append(sheet.accounts, SectionOf(sheet.of, sheet.opening, sheet.saldo))
  <1>3. PICK l : l.k = "total" /\ AccountHeard(l, "total", sheet.of, sheet.rows, sheet.opening, sheet.saldo, accounts)
    BY <1>0, TotalPrinted DEF SectionOf, Acct, SavingsKnown
  <1>4. SavingsOutcome(read, l, read') BY <1>0, <1>3, AccountReadBy DEF SavingsKnown
  <1>5. Numbered(accounts, sheet.of)
    <2> DEFINE n == sheet.of - 1
    <2>1. n \in Nat /\ n + 1 = sheet.of /\ n + 1 <= Len(Accts) BY <1>2 DEF InAccount
    <2>2. Numbered(sheet.accounts, n) BY <1>2 DEF InAccount
    <2>3. sheet.opening \in Int /\ sheet.saldo \in Int BY <1>0 DEF SavingsKnown
    <2> HIDE DEF n
    <2>4. Numbered(Append(sheet.accounts, SectionOf(n + 1, sheet.opening, sheet.saldo)), n + 1)
      BY <2>1, <2>2, <2>3, NumberedGrow
    <2> QED BY <2>1, <2>4
  <1>6. /\ DOMAIN read' = ReadFields /\ read'.rows = sheet.rows /\ read'.of = Acct /\ read'.done = TRUE /\ read'.accounts = sheet.accounts
        /\ read'.on = FALSE /\ read'.opening = sheet.opening /\ read'.saldo = sheet.saldo /\ read'.currency = CurrencyOf[Acct]
        /\ read'.more \in BOOLEAN
    BY <1>0, <1>2, <1>3, <1>4 DEF SavingsOutcome, SavingsKnown
  <1>7. Append(read'.accounts, Section(read')) = accounts BY <1>6 DEF Section, SectionOf, Acct
  <1>8. sheet.of # 0 BY <1>2 DEF InAccount
  <1> HIDE DEF accounts
  <1>9. AccountTyped' /\ AllRead(sheet'.rows) /\ sheet'.opening \in Int /\ sheet'.k = "total" /\ sheet'.of = sheet.of /\ sheet'.accounts = accounts
        /\ bank' = bank /\ sheet'.rows = sheet.rows
    BY <1>0, <1>3, <1>6 DEF SavingsKnown, AccountTyped, FieldsKept, AccountHeard
  <1>10. read'.of = Acct' BY <1>6, <1>9 DEF Acct
  <1> QED BY <1>0, <1>5, <1>6, <1>7, <1>8, <1>9, <1>10 DEF SavingsKnown, SavingsInv, InSection

LEMMA SavingsBondsKept ==
  ASSUME SavingsInv, AccountBonds
  PROVE  SavingsInv'
  <1>0. SavingsKnown BY SavingsFacts
  <1>1. sheet.k = "total" BY DEF AccountBonds
  <1>2. PICK l : l.k = "currency" /\ AccountHeard(l, "total", sheet.of, sheet.rows, sheet.opening, sheet.saldo, sheet.accounts)
    BY <1>0, BondsPrintedBelow DEF SavingsKnown
  <1>3. SavingsOutcome(read, l, read') BY <1>0, <1>2, AccountReadBy DEF SavingsKnown
  <1>4. read.done = TRUE BY <1>1 DEF SavingsInv
  <1>5. read' = read BY <1>2, <1>3, <1>4 DEF SavingsOutcome
  <1>6. Acct' = Acct /\ AccountTyped'
    BY <1>0, <1>2, <1>5 DEF SavingsKnown, AccountTyped, FieldsKept, AccountHeard, Acct
  <1> QED BY <1>0, <1>1, <1>2, <1>5, <1>6 DEF SavingsKnown, SavingsInv, AccountHeard, InSection

LEMMA SavingsClosesKept ==
  ASSUME SavingsInv, AccountCloses
  PROVE  SavingsInv'
  <1>0. SavingsKnown BY SavingsFacts
  <1>1. sheet.k = "total" BY <1>0 DEF AccountCloses, SavingsKnown
  <1>2. PICK l : l.k = "end" /\ AccountHeard(l, "closed", sheet.of, sheet.rows, sheet.opening, sheet.saldo, sheet.accounts)
    BY <1>0, ClosePrinted DEF SavingsKnown
  <1>3. SavingsOutcome(read, l, read') BY <1>0, <1>2, AccountReadBy DEF SavingsKnown
  <1>4. /\ read.of = Acct /\ sheet.of # 0 /\ Append(read.accounts, Section(read)) = sheet.accounts /\ Numbered(sheet.accounts, sheet.of)
    BY <1>1 DEF SavingsInv
  <1>5. Acct # Blank
    <2>1. sheet.of \in Nat \ {0} /\ sheet.of <= Len(Accts) BY <1>4 DEF Numbered
    <2> QED BY <2>1, AcctsApart DEF Acct
  <1>6. /\ DOMAIN read' = ReadFields /\ read'.rows = sheet.rows /\ read'.accounts = sheet.accounts
        /\ read'.on \in BOOLEAN /\ read'.more \in BOOLEAN /\ read'.done \in BOOLEAN
    BY <1>0, <1>2, <1>3, <1>4, <1>5 DEF SavingsOutcome, SavingsKnown
  <1> QED BY <1>0, <1>2, <1>4, <1>6 DEF SavingsKnown, SavingsInv, AccountTyped, FieldsKept, AccountHeard, InSection

LEMMA SavingsKept ==
  ASSUME SavingsInv, AccountStep
  PROVE  SavingsInv'
  <1>1. bank = "Permata savings" /\ sheet.k # "summary" BY DEF SavingsInv, InSection
  <1> QED BY <1>1, SavingsActions, SavingsNextKept, SavingsHeadingKept, SavingsRowKept, SavingsWrapsKept, SavingsBetweenKept,
       SavingsTotalKept, SavingsBondsKept, SavingsClosesKept

LEMMA SavingsAsPrinted ==
  ASSUME SavingsInv
  PROVE  AccountReadAsPrinted
  <1> SUFFICES ASSUME sheet.k = "closed" PROVE AccountReadAsPrinted
    BY DEF AccountReadAsPrinted
  <1>1. KeptAccounts(read.accounts) = sheet.accounts BY AllKept DEF SavingsInv, Numbered
  <1>2. WholeRows(read.rows) = sheet.rows BY AllReadWhole DEF SavingsInv, AccountTyped
  <1> QED BY <1>1, <1>2 DEF AccountReadAsPrinted, SavingsInv, Bca

(* Sequences of rows that differ in their last row only. *)
Ending(rows, row) == [rows EXCEPT ![Len(rows)] = row]

LEMMA EndingIs ==
  ASSUME NEW R, NEW rows \in Seq(R), rows # <<>>, NEW row \in R
  PROVE  /\ Ending(rows, row) \in Seq(R) /\ Ending(rows, row) # <<>> /\ Len(Ending(rows, row)) = Len(rows)
         /\ Ending(rows, row)[Len(rows)] = row
         /\ \A i \in 1 .. (Len(rows) - 1) : Ending(rows, row)[i] = rows[i]
  BY LastChanged DEF Ending

LEMMA SameUpToLast ==
  ASSUME NEW R, NEW a \in Seq(R), NEW b \in Seq(R), Len(a) = Len(b), a # <<>>, a[Len(a)] = b[Len(a)],
         \A i \in 1 .. (Len(a) - 1) : a[i] = b[i]
  PROVE  a = b
  <1>1. \A i \in 1 .. Len(a) : i = Len(a) \/ i \in 1 .. (Len(a) - 1) OBVIOUS
  <1> QED BY <1>1, SeqEqual

LEMMA EndingOver ==
  ASSUME NEW R, NEW rows \in Seq(R), rows # <<>>, NEW x \in R, NEW y \in R
  PROVE  Ending(Ending(rows, x), y) = Ending(rows, y)
  <1> DEFINE a == Ending(rows, x)
             b == Ending(a, y)
             c == Ending(rows, y)
  <1>1. a \in Seq(R) /\ a # <<>> /\ Len(a) = Len(rows) /\ \A i \in 1 .. (Len(rows) - 1) : a[i] = rows[i]
    BY EndingIs
  <1> HIDE DEF a
  <1>2. b \in Seq(R) /\ b # <<>> /\ Len(b) = Len(a) /\ b[Len(a)] = y /\ \A i \in 1 .. (Len(a) - 1) : b[i] = a[i]
    <2>1. a \in Seq(R) /\ a # <<>> /\ y \in R BY <1>1
    <2> QED BY <2>1, EndingIs
  <1>3. c \in Seq(R) /\ Len(c) = Len(rows) /\ c[Len(rows)] = y /\ \A i \in 1 .. (Len(rows) - 1) : c[i] = rows[i]
    BY EndingIs
  <1> HIDE DEF b, c
  <1>4. b = c BY <1>1, <1>2, <1>3, SameUpToLast
  <1> QED BY <1>4 DEF a, b, c

LEMMA EndingAdded ==
  ASSUME NEW R, NEW rows \in Seq(R), NEW x \in R, NEW y \in R
  PROVE  Ending(Append(rows, x), y) = Append(rows, y)
  <1> DEFINE a == Append(rows, x)
             b == Ending(a, y)
             c == Append(rows, y)
  <1>1. a \in Seq(R) /\ a # <<>> /\ Len(a) = Len(rows) + 1 /\ Len(rows) \in Nat /\ \A i \in 1 .. Len(rows) : a[i] = rows[i]
    BY RowsGrow
  <1>2. c \in Seq(R) /\ Len(c) = Len(rows) + 1 /\ c[Len(c)] = y /\ \A i \in 1 .. Len(rows) : c[i] = rows[i]
    BY RowsGrow
  <1> HIDE DEF a, c
  <1>3. b \in Seq(R) /\ b # <<>> /\ Len(b) = Len(a) /\ b[Len(a)] = y /\ \A i \in 1 .. (Len(a) - 1) : b[i] = a[i]
    <2>1. a \in Seq(R) /\ a # <<>> /\ y \in R BY <1>1
    <2> QED BY <2>1, EndingIs
  <1> HIDE DEF b
  <1>4. Len(a) - 1 = Len(rows) BY <1>1
  <1>5. b = c BY <1>1, <1>2, <1>3, <1>4, SameUpToLast
  <1> QED BY <1>5 DEF a, b, c

LEMMA LastRowEnds ==
  ASSUME NEW rows, NEW field, NEW value, NEW R, rows \in Seq(R), rows # <<>>
  PROVE  LastRow(rows, field, value) = Ending(rows, [rows[Len(rows)] EXCEPT ![field] = value])
  BY DEF LastRow, Ending

LEMMA WrappedEnds ==
  ASSUME NEW rows, NEW R, rows \in Seq(R), rows # <<>>
  PROVE  Wrapped(rows) = Ending(rows, [rows[Len(rows)] EXCEPT !.lines = @ + 1])
  BY DEF Wrapped, Ending

(* BCA. A wrapped row has no amount before the line that ends in it. *)
(* So what is read is what is printed (AsRead) but for that amount; the row*)
(* is still open (read.more) as long as the bank may print the line. *)
Unfinished(row) == [row EXCEPT !["amount"] = 0]
AsRead(rows) == IF rows # <<>> /\ rows[Len(rows)].whole = FALSE THEN LastRow(rows, "amount", 0) ELSE rows

LEMMA SameBooking ==
  ASSUME NEW S, NEW a \in Bookings(S), NEW b \in Bookings(S), a.of = b.of, a.year = b.year, a.amount = b.amount, a.saldo = b.saldo,
         a.lines = b.lines, a.fx = b.fx, a.whole = b.whole
  PROVE  a = b
  BY DEF Bookings

LEMMA UnfinishedRow ==
  ASSUME NEW S, NEW row \in Bookings(S)
  PROVE  /\ row.whole \in BOOLEAN
         /\ Unfinished(row) \in Bookings(S) /\ Unfinished(row).amount = 0
         /\ Unfinished(row).of = row.of /\ Unfinished(row).year = row.year /\ Unfinished(row).saldo = row.saldo
         /\ Unfinished(row).lines = row.lines /\ Unfinished(row).fx = row.fx /\ Unfinished(row).whole = row.whole
  <1>1. row.whole \in BOOLEAN BY DEF Bookings
  <1>2. DOMAIN row = {"of", "year", "amount", "saldo", "lines", "fx", "whole"} BY DEF Bookings
  <1>3. /\ Unfinished(row).amount = 0
        /\ Unfinished(row).of = row.of /\ Unfinished(row).year = row.year /\ Unfinished(row).saldo = row.saldo
        /\ Unfinished(row).lines = row.lines /\ Unfinished(row).fx = row.fx /\ Unfinished(row).whole = row.whole
    BY <1>2 DEF Unfinished
  <1>4. Unfinished(row) \in Bookings(S)
    <2>1. 0 \in Int OBVIOUS
    <2> QED BY <2>1 DEF Unfinished, Bookings
  <1> QED BY <1>1, <1>3, <1>4

LEMMA LongerRow ==
  ASSUME NEW S, NEW row \in Bookings(S), NEW new, new = [row EXCEPT !.lines = @ + 1]
  PROVE  /\ new \in Bookings(S) /\ new.lines = row.lines + 1
         /\ new.of = row.of /\ new.year = row.year /\ new.amount = row.amount /\ new.saldo = row.saldo
         /\ new.fx = row.fx /\ new.whole = row.whole
  BY DEF Bookings

LEMMA AsReadRows ==
  ASSUME NEW S, NEW rows \in Seq(Bookings(S)), rows # <<>>
  PROVE  /\ rows[Len(rows)] \in Bookings(S) /\ Unfinished(rows[Len(rows)]) \in Bookings(S)
         /\ LastRow(rows, "amount", 0) = Ending(rows, Unfinished(rows[Len(rows)]))
         /\ LastRow(rows, "amount", 0) \in Seq(Bookings(S)) /\ LastRow(rows, "amount", 0) # <<>>
         /\ Len(LastRow(rows, "amount", 0)) = Len(rows)
         /\ LastRow(rows, "amount", 0)[Len(rows)] = Unfinished(rows[Len(rows)])
  <1> DEFINE final == rows[Len(rows)]
  <1>1. final \in Bookings(S) OBVIOUS
  <1>2. Unfinished(final) \in Bookings(S)
    <2> HIDE DEF final
    <2> QED BY <1>1, UnfinishedRow
  <1>3. LastRow(rows, "amount", 0) = Ending(rows, Unfinished(final)) BY LastRowEnds DEF Unfinished
  <1> HIDE DEF final
  <1>4. /\ Ending(rows, Unfinished(final)) \in Seq(Bookings(S)) /\ Ending(rows, Unfinished(final)) # <<>>
        /\ Len(Ending(rows, Unfinished(final))) = Len(rows) /\ Ending(rows, Unfinished(final))[Len(rows)] = Unfinished(final)
    BY <1>2, EndingIs
  <1> QED BY <1>1, <1>2, <1>3, <1>4 DEF final

\* A wrapped row is read without its amount.
LEMMA AsReadAdded ==
  ASSUME NEW S, NEW rows \in Seq(Bookings(S)), NEW of \in S, NEW amount \in Int, NEW whole \in BOOLEAN
  PROVE  /\ AsRead(Append(rows, RowPrinted(of, 0, amount, 0, whole))) = Append(rows, RowPrinted(of, 0, IF whole THEN amount ELSE 0, 0, whole))
         /\ Append(rows, RowPrinted(of, 0, amount, 0, whole)) \in Seq(Bookings(S))
         /\ Append(rows, RowPrinted(of, 0, amount, 0, whole)) # <<>>
  <1> DEFINE x == RowPrinted(of, 0, amount, 0, whole)
             y == RowPrinted(of, 0, 0, 0, whole)
             new == Append(rows, x)
  <1>1. x \in Bookings(S) /\ y \in Bookings(S) /\ x.whole = whole
    <2>1. 0 \in {-1, 0} /\ 0 \in Int OBVIOUS
    <2> QED BY <2>1, RowMade, RowPrintedWhole
  <1>2. Unfinished(x) = y
    <2>1. /\ x.of = of /\ x.year = 0 /\ x.saldo = 0 /\ x.lines = 1 /\ x.fx = FALSE /\ x.whole = whole
      BY DEF RowPrinted, Row
    <2>2. /\ y.of = of /\ y.year = 0 /\ y.amount = 0 /\ y.saldo = 0 /\ y.lines = 1 /\ y.fx = FALSE /\ y.whole = whole
      BY DEF RowPrinted, Row
    <2> HIDE DEF x, y
    <2> DEFINE u == Unfinished(x)
    <2>3. /\ u \in Bookings(S) /\ u.of = x.of /\ u.year = x.year /\ u.amount = 0 /\ u.saldo = x.saldo
          /\ u.lines = x.lines /\ u.fx = x.fx /\ u.whole = x.whole
      BY <1>1, UnfinishedRow
    <2> HIDE DEF u
    <2>4. u = y BY <1>1, <2>1, <2>2, <2>3, SameBooking
    <2> QED BY <2>4 DEF u
  <1> HIDE DEF x, y
  <1>3. new \in Seq(Bookings(S)) /\ new # <<>> /\ new[Len(new)] = x BY <1>1, RowsGrow
  <1> HIDE DEF new
  <1>4. CASE whole = TRUE
    <2>1. AsRead(new) = new BY <1>1, <1>3, <1>4 DEF AsRead
    <2>2. RowPrinted(of, 0, IF whole THEN amount ELSE 0, 0, whole) = x BY <1>4 DEF x
    <2> QED BY <1>3, <2>1, <2>2 DEF new, x
  <1>5. CASE whole = FALSE
    <2>1. AsRead(new) = LastRow(new, "amount", 0) BY <1>1, <1>3, <1>5 DEF AsRead
    <2>2. LastRow(new, "amount", 0) = Ending(new, y) BY <1>2, <1>3, AsReadRows
    <2>3. Ending(new, y) = Append(rows, y) BY <1>1, EndingAdded DEF new
    <2>4. RowPrinted(of, 0, IF whole THEN amount ELSE 0, 0, whole) = y BY <1>5 DEF y
    <2> QED BY <1>3, <2>1, <2>2, <2>3, <2>4 DEF new, x
  <1> QED BY <1>4, <1>5

LEMMA AsReadWrapped ==
  ASSUME NEW S, NEW rows \in Seq(Bookings(S)), rows # <<>>
  PROVE  Wrapped(AsRead(rows)) = AsRead(Wrapped(rows))
  <1> DEFINE final == rows[Len(rows)]
             lastWide == [final EXCEPT !.lines = @ + 1]
             bare == Unfinished(final)
             bareWide == [bare EXCEPT !.lines = @ + 1]
             wide == Wrapped(rows)
             left == LastRow(rows, "amount", 0)
  <1>1. final \in Bookings(S) /\ bare \in Bookings(S) /\ left = Ending(rows, bare) /\ left \in Seq(Bookings(S)) /\ left # <<>> /\ Len(left) = Len(rows) /\ left[Len(rows)] = bare
    BY AsReadRows
  <1>2. lastWide \in Bookings(S) /\ lastWide.whole = final.whole /\ bareWide \in Bookings(S) /\ Unfinished(lastWide) = bareWide
    <2>1. lastWide = [final EXCEPT !.lines = @ + 1] /\ bareWide = [bare EXCEPT !.lines = @ + 1] /\ bare = Unfinished(final)
      OBVIOUS
    <2> HIDE DEF final, lastWide, bare, bareWide, left, wide
    <2>2. lastWide \in Bookings(S) /\ bareWide \in Bookings(S) /\ lastWide.whole = final.whole
      BY <1>1, <2>1, LongerRow
    <2>3. Unfinished(lastWide) \in Bookings(S) BY <2>2, UnfinishedRow
    <2>4. /\ lastWide.of = final.of /\ lastWide.year = final.year /\ lastWide.saldo = final.saldo
          /\ lastWide.lines = final.lines + 1 /\ lastWide.fx = final.fx
      BY <1>1, <2>1, LongerRow
    <2>5. /\ bareWide.of = bare.of /\ bareWide.year = bare.year /\ bareWide.amount = bare.amount /\ bareWide.saldo = bare.saldo
          /\ bareWide.lines = bare.lines + 1 /\ bareWide.fx = bare.fx /\ bareWide.whole = bare.whole
      BY <1>1, <2>1, LongerRow
    <2>6. /\ bare.of = final.of /\ bare.year = final.year /\ bare.amount = 0 /\ bare.saldo = final.saldo
          /\ bare.lines = final.lines /\ bare.fx = final.fx /\ bare.whole = final.whole
      BY <1>1, <2>1, UnfinishedRow
    <2> DEFINE u == Unfinished(lastWide)
    <2>7. /\ u.of = lastWide.of /\ u.year = lastWide.year /\ u.amount = 0 /\ u.saldo = lastWide.saldo
          /\ u.lines = lastWide.lines /\ u.fx = lastWide.fx /\ u.whole = lastWide.whole
      BY <2>2, UnfinishedRow
    <2> HIDE DEF u
    <2>8. u = bareWide BY <2>2, <2>3, <2>4, <2>5, <2>6, <2>7, SameBooking DEF u
    <2> QED BY <2>2, <2>8 DEF u
  <1>3. wide = Ending(rows, lastWide) BY WrappedEnds
  <1>4. final.whole \in BOOLEAN
    <2> HIDE DEF final
    <2> QED BY <1>1 DEF Bookings
  <1> HIDE DEF final, lastWide, bare, bareWide, left, wide
  <1>5. wide \in Seq(Bookings(S)) /\ wide # <<>> /\ Len(wide) = Len(rows) /\ wide[Len(rows)] = lastWide
    BY <1>2, <1>3, EndingIs
  <1>6. CASE final.whole = TRUE
    <2>1. AsRead(rows) = rows BY <1>6 DEF AsRead, final
    <2>2. AsRead(wide) = wide BY <1>2, <1>5, <1>6 DEF AsRead
    <2> QED BY <2>1, <2>2 DEF wide
  <1>7. CASE final.whole = FALSE
    <2>1. AsRead(rows) = left BY <1>7 DEF AsRead, final, left
    <2>2. AsRead(wide) = LastRow(wide, "amount", 0) BY <1>2, <1>5, <1>7 DEF AsRead
    <2>3. LastRow(wide, "amount", 0) = Ending(wide, bareWide) BY <1>2, <1>5, AsReadRows
    <2>4. Wrapped(left) = Ending(left, bareWide) BY <1>1, WrappedEnds DEF bareWide
    <2>5. Ending(left, bareWide) = Ending(rows, bareWide) /\ Ending(wide, bareWide) = Ending(rows, bareWide)
      BY <1>1, <1>2, <1>3, EndingOver
    <2> QED BY <2>1, <2>2, <2>3, <2>4, <2>5 DEF wide
  <1> QED BY <1>4, <1>6, <1>7

LEMMA AsReadFinished ==
  ASSUME NEW S, NEW rows \in Seq(Bookings(S)), rows # <<>>, rows[Len(rows)].whole = FALSE
  PROVE  /\ AsRead(rows)[Len(AsRead(rows))].whole = FALSE
         /\ LastRow(LastRow(AsRead(rows), "whole", TRUE), "amount", rows[Len(rows)].amount) = LastRow(rows, "whole", TRUE)
  <1> DEFINE final == rows[Len(rows)]
             amount == final.amount
             bare == Unfinished(final)
             marked == [bare EXCEPT !["whole"] = TRUE]
             whole == [marked EXCEPT !["amount"] = amount]
             left == LastRow(rows, "amount", 0)
             next == LastRow(left, "whole", TRUE)
  <1>1. final \in Bookings(S) /\ bare \in Bookings(S) /\ left = Ending(rows, bare) /\ left \in Seq(Bookings(S)) /\ left # <<>> /\ Len(left) = Len(rows) /\ left[Len(rows)] = bare
    BY AsReadRows
  <1>2. /\ bare.whole = FALSE /\ marked \in Bookings(S) /\ whole \in Bookings(S) /\ amount \in Int
        /\ whole = [final EXCEPT !["whole"] = TRUE]
    <2>1. final.whole = FALSE OBVIOUS
    <2> HIDE DEF final
    <2> QED BY <1>1, <2>1 DEF Bookings, Unfinished
  <1>3. AsRead(rows) = left BY DEF AsRead
  <1>0. final = rows[Len(rows)] /\ amount = rows[Len(rows)].amount OBVIOUS
  <1> HIDE DEF final, amount, bare, left
  <1>4. next = Ending(left, marked) BY <1>1, LastRowEnds
  <1> HIDE DEF marked, next
  <1>5. Ending(left, marked) = Ending(rows, marked) BY <1>1, <1>2, EndingOver
  <1>6. next \in Seq(Bookings(S)) /\ next # <<>> /\ Len(next) = Len(rows) /\ next[Len(rows)] = marked
    <2>1. /\ Ending(rows, marked) \in Seq(Bookings(S)) /\ Ending(rows, marked) # <<>> /\ Len(Ending(rows, marked)) = Len(rows)
          /\ Ending(rows, marked)[Len(rows)] = marked
      BY <1>2, EndingIs
    <2> QED BY <1>4, <1>5, <2>1
  <1>7. LastRow(next, "amount", amount) = Ending(next, whole) BY <1>6, LastRowEnds
  <1> HIDE DEF whole
  <1>8. Ending(next, whole) = Ending(rows, whole) BY <1>2, <1>4, <1>5, EndingOver
  <1>9. LastRow(rows, "whole", TRUE) = Ending(rows, whole) BY <1>0, <1>2, LastRowEnds
  <1> QED BY <1>0, <1>1, <1>2, <1>3, <1>7, <1>8, <1>9 DEF next

InRow == {"row", "text", "effective"}
BcaInv ==
  /\ bank \in Bca /\ FieldsKept /\ sheet.of = 1 /\ sheet.saldo \in Int /\ sheet.rows \in Seq(Bookings(AccountOf))
  /\ sheet.k \in {"start", "opening", "rest", "stray", "summary", "total", "closed"} \cup InRow
  /\ read.more \in BOOLEAN /\ read.dated \in BOOLEAN /\ read.of = Acct
  /\ \A i \in 1 .. Len(sheet.rows) : sheet.rows[i].whole = TRUE \/ (i = Len(sheet.rows) /\ sheet.k \in InRow)
  /\ read.rows = AsRead(sheet.rows)
  /\ sheet.k = "start" => sheet.rows = <<>>
  /\ sheet.k \in InRow => read.more = TRUE /\ sheet.rows # <<>>
  /\ sheet.k \in {"row", "text"} => read.dated = FALSE
  /\ sheet.k \in {"summary", "total", "closed"} => read.opening = sheet.opening
  /\ sheet.k \in {"total", "closed"} => read.closing = sheet.saldo

BcaKnown ==
  /\ bank \in Bca /\ DOMAIN sheet = SheetFields /\ DOMAIN read = ReadFields /\ sheet.of = 1 /\ sheet.saldo \in Int
  /\ sheet.rows \in Seq(Bookings(AccountOf)) /\ read.more \in BOOLEAN /\ read.dated \in BOOLEAN /\ read.of = Acct
  /\ read.rows = AsRead(sheet.rows)

LEMMA BcaFacts ==
  ASSUME BcaInv
  PROVE  BcaKnown
  BY DEF BcaInv, FieldsKept, BcaKnown

LEMMA BcaActions ==
  ASSUME bank \in Bca, AccountStep, sheet.k # "paged"
  PROVE  \/ AccountOpening \/ AccountRow \/ AccountWraps \/ AccountEffective \/ AccountRest \/ AccountBlank
         \/ AccountStray \/ AccountPage \/ AccountSummary \/ AccountCloses
  BY DEF AccountStep, AccountNext, AccountCurrency, AccountDate, AccountWords, AccountTable, AccountTotal, AccountBonds, AccountMonth,
         Bca, Sectioned

\* Between rows the rows read are those printed.
LEMMA BcaBetween ==
  ASSUME BcaInv, RowWhole
  PROVE  /\ \A i \in 1 .. Len(sheet.rows) : sheet.rows[i].whole = TRUE
         /\ AsRead(sheet.rows) = sheet.rows
  <1>0. sheet.rows \in Seq(Bookings(AccountOf)) BY DEF BcaInv
  <1>1. sheet.rows # <<>> => Len(sheet.rows) \in 1 .. Len(sheet.rows) /\ sheet.rows[Len(sheet.rows)].whole \in BOOLEAN
    <2> SUFFICES ASSUME sheet.rows # <<>> PROVE Len(sheet.rows) \in 1 .. Len(sheet.rows) /\ sheet.rows[Len(sheet.rows)].whole \in BOOLEAN
      OBVIOUS
    <2>1. Len(sheet.rows) \in 1 .. Len(sheet.rows) BY <1>0, LastRowInside
    <2>2. sheet.rows[Len(sheet.rows)] \in Bookings(AccountOf) BY <1>0, <2>1
    <2> QED BY <2>1, <2>2, UnfinishedRow
  <1>2. sheet.rows # <<>> => sheet.rows[Len(sheet.rows)].whole = TRUE BY <1>1 DEF RowWhole
  <1>3. AsRead(sheet.rows) = sheet.rows BY <1>2 DEF AsRead
  <1>4. \A i \in 1 .. Len(sheet.rows) : sheet.rows # <<>> BY <1>0
  <1>5. \A i \in 1 .. Len(sheet.rows) : sheet.rows[i].whole = TRUE \/ i = Len(sheet.rows)
    BY DEF BcaInv
  <1> QED BY <1>2, <1>3, <1>4, <1>5

LEMMA BcaReadBy ==
  ASSUME BcaKnown, NEW l, NEW k, NEW of, NEW rows, NEW opening, NEW saldo, NEW accounts, AccountHeard(l, k, of, rows, opening, saldo, accounts)
  PROVE  BcaOutcome(read, l, read')
  BY AccountReadBy DEF BcaKnown

\* A line that is no row and wraps none.
LEMMA BcaLinePassed ==
  ASSUME BcaInv, InTable \/ sheet.k \in {"summary", "total"}, NEW l, NEW k \in {"stray", "summary", "total", "closed"},
         AccountHeard(l, k, sheet.of, sheet.rows, sheet.opening, sheet.saldo, sheet.accounts),
         (l.k = "row" /\ l.month # StatementMonth) \/ l.k \in {"stray", "page", "opening", "closing", "end"},
         k \in {"total", "closed"} => sheet.k \in {"summary", "total"},
         l.k = "opening" => l.amount = sheet.opening, k = "summary" => l.k = "opening",
         l.k = "closing" => l.amount = sheet.saldo, k = "total" => l.k = "closing", k = "closed" => l.k = "end" /\ sheet.k = "total"
  PROVE  BcaInv'
  <1>0. BcaKnown BY BcaFacts
  <1>1. /\ \A i \in 1 .. Len(sheet.rows) : sheet.rows[i].whole = TRUE
        /\ AsRead(sheet.rows) = sheet.rows
    <2>1. CASE InTable BY <2>1, BcaBetween DEF InTable
    <2>2. CASE sheet.k \in {"summary", "total"}
      <3>1. \A i \in 1 .. Len(sheet.rows) : sheet.rows[i].whole = TRUE BY <2>2 DEF BcaInv, InRow
      <3>2. RowWhole
        <4>1. sheet.rows # <<>> => Len(sheet.rows) \in 1 .. Len(sheet.rows)
          BY <1>0, LastRowInside DEF BcaKnown
        <4> QED BY <3>1, <4>1 DEF RowWhole
      <3> QED BY <3>1, <3>2, BcaBetween
    <2> QED BY <2>1, <2>2
  <1>2. BcaOutcome(read, l, read') BY <1>0, BcaReadBy
  <1>3. /\ DOMAIN read' = ReadFields /\ read'.more \in BOOLEAN /\ read'.dated \in BOOLEAN /\ read'.of = Acct
        /\ read'.rows = sheet.rows
        /\ read'.opening = IF l.k = "opening" THEN l.amount ELSE read.opening
        /\ read'.closing = IF l.k = "closing" THEN l.amount ELSE read.closing
    BY <1>0, <1>1, <1>2 DEF BcaOutcome, BcaKnown
  <1>4. /\ bank' = bank /\ DOMAIN sheet' = SheetFields /\ sheet'.of = sheet.of /\ sheet'.rows = sheet.rows /\ sheet'.opening = sheet.opening
        /\ sheet'.saldo = sheet.saldo /\ sheet'.k = k /\ Acct' = Acct
    BY DEF AccountHeard, Acct
  <1>5. k \in {"summary", "total", "closed"} => read'.opening = sheet.opening BY <1>3 DEF BcaInv
  <1>6. k \in {"total", "closed"} => read'.closing = sheet.saldo BY <1>3 DEF BcaInv
  <1>7. FieldsKept' BY <1>3, <1>4 DEF FieldsKept
  <1>8. read'.rows = AsRead(sheet'.rows) BY <1>1, <1>3, <1>4
  <1>9. \A i \in 1 .. Len(sheet'.rows) : sheet'.rows[i].whole = TRUE BY <1>1, <1>4
  <1> QED BY <1>0, <1>3, <1>4, <1>5, <1>6, <1>7, <1>8, <1>9 DEF BcaInv, BcaKnown, InRow

LEMMA BcaPassing ==
  ASSUME BcaInv, AccountStray \/ AccountPage \/ AccountSummary \/ AccountCloses
  PROVE  BcaInv'
  <1>0. BcaKnown BY BcaFacts
  <1>b. DOMAIN sheet = SheetFields /\ bank \in Bca BY <1>0 DEF BcaKnown
  <1>1. CASE AccountStray
    <2>1. PICK l : /\ l.k \in {"stray", "row"} /\ l.month = StatementMonth + 1
                   /\ AccountHeard(l, "stray", sheet.of, sheet.rows, sheet.opening, sheet.saldo, sheet.accounts)
      BY <1>b, <1>1, StrayPrinted
    <2>2. l.month # StatementMonth BY <2>1, ReadingAssumption
    <2>3. InTable BY <1>1 DEF AccountStray
    <2> QED BY <2>1, <2>2, <2>3, BcaLinePassed
  <1>2. CASE AccountPage
    <2>1. PICK l : /\ bank \notin {"Permata savings", "CIMB consol"} => l.k = "page"
                   /\ AccountHeard(l, IF bank = "Permata savings" THEN "paged" ELSE "stray",
                            sheet.of, sheet.rows, sheet.opening, sheet.saldo, sheet.accounts)
      BY <1>b, <1>2, PagePrinted
    <2>2. l.k = "page" BY <1>b, <2>1 DEF Bca
    <2>3. AccountHeard(l, "stray", sheet.of, sheet.rows, sheet.opening, sheet.saldo, sheet.accounts)
      BY <1>b, <2>1 DEF Bca
    <2>4. InTable BY <1>2 DEF AccountPage
    <2> QED BY <2>2, <2>3, <2>4, BcaLinePassed
  <1>3. CASE AccountSummary
    <2>1. PICK l, k :
           /\ \/ l.k = "opening" /\ l.amount = sheet.opening /\ k = "summary" /\ bank \in Bca /\ InTable
              \/ l.k = "closing" /\ l.amount = sheet.saldo /\ k = "total" /\ sheet.k = "summary"
           /\ AccountHeard(l, k, sheet.of, sheet.rows, sheet.opening, sheet.saldo, sheet.accounts)
      BY <1>b, <1>3, SummaryPrinted
    <2> QED BY <2>1, BcaLinePassed
  <1>4. CASE AccountCloses
    <2>1. PICK l : l.k = "end" /\ AccountHeard(l, "closed", sheet.of, sheet.rows, sheet.opening, sheet.saldo, sheet.accounts)
      BY <1>b, <1>4, ClosePrinted
    <2>2. sheet.k = "total" BY <1>b, <1>4 DEF AccountCloses, Bca
    <2> QED BY <2>1, <2>2, BcaLinePassed
  <1> QED BY <1>1, <1>2, <1>3, <1>4

LEMMA BcaOpeningKept ==
  ASSUME BcaInv, AccountOpening
  PROVE  BcaInv'
  <1>0. BcaKnown BY BcaFacts
  <1>b. DOMAIN sheet = SheetFields /\ bank \in Bca /\ sheet.of = 1 BY <1>0 DEF BcaKnown
  <1>1. sheet.k = "start" /\ sheet.rows = <<>> /\ AsRead(sheet.rows) = sheet.rows
    BY <1>b DEF AccountOpening, Bca, Sectioned, BcaInv, AsRead
  <1>2. PICK l, amount :
         /\ amount \in Int /\ l.amount = amount
         /\ bank \in Bca => l.k = "row" /\ l.of = "SALDO AWAL" /\ l.month = StatementMonth /\ l.whole = TRUE
         /\ AccountHeard(l, "opening", sheet.of,
              IF bank = "BCA savings" THEN <<Row(Acct, 0, amount, 0)>>
              ELSE IF bank = "Maybank consol" THEN Append(sheet.rows, Row(CurrencyOf[Acct], 0, amount, amount)) ELSE sheet.rows,
              amount, amount, sheet.accounts)
    BY <1>b, OpeningPrinted
  <1>3. BcaOutcome(read, l, read') BY <1>0, <1>2, BcaReadBy
  <1> DEFINE rows == IF bank = "BCA savings" THEN Append(<<>>, RowPrinted(Acct, 0, amount, 0, TRUE)) ELSE <<>>
  <1>4. <<Row(Acct, 0, amount, 0)>> = Append(<<>>, RowPrinted(Acct, 0, amount, 0, TRUE))
    <2>1. 0 \in {-1, 0} /\ 0 \in Int OBVIOUS
    <2>2. RowPrinted(Acct, 0, amount, 0, TRUE) = Row(Acct, 0, amount, 0)
      BY <1>2, <2>1, RowPrintedPlain
    <2>3. <<Row(Acct, 0, amount, 0)>> = Append(<<>>, Row(Acct, 0, amount, 0)) OBVIOUS
    <2> QED BY <2>2, <2>3
  <1>5. AccountHeard(l, "opening", sheet.of, rows, amount, amount, sheet.accounts) /\ l.k = "row" /\ l.of = "SALDO AWAL" /\ l.month = StatementMonth /\ l.whole = TRUE
    <2>1. rows = IF bank = "BCA savings" THEN <<Row(Acct, 0, amount, 0)>>
              ELSE IF bank = "Maybank consol" THEN Append(sheet.rows, Row(CurrencyOf[Acct], 0, amount, amount)) ELSE sheet.rows
      BY <1>1, <1>4, <1>b DEF Bca
    <2> HIDE DEF rows
    <2> QED BY <1>2, <1>b, <2>1
  <1>6. rows \in Seq(Bookings(AccountOf)) /\ AsRead(rows) = rows /\ \A i \in 1 .. Len(rows) : rows[i].whole = TRUE
    <2>1. CASE bank # "BCA savings"
      <3>1. rows = <<>> BY <2>1
      <3>2. <<>> \in Seq(Bookings(AccountOf)) /\ Len(<<>>) = 0 /\ 1 .. 0 = {} OBVIOUS
      <3> QED BY <3>1, <3>2 DEF AsRead
    <2>2. CASE bank = "BCA savings"
      <3> DEFINE row == RowPrinted(Acct, 0, amount, 0, TRUE)
      <3>1. rows = Append(<<>>, row) BY <2>2
      <3>2. sheet.of \in Nat BY <1>b
      <3>3. Acct \in AccountOf /\ TRUE \in BOOLEAN /\ 0 \in {-1, 0} /\ 0 \in Int BY <3>2, AcctNamed
      <3>4. row \in Bookings(AccountOf) /\ row.whole = TRUE
        <4>1. row = Row(Acct, 0, amount, 0) BY <1>2, <3>3, RowPrintedPlain
        <4>2. Row(Acct, 0, amount, 0) \in Bookings(AccountOf) BY <1>2, <3>3, RowMade
        <4>3. Row(Acct, 0, amount, 0).whole = TRUE BY RowWholePrinted
        <4> HIDE DEF row
        <4> QED BY <4>1, <4>2, <4>3
      <3> HIDE DEF row, rows
      <3>5. <<>> \in Seq(Bookings(AccountOf)) /\ Len(<<>>) = 0 OBVIOUS
      <3>6. /\ rows \in Seq(Bookings(AccountOf)) /\ Len(rows) = 1 /\ rows[Len(rows)] = row
        <4>1. Append(<<>>, row) \in Seq(Bookings(AccountOf)) /\ Len(Append(<<>>, row)) = Len(<<>>) + 1
          BY <3>4, <3>5, RowsGrow
        <4>2. Append(<<>>, row)[Len(Append(<<>>, row))] = row BY <3>4, <3>5, RowsGrow
        <4> QED BY <3>1, <3>5, <4>1, <4>2
      <3>7. AsRead(rows) = rows BY <3>4, <3>6 DEF AsRead
      <3>8. \A i \in 1 .. 1 : i = 1 OBVIOUS
      <3> QED BY <3>4, <3>6, <3>7, <3>8
    <2> QED BY <2>1, <2>2
  <1>7. read'.rows = rows
    <2>1. CASE bank = "BCA savings"
      <3>1. read'.rows = Append(read.rows, RowPrinted(read.of, 0, IF l.whole THEN l.amount ELSE 0, 0, l.whole))
        BY <1>3, <1>5, <2>1 DEF BcaOutcome
      <3> QED BY <1>0, <1>1, <1>2, <1>5, <2>1, <3>1 DEF BcaKnown
    <2>2. CASE bank = "BCA RDN"
      <3>1. read'.rows = read.rows BY <1>3, <1>5, <2>2 DEF BcaOutcome
      <3> QED BY <1>0, <1>1, <2>2, <3>1 DEF BcaKnown
    <2> QED BY <1>b, <2>1, <2>2 DEF Bca
  <1> HIDE DEF rows
  <1>8. DOMAIN read' = ReadFields /\ read'.more \in BOOLEAN /\ read'.dated \in BOOLEAN /\ read'.of = Acct
    BY <1>0, <1>3 DEF BcaOutcome, BcaKnown
  <1>9. /\ bank' = bank /\ DOMAIN sheet' = SheetFields /\ sheet'.of = sheet.of /\ sheet'.rows = rows
        /\ sheet'.saldo = amount /\ sheet'.k = "opening" /\ Acct' = Acct
    BY <1>5 DEF AccountHeard, Acct
  <1> QED BY <1>b, <1>2, <1>6, <1>7, <1>8, <1>9 DEF BcaInv, FieldsKept, InRow

LEMMA BcaRowKept ==
  ASSUME BcaInv, AccountRow
  PROVE  BcaInv'
  <1>0. BcaKnown BY BcaFacts
  <1>b. DOMAIN sheet = SheetFields /\ bank \in Bca /\ sheet.of = 1 /\ sheet.saldo \in Int /\ sheet.rows \in Seq(Bookings(AccountOf)) /\ read.of = Acct
    BY <1>0 DEF BcaKnown
  <1>1. PICK l, amount, whole :
         /\ amount \in Int /\ sheet.saldo + amount \in Int /\ whole \in BOOLEAN
         /\ l.k = "row" /\ l.month = StatementMonth /\ l.of = Blank /\ l.amount = amount /\ l.whole = whole
         /\ AccountHeard(l, "row", sheet.of, Append(sheet.rows, RowPrinted(Acct, 0, amount, 0, whole)),
              sheet.opening, sheet.saldo + amount, sheet.accounts)
    BY <1>b, BcaRowPrinted
  <1>2. BcaOutcome(read, l, read') BY <1>0, <1>1, BcaReadBy
  <1>3. read.rows = sheet.rows /\ \A i \in 1 .. Len(sheet.rows) : sheet.rows[i].whole = TRUE
    <2>1. RowWhole BY DEF AccountRow, InTable
    <2> QED BY <1>0, <2>1, BcaBetween DEF BcaKnown
  <1> DEFINE rows == Append(sheet.rows, RowPrinted(Acct, 0, amount, 0, whole))
  <1>4. Acct \in AccountOf
    <2>1. sheet.of \in Nat BY <1>b
    <2> QED BY <2>1, AcctNamed
  <1>5. AsRead(rows) = Append(sheet.rows, RowPrinted(Acct, 0, IF whole THEN amount ELSE 0, 0, whole)) /\ rows \in Seq(Bookings(AccountOf)) /\ rows # <<>>
    BY <1>b, <1>1, <1>4, AsReadAdded
  <1>6. /\ read'.rows = AsRead(rows) /\ read'.more = TRUE /\ read'.dated = FALSE
        /\ DOMAIN read' = ReadFields /\ read'.of = Acct
    <2>1. l.k = "row" /\ l.month = StatementMonth /\ ~ (bank = "BCA RDN" /\ l.of = "SALDO AWAL")
      <3>1. Blank # "SALDO AWAL" BY AccountAssumption
      <3> QED BY <1>1, <3>1
    <2>2. /\ read'.rows = Append(read.rows, RowPrinted(read.of, 0, IF l.whole THEN l.amount ELSE 0, 0, l.whole))
          /\ read'.more = TRUE /\ read'.dated = FALSE /\ DOMAIN read' = ReadFields /\ read'.of = read.of
      BY <1>2, <2>1 DEF BcaOutcome
    <2> HIDE DEF rows
    <2> QED BY <1>b, <1>1, <1>3, <1>5, <2>2
  <1>7. \A i \in 1 .. Len(rows) : rows[i].whole = TRUE \/ i = Len(rows)
    <2>1. RowPrinted(Acct, 0, amount, 0, whole) \in Bookings(AccountOf)
      <3>1. 0 \in {-1, 0} /\ 0 \in Int OBVIOUS
      <3> QED BY <1>1, <1>4, <3>1, RowMade
    <2>2. /\ \A i \in 1 .. Len(sheet.rows) : rows[i] = sheet.rows[i]
          /\ \A i \in 1 .. Len(rows) : i \in 1 .. Len(sheet.rows) \/ i = Len(rows)
      BY <1>b, <2>1, RowsGrow
    <2> HIDE DEF rows
    <2> QED BY <1>3, <2>2
  <1> HIDE DEF rows
  <1>8. /\ bank' = bank /\ DOMAIN sheet' = SheetFields /\ sheet'.of = sheet.of /\ sheet'.rows = rows
        /\ sheet'.saldo \in Int /\ sheet'.k = "row" /\ Acct' = Acct
    BY <1>1 DEF AccountHeard, Acct, rows
  <1> QED BY <1>b, <1>5, <1>6, <1>7, <1>8 DEF BcaInv, FieldsKept, InRow

\* What may follow a row before the next one.
LEMMA BcaWrapsKept ==
  ASSUME BcaInv, AccountWraps
  PROVE  BcaInv'
  <1>0. BcaKnown BY BcaFacts
  <1>b. DOMAIN sheet = SheetFields /\ bank \in Bca /\ sheet.of = 1 /\ sheet.saldo \in Int /\ sheet.rows \in Seq(Bookings(AccountOf))
        /\ read.of = Acct /\ read.rows = AsRead(sheet.rows) /\ DOMAIN read = ReadFields /\ read.more \in BOOLEAN /\ read.dated \in BOOLEAN
    BY <1>0 DEF BcaKnown
  <1> DEFINE k == IF sheet.k = "effective" THEN "effective" ELSE "text"
             rows == Wrapped(sheet.rows)
  <1>1. PICK l : l.k = "text" /\ AccountHeard(l, k, sheet.of, rows, sheet.opening, sheet.saldo, sheet.accounts)
    BY <1>b, WrapsPrinted
  <1>2. BcaOutcome(read, l, read') BY <1>0, <1>1, BcaReadBy
  <1>3. sheet.k \in InRow /\ read.more = TRUE /\ sheet.rows # <<>> /\ (sheet.k \in {"row", "text"} => read.dated = FALSE)
    BY DEF AccountWraps, BcaInv, InRow
  <1>4. /\ rows \in Seq(Bookings(AccountOf)) /\ Len(rows) = Len(sheet.rows) /\ rows # <<>>
        /\ \A i \in 1 .. Len(sheet.rows) : rows[i].whole = sheet.rows[i].whole
    BY <1>b, <1>3, WrappedRows
  <1>5. Wrapped(read.rows) = AsRead(rows) BY <1>b, <1>3, AsReadWrapped
  <1>6. read' = [read EXCEPT !.rows = Wrapped(@)] BY <1>1, <1>2, <1>3 DEF BcaOutcome
  <1> HIDE DEF rows
  <1>7. /\ DOMAIN read' = ReadFields /\ read'.rows = AsRead(rows) /\ read'.more = TRUE /\ read'.dated = read.dated /\ read'.of = Acct
    BY <1>b, <1>3, <1>5, <1>6 DEF ReadFields
  <1>8. \A i \in 1 .. Len(rows) : rows[i].whole = TRUE \/ i = Len(rows) BY <1>4 DEF BcaInv
  <1>9. /\ bank' = bank /\ DOMAIN sheet' = SheetFields /\ sheet'.of = sheet.of /\ sheet'.rows = rows
        /\ sheet'.saldo \in Int /\ sheet'.k = k /\ Acct' = Acct
    BY <1>b, <1>1 DEF AccountHeard, Acct
  <1>10. k \in InRow /\ (k \in {"row", "text"} => read.dated = FALSE) BY <1>3 DEF InRow
  <1> HIDE DEF k
  <1> QED BY <1>b, <1>3, <1>4, <1>7, <1>8, <1>9, <1>10 DEF BcaInv, FieldsKept, InRow

LEMMA BcaAroundKept ==
  ASSUME BcaInv, AccountEffective \/ AccountBlank
  PROVE  BcaInv'
  <1>0. BcaKnown BY BcaFacts
  <1>b. DOMAIN sheet = SheetFields /\ bank \in Bca /\ sheet.of = 1 /\ sheet.saldo \in Int /\ sheet.rows \in Seq(Bookings(AccountOf))
        /\ read.of = Acct /\ read.rows = AsRead(sheet.rows) /\ DOMAIN read = ReadFields /\ read.more \in BOOLEAN /\ read.dated \in BOOLEAN
    BY <1>0 DEF BcaKnown
  <1>1. PICK l, k : /\ \/ l.k = "effective" /\ k = "effective" /\ bank = "BCA savings" /\ sheet.k \in {"row", "text"}
                       \/ l.k = "blank" /\ k = sheet.k
                    /\ AccountHeard(l, k, sheet.of, sheet.rows, sheet.opening, sheet.saldo, sheet.accounts)
    <2>1. CASE AccountEffective
      <3>1. bank = "BCA savings" /\ sheet.k \in {"row", "text"} BY <2>1 DEF AccountEffective
      <3>2. PICK l : l.k = "effective" /\ AccountHeard(l, "effective", sheet.of, sheet.rows, sheet.opening, sheet.saldo, sheet.accounts)
        BY <1>b, <2>1, EffectivePrinted
      <3> QED BY <3>1, <3>2
    <2>2. CASE AccountBlank BY <1>b, <2>2, BlankPrinted
    <2> QED BY <2>1, <2>2
  <1>2. BcaOutcome(read, l, read') BY <1>0, <1>1, BcaReadBy
  <1>3. sheet.k \in InRow /\ read.more = TRUE /\ sheet.rows # <<>> /\ (sheet.k \in {"row", "text"} => read.dated = FALSE)
    BY DEF AccountEffective, AccountBlank, BcaInv, InRow
  <1>4. /\ DOMAIN read' = ReadFields /\ read'.rows = read.rows /\ read'.more = TRUE /\ read'.dated \in BOOLEAN /\ read'.of = Acct
        /\ k \in {"row", "text"} => read'.dated = FALSE
    <2>1. CASE l.k = "effective" /\ k = "effective" /\ bank = "BCA savings" /\ sheet.k \in {"row", "text"}
      BY <1>b, <1>2, <1>3, <2>1 DEF BcaOutcome
    <2>2. CASE l.k = "blank" /\ k = sheet.k
      <3>1. read' = read BY <1>2, <2>2 DEF BcaOutcome
      <3> QED BY <1>b, <1>3, <2>2, <3>1
    <2> QED BY <1>1, <2>1, <2>2
  <1>5. /\ bank' = bank /\ DOMAIN sheet' = SheetFields /\ sheet'.of = sheet.of /\ sheet'.rows = sheet.rows
        /\ sheet'.saldo \in Int /\ sheet'.k = k /\ Acct' = Acct
    BY <1>b, <1>1 DEF AccountHeard, Acct
  <1>6. k \in InRow BY <1>1, <1>3 DEF InRow
  <1>7. \A i \in 1 .. Len(sheet.rows) : sheet.rows[i].whole = TRUE \/ i = Len(sheet.rows)
    BY DEF BcaInv
  <1> QED BY <1>b, <1>3, <1>4, <1>5, <1>6, <1>7 DEF BcaInv, FieldsKept, InRow

LEMMA BcaRestKept ==
  ASSUME BcaInv, AccountRest
  PROVE  BcaInv'
  <1>0. BcaKnown BY BcaFacts
  <1>b. DOMAIN sheet = SheetFields /\ bank \in Bca /\ sheet.of = 1 /\ sheet.saldo \in Int /\ sheet.rows \in Seq(Bookings(AccountOf))
        /\ read.of = Acct /\ read.rows = AsRead(sheet.rows) /\ DOMAIN read = ReadFields /\ read.more \in BOOLEAN /\ read.dated \in BOOLEAN
    BY <1>0 DEF BcaKnown
  <1> DEFINE rows == LastRow(sheet.rows, "whole", TRUE)
             m == Len(sheet.rows)
  <1>1. PICK l : /\ l.k = "rest" /\ l.amount = sheet.rows[m].amount
                 /\ AccountHeard(l, "rest", sheet.of, rows, sheet.opening, sheet.saldo, sheet.accounts)
    BY <1>b, RestPrinted
  <1>2. BcaOutcome(read, l, read') BY <1>0, <1>1, BcaReadBy
  <1>3. sheet.k \in InRow /\ read.more = TRUE /\ sheet.rows # <<>> BY DEF AccountRest, BcaInv, InRow
  <1>4. m \in Nat /\ m \in 1 .. m BY <1>b, <1>3, LastRowInside
  <1>5. sheet.rows[m].whole = FALSE
    <2>1. sheet.rows[m] \in Bookings(AccountOf) BY <1>b, <1>4
    <2>2. sheet.rows[m].whole \in BOOLEAN BY <2>1, UnfinishedRow
    <2> QED BY <2>2 DEF AccountRest, RowWhole
  <1>6. /\ read.rows[Len(read.rows)].whole = FALSE
        /\ LastRow(LastRow(read.rows, "whole", TRUE), "amount", sheet.rows[m].amount) = rows
    BY <1>b, <1>3, <1>5, AsReadFinished
  <1>7. /\ DOMAIN read' = ReadFields /\ read'.rows = rows /\ read'.more \in BOOLEAN /\ read'.dated \in BOOLEAN /\ read'.of = Acct
    <2> HIDE DEF rows, m
    <2> QED BY <1>b, <1>1, <1>2, <1>3, <1>6 DEF BcaOutcome
  <1>8. /\ rows \in Seq(Bookings(AccountOf)) /\ Len(rows) = m /\ rows # <<>> /\ rows[m].whole = TRUE
        /\ \A i \in 1 .. (m - 1) : rows[i] = sheet.rows[i]
    BY <1>b, <1>3, MarkedWhole
  <1>9. \A i \in 1 .. Len(rows) : rows[i].whole = TRUE
    <2>1. \A i \in 1 .. m : i = m \/ i \in 1 .. (m - 1) BY <1>4
    <2>2. \A i \in 1 .. m : sheet.rows[i].whole = TRUE \/ i = m BY DEF BcaInv
    <2>3. \A i \in 1 .. (m - 1) : sheet.rows[i].whole = TRUE BY <1>4, <2>2
    <2> HIDE DEF rows, m
    <2> QED BY <1>8, <2>1, <2>3
  <1>10. AsRead(rows) = rows BY <1>8 DEF AsRead
  <1> HIDE DEF rows
  <1>11. /\ bank' = bank /\ DOMAIN sheet' = SheetFields /\ sheet'.of = sheet.of /\ sheet'.rows = rows
         /\ sheet'.saldo \in Int /\ sheet'.k = "rest" /\ Acct' = Acct
    BY <1>b, <1>1 DEF AccountHeard, Acct
  <1> QED BY <1>b, <1>7, <1>8, <1>9, <1>10, <1>11 DEF BcaInv, FieldsKept, InRow

LEMMA BcaKept ==
  ASSUME BcaInv, AccountStep
  PROVE  BcaInv'
  <1>1. bank \in Bca /\ sheet.k # "paged" BY DEF BcaInv, InRow
  <1> QED BY <1>1, BcaActions, BcaPassing, BcaOpeningKept, BcaRowKept, BcaWrapsKept, BcaAroundKept, BcaRestKept

LEMMA BcaAsPrinted ==
  ASSUME BcaInv
  PROVE  AccountReadAsPrinted
  <1> SUFFICES ASSUME sheet.k = "closed" PROVE AccountReadAsPrinted
    BY DEF AccountReadAsPrinted
  <1>1. sheet.rows \in Seq(Bookings(AccountOf)) /\ AllRead(sheet.rows) BY DEF BcaInv, InRow, AllRead
  <1>2. RowWhole
    <2>1. sheet.rows # <<>> => Len(sheet.rows) \in 1 .. Len(sheet.rows) BY <1>1, LastRowInside
    <2> QED BY <1>1, <2>1 DEF RowWhole, AllRead
  <1>3. read.rows = sheet.rows BY <1>2, BcaBetween DEF BcaInv
  <1>4. WholeRows(read.rows) = sheet.rows BY <1>1, <1>3, AllReadWhole
  <1> QED BY <1>4 DEF AccountReadAsPrinted, BcaInv, Bca

AccountInv == MaybankInv \/ CimbInv \/ UsdInv \/ SavingsInv \/ BcaInv

LEMMA AccountInitial ==
  ASSUME AccountInit
  PROVE  AccountInv
  <1>1. PICK opening \in Int :
          /\ sheet = [NewSheet EXCEPT !.saldo = opening, !.opening = opening, !.of = IF bank \in Bca \cup {"Permata USD"} THEN 1 ELSE 0]
          /\ read = [NewRead EXCEPT !.saldo = opening, !.opening = opening, !.of = IF bank \in Bca THEN Accts[1] ELSE Blank]
    <2>1. \A value \in Figures : value \in Int BY ReadingAssumption
    <2>2. \A value \in {0} : value \in Int OBVIOUS
    <2> QED BY <2>1, <2>2, Zenon DEF AccountInit
  <1>3. /\ DOMAIN sheet = SheetFields /\ sheet.k = "start" /\ sheet.rows = <<>> /\ sheet.accounts = <<>> /\ sheet.saldo = opening /\ sheet.opening = opening
        /\ sheet.of = IF bank \in Bca \cup {"Permata USD"} THEN 1 ELSE 0
    BY <1>1 DEF NewSheet, SheetFields
  <1>4. /\ DOMAIN read = ReadFields /\ read.rows = <<>> /\ read.accounts = <<>> /\ read.saldo = opening /\ read.opening = opening
        /\ read.on = FALSE /\ read.more = FALSE /\ read.done = FALSE /\ read.dated = FALSE
        /\ read.of = IF bank \in Bca THEN Accts[1] ELSE Blank
    BY <1>1 DEF NewRead, ReadFields
  <1>5. <<>> \in Seq(Bookings(AccountOf)) /\ 1 .. Len(<<>>) = {} /\ AllRead(<<>>) /\ AsRead(<<>>) = <<>>
    <2>1. <<>> \in Seq(Bookings(AccountOf)) /\ Len(<<>>) = 0 OBVIOUS
    <2>2. 1 .. 0 = {} OBVIOUS
    <2>3. AsRead(<<>>) = <<>> BY DEF AsRead
    <2> QED BY <2>1, <2>2, <2>3 DEF AllRead
  <1>6. FieldsKept /\ sheet.saldo \in Int /\ sheet.opening \in Int /\ sheet.rows \in Seq(Bookings(AccountOf)) /\ AllRead(sheet.rows)
    BY <1>1, <1>3, <1>4, <1>5 DEF FieldsKept
  <1>7. CASE bank \in {"Maybank consol", "CIMB consol", "Permata savings"}
    <2>1. sheet.of = 0 /\ sheet.of \in Nat /\ read.of = Blank
      <3>1. bank \notin Bca /\ bank # "Permata USD" BY <1>7 DEF Bca
      <3>2. sheet.of = 0 /\ read.of = Blank BY <1>3, <1>4, <3>1
      <3> QED BY ONLY <3>2
    <2>2. AccountTyped BY <1>6, <2>1 DEF AccountTyped
    <2>3. Numbered(sheet.accounts, sheet.of) BY <1>3, <2>1, NoneNumbered
    <2> QED BY <1>3, <1>4, <1>6, <1>7, <2>1, <2>2, <2>3 DEF AccountInv, MaybankInv, CimbInv, SavingsInv, InSection
  <1>8. CASE bank = "Permata USD" BY <1>3, <1>4, <1>6, <1>8 DEF AccountInv, UsdInv
  <1>9. CASE bank \in Bca
    <2>1. sheet.of = 1 /\ read.of = Accts[1] BY <1>3, <1>4, <1>9
    <2>2. read.of = Acct BY <2>1 DEF Acct
    <2>3. AsRead(sheet.rows) = read.rows /\ 1 .. Len(sheet.rows) = {} BY <1>3, <1>4, <1>5
    <2> QED BY <1>3, <1>4, <1>6, <1>9, <2>1, <2>2, <2>3 DEF AccountInv, BcaInv, InRow
  <1> QED BY <1>7, <1>8, <1>9 DEF AccountInit, AccountBanks, Bca

LEMMA AccountStepsKept ==
  ASSUME AccountInv, AccountStep
  PROVE  AccountInv'
  BY MaybankKept, CimbKept, UsdKept, SavingsKept, BcaKept DEF AccountInv

LEMMA AccountUnchanged ==
  ASSUME AccountInv, UNCHANGED rvars
  PROVE  AccountInv'
  <1>1. bank' = bank /\ sheet' = sheet /\ read' = read BY DEF rvars
  <1>2. Acct' = Acct /\ AccountTyped' = AccountTyped /\ FieldsKept' = FieldsKept /\ InAccount' = InAccount
    BY <1>1 DEF Acct, AccountTyped, FieldsKept, InAccount
  <1>3. MaybankInv => MaybankInv' BY <1>1, <1>2 DEF MaybankInv
  <1>4. CimbInv => CimbInv' BY <1>1, <1>2 DEF CimbInv
  <1>5. UsdInv => UsdInv' BY <1>1, <1>2 DEF UsdInv
  <1>6. SavingsInv => SavingsInv' BY <1>1, <1>2 DEF SavingsInv
  <1>7. BcaInv => BcaInv' BY <1>1, <1>2 DEF BcaInv
  <1> QED BY <1>3, <1>4, <1>5, <1>6, <1>7 DEF AccountInv

LEMMA AccountsAsPrinted ==
  ASSUME AccountInv
  PROVE  AccountReadAsPrinted
  BY MaybankAsPrinted, CimbAsPrinted, UsdAsPrinted, SavingsAsPrinted, BcaAsPrinted DEF AccountInv

LEMMA AccountBanked ==
  ASSUME AccountInv
  PROVE  bank \in AccountBanks
  BY DEF AccountInv, MaybankInv, CimbInv, UsdInv, SavingsInv, BcaInv, AccountBanks, Bca

(* StatementReading. Positions of two sets, one before the other. *)
LEMMA NothingPlaced ==
  ASSUME NEW I, NEW n \in Nat, \A i \in 1 .. n : i \notin I
  PROVE  Places(I, n) = <<>>
  <1> DEFINE good == {k \in 0 .. n : Places(I, k) = <<>>}
  <1>1. 0 \in good BY NoPlaces
  <1>2. \A k \in 0 .. (n - 1) : k \in good => k + 1 \in good
    <2> SUFFICES ASSUME NEW k \in 0 .. (n - 1), k \in good PROVE k + 1 \in good
      OBVIOUS
    <2>1. k \in Nat /\ k + 1 \in 1 .. n /\ k + 1 \in 0 .. n OBVIOUS
    <2>2. Places(I, k + 1) = Places(I, k) BY <2>1, NextPlace
    <2> QED BY <2>1, <2>2
  <1>3. 0 .. n \subseteq good
    <2> HIDE DEF good
    <2> QED BY <1>1, <1>2, UpFromZero
  <1> QED BY <1>3

LEMMA AppendedLast ==
  ASSUME NEW S, NEW s \in Seq(S), NEW t \in Seq(S), NEW x \in S
  PROVE  s \o Append(t, x) = Append(s \o t, x)
  OBVIOUS

Ahead(I, J, n) == n \in Nat /\ \A i \in 1 .. n, j \in 1 .. n : i \in I /\ j \in J => i < j
AreJoined(I, J, n) == Places(I \cup J, n) = Places(I, n) \o Places(J, n)

LEMMA PlacesJoined ==
  ASSUME NEW I, NEW J, NEW n, Ahead(I, J, n)
  PROVE  AreJoined(I, J, n)
  <1>0. n \in Nat /\ \A i \in 1 .. n, j \in 1 .. n : i \in I /\ j \in J => i < j BY DEF Ahead
  <1> DEFINE right(k) == Places(I \cup J, k) = Places(I, k) \o Places(J, k)
             good == {k \in 0 .. n : right(k)}
  <1>1. right(0)
    <2>1. <<>> \o <<>> = <<>> OBVIOUS
    <2> QED BY <2>1, NoPlaces
  <1>2. ASSUME NEW k \in 0 .. (n - 1), right(k)
        PROVE  right(k + 1)
    <2>1. k \in Nat /\ k + 1 \in 1 .. n /\ k + 1 \in Int BY <1>0
    <2>2. /\ Places(I, k + 1) = IF k + 1 \in I THEN Append(Places(I, k), k + 1) ELSE Places(I, k)
          /\ Places(J, k + 1) = IF k + 1 \in J THEN Append(Places(J, k), k + 1) ELSE Places(J, k)
          /\ Places(I \cup J, k + 1) = IF k + 1 \in I \cup J THEN Append(Places(I \cup J, k), k + 1) ELSE Places(I \cup J, k)
      BY <2>1, NextPlace
    <2>3. Places(I, k) \in Seq(Int) /\ Places(J, k) \in Seq(Int)
      <3>1. Places(I, k) \in Seq(1 .. k) /\ Places(J, k) \in Seq(1 .. k) BY <2>1, PlacesAreNumbers
      <3> QED BY <2>1, <3>1
    <2>4. CASE k + 1 \in I
      <3>1. k + 1 \notin J BY <1>0, <2>1, <2>4
      <3>2. \A j \in 1 .. k : j \notin J BY <1>0, <2>1, <2>4
      <3>3. Places(J, k) = <<>> /\ Places(J, k + 1) = <<>> BY <2>1, <2>2, <3>1, <3>2, NothingPlaced
      <3>4. Places(I \cup J, k) = Places(I, k) BY <1>2, <2>3, <3>3
      <3>5. Places(I \cup J, k + 1) = Places(I, k + 1) BY <2>2, <2>4, <3>4
      <3>6. Places(I, k + 1) \in Seq(Int)
        <4>1. k + 1 \in Nat /\ 1 .. (k + 1) \subseteq Int BY <2>1
        <4>2. Places(I, k + 1) \in Seq(1 .. (k + 1)) BY ONLY <4>1, PlacesAreNumbers
        <4> QED BY <4>1, <4>2
      <3>7. Places(I, k + 1) \o <<>> = Places(I, k + 1) BY ONLY <3>6
      <3> QED BY <3>3, <3>5, <3>7
    <2>5. CASE k + 1 \notin I /\ k + 1 \in J
      <3> DEFINE a == Places(I, k)
                 b == Places(J, k)
                 x == k + 1
      <3>1. a \in Seq(Int) /\ b \in Seq(Int) /\ x \in Int BY <2>1, <2>3
      <3>2. Places(I, x) = a /\ Places(J, x) = Append(b, x) /\ Places(I \cup J, x) = Append(a \o b, x)
        BY <1>2, <2>2, <2>5
      <3> HIDE DEF a, b, x
      <3>3. a \o Append(b, x) = Append(a \o b, x) BY <3>1, AppendedLast
      <3>4. Places(I \cup J, x) = Places(I, x) \o Places(J, x) BY <3>2, <3>3
      <3> QED BY <3>4 DEF x
    <2>6. CASE k + 1 \notin I /\ k + 1 \notin J BY <1>2, <2>2, <2>6
    <2> QED BY <2>4, <2>5, <2>6
  <1>3. 0 .. n \subseteq good
    <2>1. 0 \in good
      <3> HIDE DEF right
      <3> QED BY <1>0, <1>1
    <2>2. \A k \in 0 .. (n - 1) : k \in good => k + 1 \in good
      <3> HIDE DEF right
      <3> QED BY <1>0, <1>2
    <2> HIDE DEF good
    <2> QED BY <1>0, <2>1, <2>2, UpFromZero
  <1>4. n \in good
    <2> HIDE DEF good
    <2> QED BY <1>0, <1>3
  <1> QED BY <1>4 DEF AreJoined

(* Portfolios. The worth of holdings. *)
SummedBy(f, h, n) == f = [i \in 0 .. n |-> IF i = 0 THEN 0 ELSE f[i - 1] + h[i].value]

LEMMA SummingExists ==
  ASSUME NEW h, NEW n \in Nat
  PROVE  \E f : SummedBy(f, h, n)
  <1> DEFINE good == {k \in 0 .. n : \E f : SummedBy(f, h, k)}
  <1>1. 0 \in good
    <2>1. SummedBy([k \in 0 .. 0 |-> 0], h, 0) BY DEF SummedBy
    <2> QED BY <2>1
  <1>2. ASSUME NEW j \in 0 .. (n - 1), NEW f, SummedBy(f, h, j)
        PROVE  \E g : SummedBy(g, h, j + 1)
    <2> DEFINE k == j + 1
               g == [i \in 0 .. k |-> IF i = 0 THEN 0 ELSE f[i - 1] + h[i].value]
    <2>1. \A i \in 0 .. j : i \in 0 .. k /\ g[i] = f[i]
      <3>1. \A i \in 0 .. j : f[i] = IF i = 0 THEN 0 ELSE f[i - 1] + h[i].value BY <1>2 DEF SummedBy
      <3>2. \A i \in 0 .. j : i \in 0 .. k OBVIOUS
      <3>3. \A i \in 0 .. k : g[i] = IF i = 0 THEN 0 ELSE f[i - 1] + h[i].value OBVIOUS
      <3> HIDE DEF g, k
      <3> QED BY <3>1, <3>2, <3>3
    <2>2. \A i \in 0 .. k : i # 0 => i - 1 \in 0 .. j OBVIOUS
    <2>3. \A i \in 0 .. k : i # 0 => f[i - 1] = g[i - 1]
      <3> HIDE DEF g, k
      <3> QED BY <2>1, <2>2
    <2>4. SummedBy(g, h, k)
      <3> HIDE DEF k
      <3> QED BY <2>3, Zenon DEF SummedBy
    <2> QED BY <2>4
  <1>3. \A i \in 0 .. (n - 1) : i \in good => i + 1 \in good BY <1>2
  <1>4. 0 .. n \subseteq good
    <2> HIDE DEF good
    <2> QED BY <1>1, <1>3, UpFromZero
  <1> QED BY <1>4

LEMMA WorthBy ==
  ASSUME NEW h, Len(h) \in Nat
  PROVE  \E f : SummedBy(f, h, Len(h)) /\ WorthOf(h) = f[Len(h)]
  <1> DEFINE f == CHOOSE f : SummedBy(f, h, Len(h))
  <1>1. WorthOf(h) = f[Len(h)] BY DEF WorthOf, SummedBy
  <1>2. SummedBy(f, h, Len(h)) BY SummingExists
  <1> QED BY <1>1, <1>2

LEMMA SummedStep ==
  ASSUME NEW f, NEW h, NEW n \in Nat, SummedBy(f, h, n)
  PROVE  /\ f[0] = 0
         /\ \A i \in 0 .. (n - 1) : f[i + 1] = f[i] + h[i + 1].value
  <1>1. \A i \in 0 .. n : f[i] = IF i = 0 THEN 0 ELSE f[i - 1] + h[i].value BY DEF SummedBy
  <1>2. \A i \in 0 .. (n - 1) : i + 1 \in 0 .. n /\ i + 1 # 0 /\ (i + 1) - 1 = i OBVIOUS
  <1>3. 0 \in 0 .. n OBVIOUS
  <1> QED BY <1>1, <1>2, <1>3

LEMMA SummedAlike ==
  ASSUME NEW f, NEW g, NEW h, NEW o, NEW n \in Nat, NEW m \in Nat, n <= m, SummedBy(f, h, n), SummedBy(g, o, m),
         \A i \in 1 .. n : h[i].value = o[i].value
  PROVE  \A i \in 0 .. n : f[i] = g[i]
  <1> DEFINE good == {i \in 0 .. n : f[i] = g[i]}
  <1>f. f[0] = 0 /\ \A i \in 0 .. (n - 1) : f[i + 1] = f[i] + h[i + 1].value
    <2>1. SummedBy(f, h, n) OBVIOUS
    <2> QED BY ONLY <2>1, n \in Nat, SummedStep
  <1>g. g[0] = 0 /\ \A i \in 0 .. (m - 1) : g[i + 1] = g[i] + o[i + 1].value BY SummedStep
  <1>1. 0 \in good BY <1>f, <1>g
  <1>2. ASSUME NEW i \in 0 .. (n - 1), f[i] = g[i]
        PROVE  f[i + 1] = g[i + 1]
    <2>1. f[i + 1] = f[i] + h[i + 1].value BY <1>f
    <2>2. i \in 0 .. (m - 1) /\ i + 1 \in 1 .. n OBVIOUS
    <2>3. g[i + 1] = g[i] + o[i + 1].value BY <1>g, <2>2
    <2> QED BY <1>2, <2>1, <2>2, <2>3
  <1>3. 0 .. n \subseteq good
    <2>1. \A i \in 0 .. (n - 1) : i \in good => i + 1 \in good BY <1>2
    <2> HIDE DEF good
    <2> QED BY <1>1, <2>1, UpFromZero
  <1> QED BY <1>3

LEMMA WorthOfNone ==
  WorthOf(<<>>) = 0
  <1>1. Len(<<>>) = 0 OBVIOUS
  <1>2. PICK f : SummedBy(f, <<>>, 0) /\ WorthOf(<<>>) = f[0] BY <1>1, WorthBy
  <1> QED BY <1>2, SummedStep

LEMMA WorthAlike ==
  ASSUME NEW S, NEW h \in Seq(S), NEW o \in Seq(S), Len(h) = Len(o), \A i \in 1 .. Len(h) : h[i].value = o[i].value
  PROVE  WorthOf(h) = WorthOf(o)
  <1>0. Len(h) \in Nat OBVIOUS
  <1>1. PICK f : SummedBy(f, h, Len(h)) /\ WorthOf(h) = f[Len(h)] BY <1>0, WorthBy
  <1>2. PICK g : SummedBy(g, o, Len(h)) /\ WorthOf(o) = g[Len(h)] BY <1>0, WorthBy
  <1>3. Len(h) <= Len(h) /\ Len(h) \in 0 .. Len(h) /\ \A i \in 1 .. Len(h) : h[i].value = o[i].value
    BY <1>0
  <1>4. f[Len(h)] = g[Len(h)] BY ONLY <1>0, <1>1, <1>2, <1>3, SummedAlike
  <1> QED BY <1>1, <1>2, <1>4

LEMMA WorthMore ==
  ASSUME NEW S, NEW h \in Seq(S), NEW row \in S, NEW new, new = Append(h, row)
  PROVE  WorthOf(new) = WorthOf(h) + row.value
  <1>0. /\ Len(h) \in Nat /\ Len(new) = Len(h) + 1 /\ new[Len(h) + 1] = row
        /\ \A i \in 1 .. Len(h) : new[i] = h[i]
    OBVIOUS
  <1>1. PICK f : SummedBy(f, h, Len(h)) /\ WorthOf(h) = f[Len(h)] BY <1>0, WorthBy
  <1>2. PICK g : SummedBy(g, new, Len(h) + 1) /\ WorthOf(new) = g[Len(h) + 1]
    <2>1. Len(new) \in Nat BY <1>0
    <2>2. \E g : SummedBy(g, new, Len(new)) /\ WorthOf(new) = g[Len(new)] BY ONLY <2>1, WorthBy
    <2> QED BY <1>0, <2>2
  <1>3. \A i \in 0 .. Len(h) : f[i] = g[i]
    <2>1. \A i \in 1 .. Len(h) : h[i].value = new[i].value BY <1>0
    <2>2. Len(h) + 1 \in Nat /\ Len(h) <= Len(h) + 1 BY <1>0
    <2>3. SummedBy(f, h, Len(h)) /\ SummedBy(g, new, Len(h) + 1) /\ Len(h) \in Nat
      BY <1>0, <1>1, <1>2
    <2> HIDE DEF SummedBy
    <2> QED BY ONLY <2>1, <2>2, <2>3, SummedAlike
  <1>4. g[Len(h) + 1] = g[Len(h)] + new[Len(h) + 1].value
    <2>1. Len(h) \in 0 .. ((Len(h) + 1) - 1) /\ Len(h) + 1 \in Nat BY <1>0
    <2> QED BY <1>2, <2>1, SummedStep
  <1>5. Len(h) \in 0 .. Len(h) BY <1>0
  <1> QED BY <1>0, <1>1, <1>2, <1>3, <1>4, <1>5

(* Portfolios. The holdings and bookings of a text. *)
TextKinds == {"cash", "booking", "balance", "stocks", "funds", "stock", "fund", "name", "total", "footer", "net of funds", "assets"}
TextLines == [k : TextKinds, of : Securities \cup {Blank, "Beginning Balance"}, month : {StatementMonth}, year : {0},
              amount : Int, saldo : Int, beside : Int, whole : BOOLEAN]

HoldingAt(text, i) ==
  Holding(IF text[i].k = "stock" THEN "stock" ELSE "mutual_fund", text[i], i + 1 \in DOMAIN text /\ text[i + 1].k = "name")
HeldAt(text, I) == LET at == Places(I, Len(text)) IN [j \in DOMAIN at |-> HoldingAt(text, at[j])]
BookedAt(text, I) == LET at == Places(I, Len(text)) IN [j \in DOMAIN at |-> Booking(text[at[j]].amount, text[at[j]].saldo)]

LEMMA PlacesInside ==
  ASSUME NEW I, NEW n \in Nat, NEW at, at = Places(I, n)
  PROVE  /\ at \in Seq(1 .. n) /\ at \in Seq(Int) /\ Len(at) \in Nat /\ DOMAIN at = 1 .. Len(at)
         /\ \A j \in 1 .. Len(at) : at[j] \in 1 .. n /\ at[j] \in I
  <1>1. at \in Seq(1 .. n) /\ \A j \in 1 .. Len(at) : at[j] \in I BY PlacesAreNumbers
  <1>2. 1 .. n \subseteq Int OBVIOUS
  <1> QED BY <1>1, <1>2

LEMMA HeldSame ==
  ASSUME NEW text, NEW I, NEW J, Len(text) \in Nat, \A i \in 1 .. Len(text) : i \in I <=> i \in J
  PROVE  HeldAt(text, I) = HeldAt(text, J)
  <1>1. Places(I, Len(text)) = Places(J, Len(text)) BY PlacesOfSame
  <1> QED BY <1>1 DEF HeldAt

LEMMA BookedSame ==
  ASSUME NEW text, NEW I, NEW J, Len(text) \in Nat, \A i \in 1 .. Len(text) : i \in I <=> i \in J
  PROVE  BookedAt(text, I) = BookedAt(text, J)
  <1>1. Places(I, Len(text)) = Places(J, Len(text)) BY PlacesOfSame
  <1> QED BY <1>1 DEF BookedAt

LEMMA LongerText ==
  ASSUME NEW text \in Seq(TextLines), NEW l \in TextLines, NEW new, new = Append(text, l)
  PROVE  /\ new \in Seq(TextLines) /\ Len(text) \in Nat /\ Len(new) = Len(text) + 1 /\ new[Len(text) + 1] = l
         /\ \A i \in 1 .. Len(text) : new[i] = text[i]
         /\ DOMAIN text = 1 .. Len(text) /\ DOMAIN new = 1 .. (Len(text) + 1)
  OBVIOUS

LEMMA HeldBefore ==
  ASSUME NEW text \in Seq(TextLines), NEW l \in TextLines, NEW new, new = Append(text, l), NEW i \in 1 .. Len(text),
         l.k # "name" \/ i # Len(text)
  PROVE  HoldingAt(new, i) = HoldingAt(text, i)
  <1>1. /\ Len(text) \in Nat /\ new[Len(text) + 1] = l
        /\ \A j \in 1 .. Len(text) : new[j] = text[j]
        /\ DOMAIN text = 1 .. Len(text) /\ DOMAIN new = 1 .. (Len(text) + 1)
    BY LongerText
  <1>2. new[i] = text[i] BY <1>1
  <1>3. CASE i = Len(text)
    <2>1. i + 1 \notin DOMAIN text /\ new[i + 1].k # "name" BY <1>1, <1>3
    <2> QED BY <1>2, <2>1 DEF HoldingAt
  <1>4. CASE i # Len(text)
    <2>0. i + 1 \in 1 .. Len(text) /\ i + 1 \in 1 .. (Len(text) + 1)
      <3>1. Len(text) \in Nat /\ i \in 1 .. Len(text) /\ i # Len(text) BY <1>1, <1>4
      <3> QED BY ONLY <3>1
    <2>1. i + 1 \in DOMAIN text /\ i + 1 \in DOMAIN new /\ new[i + 1] = text[i + 1] BY <1>1, <2>0
    <2> QED BY <1>2, <2>1 DEF HoldingAt
  <1> QED BY <1>3, <1>4

\* A line that is no row of the set, and not the name of one.
Aside(text, l, I) == Len(text) + 1 \notin I /\ (l.k # "name" \/ Len(text) \notin I)

LEMMA HeldKept ==
  ASSUME NEW text \in Seq(TextLines), NEW l \in TextLines, NEW new, new = Append(text, l), NEW I, Aside(text, l, I)
  PROVE  HeldAt(new, I) = HeldAt(text, I)
  <1> DEFINE at == Places(I, Len(text))
  <1>1. Len(text) \in Nat /\ Len(new) = Len(text) + 1 BY LongerText
  <1>2. Places(I, Len(new)) = at
    <2>1. Places(I, Len(text) + 1) = Places(I, Len(text)) BY <1>1, NextPlace DEF Aside
    <2> QED BY <1>1, <2>1
  <1>3. DOMAIN at = 1 .. Len(at) /\ \A j \in 1 .. Len(at) : at[j] \in 1 .. Len(text) /\ at[j] \in I
    BY <1>1, PlacesInside
  <1> HIDE DEF at
  <1>4. \A j \in DOMAIN at : HoldingAt(new, at[j]) = HoldingAt(text, at[j])
    <2> SUFFICES ASSUME NEW j \in DOMAIN at PROVE HoldingAt(new, at[j]) = HoldingAt(text, at[j])
      OBVIOUS
    <2>1. at[j] \in 1 .. Len(text) /\ (l.k # "name" \/ at[j] # Len(text)) BY <1>3 DEF Aside
    <2> QED BY <2>1, HeldBefore
  <1>5. [j \in DOMAIN at |-> HoldingAt(new, at[j])] = [j \in DOMAIN at |-> HoldingAt(text, at[j])]
    BY <1>4
  <1> QED BY <1>2, <1>5 DEF HeldAt, at

\* A row.
LEMMA HeldMore ==
  ASSUME NEW text \in Seq(TextLines), NEW l \in TextLines, NEW new, new = Append(text, l), NEW I, Len(text) + 1 \in I, l.k # "name"
  PROVE  HeldAt(new, I) = Append(HeldAt(text, I), Holding(IF l.k = "stock" THEN "stock" ELSE "mutual_fund", l, FALSE))
  <1> DEFINE at == Places(I, Len(text))
             n == Len(text) + 1
             row == Holding(IF l.k = "stock" THEN "stock" ELSE "mutual_fund", l, FALSE)
  <1>1. Len(text) \in Nat /\ Len(new) = n /\ new[n] = l /\ DOMAIN new = 1 .. n BY LongerText
  <1>2. Places(I, Len(new)) = Append(at, n)
    <2>1. Places(I, Len(text) + 1) = Append(Places(I, Len(text)), Len(text) + 1) BY <1>1, NextPlace
    <2> QED BY <1>1, <2>1
  <1>3. /\ at \in Seq(Int) /\ Len(at) \in Nat /\ DOMAIN at = 1 .. Len(at)
        /\ \A j \in 1 .. Len(at) : at[j] \in 1 .. Len(text)
    BY <1>1, PlacesInside
  <1>4. n \in Int BY <1>1
  <1>5. HoldingAt(new, n) = row
    <2>1. n + 1 \notin DOMAIN new BY <1>1
    <2> QED BY <1>1, <2>1 DEF HoldingAt
  <1>6. HeldAt(text, I) = [j \in 1 .. Len(at) |-> HoldingAt(text, at[j])] BY <1>3 DEF HeldAt
  <1>7. \A j \in 1 .. Len(at) : HoldingAt(new, at[j]) = HoldingAt(text, at[j])
    <2> SUFFICES ASSUME NEW j \in 1 .. Len(at) PROVE HoldingAt(new, at[j]) = HoldingAt(text, at[j])
      OBVIOUS
    <2>1. at[j] \in 1 .. Len(text) BY <1>3
    <2> QED BY <2>1, HeldBefore
  <1>8. HeldAt(new, I) = [j \in DOMAIN Append(at, n) |-> HoldingAt(new, Append(at, n)[j])]
    BY <1>2 DEF HeldAt
  <1> HIDE DEF at, n, row
  <1>9. /\ DOMAIN Append(at, n) = 1 .. (Len(at) + 1) /\ Append(at, n)[Len(at) + 1] = n
        /\ \A j \in 1 .. Len(at) : Append(at, n)[j] = at[j]
    BY <1>3, <1>4
  <1>10. HeldAt(new, I) = [j \in 1 .. (Len(at) + 1) |-> IF j = Len(at) + 1 THEN row ELSE HoldingAt(text, at[j])]
    <2>1. \A j \in 1 .. (Len(at) + 1) : HoldingAt(new, Append(at, n)[j]) = IF j = Len(at) + 1 THEN row ELSE HoldingAt(text, at[j])
      <3> SUFFICES ASSUME NEW j \in 1 .. (Len(at) + 1)
                   PROVE  HoldingAt(new, Append(at, n)[j]) = IF j = Len(at) + 1 THEN row ELSE HoldingAt(text, at[j])
        OBVIOUS
      <3>1. CASE j = Len(at) + 1 BY <1>5, <1>9, <3>1
      <3>2. CASE j # Len(at) + 1
        <4>1. j \in 1 .. Len(at) BY <1>3, <3>2
        <4> QED BY <1>7, <1>9, <3>2, <4>1
      <3> QED BY <3>1, <3>2
    <2> QED BY <1>8, <1>9, <2>1
  <1>11. Append(HeldAt(text, I), row) = [j \in 1 .. (Len(at) + 1) |-> IF j = Len(at) + 1 THEN row ELSE HoldingAt(text, at[j])]
    <2> DEFINE held == HeldAt(text, I)
    <2>1. held = [j \in 1 .. Len(at) |-> HoldingAt(text, at[j])] /\ Len(at) \in Nat BY <1>3, <1>6
    <2>2. Len(held) = Len(at) /\ \A j \in 1 .. Len(at) : held[j] = HoldingAt(text, at[j])
      <3> HIDE DEF held
      <3> QED BY <2>1
    <2> HIDE DEF held
    <2>3. Append(held, row) = [j \in 1 .. (Len(held) + 1) |-> IF j = Len(held) + 1 THEN row ELSE held[j]]
      <3>1. Append(held, row) = [j \in 1 .. (Len(held) + 1) |-> IF j <= Len(held) THEN held[j] ELSE row]
        BY <2>1, <2>2
      <3> QED BY <2>1, <2>2, <3>1
    <2>4. [j \in 1 .. (Len(at) + 1) |-> IF j = Len(at) + 1 THEN row ELSE held[j]]
            = [j \in 1 .. (Len(at) + 1) |-> IF j = Len(at) + 1 THEN row ELSE HoldingAt(text, at[j])]
      <3>1. \A j \in 1 .. (Len(at) + 1) : j # Len(at) + 1 => held[j] = HoldingAt(text, at[j])
        BY <1>3, <2>2
      <3> QED BY <3>1
    <2> QED BY <2>2, <2>3, <2>4 DEF held
  <1> QED BY <1>10, <1>11 DEF row

HoldingsOver(C, O, V, N) == [class : C, of : O, value : V, named : N]

LEMMA SameHolding ==
  ASSUME NEW C, NEW O, NEW V, NEW N, NEW a \in HoldingsOver(C, O, V, N), NEW b \in HoldingsOver(C, O, V, N),
         a.class = b.class, a.of = b.of, a.value = b.value, a.named = b.named
  PROVE  a = b
  BY DEF HoldingsOver

LEMMA HoldingNamed ==
  ASSUME NEW class, NEW l, NEW named
  PROVE  [Holding(class, l, named) EXCEPT !.named = TRUE] = Holding(class, l, TRUE)
  <1> DEFINE R == HoldingsOver({class}, {l.of}, {l.amount}, {named, TRUE})
             row == Holding(class, l, named)
             other == Holding(class, l, TRUE)
             new == [row EXCEPT !.named = TRUE]
  <1>1. row \in R /\ other \in R /\ other.named = TRUE BY DEF Holding, HoldingsOver
  <1> HIDE DEF row, other
  <1>2. new \in R /\ new.named = TRUE BY <1>1 DEF HoldingsOver
  <1>3. new.class = other.class /\ new.of = other.of /\ new.value = other.value
    BY <1>1, <1>2 DEF HoldingsOver
  <1> HIDE DEF new, R
  <1>4. new = other BY ONLY <1>1, <1>2, <1>3, SameHolding DEF R
  <1> QED BY <1>4 DEF new, row, other

\* The name of the row before.
LastNamed(held, new) == held # <<>> /\ new = [held EXCEPT ![Len(held)].named = TRUE]

LEMMA HeldNamed ==
  ASSUME NEW text \in Seq(TextLines), NEW l \in TextLines, NEW new, new = Append(text, l), NEW I, Len(text) + 1 \notin I,
         l.k = "name", Len(text) \in I, text # <<>>
  PROVE  LastNamed(HeldAt(text, I), HeldAt(new, I))
  <1> DEFINE n == Len(text)
             held == HeldAt(text, I)
             before == Places(I, n - 1)
             at == Places(I, n)
             m == Len(at)
  <1>1. n \in Nat /\ n # 0 /\ Len(new) = n + 1 /\ new[n + 1] = l /\ DOMAIN new = 1 .. (n + 1) /\ \A i \in 1 .. n : new[i] = text[i]
    BY LongerText
  <1>2. at = Append(before, n) /\ before \in Seq(1 .. (n - 1)) /\ n - 1 \in Nat
    <2>1. n - 1 \in Nat /\ (n - 1) + 1 = n BY <1>1
    <2>2. Places(I, (n - 1) + 1) = IF (n - 1) + 1 \in I THEN Append(before, (n - 1) + 1) ELSE before
      BY <2>1, NextPlace
    <2>3. before \in Seq(1 .. (n - 1)) BY <2>1, PlacesAreNumbers
    <2> QED BY <2>1, <2>2, <2>3
  <1>3. Places(I, Len(new)) = at
    <2>1. Places(I, n + 1) = Places(I, n) BY <1>1, NextPlace
    <2> QED BY <1>1, <2>1
  <1> HIDE DEF at, before
  <1>4. /\ m \in Nat /\ m >= 1 /\ DOMAIN at = 1 .. m /\ at[m] = n
        /\ \A j \in 1 .. m : j # m => at[j] \in 1 .. (n - 1)
    <2>1. before \in Seq(Int) /\ n \in Int
      <3>1. 1 .. (n - 1) \subseteq Int OBVIOUS
      <3> QED BY <1>1, <1>2, <3>1
    <2>2. m = Len(before) + 1 /\ Len(before) \in Nat /\ at[Len(before) + 1] = n /\ DOMAIN at = 1 .. m
      BY <1>2, <2>1
    <2>3. \A j \in 1 .. Len(before) : at[j] = before[j] /\ before[j] \in 1 .. (n - 1) BY <1>2, <2>1
    <2> QED BY <2>2, <2>3
  <1>5. held = [j \in 1 .. m |-> HoldingAt(text, at[j])] /\ HeldAt(new, I) = [j \in 1 .. m |-> HoldingAt(new, at[j])]
    <2>1. HeldAt(text, I) = [j \in DOMAIN at |-> HoldingAt(text, at[j])] BY DEF HeldAt, at
    <2>2. HeldAt(new, I) = [j \in DOMAIN at |-> HoldingAt(new, at[j])] BY <1>3 DEF HeldAt
    <2> QED BY <1>4, <2>1, <2>2
  <1> HIDE DEF held, m
  <1>6. Len(held) = m /\ held # <<>> /\ DOMAIN held = 1 .. m
    <2>1. m \in Nat /\ m >= 1 /\ held = [j \in 1 .. m |-> HoldingAt(text, at[j])] BY <1>4, <1>5
    <2> QED BY ONLY <2>1
  <1>7. HoldingAt(new, n) = [HoldingAt(text, n) EXCEPT !.named = TRUE]
    <2>1. n \in 1 .. n /\ n + 1 \in DOMAIN new /\ new[n] = text[n] /\ new[n + 1].k = "name" BY <1>1
    <2>2. HoldingAt(new, n) = Holding(IF text[n].k = "stock" THEN "stock" ELSE "mutual_fund", text[n], TRUE)
      BY <2>1 DEF HoldingAt
    <2>3. PICK named \in BOOLEAN : HoldingAt(text, n) = Holding(IF text[n].k = "stock" THEN "stock" ELSE "mutual_fund", text[n], named)
      <3>1. (n + 1 \in DOMAIN text /\ text[n + 1].k = "name") \in BOOLEAN OBVIOUS
      <3> QED BY <3>1, Zenon DEF HoldingAt
    <2> DEFINE class == IF text[n].k = "stock" THEN "stock" ELSE "mutual_fund"
    <2>4. HoldingAt(new, n) = Holding(class, text[n], TRUE) /\ HoldingAt(text, n) = Holding(class, text[n], named)
      BY <2>2, <2>3
    <2> HIDE DEF class
    <2>5. [Holding(class, text[n], named) EXCEPT !.named = TRUE] = Holding(class, text[n], TRUE)
      BY ONLY HoldingNamed
    <2> QED BY ONLY <2>4, <2>5
  <1>8. \A j \in 1 .. m : j # m => HoldingAt(new, at[j]) = HoldingAt(text, at[j])
    <2> SUFFICES ASSUME NEW j \in 1 .. m, j # m PROVE HoldingAt(new, at[j]) = HoldingAt(text, at[j])
      OBVIOUS
    <2>1. at[j] \in 1 .. n /\ at[j] # n BY <1>1, <1>4
    <2> QED BY <2>1, HeldBefore
  <1>9. [held EXCEPT ![m].named = TRUE] = [j \in 1 .. m |-> IF j = m THEN [held[m] EXCEPT !.named = TRUE] ELSE held[j]]
    BY <1>4, <1>6
  <1>10. m \in 1 .. m BY <1>4
  <1>11. held[m] = HoldingAt(text, n) /\ \A j \in 1 .. m : held[j] = HoldingAt(text, at[j])
    BY <1>4, <1>5, <1>10
  <1>12. \A j \in 1 .. m : HoldingAt(new, at[j]) = IF j = m THEN [held[m] EXCEPT !.named = TRUE] ELSE held[j]
    BY <1>4, <1>7, <1>8, <1>11
  <1>13. HeldAt(new, I) = [held EXCEPT ![Len(held)].named = TRUE]
    <2>1. HeldAt(new, I) = [j \in 1 .. m |-> IF j = m THEN [held[m] EXCEPT !.named = TRUE] ELSE held[j]]
      BY <1>5, <1>12, Zenon
    <2> QED BY <1>6, <1>9, <2>1
  <1> QED BY <1>6, <1>13 DEF held, LastNamed

LEMMA BookedKept ==
  ASSUME NEW text \in Seq(TextLines), NEW l \in TextLines, NEW new, new = Append(text, l), NEW I, Len(text) + 1 \notin I
  PROVE  BookedAt(new, I) = BookedAt(text, I)
  <1> DEFINE at == Places(I, Len(text))
  <1>1. Len(text) \in Nat /\ Len(new) = Len(text) + 1 /\ \A i \in 1 .. Len(text) : new[i] = text[i]
    BY LongerText
  <1>2. Places(I, Len(new)) = at
    <2>1. Places(I, Len(text) + 1) = Places(I, Len(text)) BY <1>1, NextPlace
    <2> QED BY <1>1, <2>1
  <1>3. DOMAIN at = 1 .. Len(at) /\ \A j \in 1 .. Len(at) : at[j] \in 1 .. Len(text)
    BY <1>1, PlacesInside
  <1> HIDE DEF at
  <1>4. \A j \in DOMAIN at : new[at[j]] = text[at[j]] BY <1>1, <1>3
  <1> QED BY <1>2, <1>4 DEF BookedAt, at

LEMMA BookedMore ==
  ASSUME NEW text \in Seq(TextLines), NEW l \in TextLines, NEW new, new = Append(text, l), NEW I, Len(text) + 1 \in I
  PROVE  BookedAt(new, I) = Append(BookedAt(text, I), Booking(l.amount, l.saldo))
  <1> DEFINE at == Places(I, Len(text))
             n == Len(text) + 1
             row == Booking(l.amount, l.saldo)
             made(x) == Booking(x.amount, x.saldo)
             booked == BookedAt(text, I)
  <1>1. Len(text) \in Nat /\ Len(new) = n /\ new[n] = l /\ \A i \in 1 .. Len(text) : new[i] = text[i]
    BY LongerText
  <1>2. Places(I, Len(new)) = Append(at, n)
    <2>1. Places(I, Len(text) + 1) = Append(Places(I, Len(text)), Len(text) + 1) BY <1>1, NextPlace
    <2> QED BY <1>1, <2>1
  <1>3. /\ at \in Seq(Int) /\ Len(at) \in Nat /\ DOMAIN at = 1 .. Len(at) /\ n \in Int
        /\ \A j \in 1 .. Len(at) : at[j] \in 1 .. Len(text)
    BY <1>1, PlacesInside
  <1>4. booked = [j \in 1 .. Len(at) |-> made(text[at[j]])] BY <1>3 DEF BookedAt
  <1>5. BookedAt(new, I) = [j \in DOMAIN Append(at, n) |-> made(new[Append(at, n)[j]])]
    BY <1>2 DEF BookedAt
  <1> HIDE DEF at, n, booked
  <1>6. /\ DOMAIN Append(at, n) = 1 .. (Len(at) + 1) /\ Append(at, n)[Len(at) + 1] = n
        /\ \A j \in 1 .. Len(at) : Append(at, n)[j] = at[j]
    BY <1>3
  <1>7. \A j \in 1 .. (Len(at) + 1) : made(new[Append(at, n)[j]]) = IF j = Len(at) + 1 THEN row ELSE made(text[at[j]])
    <2> SUFFICES ASSUME NEW j \in 1 .. (Len(at) + 1)
                 PROVE  made(new[Append(at, n)[j]]) = IF j = Len(at) + 1 THEN row ELSE made(text[at[j]])
      OBVIOUS
    <2>1. CASE j = Len(at) + 1 BY <1>1, <1>6, <2>1
    <2>2. CASE j # Len(at) + 1
      <3>1. j \in 1 .. Len(at) BY <1>3, <2>2
      <3>2. new[Append(at, n)[j]] = text[at[j]] BY <1>1, <1>3, <1>6, <3>1
      <3> QED BY <2>2, <3>2
    <2> QED BY <2>1, <2>2
  <1> HIDE DEF made, row
  <1>8. BookedAt(new, I) = [j \in 1 .. (Len(at) + 1) |-> IF j = Len(at) + 1 THEN row ELSE made(text[at[j]])]
    BY <1>5, <1>6, <1>7
  <1>9. Len(booked) = Len(at) /\ \A j \in 1 .. Len(at) : booked[j] = made(text[at[j]]) BY <1>3, <1>4
  <1>10. Append(booked, row) = [j \in 1 .. (Len(at) + 1) |-> IF j = Len(at) + 1 THEN row ELSE made(text[at[j]])]
    <2>1. Append(booked, row) = [j \in 1 .. (Len(booked) + 1) |-> IF j <= Len(booked) THEN booked[j] ELSE row]
      <3>1. Len(at) \in Nat /\ booked = [j \in 1 .. Len(at) |-> made(text[at[j]])] BY <1>3, <1>4
      <3> QED BY ONLY <3>1
    <2>2. \A j \in 1 .. (Len(at) + 1) : (j <= Len(at) <=> j # Len(at) + 1) /\ (j # Len(at) + 1 => booked[j] = made(text[at[j]]))
      BY <1>3, <1>9
    <2> QED BY <1>9, <2>1, <2>2
  <1> QED BY <1>8, <1>10 DEF booked, row

(* Portfolios. The text of a statement of bank b, whose sheet is s. *)
(* The order of its lines, how far it has got, what amounts it shows and *)
(* that the securities and bookings of the sheet are those of the text. *)
RowsIn(text) == {i \in DOMAIN text : text[i].k \in {"stock", "fund"}}
SeenIn(text) == {i \in DOMAIN text : LossRow(text[i]) \/ GainRow(text[i])}
BookedIn(text) == {i \in DOMAIN text : text[i].k = "booking" /\ text[i].of # "Beginning Balance"}

\* What may follow a line anywhere below, and right below.
Before(b, above, below) ==
  /\ above = "funds" => below \notin {"stocks", "stock", "funds"}
  /\ above = "stocks" => below # "stocks"
  /\ below \in {"cash", "booking", "balance"} => above \in {"cash", "booking"}
  /\ b = "Stockbit" /\ above = "total" => below \notin {"stock", "name"}
NextTo(b, above, below) ==
  /\ above = "stock" => below \in {"stock", "total"} \/ (below = "name" /\ b \in {"Stockbit", "BNI old"})
  /\ above = "fund" => below \in {"fund", "total"} \/ (below = "name" /\ b \in {"BNI", "BNI old"})
HeadOf(b, k) ==
  CASE k = "stock" -> "stocks" [] k = "fund" -> "funds" [] k = "total" /\ b = "Stockbit" -> "stocks" [] OTHER -> k
HasKind(text, k) == \E i \in DOMAIN text : text[i].k = k

TextRight(b, text) ==
  /\ text \in Seq(TextLines)
  /\ \A i \in DOMAIN text, j \in DOMAIN text : i < j => Before(b, text[i].k, text[j].k)
  /\ \A i \in DOMAIN text : i + 1 \in DOMAIN text => NextTo(b, text[i].k, text[i + 1].k)
  /\ \A i \in DOMAIN text : \E h \in 1 .. i : text[h].k = HeadOf(b, text[i].k)
  /\ b # "Stockbit" /\ text # <<>> => text[1].k = "cash"

StockPart == {"stocks", "stock", "stock name"}
FundPart == {"funds", "fund", "fund name"}
Progress(b, k, of, text) ==
  /\ k \in {"start", "cash"} => of = 0 /\ \A i \in DOMAIN text : text[i].k \in {"cash", "booking"}
  /\ (k = "start") => text = <<>>
  /\ k = "cash" => text # <<>>
  /\ k \notin {"start", "cash"} => HasKind(text, "balance")
  /\ k \in StockPart => HasKind(text, "stocks") /\ ~ HasKind(text, "funds") /\ (b = "Stockbit" => ~ HasKind(text, "total"))
  /\ k \in FundPart => HasKind(text, "funds") /\ b # "Stockbit"
  /\ k \in {"stock", "fund"} => text # <<>> /\ text[Len(text)].k = k
  /\ text # <<>> => (text[Len(text)].k \in {"stock", "fund"} => k = text[Len(text)].k)
  /\ k # "totals" => ~ HasKind(text, "assets") /\ ~ HasKind(text, "net of funds")
  /\ b = "IPOT statement" => k \in {"start", "cash", "totals"}
  /\ k = "totals" /\ b # "IPOT statement" =>
       HasKind(text, IF b = "IPOT portfolio" /\ of > 0 THEN "net of funds" ELSE "assets")

MoneyRight(b, of, saldo, worth, text) ==
  /\ saldo \in Int /\ of \in Nat /\ (b # "IPOT portfolio" => of = 0)
  /\ \A i \in DOMAIN text :
       /\ text[i].k = "balance" => text[i].amount = saldo + of
       /\ text[i].k = "net of funds" => text[i].amount = saldo /\ b = "IPOT portfolio" /\ of > 0
       /\ text[i].k = "assets" => text[i].amount = saldo + worth

\* Either every row can be recognised in the old layout or the others are worth more than the tolerance.
AssetsKnown(worth, text) ==
  LET found == WorthOf(HeldAt(text, SeenIn(text)))
  IN /\ worth \in Int /\ found \in Int
     /\ RowsIn(text) \subseteq SeenIn(text) \/ found + Tolerance < worth

ListsKept(b, rows, booked, text) ==
  /\ rows = HeldAt(text, RowsIn(text))
  /\ booked = BookedAt(text, BookedIn(text))
  /\ b \notin {"BNI", "IPOT statement"} => booked = <<>>
  /\ b = "IPOT statement" => rows = <<>>
  /\ b = "Stockbit" => ~ HasKind(text, "fund")

Printing(b, s) ==
  /\ b \in Brokers /\ DOMAIN s = SheetFields /\ s.k # "closed"
  /\ TextRight(b, s.text)
  /\ Progress(b, s.k, s.of, s.text)
  /\ MoneyRight(b, s.of, s.saldo, WorthOf(s.rows), s.text)
  /\ AssetsKnown(WorthOf(s.rows), s.text)
  /\ ListsKept(b, s.rows, s.booked, s.text)

PortfolioInv ==
  \/ Printing(bank, sheet) /\ read = NewRead
  \/ bank \in Brokers /\ sheet.k = "closed" /\ HoldingsReadAsPrinted /\ CashReadAsPrinted

LEMMA LineTyped ==
  ASSUME NEW k \in TextKinds
  PROVE  Line(k) \in TextLines /\ Line(k).k = k /\ Line(k).of = Blank /\ Line(k).amount = 0 /\ Line(k).whole = TRUE
  BY DEF Line, TextLines

LEMMA LineOf ==
  ASSUME NEW l \in TextLines, NEW of \in Securities \cup {Blank, "Beginning Balance"}, NEW new, new = [l EXCEPT !.of = of]
  PROVE  new \in TextLines /\ new.of = of /\ new.k = l.k /\ new.amount = l.amount /\ new.saldo = l.saldo /\ new.whole = l.whole
  BY DEF TextLines

LEMMA LineAmount ==
  ASSUME NEW l \in TextLines, NEW amount \in Int, NEW new, new = [l EXCEPT !.amount = amount]
  PROVE  new \in TextLines /\ new.amount = amount /\ new.k = l.k /\ new.of = l.of /\ new.saldo = l.saldo /\ new.whole = l.whole
  BY DEF TextLines

LEMMA TextGrows ==
  ASSUME NEW b, NEW text, TextRight(b, text), NEW l \in TextLines, NEW new, new = Append(text, l),
         \A i \in DOMAIN text : Before(b, text[i].k, l.k),
         text # <<>> => NextTo(b, text[Len(text)].k, l.k),
         HeadOf(b, l.k) = l.k \/ HasKind(text, HeadOf(b, l.k)),
         b # "Stockbit" /\ text = <<>> => l.k = "cash"
  PROVE  TextRight(b, new)
  <1>1. text \in Seq(TextLines) BY DEF TextRight
  <1>2. /\ new \in Seq(TextLines) /\ Len(text) \in Nat /\ Len(new) = Len(text) + 1 /\ new[Len(text) + 1] = l
        /\ \A i \in 1 .. Len(text) : new[i] = text[i]
        /\ DOMAIN text = 1 .. Len(text) /\ DOMAIN new = 1 .. (Len(text) + 1)
    BY <1>1, LongerText
  <1>3. Len(text) \in Nat /\ \A i \in 1 .. (Len(text) + 1) : i \in 1 .. Len(text) \/ i = Len(text) + 1
    BY <1>2
  <1>4. \A i \in DOMAIN new, j \in DOMAIN new : i < j => Before(b, new[i].k, new[j].k)
    <2> SUFFICES ASSUME NEW i \in 1 .. (Len(text) + 1), NEW j \in 1 .. (Len(text) + 1), i < j PROVE Before(b, new[i].k, new[j].k)
      BY <1>2
    <2>1. i \in 1 .. Len(text) BY <1>3
    <2>2. CASE j = Len(text) + 1 BY <1>2, <2>1, <2>2
    <2>3. CASE j \in 1 .. Len(text)
      <3>1. Before(b, text[i].k, text[j].k) BY <1>2, <2>1, <2>3 DEF TextRight
      <3> QED BY <1>2, <2>1, <2>3, <3>1
    <2> QED BY <1>3, <2>2, <2>3
  <1>5. \A i \in DOMAIN new : i + 1 \in DOMAIN new => NextTo(b, new[i].k, new[i + 1].k)
    <2> SUFFICES ASSUME NEW i \in 1 .. (Len(text) + 1), i + 1 \in 1 .. (Len(text) + 1) PROVE NextTo(b, new[i].k, new[i + 1].k)
      BY <1>2
    <2>1. i \in 1 .. Len(text) BY <1>3
    <2>2. CASE i = Len(text)
      <3>1. text # <<>> BY <1>2, <2>1
      <3> QED BY <1>2, <2>1, <2>2, <3>1
    <2>3. CASE i # Len(text)
      <3>1. i + 1 \in 1 .. Len(text)
        <4>1. Len(text) \in Nat /\ i \in 1 .. Len(text) /\ i # Len(text) BY <1>2, <2>1, <2>3
        <4> QED BY ONLY <4>1
      <3>2. NextTo(b, text[i].k, text[i + 1].k) BY <1>2, <2>1, <3>1 DEF TextRight
      <3> QED BY <1>2, <2>1, <3>1, <3>2
    <2> QED BY <2>2, <2>3
  <1>6. \A i \in DOMAIN new : \E h \in 1 .. i : new[h].k = HeadOf(b, new[i].k)
    <2> SUFFICES ASSUME NEW i \in 1 .. (Len(text) + 1) PROVE \E h \in 1 .. i : new[h].k = HeadOf(b, new[i].k)
      BY <1>2
    <2>1. CASE i \in 1 .. Len(text)
      <3>1. PICK h \in 1 .. i : text[h].k = HeadOf(b, text[i].k) BY <1>2, <2>1 DEF TextRight
      <3>2. h \in 1 .. Len(text) BY <1>2, <2>1
      <3> QED BY <1>2, <2>1, <3>1, <3>2
    <2>2. CASE i = Len(text) + 1
      <3>1. CASE HeadOf(b, l.k) = l.k
        <4>1. i \in 1 .. i /\ new[i].k = HeadOf(b, new[i].k) BY <1>2, <2>2, <3>1
        <4> QED BY ONLY <4>1
      <3>2. CASE HasKind(text, HeadOf(b, l.k))
        <4>1. PICK h \in 1 .. Len(text) : text[h].k = HeadOf(b, l.k) BY <1>2, <3>2 DEF HasKind
        <4>2. h \in 1 .. i BY <1>2, <2>2
        <4> QED BY <1>2, <2>2, <4>1, <4>2
      <3> QED BY <3>1, <3>2
    <2> QED BY <1>3, <2>1, <2>2
  <1>7. b # "Stockbit" => new[1].k = "cash"
    <2>1. CASE text = <<>>
      <3>1. Len(text) = 0 BY <2>1
      <3> QED BY <1>2, <2>1, <3>1
    <2>2. CASE text # <<>>
      <3>1. 1 \in 1 .. Len(text) BY <1>1, <2>2
      <3> QED BY <1>2, <2>2, <3>1 DEF TextRight
    <2> QED BY <2>1, <2>2
  <1> QED BY <1>2, <1>4, <1>5, <1>6, <1>7 DEF TextRight

KindsOutcome(text, l, new) ==
  /\ \A k : HasKind(new, k) <=> HasKind(text, k) \/ l.k = k
  /\ new # <<>> /\ new[Len(new)] = l
  /\ (\A i \in DOMAIN text : text[i].k \in {"cash", "booking"}) /\ l.k \in {"cash", "booking"} =>
       \A i \in DOMAIN new : new[i].k \in {"cash", "booking"}

LEMMA KindsGrow ==
  ASSUME NEW b, NEW text, TextRight(b, text), NEW l \in TextLines, NEW new, new = Append(text, l)
  PROVE  KindsOutcome(text, l, new)
  <1>1. text \in Seq(TextLines) BY DEF TextRight
  <1>2. /\ new \in Seq(TextLines) /\ Len(text) \in Nat /\ Len(new) = Len(text) + 1 /\ new[Len(text) + 1] = l
        /\ \A i \in 1 .. Len(text) : new[i] = text[i]
        /\ DOMAIN text = 1 .. Len(text) /\ DOMAIN new = 1 .. (Len(text) + 1)
    BY <1>1, LongerText
  <1>3. Len(text) \in Nat /\ \A i \in 1 .. (Len(text) + 1) : i \in 1 .. Len(text) \/ i = Len(text) + 1
    BY <1>2
  <1>4. Len(text) + 1 \in 1 .. (Len(text) + 1) /\ \A i \in 1 .. Len(text) : i \in 1 .. (Len(text) + 1)
    BY <1>3
  <1>5. \A k : HasKind(new, k) <=> HasKind(text, k) \/ l.k = k BY <1>2, <1>3, <1>4 DEF HasKind
  <1>6. new # <<>> BY <1>1
  <1>7. (\A i \in DOMAIN text : text[i].k \in {"cash", "booking"}) /\ l.k \in {"cash", "booking"} =>
          \A i \in DOMAIN new : new[i].k \in {"cash", "booking"}
    BY <1>2, <1>3
  <1> QED BY <1>2, <1>5, <1>6, <1>7 DEF KindsOutcome

HeldClasses == {"stock", "mutual_fund"}
AnyHolding == HoldingsOver(HeldClasses, Securities \cup {Blank, "Beginning Balance"}, Int, BOOLEAN)

LEMMA ClassesAreWords ==
  \A k : (IF k = "stock" THEN "stock" ELSE "mutual_fund") \in HeldClasses
  BY DEF HeldClasses

LEMMA HoldingMade ==
  ASSUME NEW l \in TextLines, NEW class \in HeldClasses, NEW named \in BOOLEAN
  PROVE  Holding(class, l, named) \in AnyHolding /\ Holding(class, l, named).value = l.amount
  BY DEF Holding, AnyHolding, HoldingsOver, TextLines

LEMMA HeldIsHeld ==
  ASSUME NEW text \in Seq(TextLines), NEW I, I \subseteq DOMAIN text
  PROVE  HeldAt(text, I) \in Seq(AnyHolding)
  <1> DEFINE at == Places(I, Len(text))
             held == HeldAt(text, I)
  <1>1. Len(text) \in Nat /\ DOMAIN text = 1 .. Len(text) OBVIOUS
  <1>2. Len(at) \in Nat /\ \A j \in 1 .. Len(at) : at[j] \in 1 .. Len(text) BY <1>1, PlacesInside
  <1>3. held = [j \in 1 .. Len(at) |-> HoldingAt(text, at[j])]
    <2>1. DOMAIN at = 1 .. Len(at) BY <1>1, PlacesInside
    <2> QED BY <2>1 DEF HeldAt
  <1>4. \A j \in 1 .. Len(at) : HoldingAt(text, at[j]) \in AnyHolding
    <2> SUFFICES ASSUME NEW j \in 1 .. Len(at) PROVE HoldingAt(text, at[j]) \in AnyHolding
      OBVIOUS
    <2>1. text[at[j]] \in TextLines BY <1>1, <1>2
    <2> DEFINE class == IF text[at[j]].k = "stock" THEN "stock" ELSE "mutual_fund"
               named == at[j] + 1 \in DOMAIN text /\ text[at[j] + 1].k = "name"
    <2>2. class \in HeldClasses BY ONLY ClassesAreWords
    <2>4. named \in BOOLEAN BY Zenon
    <2>3. HoldingAt(text, at[j]) = Holding(class, text[at[j]], named) BY DEF HoldingAt
    <2> HIDE DEF class, named
    <2> QED BY <2>1, <2>2, <2>3, <2>4, HoldingMade
  <1> HIDE DEF at, held
  <1>5. held \in Seq(AnyHolding) BY <1>2, <1>3, <1>4
  <1> QED BY <1>5 DEF held

LEMMA SetsGrow ==
  ASSUME NEW text \in Seq(TextLines), NEW l \in TextLines, NEW new, new = Append(text, l)
  PROVE  /\ \A i \in 1 .. Len(text) : /\ i \in RowsIn(new) <=> i \in RowsIn(text)
                                      /\ i \in SeenIn(new) <=> i \in SeenIn(text)
                                      /\ i \in BookedIn(new) <=> i \in BookedIn(text)
         /\ Len(text) + 1 \in RowsIn(new) <=> l.k \in {"stock", "fund"}
         /\ Len(text) + 1 \in SeenIn(new) <=> LossRow(l) \/ GainRow(l)
         /\ Len(text) + 1 \in BookedIn(new) <=> l.k = "booking" /\ l.of # "Beginning Balance"
         /\ RowsIn(new) \subseteq 1 .. (Len(text) + 1) /\ SeenIn(new) \subseteq 1 .. (Len(text) + 1)
         /\ RowsIn(text) \subseteq 1 .. Len(text) /\ SeenIn(text) \subseteq 1 .. Len(text) /\ SeenIn(text) \subseteq RowsIn(text)
  <1>1. /\ new \in Seq(TextLines) /\ Len(text) \in Nat /\ Len(new) = Len(text) + 1 /\ new[Len(text) + 1] = l
        /\ \A i \in 1 .. Len(text) : new[i] = text[i]
        /\ DOMAIN text = 1 .. Len(text) /\ DOMAIN new = 1 .. (Len(text) + 1)
    BY LongerText
  <1>2. Len(text) + 1 \in 1 .. (Len(text) + 1) /\ \A i \in 1 .. Len(text) : i \in 1 .. (Len(text) + 1)
    <2>1. Len(text) \in Nat BY <1>1
    <2> QED BY ONLY <2>1
  <1>3. SeenIn(text) \subseteq RowsIn(text) BY DEF SeenIn, RowsIn, LossRow, GainRow
  <1>4. \A i \in 1 .. Len(text) : /\ i \in RowsIn(new) <=> i \in RowsIn(text)
                                  /\ i \in SeenIn(new) <=> i \in SeenIn(text)
                                  /\ i \in BookedIn(new) <=> i \in BookedIn(text)
    BY <1>1, <1>2 DEF SeenIn, RowsIn, BookedIn
  <1>5. /\ Len(text) + 1 \in RowsIn(new) <=> l.k \in {"stock", "fund"}
        /\ Len(text) + 1 \in SeenIn(new) <=> LossRow(l) \/ GainRow(l)
        /\ Len(text) + 1 \in BookedIn(new) <=> l.k = "booking" /\ l.of # "Beginning Balance"
    BY <1>1, <1>2 DEF SeenIn, RowsIn, BookedIn
  <1> QED BY <1>1, <1>3, <1>4, <1>5 DEF SeenIn, RowsIn

\* The lists that a text holds after one more line.
ListsOutcome(text, l, new) ==
  LET rows == HeldAt(text, RowsIn(text))
      more == HeldAt(new, RowsIn(new))
      booked == BookedAt(text, BookedIn(text))
  IN /\ l.k \notin {"stock", "fund", "name"} => more = rows
     /\ l.k \in {"stock", "fund"} => more = Append(rows, Holding(IF l.k = "stock" THEN "stock" ELSE "mutual_fund", l, FALSE))
     /\ l.k = "name" /\ text # <<>> /\ text[Len(text)].k \in {"stock", "fund"} => LastNamed(rows, more)
     /\ BookedAt(new, BookedIn(new)) =
          IF l.k = "booking" /\ l.of # "Beginning Balance" THEN Append(booked, Booking(l.amount, l.saldo)) ELSE booked

LEMMA ListsGrow ==
  ASSUME NEW text \in Seq(TextLines), NEW l \in TextLines, NEW new, new = Append(text, l)
  PROVE  ListsOutcome(text, l, new)
  <1> DEFINE I == RowsIn(new)
             B == BookedIn(new)
  <1>1. Len(text) \in Nat OBVIOUS
  <1>2. HeldAt(text, I) = HeldAt(text, RowsIn(text))
    <2>1. \A i \in 1 .. Len(text) : i \in I <=> i \in RowsIn(text) BY SetsGrow
    <2> QED BY ONLY <1>1, <2>1, HeldSame
  <1>3. BookedAt(text, B) = BookedAt(text, BookedIn(text))
    <2>1. \A i \in 1 .. Len(text) : i \in B <=> i \in BookedIn(text) BY SetsGrow
    <2> QED BY ONLY <1>1, <2>1, BookedSame
  <1>4. /\ Len(text) + 1 \in I <=> l.k \in {"stock", "fund"}
        /\ Len(text) + 1 \in B <=> l.k = "booking" /\ l.of # "Beginning Balance"
    BY SetsGrow
  <1>5. text # <<>> /\ text[Len(text)].k \in {"stock", "fund"} => Len(text) \in I
    <2> SUFFICES ASSUME text # <<>>, text[Len(text)].k \in {"stock", "fund"} PROVE Len(text) \in I
      OBVIOUS
    <2>1. Len(text) \in 1 .. Len(text) /\ Len(text) \in DOMAIN text OBVIOUS
    <2>2. Len(text) \in RowsIn(text) BY <2>1 DEF RowsIn
    <2> QED BY <2>1, <2>2, SetsGrow
  <1> HIDE DEF I, B
  <1>6. l.k \notin {"stock", "fund", "name"} => HeldAt(new, I) = HeldAt(text, RowsIn(text))
    <2> SUFFICES ASSUME l.k \notin {"stock", "fund", "name"} PROVE HeldAt(new, I) = HeldAt(text, RowsIn(text))
      OBVIOUS
    <2>1. Aside(text, l, I) BY <1>4 DEF Aside
    <2>2. HeldAt(new, I) = HeldAt(text, I)
      BY ONLY <2>1, text \in Seq(TextLines), l \in TextLines, new = Append(text, l), HeldKept
    <2> QED BY <1>2, <2>2
  <1>7. l.k \in {"stock", "fund"} =>
          HeldAt(new, I) = Append(HeldAt(text, RowsIn(text)), Holding(IF l.k = "stock" THEN "stock" ELSE "mutual_fund", l, FALSE))
    <2> SUFFICES ASSUME l.k \in {"stock", "fund"}
                 PROVE  HeldAt(new, I) = Append(HeldAt(text, RowsIn(text)), Holding(IF l.k = "stock" THEN "stock" ELSE "mutual_fund", l, FALSE))
      OBVIOUS
    <2>1. Len(text) + 1 \in I /\ l.k # "name" BY <1>4
    <2>2. HeldAt(new, I) = Append(HeldAt(text, I), Holding(IF l.k = "stock" THEN "stock" ELSE "mutual_fund", l, FALSE))
      BY <2>1, HeldMore
    <2> QED BY <1>2, <2>2
  <1>8. ASSUME l.k = "name", text # <<>>, text[Len(text)].k \in {"stock", "fund"}
        PROVE  LastNamed(HeldAt(text, RowsIn(text)), HeldAt(new, I))
    <2>1. Len(text) + 1 \notin I /\ Len(text) \in I BY <1>4, <1>5, <1>8
    <2>2. LastNamed(HeldAt(text, I), HeldAt(new, I))
      BY ONLY <1>8, <2>1, text \in Seq(TextLines), l \in TextLines, new = Append(text, l), HeldNamed
    <2> QED BY <1>2, <2>2
  <1>9. BookedAt(new, B) = IF l.k = "booking" /\ l.of # "Beginning Balance" THEN Append(BookedAt(text, BookedIn(text)), Booking(l.amount, l.saldo))
                           ELSE BookedAt(text, BookedIn(text))
    <2>1. CASE Len(text) + 1 \in B
      <3>1. BookedAt(new, B) = Append(BookedAt(text, B), Booking(l.amount, l.saldo))
        BY <2>1, BookedMore
      <3> QED BY <1>3, <1>4, <2>1, <3>1
    <2>2. CASE Len(text) + 1 \notin B
      <3>1. BookedAt(new, B) = BookedAt(text, B) BY <2>2, BookedKept
      <3> QED BY <1>3, <1>4, <2>2, <3>1
    <2> QED BY <2>1, <2>2
  <1> QED BY <1>6, <1>7, <1>8, <1>9 DEF ListsOutcome, I, B

LEMMA NamedWorth ==
  ASSUME NEW h \in Seq(AnyHolding), h # <<>>, NEW new, new = [h EXCEPT ![Len(h)].named = TRUE]
  PROVE  WorthOf(new) = WorthOf(h)
  <1> DEFINE n == Len(h)
             row == [h[n] EXCEPT !.named = TRUE]
  <1>1. n \in Nat /\ n \in 1 .. n /\ n \in DOMAIN h /\ h[n] \in AnyHolding OBVIOUS
  <1>2. row \in AnyHolding /\ row.value = h[n].value BY <1>1 DEF AnyHolding, HoldingsOver
  <1>3. new = [h EXCEPT ![n] = row] OBVIOUS
  <1> HIDE DEF row
  <1>4. /\ new \in Seq(AnyHolding) /\ Len(new) = n
        /\ \A j \in 1 .. n : new[j] = IF j = n THEN row ELSE h[j]
    BY ONLY <1>1, <1>2, <1>3, h \in Seq(AnyHolding), ExceptSeq
  <1>5. \A j \in 1 .. n : new[j].value = h[j].value BY <1>2, <1>4
  <1>6. Len(new) = Len(h) /\ \A j \in 1 .. Len(new) : new[j].value = h[j].value BY <1>4, <1>5
  <1> QED BY ONLY <1>4, <1>6, h \in Seq(AnyHolding), WorthAlike

LEMMA AssetsGrow ==
  ASSUME NEW text \in Seq(TextLines), NEW l \in TextLines, NEW new, new = Append(text, l),
         AssetsKnown(WorthOf(HeldAt(text, RowsIn(text))), text),
         l.k = "name" => text # <<>> /\ text[Len(text)].k \in {"stock", "fund"},
         l.k \in {"stock", "fund"} => l.amount > Tolerance
  PROVE  /\ AssetsKnown(WorthOf(HeldAt(new, RowsIn(new))), new)
         /\ l.k \notin {"stock", "fund"} => WorthOf(HeldAt(new, RowsIn(new))) = WorthOf(HeldAt(text, RowsIn(text)))
  <1> DEFINE rows == HeldAt(text, RowsIn(text))
             more == HeldAt(new, RowsIn(new))
             seen == HeldAt(text, SeenIn(text))
             S == SeenIn(new)
             now == HeldAt(new, S)
  <1>1. Len(text) \in Nat /\ DOMAIN text = 1 .. Len(text) OBVIOUS
  <1>2. SeenIn(text) \subseteq RowsIn(text) /\ RowsIn(text) \subseteq DOMAIN text /\ SeenIn(text) \subseteq DOMAIN text
    BY <1>1, SetsGrow
  <1>3. rows \in Seq(AnyHolding) /\ seen \in Seq(AnyHolding) BY <1>2, HeldIsHeld
  <1>4. HeldAt(text, S) = seen
    <2>1. \A i \in 1 .. Len(text) : i \in S <=> i \in SeenIn(text) BY SetsGrow
    <2> QED BY ONLY <1>1, <2>1, HeldSame
  <1>5. Len(text) + 1 \in S <=> LossRow(l) \/ GainRow(l) BY SetsGrow
  <1>6. /\ WorthOf(rows) \in Int /\ WorthOf(seen) \in Int
        /\ RowsIn(text) \subseteq SeenIn(text) \/ WorthOf(seen) + Tolerance < WorthOf(rows)
    BY DEF AssetsKnown
  <1>7. RowsIn(text) \subseteq SeenIn(text) => WorthOf(seen) = WorthOf(rows)
    <2> SUFFICES ASSUME RowsIn(text) \subseteq SeenIn(text) PROVE WorthOf(seen) = WorthOf(rows)
      OBVIOUS
    <2>1. RowsIn(text) = SeenIn(text) BY <1>2
    <2> QED BY <2>1
  <1>8. ListsOutcome(text, l, new) BY ListsGrow
  <1>9. Tolerance \in Nat /\ l.amount \in Int BY PortfolioAssumption DEF TextLines
  <1> HIDE DEF S, now, seen, rows, more
  <1>10. CASE l.k \notin {"stock", "fund", "name"}
    <2>1. more = rows BY <1>8, <1>10 DEF ListsOutcome, more, rows
    <2>2. Len(text) + 1 \notin S BY <1>5, <1>10 DEF LossRow, GainRow
    <2>3. now = seen
      <3>1. HeldAt(new, S) = HeldAt(text, S)
        <4>1. Aside(text, l, S) BY <1>10, <2>2 DEF Aside
        <4> QED BY ONLY <4>1, text \in Seq(TextLines), l \in TextLines, new = Append(text, l), HeldKept
      <3> QED BY <1>4, <3>1 DEF now
    <2>4. RowsIn(text) \subseteq SeenIn(text) => RowsIn(new) \subseteq SeenIn(new)
      <3>1. \A i \in RowsIn(new) : i \in 1 .. Len(text)
        <4>1. \A i \in 1 .. (Len(text) + 1) : i \in 1 .. Len(text) \/ i = Len(text) + 1 BY <1>1
        <4>2. RowsIn(new) \subseteq 1 .. (Len(text) + 1) /\ Len(text) + 1 \notin RowsIn(new)
          BY <1>10, SetsGrow
        <4> QED BY ONLY <4>1, <4>2
      <3> QED BY <3>1, SetsGrow
    <2> QED BY <1>6, <1>10, <2>1, <2>3, <2>4 DEF AssetsKnown, now, S, more, rows
  <1>11. CASE l.k \in {"stock", "fund"}
    <2> DEFINE row == Holding(IF l.k = "stock" THEN "stock" ELSE "mutual_fund", l, FALSE)
    <2>1. more = Append(rows, row) BY <1>8, <1>11 DEF ListsOutcome, more, rows
    <2>2. row \in AnyHolding /\ row.value = l.amount
      <3> DEFINE class == IF l.k = "stock" THEN "stock" ELSE "mutual_fund"
      <3>1. class \in HeldClasses BY ONLY ClassesAreWords
      <3>2. row = Holding(class, l, FALSE) OBVIOUS
      <3> HIDE DEF class, row
      <3> QED BY <3>1, <3>2, HoldingMade
    <2>3. WorthOf(more) = WorthOf(rows) + l.amount
      <3> HIDE DEF row
      <3> QED BY <1>3, <2>1, <2>2, WorthMore
    <2>4. CASE Len(text) + 1 \in S
      <3>1. now = Append(seen, row)
        <4>1. HeldAt(new, S) = Append(HeldAt(text, S), row) BY <1>11, <2>4, HeldMore
        <4> QED BY <1>4, <4>1 DEF now
      <3>2. WorthOf(now) = WorthOf(seen) + l.amount
        <4> HIDE DEF row
        <4> QED BY <1>3, <2>2, <3>1, WorthMore
      <3>3. RowsIn(text) \subseteq SeenIn(text) => RowsIn(new) \subseteq SeenIn(new)
        <4>1. \A i \in RowsIn(new) : i \in 1 .. Len(text) \/ i = Len(text) + 1
          <5>1. \A i \in 1 .. (Len(text) + 1) : i \in 1 .. Len(text) \/ i = Len(text) + 1 BY <1>1
          <5> QED BY <5>1, SetsGrow
        <4> QED BY <2>4, <4>1, SetsGrow DEF S
      <3>4. /\ WorthOf(more) \in Int /\ WorthOf(now) \in Int
            /\ WorthOf(seen) + Tolerance < WorthOf(rows) => WorthOf(now) + Tolerance < WorthOf(more)
        <4> HIDE DEF row
        <4> QED BY <1>6, <1>9, <2>3, <3>2
      <3> QED BY <1>6, <1>11, <3>3, <3>4 DEF AssetsKnown, now, S, more, rows
    <2>5. CASE Len(text) + 1 \notin S
      <3>1. now = seen
        <4>1. HeldAt(new, S) = HeldAt(text, S)
          <5>1. Aside(text, l, S) BY <1>11, <2>5 DEF Aside
          <5> QED BY ONLY <5>1, text \in Seq(TextLines), l \in TextLines, new = Append(text, l), HeldKept
        <4> QED BY <1>4, <4>1 DEF now
      <3>2. WorthOf(now) + Tolerance < WorthOf(more) /\ WorthOf(more) \in Int /\ WorthOf(now) \in Int
        <4>1. WorthOf(seen) = WorthOf(rows) \/ WorthOf(seen) + Tolerance < WorthOf(rows)
          BY <1>6, <1>7
        <4>2. l.amount > Tolerance BY <1>11
        <4> HIDE DEF row
        <4> QED BY <1>6, <1>9, <2>3, <3>1, <4>1, <4>2
      <3> QED BY <1>11, <3>2 DEF AssetsKnown, now, S, more, rows
    <2> QED BY <2>4, <2>5
  <1>12. CASE l.k = "name"
    <2>1. text # <<>> /\ text[Len(text)].k \in {"stock", "fund"} /\ Len(text) \in 1 .. Len(text) /\ Len(text) \in RowsIn(text)
      BY <1>12 DEF RowsIn
    <2>2. LastNamed(rows, more) BY <1>8, <1>12, <2>1 DEF ListsOutcome, more, rows
    <2>4. WorthOf(more) = WorthOf(rows) BY <1>3, <2>2, NamedWorth DEF LastNamed
    <2>5. Len(text) + 1 \notin S BY <1>5, <1>12 DEF LossRow, GainRow
    <2>6. WorthOf(now) = WorthOf(seen)
      <3>1. CASE Len(text) \in S
        <4>1. LastNamed(HeldAt(text, S), HeldAt(new, S))
          BY ONLY <1>12, <2>1, <2>5, <3>1, text \in Seq(TextLines), l \in TextLines, new = Append(text, l), HeldNamed
        <4>2. seen # <<>> /\ now = [seen EXCEPT ![Len(seen)].named = TRUE]
          BY <1>4, <4>1 DEF now, LastNamed
        <4> QED BY <1>3, <4>2, NamedWorth
      <3>2. CASE Len(text) \notin S
        <4>1. HeldAt(new, S) = HeldAt(text, S)
          <5>1. Aside(text, l, S) BY <2>5, <3>2 DEF Aside
          <5> QED BY ONLY <5>1, text \in Seq(TextLines), l \in TextLines, new = Append(text, l), HeldKept
        <4> QED BY <1>4, <4>1 DEF now
      <3> QED BY <3>1, <3>2
    <2>7. RowsIn(text) \subseteq SeenIn(text) => RowsIn(new) \subseteq SeenIn(new)
      <3>1. \A i \in RowsIn(new) : i \in 1 .. Len(text)
        <4>1. \A i \in 1 .. (Len(text) + 1) : i \in 1 .. Len(text) \/ i = Len(text) + 1 BY <1>1
        <4>2. RowsIn(new) \subseteq 1 .. (Len(text) + 1) /\ Len(text) + 1 \notin RowsIn(new)
          BY <1>12, SetsGrow
        <4> QED BY ONLY <4>1, <4>2
      <3> QED BY <3>1, SetsGrow
    <2> QED BY <1>6, <1>12, <2>4, <2>6, <2>7 DEF AssetsKnown, now, S, more, rows
  <1> QED BY <1>10, <1>11, <1>12

LineRight(b, text, l) ==
  /\ l \in TextLines
  /\ \A i \in DOMAIN text : Before(b, text[i].k, l.k)
  /\ text # <<>> => NextTo(b, text[Len(text)].k, l.k)
  /\ HeadOf(b, l.k) = l.k \/ HasKind(text, HeadOf(b, l.k))
  /\ b # "Stockbit" /\ text = <<>> => l.k = "cash"

RowsStep(rows, l, new) ==
  /\ l.k \notin {"stock", "fund", "name"} => new = rows
  /\ l.k \in {"stock", "fund"} =>
       new = Append(rows, Holding(IF l.k = "stock" THEN "stock" ELSE "mutual_fund", l, FALSE)) /\ l.amount > Tolerance
  /\ l.k = "name" => new = [rows EXCEPT ![Len(rows)].named = TRUE]
BookedStep(booked, l, new) ==
  new = IF l.k = "booking" /\ l.of # "Beginning Balance" THEN Append(booked, Booking(l.amount, l.saldo)) ELSE booked

MoneyStep(b, s, l, new) ==
  /\ new.saldo \in Int /\ new.of \in Nat /\ (b # "IPOT portfolio" => new.of = 0)
  /\ \/ new.saldo = s.saldo /\ new.of = s.of
     \/ \A i \in DOMAIN s.text : s.text[i].k \notin {"balance", "net of funds", "assets"}
  /\ l.k = "balance" => l.amount = new.saldo + new.of
  /\ l.k = "net of funds" => l.amount = new.saldo /\ b = "IPOT portfolio" /\ new.of > 0
  /\ l.k = "assets" => l.amount = new.saldo + WorthOf(s.rows)
  /\ l.k \in {"stock", "fund"} => ~ HasKind(s.text, "assets")

LEMMA MoneyKept ==
  ASSUME NEW b, NEW s, TextRight(b, s.text), NEW l \in TextLines, NEW new, new.text = Append(s.text, l),
         MoneyRight(b, s.of, s.saldo, WorthOf(s.rows), s.text), MoneyStep(b, s, l, new),
         l.k \notin {"stock", "fund"} => WorthOf(new.rows) = WorthOf(s.rows)
  PROVE  MoneyRight(b, new.of, new.saldo, WorthOf(new.rows), new.text)
  <1> DEFINE text == s.text
             more == new.text
             n == Len(text)
             worth == WorthOf(s.rows)
             after == WorthOf(new.rows)
  <1>1. text \in Seq(TextLines) /\ more = Append(text, l) BY DEF TextRight
  <1>2. /\ n \in Nat /\ more[n + 1] = l
        /\ \A i \in 1 .. n : more[i] = text[i]
        /\ DOMAIN text = 1 .. n /\ DOMAIN more = 1 .. (n + 1)
    BY <1>1, LongerText
  <1>3. \A i \in 1 .. (n + 1) : i \in 1 .. n \/ i = n + 1 BY <1>2
  <1>4. ASSUME NEW i \in DOMAIN more
        PROVE  /\ more[i].k = "balance" => more[i].amount = new.saldo + new.of
               /\ more[i].k = "net of funds" => more[i].amount = new.saldo /\ b = "IPOT portfolio" /\ new.of > 0
               /\ more[i].k = "assets" => more[i].amount = new.saldo + after
    <2>1. CASE i = n + 1
      <3>1. more[i] = l BY <1>2, <2>1
      <3>2. l.k = "assets" => after = worth OBVIOUS
      <3> HIDE DEF text, more, n, worth, after
      <3> QED BY <3>1, <3>2 DEF MoneyStep, worth
    <2>2. CASE i \in 1 .. n
      <3>1. more[i] = text[i] /\ i \in DOMAIN text BY <1>2, <2>2
      <3>2. /\ text[i].k = "balance" => text[i].amount = s.saldo + s.of
            /\ text[i].k = "net of funds" => text[i].amount = s.saldo /\ b = "IPOT portfolio" /\ s.of > 0
            /\ text[i].k = "assets" => text[i].amount = s.saldo + worth
        BY <3>1 DEF MoneyRight
      <3>3. CASE text[i].k \in {"balance", "net of funds", "assets"}
        <4>1. new.saldo = s.saldo /\ new.of = s.of BY <3>1, <3>3 DEF MoneyStep
        <4>2. text[i].k = "assets" => after = worth
          <5> SUFFICES ASSUME text[i].k = "assets" PROVE after = worth
            OBVIOUS
          <5>1. HasKind(text, "assets") BY <3>1 DEF HasKind
          <5>2. l.k \notin {"stock", "fund"} BY <5>1 DEF MoneyStep
          <5> QED BY <5>2
        <4> HIDE DEF text, more, n, worth, after
        <4> QED BY <3>1, <3>2, <4>1, <4>2
      <3> QED BY <3>1, <3>3
    <2> QED BY <1>2, <1>3, <2>1, <2>2
  <1>5. new.saldo \in Int /\ new.of \in Nat /\ (b # "IPOT portfolio" => new.of = 0) BY DEF MoneyStep
  <1> QED BY <1>4, <1>5 DEF MoneyRight

LEMMA PrintedKept ==
  ASSUME NEW b, NEW s, Printing(b, s), NEW l, LineRight(b, s.text, l), NEW new,
         DOMAIN new = SheetFields, new.text = Append(s.text, l), new.k # "closed", Progress(b, new.k, new.of, new.text),
         RowsStep(s.rows, l, new.rows), BookedStep(s.booked, l, new.booked), MoneyStep(b, s, l, new),
         l.k = "name" => s.text # <<>> /\ s.text[Len(s.text)].k \in {"stock", "fund"},
         l.k = "booking" => b \in {"BNI", "IPOT statement"},
         l.k \in {"stock", "fund", "name"} => b # "IPOT statement",
         l.k = "fund" => b # "Stockbit"
  PROVE  Printing(b, new)
  <1>1. l \in TextLines BY DEF LineRight
  <1>2. TextRight(b, s.text) /\ s.text \in Seq(TextLines) BY DEF Printing, TextRight
  <1>3. TextRight(b, new.text)
    <2> DEFINE text == s.text
               more == new.text
    <2>1. TextRight(b, text) /\ l \in TextLines /\ more = Append(text, l) BY <1>1, <1>2
    <2>2. /\ \A i \in DOMAIN text : Before(b, text[i].k, l.k)
          /\ text # <<>> => NextTo(b, text[Len(text)].k, l.k)
          /\ HeadOf(b, l.k) = l.k \/ HasKind(text, HeadOf(b, l.k))
          /\ b # "Stockbit" /\ text = <<>> => l.k = "cash"
      BY DEF LineRight
    <2> HIDE DEF text, more
    <2>3. TextRight(b, more) BY ONLY <2>1, <2>2, TextGrows
    <2> QED BY <2>3 DEF more
  <1>4. s.rows = HeldAt(s.text, RowsIn(s.text)) /\ s.booked = BookedAt(s.text, BookedIn(s.text))
    BY DEF Printing, ListsKept
  <1>5. ListsOutcome(s.text, l, new.text) BY <1>1, <1>2, ListsGrow
  <1>6. new.rows = HeldAt(new.text, RowsIn(new.text))
    <2>1. CASE l.k \notin {"stock", "fund", "name"} BY <1>4, <1>5, <2>1 DEF ListsOutcome, RowsStep
    <2>2. CASE l.k \in {"stock", "fund"}
      <3>1. /\ HeldAt(new.text, RowsIn(new.text)) = Append(s.rows, Holding(IF l.k = "stock" THEN "stock" ELSE "mutual_fund", l, FALSE))
            /\ new.rows = Append(s.rows, Holding(IF l.k = "stock" THEN "stock" ELSE "mutual_fund", l, FALSE))
        BY <1>4, <1>5, <2>2 DEF ListsOutcome, RowsStep
      <3> QED BY <3>1
    <2>3. CASE l.k = "name" BY <1>4, <1>5, <2>3 DEF ListsOutcome, RowsStep, LastNamed
    <2> QED BY <2>1, <2>2, <2>3
  <1>7. new.booked = BookedAt(new.text, BookedIn(new.text))
    BY <1>4, <1>5 DEF ListsOutcome, BookedStep
  <1>8. /\ AssetsKnown(WorthOf(new.rows), new.text)
        /\ l.k \notin {"stock", "fund"} => WorthOf(new.rows) = WorthOf(s.rows)
    <2>1. AssetsKnown(WorthOf(HeldAt(s.text, RowsIn(s.text))), s.text) BY <1>4 DEF Printing
    <2>2. l.k \in {"stock", "fund"} => l.amount > Tolerance BY DEF RowsStep
    <2> DEFINE text == s.text
               more == new.text
    <2>3. text \in Seq(TextLines) /\ l \in TextLines /\ more = Append(text, l) /\ AssetsKnown(WorthOf(HeldAt(text, RowsIn(text))), text)
      BY <1>1, <1>2, <2>1
    <2>4. l.k = "name" => text # <<>> /\ text[Len(text)].k \in {"stock", "fund"} OBVIOUS
    <2> HIDE DEF text, more
    <2>5. /\ AssetsKnown(WorthOf(HeldAt(more, RowsIn(more))), more)
          /\ l.k \notin {"stock", "fund"} => WorthOf(HeldAt(more, RowsIn(more))) = WorthOf(HeldAt(text, RowsIn(text)))
      BY ONLY <2>2, <2>3, <2>4, AssetsGrow
    <2> QED BY <1>4, <1>6, <2>5 DEF text, more
  <1>9. MoneyRight(b, new.of, new.saldo, WorthOf(new.rows), new.text)
    <2>1. MoneyRight(b, s.of, s.saldo, WorthOf(s.rows), s.text) BY DEF Printing
    <2> QED BY <1>1, <1>2, <1>8, <2>1, MoneyKept
  <1>10. /\ b \notin {"BNI", "IPOT statement"} => new.booked = <<>>
         /\ b = "IPOT statement" => new.rows = <<>>
    <2>1. /\ b \notin {"BNI", "IPOT statement"} => s.booked = <<>>
          /\ b = "IPOT statement" => s.rows = <<>>
      BY DEF Printing, ListsKept
    <2> QED BY <2>1 DEF RowsStep, BookedStep
  <1>11. ListsKept(b, new.rows, new.booked, new.text)
    <2>1. b = "Stockbit" => ~ HasKind(new.text, "fund")
      <3>1. KindsOutcome(s.text, l, new.text) BY <1>1, <1>2, KindsGrow
      <3>2. b = "Stockbit" => ~ HasKind(s.text, "fund") BY DEF Printing, ListsKept
      <3> QED BY <3>1, <3>2 DEF KindsOutcome
    <2> QED BY <1>6, <1>7, <1>10, <2>1 DEF ListsKept
  <1>12. b \in Brokers BY DEF Printing
  <1> QED BY <1>3, <1>8, <1>9, <1>11, <1>12 DEF Printing

\* A line printed on a sheet of which only some numbers have changed.
LinePrinted(l, k, new) ==
  /\ DOMAIN new = SheetFields /\ new.k = k /\ new.text = Append(sheet.text, l)
  /\ bank' = bank /\ read' = read /\ sheet' = new

LEMMA PrintedFields ==
  ASSUME NEW s, DOMAIN s = SheetFields, s.text = sheet.text, NEW l, NEW k, PrintLine(l, k, s)
  PROVE  LinePrinted(l, k, sheet') /\ sheet'.of = s.of /\ sheet'.saldo = s.saldo /\ sheet'.rows = s.rows /\ sheet'.booked = s.booked
  BY DEF PrintLine, LinePrinted, SheetFields

\* What a step of a broker's statement finds.
LEMMA PrintingFacts ==
  ASSUME Printing(bank, sheet)
  PROVE  /\ DOMAIN sheet = SheetFields /\ TextRight(bank, sheet.text) /\ Progress(bank, sheet.k, sheet.of, sheet.text)
         /\ sheet.saldo \in Int /\ sheet.of \in Nat /\ (bank # "IPOT portfolio" => sheet.of = 0) /\ bank \in Brokers
         /\ sheet.text \in Seq(TextLines)
  BY DEF Printing, MoneyRight, TextRight

\* The steps of a broker's statement, one by one.
PlainStep(l) ==
  /\ l.k \notin {"stock", "fund", "name", "booking"} /\ sheet'.rows = sheet.rows /\ sheet'.booked = sheet.booked

LEMMA PlainLists ==
  ASSUME NEW l, PlainStep(l)
  PROVE  RowsStep(sheet.rows, l, sheet'.rows) /\ BookedStep(sheet.booked, l, sheet'.booked)
  BY DEF PlainStep, RowsStep, BookedStep

LEMMA CashOpensKept ==
  ASSUME Printing(bank, sheet), CashOpens
  PROVE  Printing(bank', sheet') /\ read' = read
  <1> DEFINE l == [Line("cash") EXCEPT !.of = "Beginning Balance"]
  <1>1. sheet.k = "start" /\ bank # "Stockbit" /\ PrintLine(l, "cash", sheet) BY DEF CashOpens
  <1>2. /\ DOMAIN sheet = SheetFields /\ TextRight(bank, sheet.text) /\ sheet.text = <<>> /\ sheet.of = 0
        /\ sheet.saldo \in Int
    BY <1>1, PrintingFacts DEF Progress
  <1>3. l \in TextLines /\ l.k = "cash"
    <2> DEFINE plain == Line("cash")
    <2>1. "cash" \in TextKinds /\ "Beginning Balance" \in Securities \cup {Blank, "Beginning Balance"}
      BY DEF TextKinds
    <2>2. plain \in TextLines /\ plain.k = "cash" /\ l = [plain EXCEPT !.of = "Beginning Balance"]
      BY <2>1, LineTyped
    <2> HIDE DEF plain, l
    <2> QED
      <3>1. \A of \in Securities \cup {Blank, "Beginning Balance"} : \A new :
              new = [plain EXCEPT !.of = of] => new \in TextLines /\ new.k = plain.k
        BY ONLY <2>2, LineOf, ZenonT(40)
      <3> QED BY ONLY <2>1, <2>2, <3>1, Zenon
  <1> HIDE DEF l
  <1>4. LinePrinted(l, "cash", sheet') /\ sheet'.of = 0 /\ sheet'.saldo = sheet.saldo /\ sheet'.rows = sheet.rows /\ sheet'.booked = sheet.booked
    BY <1>1, <1>2, PrintedFields
  <1>5. LineRight(bank, sheet.text, l)
    <2>1. DOMAIN sheet.text = {}
      <3>1. DOMAIN <<>> = {} OBVIOUS
      <3> QED BY <1>2, <3>1
    <2> QED BY <1>2, <1>3, <2>1 DEF LineRight, HeadOf
  <1>6. /\ \A k : HasKind(sheet'.text, k) <=> HasKind(sheet.text, k) \/ l.k = k
        /\ sheet'.text # <<>> /\ sheet'.text[Len(sheet'.text)] = l
        /\ \A i \in DOMAIN sheet'.text : sheet'.text[i].k \in {"cash", "booking"}
    <2>1. \A i \in DOMAIN sheet.text : sheet.text[i].k \in {"cash", "booking"}
      <3>1. Progress(bank, sheet.k, sheet.of, sheet.text) BY PrintingFacts
      <3> QED BY <1>1, <3>1 DEF Progress
    <2> QED
      <3>1. KindsOutcome(sheet.text, l, sheet'.text) BY <1>2, <1>3, <1>4, KindsGrow DEF LinePrinted
      <3> QED BY <1>3, <2>1, <3>1 DEF KindsOutcome
  <1>7. Progress(bank, "cash", 0, sheet'.text)
    <2>1. ~ HasKind(sheet.text, "assets") /\ ~ HasKind(sheet.text, "net of funds")
      BY <1>1, PrintingFacts DEF Progress
    <2> QED BY <1>3, <1>6, <2>1 DEF Progress, StockPart, FundPart
  <1>8. MoneyStep(bank, sheet, l, sheet') BY <1>2, <1>3, <1>4 DEF MoneyStep
  <1>9. RowsStep(sheet.rows, l, sheet'.rows) /\ BookedStep(sheet.booked, l, sheet'.booked)
    BY <1>3, <1>4, PlainLists DEF PlainStep
  <1> QED BY <1>3, <1>4, <1>5, <1>7, <1>8, <1>9, PrintedKept DEF LinePrinted

LEMMA LastLine ==
  ASSUME NEW text \in Seq(TextLines), text # <<>>
  PROVE  Len(text) \in DOMAIN text /\ Len(text) \in Nat /\ Len(text) \in 1 .. Len(text)
  OBVIOUS

LEMMA StepKept ==
  ASSUME Printing(bank, sheet), NEW l, NEW k, k # "closed", LinePrinted(l, k, sheet'), LineRight(bank, sheet.text, l),
         Progress(bank, k, sheet'.of, sheet'.text), RowsStep(sheet.rows, l, sheet'.rows), BookedStep(sheet.booked, l, sheet'.booked),
         MoneyStep(bank, sheet, l, sheet'),
         l.k = "name" => sheet.text # <<>> /\ sheet.text[Len(sheet.text)].k \in {"stock", "fund"},
         l.k = "booking" => bank \in {"BNI", "IPOT statement"},
         l.k \in {"stock", "fund", "name"} => bank # "IPOT statement",
         l.k = "fund" => bank # "Stockbit"
  PROVE  Printing(bank', sheet') /\ read' = read
  <1> DEFINE new == sheet'
  <1>1. /\ DOMAIN new = SheetFields /\ new.k = k /\ new.text = Append(sheet.text, l) /\ bank' = bank /\ read' = read
    BY DEF LinePrinted
  <1>2. Progress(bank, new.k, new.of, new.text) /\ new.k # "closed" BY <1>1
  <1>3. RowsStep(sheet.rows, l, new.rows) /\ BookedStep(sheet.booked, l, new.booked) /\ MoneyStep(bank, sheet, l, new)
    OBVIOUS
  <1> HIDE DEF new
  <1>4. Printing(bank, new) BY <1>1, <1>2, <1>3, PrintedKept
  <1> QED BY <1>1, <1>4 DEF new

LEMMA KindsNow ==
  ASSUME Printing(bank, sheet), NEW l \in TextLines, NEW k, LinePrinted(l, k, sheet')
  PROVE  KindsOutcome(sheet.text, l, sheet'.text)
  <1>1. TextRight(bank, sheet.text) BY PrintingFacts
  <1>2. sheet'.text = Append(sheet.text, l) BY DEF LinePrinted
  <1> QED BY <1>1, <1>2, KindsGrow

\* Money is unchanged by a line without an amount of its own.
LEMMA MoneySame ==
  ASSUME Printing(bank, sheet), NEW l, sheet'.of = sheet.of, sheet'.saldo = sheet.saldo,
         l.k \notin {"balance", "net of funds", "assets"}, l.k \in {"stock", "fund"} => ~ HasKind(sheet.text, "assets")
  PROVE  MoneyStep(bank, sheet, l, sheet')
  BY PrintingFacts DEF MoneyStep

LEMMA LineBelow ==
  ASSUME Printing(bank, sheet), NEW l \in TextLines,
         ~ HasKind(sheet.text, "funds") \/ l.k \notin {"stocks", "stock", "funds"},
         ~ HasKind(sheet.text, "stocks") \/ l.k # "stocks",
         l.k \notin {"cash", "booking", "balance"},
         bank = "Stockbit" /\ l.k \in {"stock", "name"} => ~ HasKind(sheet.text, "total"),
         sheet.text # <<>>,
         NextTo(bank, sheet.text[Len(sheet.text)].k, l.k),
         HeadOf(bank, l.k) = l.k \/ HasKind(sheet.text, HeadOf(bank, l.k))
  PROVE  LineRight(bank, sheet.text, l)
  <1>1. \A i \in DOMAIN sheet.text : Before(bank, sheet.text[i].k, l.k) BY DEF HasKind, Before
  <1> QED BY <1>1 DEF LineRight

\* Below the balance a line is not the first.
LEMMA BelowBalance ==
  ASSUME Printing(bank, sheet), sheet.k \notin {"start", "cash"}
  PROVE  sheet.text # <<>> /\ HasKind(sheet.text, "balance")
  <1>1. HasKind(sheet.text, "balance") BY PrintingFacts DEF Progress
  <1>2. sheet.text # <<>>
    <2>1. DOMAIN <<>> = {} OBVIOUS
    <2> QED BY <1>1, <2>1 DEF HasKind
  <1> QED BY <1>1, <1>2

LEMMA CashBookingKept ==
  ASSUME Printing(bank, sheet), CashBooking
  PROVE  Printing(bank', sheet') /\ read' = read
  <1>1. bank \in {"BNI", "IPOT statement"} /\ sheet.k = "cash" BY DEF CashBooking
  <1>2. PICK amount \in Int, beside \in Int :
          \/ PrintLine([Line("booking") EXCEPT !.amount = amount, !.saldo = sheet.saldo + amount, !.beside = beside], "cash",
               [sheet EXCEPT !.saldo = sheet.saldo + amount, !.booked = Append(@, Booking(amount, sheet.saldo + amount))])
          \/ PrintLine([Line("booking") EXCEPT !.of = "Beginning Balance", !.amount = amount, !.saldo = sheet.saldo], "cash",
               [sheet EXCEPT !.stray = @ + 1])
    <2> DEFINE kept == IF bank = "IPOT statement" THEN Figures \cup {0} ELSE {0}
    <2>1. /\ \A amount \in Figures \cup {-v : v \in Figures} : amount \in Int
          /\ \A beside \in kept : beside \in Int
      BY ReadingAssumption
    <2>2. \E amount \in Figures \cup {-v : v \in Figures}, of \in {Blank, "Beginning Balance"}, beside \in kept :
          LET saldo == sheet.saldo + amount
          IN IF of = Blank
             THEN PrintLine([Line("booking") EXCEPT !.amount = amount, !.saldo = saldo, !.beside = beside], "cash",
                    [sheet EXCEPT !.saldo = saldo, !.booked = Append(@, Booking(amount, saldo))])
             ELSE PrintLine([Line("booking") EXCEPT !.of = of, !.amount = amount, !.saldo = sheet.saldo], "cash",
                    [sheet EXCEPT !.stray = @ + 1])
      BY Zenon DEF CashBooking
    <2> HIDE DEF kept
    <2> QED BY <2>1, <2>2, Zenon
  <1>3. /\ DOMAIN sheet = SheetFields /\ sheet.text \in Seq(TextLines) /\ sheet.text # <<>> /\ sheet.of = 0 /\ sheet.saldo \in Int
        /\ \A i \in DOMAIN sheet.text : sheet.text[i].k \in {"cash", "booking"}
        /\ ~ HasKind(sheet.text, "assets") /\ ~ HasKind(sheet.text, "net of funds")
    BY <1>1, PrintingFacts DEF Progress
  <1>4. sheet.text[Len(sheet.text)].k \in {"cash", "booking"}
    <2>1. Len(sheet.text) \in DOMAIN sheet.text BY <1>3, LastLine
    <2> QED BY <1>3, <2>1
  <1> DEFINE plain == Line("booking")
  <1>5. plain \in TextLines /\ plain.k = "booking" /\ plain.of = Blank
    <2>1. "booking" \in TextKinds BY DEF TextKinds
    <2> QED BY <2>1, LineTyped
  <1>6. ASSUME NEW l \in TextLines, l.k = "booking", LinePrinted(l, "cash", sheet'), sheet'.of = 0, sheet'.saldo \in Int,
               RowsStep(sheet.rows, l, sheet'.rows), BookedStep(sheet.booked, l, sheet'.booked)
        PROVE  Printing(bank', sheet') /\ read' = read
    <2>1. LineRight(bank, sheet.text, l) BY <1>3, <1>4, <1>6 DEF LineRight, Before, NextTo, HeadOf
    <2>2. KindsOutcome(sheet.text, l, sheet'.text) BY <1>6, KindsNow
    <2>3. Progress(bank, "cash", sheet'.of, sheet'.text)
      BY <1>1, <1>3, <1>6, <2>2 DEF Progress, KindsOutcome, StockPart, FundPart
    <2>4. MoneyStep(bank, sheet, l, sheet')
      <3>1. 0 \in Nat /\ l.k \notin {"balance", "net of funds", "assets", "stock", "fund"} /\ sheet'.of = 0 /\ sheet'.saldo \in Int
        BY <1>6
      <3>2. \A i \in DOMAIN sheet.text : sheet.text[i].k \notin {"balance", "net of funds", "assets"}
        BY <1>3
      <3> QED BY ONLY <3>1, <3>2 DEF MoneyStep
    <2> QED BY <1>1, <1>6, <2>1, <2>3, <2>4, StepKept
  <1>7. CASE PrintLine([Line("booking") EXCEPT !.amount = amount, !.saldo = sheet.saldo + amount, !.beside = beside], "cash",
               [sheet EXCEPT !.saldo = sheet.saldo + amount, !.booked = Append(@, Booking(amount, sheet.saldo + amount))])
    <2> DEFINE saldo == sheet.saldo + amount
               l == [plain EXCEPT !.amount = amount, !.saldo = saldo, !.beside = beside]
               s == [sheet EXCEPT !.saldo = saldo, !.booked = Append(@, Booking(amount, saldo))]
    <2>1. PrintLine(l, "cash", s) BY <1>7
    <2>2. saldo \in Int
      <3>1. sheet.saldo \in Int BY <1>3
      <3> QED BY ONLY <3>1, amount \in Int
    <2>3. /\ DOMAIN s = SheetFields /\ s.text = sheet.text /\ s.of = sheet.of /\ s.saldo = saldo /\ s.rows = sheet.rows
          /\ s.booked = Append(sheet.booked, Booking(amount, saldo))
      BY <1>3 DEF SheetFields
    <2> HIDE DEF plain, saldo, s
    <2>4. l \in TextLines /\ l.k = "booking" /\ l.of = Blank /\ l.amount = amount /\ l.saldo = saldo
      <3>1. l = [plain EXCEPT !.amount = amount, !.saldo = saldo, !.beside = beside] OBVIOUS
      <3> HIDE DEF l
      <3>2. l \in TextLines /\ l.k = plain.k /\ l.of = plain.of /\ l.amount = amount /\ l.saldo = saldo
        BY ONLY <1>5, <2>2, <3>1, amount \in Int, beside \in Int DEF TextLines
      <3> QED BY ONLY <1>5, <3>2
    <2> HIDE DEF l
    <2>5. LinePrinted(l, "cash", sheet') /\ sheet'.of = s.of /\ sheet'.saldo = s.saldo /\ sheet'.rows = s.rows /\ sheet'.booked = s.booked
      BY <2>1, <2>3, PrintedFields
    <2>6. RowsStep(sheet.rows, l, sheet'.rows) /\ BookedStep(sheet.booked, l, sheet'.booked)
      BY <2>3, <2>4, <2>5, PortfolioAssumption DEF RowsStep, BookedStep
    <2> QED BY <1>3, <1>6, <2>2, <2>3, <2>4, <2>5, <2>6
  <1>8. CASE PrintLine([Line("booking") EXCEPT !.of = "Beginning Balance", !.amount = amount, !.saldo = sheet.saldo], "cash",
               [sheet EXCEPT !.stray = @ + 1])
    <2> DEFINE l == [plain EXCEPT !.of = "Beginning Balance", !.amount = amount, !.saldo = sheet.saldo]
               s == [sheet EXCEPT !.stray = @ + 1]
    <2>1. PrintLine(l, "cash", s) BY <1>8
    <2>3. DOMAIN s = SheetFields /\ s.text = sheet.text /\ s.of = sheet.of /\ s.saldo = sheet.saldo /\ s.rows = sheet.rows /\ s.booked = sheet.booked
      BY <1>3 DEF SheetFields
    <2> HIDE DEF plain, s
    <2>4. l \in TextLines /\ l.k = "booking" /\ l.of = "Beginning Balance"
      <3>1. sheet.saldo \in Int /\ "Beginning Balance" \in Securities \cup {Blank, "Beginning Balance"}
        BY <1>3
      <3> QED
        <4>1. l = [plain EXCEPT !.of = "Beginning Balance", !.amount = amount, !.saldo = sheet.saldo]
          OBVIOUS
        <4> HIDE DEF l
        <4>2. l \in TextLines /\ l.k = plain.k /\ l.of = "Beginning Balance"
          BY ONLY <1>5, <3>1, <4>1, amount \in Int DEF TextLines
        <4> QED BY ONLY <1>5, <4>2
    <2> HIDE DEF l
    <2>5. LinePrinted(l, "cash", sheet') /\ sheet'.of = s.of /\ sheet'.saldo = s.saldo /\ sheet'.rows = s.rows /\ sheet'.booked = s.booked
      BY <2>1, <2>3, PrintedFields
    <2>6. RowsStep(sheet.rows, l, sheet'.rows) /\ BookedStep(sheet.booked, l, sheet'.booked)
      BY <2>3, <2>4, <2>5 DEF RowsStep, BookedStep
    <2> QED BY <1>3, <1>6, <2>3, <2>4, <2>5, <2>6
  <1> QED BY <1>2, <1>7, <1>8

LEMMA CashBalanceKept ==
  ASSUME Printing(bank, sheet), CashBalance
  PROVE  Printing(bank', sheet') /\ read' = read
  <1>1. sheet.k = "cash" \/ (sheet.k = "start" /\ bank = "Stockbit") BY DEF CashBalance
  <1> DEFINE plain == Line("balance")
  <1>2. PICK fund \in Nat, k \in {"totals", "balance"} :
          /\ bank # "IPOT portfolio" => fund = 0
          /\ bank = "IPOT statement" <=> k = "totals"
          /\ PrintLine([plain EXCEPT !.amount = sheet.saldo + fund], k, [sheet EXCEPT !.of = fund])
    <2>1. \A fund \in Figures \cup {0} : fund \in Nat BY ReadingAssumption
    <2>2. CASE bank = "IPOT portfolio"
      <3>1. \E fund \in Figures \cup {0} : PrintLine([plain EXCEPT !.amount = sheet.saldo + fund], "balance", [sheet EXCEPT !.of = fund])
        BY <2>2, Zenon DEF CashBalance
      <3> HIDE DEF plain
      <3> QED BY <2>1, <2>2, <3>1, Zenon
    <2>3. CASE bank # "IPOT portfolio" /\ bank # "IPOT statement"
      <3>1. PrintLine([plain EXCEPT !.amount = sheet.saldo + 0], "balance", [sheet EXCEPT !.of = 0])
        BY <2>3, Zenon DEF CashBalance
      <3>2. 0 \in Nat OBVIOUS
      <3> HIDE DEF plain
      <3> QED BY <2>3, <3>1, <3>2, Zenon
    <2>4. CASE bank = "IPOT statement"
      <3>1. PrintLine([plain EXCEPT !.amount = sheet.saldo + 0], "totals", [sheet EXCEPT !.of = 0])
        BY <2>4, Zenon DEF CashBalance
      <3>2. 0 \in Nat OBVIOUS
      <3> HIDE DEF plain
      <3> QED BY <2>4, <3>1, <3>2, Zenon
    <2> QED BY <2>2, <2>3, <2>4
  <1> DEFINE l == [plain EXCEPT !.amount = sheet.saldo + fund]
             s == [sheet EXCEPT !.of = fund]
  <1>3. /\ DOMAIN sheet = SheetFields /\ sheet.text \in Seq(TextLines) /\ sheet.of = 0 /\ sheet.saldo \in Int
        /\ \A i \in DOMAIN sheet.text : sheet.text[i].k \in {"cash", "booking"}
        /\ ~ HasKind(sheet.text, "assets") /\ ~ HasKind(sheet.text, "net of funds")
        /\ sheet.text = <<>> => bank = "Stockbit"
    BY <1>1, PrintingFacts DEF Progress
  <1>4. sheet.text # <<>> => sheet.text[Len(sheet.text)].k \in {"cash", "booking"}
    <2> SUFFICES ASSUME sheet.text # <<>> PROVE sheet.text[Len(sheet.text)].k \in {"cash", "booking"}
      OBVIOUS
    <2>1. Len(sheet.text) \in DOMAIN sheet.text BY <1>3, LastLine
    <2> QED BY <1>3, <2>1
  <1>5. plain \in TextLines /\ plain.k = "balance"
    <2>1. "balance" \in TextKinds BY DEF TextKinds
    <2> QED BY <2>1, LineTyped
  <1>6. DOMAIN s = SheetFields /\ s.text = sheet.text /\ s.of = fund /\ s.saldo = sheet.saldo /\ s.rows = sheet.rows /\ s.booked = sheet.booked
    BY <1>3 DEF SheetFields
  <1>7. PrintLine(l, k, s) BY <1>2
  <1> HIDE DEF plain, s
  <1>8. l \in TextLines /\ l.k = "balance" /\ l.amount = sheet.saldo + fund
    <2>1. sheet.saldo + fund \in Int
      <3>1. sheet.saldo \in Int BY <1>3
      <3> QED BY ONLY <3>1, fund \in Nat
    <2> QED BY <1>5, <2>1, LineAmount
  <1> HIDE DEF l
  <1>9. LinePrinted(l, k, sheet') /\ sheet'.of = fund /\ sheet'.saldo = sheet.saldo /\ sheet'.rows = sheet.rows /\ sheet'.booked = sheet.booked
    BY <1>6, <1>7, PrintedFields
  <1>10. LineRight(bank, sheet.text, l) BY <1>3, <1>4, <1>8 DEF LineRight, Before, NextTo, HeadOf
  <1>11. KindsOutcome(sheet.text, l, sheet'.text) BY <1>8, <1>9, KindsNow
  <1>12. Progress(bank, k, sheet'.of, sheet'.text)
    BY <1>2, <1>3, <1>8, <1>11 DEF Progress, KindsOutcome, StockPart, FundPart
  <1>13. MoneyStep(bank, sheet, l, sheet') BY <1>2, <1>3, <1>8, <1>9 DEF MoneyStep
  <1>14. RowsStep(sheet.rows, l, sheet'.rows) /\ BookedStep(sheet.booked, l, sheet'.booked)
    BY <1>8, <1>9, PlainLists DEF PlainStep
  <1> QED BY <1>2, <1>8, <1>9, <1>10, <1>12, <1>13, <1>14, StepKept

LEMMA SectionOpensKept ==
  ASSUME Printing(bank, sheet), SectionOpens
  PROVE  Printing(bank', sheet') /\ read' = read
  <1>1. sheet.k \in {"balance", "subtotal"} BY DEF SectionOpens
  <1>2. PICK heading \in {"stocks", "funds"} :
          /\ bank = "Stockbit" => heading = "stocks"
          /\ \A i \in DOMAIN sheet.text : sheet.text[i].k \notin {heading, "funds"}
          /\ PrintLine(Line(heading), heading, sheet)
    <2>1. CASE bank = "Stockbit" BY <2>1, Zenon DEF SectionOpens, Classes
    <2>2. CASE bank # "Stockbit" BY <2>2, Zenon DEF SectionOpens, Classes
    <2> QED BY <2>1, <2>2
  <1> DEFINE l == Line(heading)
  <1>3. /\ DOMAIN sheet = SheetFields /\ sheet.text \in Seq(TextLines) /\ TextRight(bank, sheet.text)
        /\ sheet.text # <<>> /\ HasKind(sheet.text, "balance")
        /\ Progress(bank, sheet.k, sheet.of, sheet.text)
    BY <1>1, PrintingFacts, BelowBalance
  <1>4. ~ HasKind(sheet.text, heading) /\ ~ HasKind(sheet.text, "funds") BY <1>2 DEF HasKind
  <1>5. l \in TextLines /\ l.k = heading
    <2>1. heading \in TextKinds BY DEF TextKinds
    <2> QED BY <2>1, LineTyped
  <1>6. PrintLine(l, heading, sheet) BY <1>2
  <1> HIDE DEF l
  <1>7. LinePrinted(l, heading, sheet') /\ sheet'.of = sheet.of /\ sheet'.saldo = sheet.saldo /\ sheet'.rows = sheet.rows /\ sheet'.booked = sheet.booked
    BY <1>3, <1>6, PrintedFields
  <1>8. sheet.text[Len(sheet.text)].k \notin {"stock", "fund"} BY <1>1, <1>3 DEF Progress
  <1>9. LineRight(bank, sheet.text, l)
    <2>1. NextTo(bank, sheet.text[Len(sheet.text)].k, l.k) /\ HeadOf(bank, l.k) = l.k
      BY <1>5, <1>8 DEF NextTo, HeadOf
    <2> QED BY <1>3, <1>4, <1>5, <2>1, LineBelow
  <1>10. bank = "Stockbit" => ~ HasKind(sheet.text, "total")
    <2> SUFFICES ASSUME bank = "Stockbit", HasKind(sheet.text, "total") PROVE FALSE
      OBVIOUS
    <2>1. PICK i \in DOMAIN sheet.text : sheet.text[i].k = "total" BY DEF HasKind
    <2>2. PICK h \in 1 .. i : sheet.text[h].k = "stocks" BY <1>3, <2>1 DEF TextRight, HeadOf
    <2>3. h \in DOMAIN sheet.text
      <3>1. Len(sheet.text) \in Nat /\ DOMAIN sheet.text = 1 .. Len(sheet.text) BY <1>3
      <3> QED BY ONLY <3>1, i \in DOMAIN sheet.text, h \in 1 .. i
    <2> QED BY <1>2, <1>4, <2>2, <2>3 DEF HasKind
  <1>11. KindsOutcome(sheet.text, l, sheet'.text) BY <1>5, <1>7, KindsNow
  <1>12. Progress(bank, heading, sheet'.of, sheet'.text)
    <2>1. /\ ~ HasKind(sheet.text, "assets") /\ ~ HasKind(sheet.text, "net of funds") /\ bank # "IPOT statement"
      BY <1>1, <1>3 DEF Progress
    <2>2. CASE heading = "stocks"
      BY <1>3, <1>4, <1>5, <1>10, <1>11, <2>1, <2>2 DEF Progress, KindsOutcome, StockPart, FundPart
    <2>3. CASE heading = "funds"
      BY <1>2, <1>3, <1>5, <1>11, <2>1, <2>3 DEF Progress, KindsOutcome, StockPart, FundPart
    <2> QED BY <2>2, <2>3
  <1>13. MoneyStep(bank, sheet, l, sheet') BY <1>5, <1>7, MoneySame
  <1>14. RowsStep(sheet.rows, l, sheet'.rows) /\ BookedStep(sheet.booked, l, sheet'.booked)
    BY <1>5, <1>7, PlainLists DEF PlainStep
  <1>15. l.k \notin {"stock", "fund", "name", "booking"} /\ heading # "closed" BY <1>5
  <1> QED BY <1>7, <1>9, <1>12, <1>13, <1>14, <1>15, StepKept

LEMMA HoldingRowKept ==
  ASSUME Printing(bank, sheet), NEW k \in {"stock", "fund"}, NEW class, class = (IF k = "stock" THEN "stock" ELSE "mutual_fund"),
         HoldingRow(class, k), k = "stock" => sheet.k \in StockPart, k = "fund" => sheet.k \in FundPart
  PROVE  Printing(bank', sheet') /\ read' = read
  <1> DEFINE plain == Line(k)
  <1>1. PICK of \in Securities, value \in Int, gain \in BOOLEAN :
          /\ value > Tolerance
          /\ LET l == [plain EXCEPT !.of = of, !.amount = value, !.whole = gain]
             IN PrintLine(l, k, [sheet EXCEPT !.rows = Append(@, Holding(class, l, FALSE))])
    <2>1. \A value \in Figures : value \in Int /\ value > Tolerance
      <3>1. \A value \in Figures : value \in Int BY ReadingAssumption
      <3>2. \A value \in Figures : value > Tolerance BY PortfolioAssumption
      <3> QED BY ONLY <3>1, <3>2
    <2>2. CASE bank = "BNI old"
      <3>1. \E of \in Securities, value \in Figures, gain \in BOOLEAN :
              LET l == [plain EXCEPT !.of = of, !.amount = value, !.whole = gain]
              IN PrintLine(l, k, [sheet EXCEPT !.rows = Append(@, Holding(class, l, FALSE))])
        BY <2>2, Zenon DEF HoldingRow
      <3> HIDE DEF plain
      <3> QED BY <2>1, <3>1, Zenon
    <2>3. CASE bank # "BNI old"
      <3>1. \E of \in Securities, value \in Figures :
              LET l == [plain EXCEPT !.of = of, !.amount = value, !.whole = TRUE]
              IN PrintLine(l, k, [sheet EXCEPT !.rows = Append(@, Holding(class, l, FALSE))])
        BY <2>3, Zenon DEF HoldingRow
      <3>2. TRUE \in BOOLEAN OBVIOUS
      <3> HIDE DEF plain
      <3> QED BY <2>1, <3>1, <3>2, Zenon
    <2> QED BY <2>2, <2>3
  <1> DEFINE l == [plain EXCEPT !.of = of, !.amount = value, !.whole = gain]
             row == Holding(class, l, FALSE)
             s == [sheet EXCEPT !.rows = Append(@, row)]
  <1>2. plain \in TextLines /\ plain.k = k
    <2>1. k \in TextKinds BY DEF TextKinds
    <2> QED BY <2>1, LineTyped
  <1>3. PrintLine(l, k, s) BY <1>1
  <1>4. l \in TextLines /\ l.k = k /\ l.amount = value
    <2>1. l = [plain EXCEPT !.of = of, !.amount = value, !.whole = gain] OBVIOUS
    <2>2. of \in Securities \cup {Blank, "Beginning Balance"} OBVIOUS
    <2> HIDE DEF l, plain
    <2> QED BY ONLY <1>2, <2>1, <2>2, value \in Int, gain \in BOOLEAN DEF TextLines
  <1>5. value > Tolerance BY <1>1
  <1> HIDE DEF plain, l
  <1>6. sheet.k \in StockPart \cup FundPart OBVIOUS
  <1>7. /\ DOMAIN sheet = SheetFields /\ sheet.text \in Seq(TextLines)
        /\ Progress(bank, sheet.k, sheet.of, sheet.text)
    BY PrintingFacts
  <1>8. sheet.text # <<>> /\ HasKind(sheet.text, "balance")
    BY <1>6, BelowBalance DEF StockPart, FundPart
  <1>9. /\ DOMAIN s = SheetFields /\ s.text = sheet.text /\ s.of = sheet.of /\ s.saldo = sheet.saldo /\ s.booked = sheet.booked
        /\ s.rows = Append(sheet.rows, row)
    <2> HIDE DEF row
    <2> QED BY <1>7 DEF SheetFields
  <1> HIDE DEF s
  <1>10. LinePrinted(l, k, sheet') /\ sheet'.of = sheet.of /\ sheet'.saldo = sheet.saldo /\ sheet'.rows = Append(sheet.rows, row) /\ sheet'.booked = sheet.booked
    <2>1. LinePrinted(l, k, sheet') /\ sheet'.of = s.of /\ sheet'.saldo = s.saldo /\ sheet'.rows = s.rows /\ sheet'.booked = s.booked
      <3>1. DOMAIN s = SheetFields /\ s.text = sheet.text BY <1>9
      <3> QED BY ONLY <1>3, <3>1, PrintedFields
    <2> HIDE DEF row
    <2> QED BY <1>9, <2>1
  <1>11. k = "stock" => ~ HasKind(sheet.text, "funds") /\ HasKind(sheet.text, "stocks") /\ (bank = "Stockbit" => ~ HasKind(sheet.text, "total"))
    BY <1>7 DEF Progress
  <1>12. k = "fund" => HasKind(sheet.text, "funds") /\ bank # "Stockbit" BY <1>7 DEF Progress
  <1>13. /\ ~ HasKind(sheet.text, "assets") /\ ~ HasKind(sheet.text, "net of funds") /\ bank # "IPOT statement"
         /\ sheet.text[Len(sheet.text)].k \in {"stock", "fund"} => sheet.text[Len(sheet.text)].k = k
    BY <1>6, <1>7, <1>8 DEF Progress, StockPart, FundPart
  <1>14. LineRight(bank, sheet.text, l)
    <2>1. NextTo(bank, sheet.text[Len(sheet.text)].k, l.k) BY <1>4, <1>13 DEF NextTo
    <2>2. HasKind(sheet.text, HeadOf(bank, l.k)) BY <1>4, <1>11, <1>12 DEF HeadOf
    <2>3. ~ HasKind(sheet.text, "funds") \/ l.k \notin {"stocks", "stock", "funds"} BY <1>4, <1>11
    <2>4. bank = "Stockbit" /\ l.k \in {"stock", "name"} => ~ HasKind(sheet.text, "total")
      BY <1>4, <1>11
    <2>5. l.k # "stocks" /\ l.k \notin {"cash", "booking", "balance"} BY <1>4
    <2> QED BY <1>4, <1>8, <2>1, <2>2, <2>3, <2>4, <2>5, LineBelow
  <1>15. KindsOutcome(sheet.text, l, sheet'.text) BY <1>4, <1>10, KindsNow
  <1>16. Progress(bank, k, sheet'.of, sheet'.text)
    <2>1. CASE k = "stock"
      BY <1>4, <1>8, <1>11, <1>13, <1>15, <2>1 DEF Progress, KindsOutcome, StockPart, FundPart
    <2>2. CASE k = "fund"
      BY <1>4, <1>8, <1>12, <1>13, <1>15, <2>2 DEF Progress, KindsOutcome, StockPart, FundPart
    <2> QED BY <2>1, <2>2
  <1>17. MoneyStep(bank, sheet, l, sheet')
    <2>1. l.k \notin {"balance", "net of funds", "assets"} BY <1>4
    <2> QED BY <1>10, <1>13, <2>1, MoneySame
  <1>18. RowsStep(sheet.rows, l, sheet'.rows)
    <2>1. l.k \in {"stock", "fund"} /\ class = IF l.k = "stock" THEN "stock" ELSE "mutual_fund"
      BY <1>4
    <2>2. sheet'.rows = Append(sheet.rows, Holding(IF l.k = "stock" THEN "stock" ELSE "mutual_fund", l, FALSE)) /\ l.amount > Tolerance
      BY <1>4, <1>5, <1>10, <2>1, Zenon
    <2>3. l.k # "name" BY <2>1
    <2> HIDE DEF row
    <2> QED BY ONLY <2>1, <2>2, <2>3, Zenon DEF RowsStep
  <1>19. BookedStep(sheet.booked, l, sheet'.booked) BY <1>4, <1>10 DEF BookedStep
  <1>20. k # "closed" /\ l.k \notin {"name", "booking"} /\ (l.k = "fund" => bank # "Stockbit")
    BY <1>4, <1>12
  <1> HIDE DEF row
  <1> QED BY <1>10, <1>13, <1>14, <1>16, <1>17, <1>18, <1>19, <1>20, StepKept

LEMMA StockPrintedKept ==
  ASSUME Printing(bank, sheet), StockPrinted
  PROVE  Printing(bank', sheet') /\ read' = read
  <1>1. sheet.k \in StockPart /\ HoldingRow("stock", "stock") BY DEF StockPrinted, StockPart
  <1>2. "stock" = IF "stock" = "stock" THEN "stock" ELSE "mutual_fund" OBVIOUS
  <1> QED BY <1>1, <1>2, HoldingRowKept

LEMMA FundPrintedKept ==
  ASSUME Printing(bank, sheet), FundPrinted
  PROVE  Printing(bank', sheet') /\ read' = read
  <1>1. sheet.k \in FundPart /\ HoldingRow("mutual_fund", "fund")
    <2>1. CASE Money > 0 BY <2>1, Zenon DEF FundPrinted, FundPart
    <2>2. CASE ~ (Money > 0) BY <2>2, Zenon DEF FundPrinted, FundPart
    <2> QED BY <2>1, <2>2
  <1>2. "mutual_fund" = IF "fund" = "stock" THEN "stock" ELSE "mutual_fund" OBVIOUS
  <1> QED BY <1>1, <1>2, HoldingRowKept

LEMMA NamePrintedKept ==
  ASSUME Printing(bank, sheet), NamePrinted
  PROVE  Printing(bank', sheet') /\ read' = read
  <1> DEFINE l == Line("name")
             s == [sheet EXCEPT !.rows = [@ EXCEPT ![Len(@)].named = TRUE]]
  <1>1. /\ \/ sheet.k = "fund" /\ bank \in {"BNI", "BNI old"}
           \/ sheet.k = "stock" /\ bank \in {"Stockbit", "BNI old"}
        /\ PrintLine(l, IF sheet.k = "fund" THEN "fund name" ELSE "stock name", s)
    BY DEF NamePrinted
  <1>2. PICK k \in {"fund name", "stock name"} : PrintLine(l, k, s) /\ (k = "fund name" <=> sheet.k = "fund")
    <2> HIDE DEF l, s
    <2> QED BY <1>1, Zenon
  <1>3. /\ DOMAIN sheet = SheetFields /\ sheet.text \in Seq(TextLines)
        /\ Progress(bank, sheet.k, sheet.of, sheet.text)
    BY PrintingFacts
  <1>4. /\ sheet.text # <<>> /\ HasKind(sheet.text, "balance") /\ sheet.text[Len(sheet.text)].k = sheet.k
        /\ ~ HasKind(sheet.text, "assets") /\ ~ HasKind(sheet.text, "net of funds") /\ bank # "IPOT statement"
    BY <1>1, <1>3 DEF Progress
  <1>5. l \in TextLines /\ l.k = "name"
    <2>1. "name" \in TextKinds BY DEF TextKinds
    <2> QED BY <2>1, LineTyped
  <1> HIDE DEF l
  <1>6. /\ DOMAIN s = SheetFields /\ s.text = sheet.text /\ s.of = sheet.of /\ s.saldo = sheet.saldo /\ s.booked = sheet.booked
        /\ s.rows = [sheet.rows EXCEPT ![Len(sheet.rows)].named = TRUE]
    <2> DEFINE named == [sheet.rows EXCEPT ![Len(sheet.rows)].named = TRUE]
    <2>1. s = [sheet EXCEPT !.rows = named] OBVIOUS
    <2> HIDE DEF named, s
    <2>2. /\ DOMAIN s = SheetFields /\ s.text = sheet.text /\ s.of = sheet.of /\ s.saldo = sheet.saldo /\ s.booked = sheet.booked
          /\ s.rows = named
      BY <1>3, <2>1 DEF SheetFields
    <2> QED BY <2>2 DEF named
  <1> HIDE DEF s
  <1>7. LinePrinted(l, k, sheet') /\ sheet'.of = s.of /\ sheet'.saldo = s.saldo /\ sheet'.rows = s.rows /\ sheet'.booked = s.booked
    <2>1. DOMAIN s = SheetFields /\ s.text = sheet.text /\ PrintLine(l, k, s) BY <1>2, <1>6
    <2> QED BY ONLY <2>1, PrintedFields
  <1>8. sheet.k = "stock" => ~ HasKind(sheet.text, "funds") /\ HasKind(sheet.text, "stocks") /\ (bank = "Stockbit" => ~ HasKind(sheet.text, "total"))
    BY <1>3 DEF Progress, StockPart
  <1>9. sheet.k = "fund" => HasKind(sheet.text, "funds") /\ bank # "Stockbit"
    BY <1>3 DEF Progress, FundPart
  <1>10. LineRight(bank, sheet.text, l)
    <2>1. NextTo(bank, sheet.text[Len(sheet.text)].k, l.k) BY <1>1, <1>4, <1>5 DEF NextTo
    <2>2. HeadOf(bank, l.k) = l.k BY <1>5 DEF HeadOf
    <2>3. bank = "Stockbit" /\ l.k \in {"stock", "name"} => ~ HasKind(sheet.text, "total")
      BY <1>1, <1>8, <1>9
    <2>4. l.k \notin {"stocks", "stock", "funds"} /\ l.k \notin {"cash", "booking", "balance"}
      BY <1>5
    <2> QED BY <1>4, <1>5, <2>1, <2>2, <2>3, <2>4, LineBelow
  <1>11. KindsOutcome(sheet.text, l, sheet'.text) BY <1>5, <1>7, KindsNow
  <1>12. Progress(bank, k, sheet'.of, sheet'.text)
    <2>1. CASE k = "stock name"
      <3>1. sheet.k = "stock" BY <1>1, <1>2, <2>1
      <3> QED BY <1>4, <1>5, <1>8, <1>11, <2>1, <3>1 DEF Progress, KindsOutcome, StockPart, FundPart
    <2>2. CASE k = "fund name"
      BY <1>2, <1>4, <1>5, <1>9, <1>11, <2>2 DEF Progress, KindsOutcome, StockPart, FundPart
    <2> QED BY <2>1, <2>2
  <1>13. MoneyStep(bank, sheet, l, sheet')
    <2>1. sheet'.of = sheet.of /\ sheet'.saldo = sheet.saldo BY <1>6, <1>7
    <2> QED BY <1>5, <2>1, MoneySame
  <1>14. RowsStep(sheet.rows, l, sheet'.rows) /\ BookedStep(sheet.booked, l, sheet'.booked)
    BY <1>5, <1>6, <1>7 DEF RowsStep, BookedStep
  <1>15. k # "closed" /\ l.k \notin {"booking", "fund"} /\ sheet.text[Len(sheet.text)].k \in {"stock", "fund"}
    BY <1>1, <1>4, <1>5
  <1> QED BY <1>4, <1>7, <1>10, <1>12, <1>13, <1>14, <1>15, StepKept

LEMMA SectionTotalKept ==
  ASSUME Printing(bank, sheet), SectionTotal
  PROVE  Printing(bank', sheet') /\ read' = read
  <1> DEFINE l == Line("total")
  <1>1. sheet.k \in StockPart \cup FundPart /\ PrintLine(l, "subtotal", sheet)
    BY DEF SectionTotal, StockPart, FundPart
  <1>2. /\ DOMAIN sheet = SheetFields /\ sheet.text \in Seq(TextLines)
        /\ Progress(bank, sheet.k, sheet.of, sheet.text)
    BY PrintingFacts
  <1>3. /\ sheet.text # <<>> /\ HasKind(sheet.text, "balance")
        /\ ~ HasKind(sheet.text, "assets") /\ ~ HasKind(sheet.text, "net of funds") /\ bank # "IPOT statement"
    <2>1. sheet.k \notin {"start", "cash", "totals"} BY <1>1 DEF StockPart, FundPart
    <2> QED BY <1>2, <2>1, BelowBalance DEF Progress
  <1>4. l \in TextLines /\ l.k = "total"
    <2>1. "total" \in TextKinds BY DEF TextKinds
    <2> QED BY <2>1, LineTyped
  <1> HIDE DEF l
  <1>5. LinePrinted(l, "subtotal", sheet') /\ sheet'.of = sheet.of /\ sheet'.saldo = sheet.saldo /\ sheet'.rows = sheet.rows /\ sheet'.booked = sheet.booked
    BY <1>1, <1>2, PrintedFields
  <1>6. bank = "Stockbit" => HasKind(sheet.text, "stocks") BY <1>1, <1>2 DEF Progress
  <1>7. LineRight(bank, sheet.text, l)
    <2>1. NextTo(bank, sheet.text[Len(sheet.text)].k, l.k) BY <1>4 DEF NextTo
    <2>2. HeadOf(bank, l.k) = l.k \/ HasKind(sheet.text, HeadOf(bank, l.k)) BY <1>4, <1>6 DEF HeadOf
    <2>3. l.k \notin {"stocks", "stock", "funds", "name"} /\ l.k \notin {"cash", "booking", "balance"}
      BY <1>4
    <2> QED BY <1>3, <1>4, <2>1, <2>2, <2>3, LineBelow
  <1>8. KindsOutcome(sheet.text, l, sheet'.text) BY <1>4, <1>5, KindsNow
  <1>9. Progress(bank, "subtotal", sheet'.of, sheet'.text)
    BY <1>3, <1>4, <1>8 DEF Progress, KindsOutcome, StockPart, FundPart
  <1>10. MoneyStep(bank, sheet, l, sheet') BY <1>4, <1>5, MoneySame
  <1>11. RowsStep(sheet.rows, l, sheet'.rows) /\ BookedStep(sheet.booked, l, sheet'.booked)
    BY <1>4, <1>5, PlainLists DEF PlainStep
  <1>12. l.k \notin {"stock", "fund", "name", "booking"} BY <1>4
  <1> QED BY <1>5, <1>7, <1>9, <1>10, <1>11, <1>12, StepKept

LEMMA PageFooterKept ==
  ASSUME Printing(bank, sheet), PageFooter
  PROVE  Printing(bank', sheet') /\ read' = read
  <1> DEFINE l == Line("footer")
             s == [sheet EXCEPT !.stray = @ + 1]
             k == sheet.k
  <1>1. k \in {"balance", "subtotal", "stocks", "funds"} /\ PrintLine(l, k, s) BY DEF PageFooter
  <1>2. /\ DOMAIN sheet = SheetFields /\ sheet.text \in Seq(TextLines)
        /\ Progress(bank, k, sheet.of, sheet.text)
    BY PrintingFacts
  <1>3. /\ sheet.text # <<>> /\ HasKind(sheet.text, "balance") /\ sheet.text[Len(sheet.text)].k \notin {"stock", "fund"}
        /\ ~ HasKind(sheet.text, "assets") /\ ~ HasKind(sheet.text, "net of funds") /\ bank # "IPOT statement"
    BY <1>1, <1>2, BelowBalance DEF Progress
  <1>4. l \in TextLines /\ l.k = "footer"
    <2>1. "footer" \in TextKinds BY DEF TextKinds
    <2> QED BY <2>1, LineTyped
  <1>5. DOMAIN s = SheetFields /\ s.text = sheet.text /\ s.of = sheet.of /\ s.saldo = sheet.saldo /\ s.rows = sheet.rows /\ s.booked = sheet.booked
    BY <1>2 DEF SheetFields
  <1> HIDE DEF l, s, k
  <1>6. LinePrinted(l, k, sheet') /\ sheet'.of = sheet.of /\ sheet'.saldo = sheet.saldo /\ sheet'.rows = sheet.rows /\ sheet'.booked = sheet.booked
    BY <1>1, <1>5, PrintedFields
  <1>7. LineRight(bank, sheet.text, l)
    <2>1. NextTo(bank, sheet.text[Len(sheet.text)].k, l.k) BY <1>3 DEF NextTo
    <2>2. HeadOf(bank, l.k) = l.k BY <1>4 DEF HeadOf
    <2>3. l.k \notin {"stocks", "stock", "funds", "name"} /\ l.k \notin {"cash", "booking", "balance"}
      BY <1>4
    <2> QED BY <1>3, <1>4, <2>1, <2>2, <2>3, LineBelow
  <1>8. KindsOutcome(sheet.text, l, sheet'.text) BY <1>4, <1>6, KindsNow
  <1>9. Progress(bank, k, sheet'.of, sheet'.text)
    <2>1. CASE k \in {"balance", "subtotal"}
      BY <1>3, <1>4, <1>8, <2>1 DEF Progress, KindsOutcome, StockPart, FundPart
    <2>2. CASE k = "stocks"
      <3>1. HasKind(sheet.text, "stocks") /\ ~ HasKind(sheet.text, "funds") /\ (bank = "Stockbit" => ~ HasKind(sheet.text, "total"))
        BY <1>2, <2>2 DEF Progress, StockPart
      <3> QED BY <1>3, <1>4, <1>8, <2>2, <3>1 DEF Progress, KindsOutcome, StockPart, FundPart
    <2>3. CASE k = "funds"
      <3>1. HasKind(sheet.text, "funds") /\ bank # "Stockbit" BY <1>2, <2>3 DEF Progress, FundPart
      <3> QED BY <1>3, <1>4, <1>8, <2>3, <3>1 DEF Progress, KindsOutcome, StockPart, FundPart
    <2> QED BY <1>1, <2>1, <2>2, <2>3
  <1>10. MoneyStep(bank, sheet, l, sheet') BY <1>4, <1>6, MoneySame
  <1>11. RowsStep(sheet.rows, l, sheet'.rows) /\ BookedStep(sheet.booked, l, sheet'.booked)
    BY <1>4, <1>6, PlainLists DEF PlainStep
  <1>12. l.k \notin {"stock", "fund", "name", "booking"} /\ k # "closed" BY <1>1, <1>4
  <1> QED BY <1>6, <1>7, <1>9, <1>10, <1>11, <1>12, StepKept

LEMMA PortfolioTotalsKept ==
  ASSUME Printing(bank, sheet), PortfolioTotals
  PROVE  Printing(bank', sheet') /\ read' = read
  <1>1. sheet.k \in {"balance", "subtotal"} BY DEF PortfolioTotals
  <1>2. /\ DOMAIN sheet = SheetFields /\ sheet.text \in Seq(TextLines) /\ sheet.saldo \in Int /\ sheet.of \in Nat
        /\ bank # "IPOT portfolio" => sheet.of = 0
        /\ Progress(bank, sheet.k, sheet.of, sheet.text)
    BY PrintingFacts
  <1>3. /\ sheet.text # <<>> /\ HasKind(sheet.text, "balance") /\ sheet.text[Len(sheet.text)].k \notin {"stock", "fund"}
        /\ ~ HasKind(sheet.text, "assets") /\ ~ HasKind(sheet.text, "net of funds") /\ bank # "IPOT statement"
    BY <1>1, <1>2, BelowBalance DEF Progress
  <1>4. WorthOf(sheet.rows) \in Int BY DEF Printing, AssetsKnown
  <1>5. PICK k \in {"net of funds", "assets"}, amount \in Int :
          /\ k = "net of funds" => bank = "IPOT portfolio" /\ sheet.of > 0 /\ amount = sheet.saldo
          /\ k = "assets" => ~ (bank = "IPOT portfolio" /\ sheet.of > 0) /\ amount = sheet.saldo + WorthOf(sheet.rows)
          /\ PrintLine([Line(k) EXCEPT !.amount = amount], "totals", sheet)
    <2>1. CASE bank = "IPOT portfolio" /\ sheet.of > 0
      <3>1. PrintLine([Line("net of funds") EXCEPT !.amount = sheet.saldo], "totals", sheet)
        BY <2>1, Zenon DEF PortfolioTotals, Money
      <3>2. "net of funds" # "assets" OBVIOUS
      <3> QED BY <1>2, <2>1, <3>1, <3>2, Zenon
    <2>2. CASE ~ (bank = "IPOT portfolio" /\ sheet.of > 0)
      <3>1. PrintLine([Line("assets") EXCEPT !.amount = sheet.saldo + WorthOf(sheet.rows)], "totals", sheet)
        <4>1. CASE bank # "IPOT portfolio" BY <4>1, Zenon DEF PortfolioTotals
        <4>2. CASE bank = "IPOT portfolio"
          <5>1. ~ (sheet.of > 0) BY <2>2, <4>2
          <5> QED BY <4>2, <5>1, Zenon DEF PortfolioTotals, Money
        <4> QED BY <4>1, <4>2
      <3>2. "net of funds" # "assets" OBVIOUS
      <3>3. sheet.saldo + WorthOf(sheet.rows) \in Int
        <4>1. sheet.saldo \in Int BY <1>2
        <4> QED BY ONLY <1>4, <4>1
      <3> QED BY <2>2, <3>1, <3>2, <3>3, Zenon
    <2> QED BY <2>1, <2>2
  <1> DEFINE plain == Line(k)
             l == [plain EXCEPT !.amount = amount]
  <1>6. plain \in TextLines /\ plain.k = k
    <2>1. k \in TextKinds BY DEF TextKinds
    <2> QED BY <2>1, LineTyped
  <1>7. PrintLine(l, "totals", sheet) BY <1>5
  <1> HIDE DEF plain
  <1>8. l \in TextLines /\ l.k = k /\ l.amount = amount
    <2>1. plain \in TextLines /\ amount \in Int BY <1>6
    <2>2. l = [plain EXCEPT !.amount = amount] OBVIOUS
    <2> HIDE DEF l
    <2>3. l \in TextLines /\ l.amount = amount /\ l.k = plain.k BY ONLY <2>1, <2>2, ZenonT(30) DEF TextLines
    <2> QED BY <1>6, <2>3
  <1> HIDE DEF l
  <1>9. LinePrinted(l, "totals", sheet') /\ sheet'.of = sheet.of /\ sheet'.saldo = sheet.saldo /\ sheet'.rows = sheet.rows /\ sheet'.booked = sheet.booked
    BY <1>2, <1>7, PrintedFields
  <1>10. LineRight(bank, sheet.text, l)
    <2>1. NextTo(bank, sheet.text[Len(sheet.text)].k, l.k) BY <1>3 DEF NextTo
    <2>2. HeadOf(bank, l.k) = l.k BY <1>8 DEF HeadOf
    <2>3. l.k \notin {"stocks", "stock", "funds", "name"} /\ l.k \notin {"cash", "booking", "balance"}
      BY <1>8
    <2> QED BY <1>3, <1>8, <2>1, <2>2, <2>3, LineBelow
  <1>11. KindsOutcome(sheet.text, l, sheet'.text) BY <1>8, <1>9, KindsNow
  <1>12. Progress(bank, "totals", sheet'.of, sheet'.text)
    <2>1. HasKind(sheet'.text, "balance") /\ sheet'.text # <<>> /\ sheet'.text[Len(sheet'.text)].k = k /\ HasKind(sheet'.text, k)
      BY <1>3, <1>8, <1>11 DEF KindsOutcome
    <2>2. HasKind(sheet'.text, IF bank = "IPOT portfolio" /\ sheet'.of > 0 THEN "net of funds" ELSE "assets")
      <3>1. CASE k = "assets"
        <4>1. ~ (bank = "IPOT portfolio" /\ sheet'.of > 0) BY <1>5, <1>9, <3>1
        <4> QED BY ONLY <2>1, <3>1, <4>1, Zenon
      <3>2. CASE k = "net of funds"
        <4>1. bank = "IPOT portfolio" /\ sheet'.of > 0 BY <1>5, <1>9, <3>2
        <4> QED BY ONLY <2>1, <3>2, <4>1, Zenon
      <3> QED BY <3>1, <3>2
    <2>3. sheet'.text[Len(sheet'.text)].k \notin {"stock", "fund"} BY <2>1
    <2> QED BY ONLY <2>1, <2>2, <2>3 DEF Progress, StockPart, FundPart
  <1>13. MoneyStep(bank, sheet, l, sheet')
    <2>1. /\ l.k = "net of funds" => l.amount = sheet.saldo /\ bank = "IPOT portfolio" /\ sheet.of > 0
          /\ l.k = "assets" => l.amount = sheet.saldo + WorthOf(sheet.rows)
          /\ l.k \notin {"balance", "stock", "fund"}
      BY <1>5, <1>8
    <2> QED BY ONLY <1>2, <1>9, <2>1 DEF MoneyStep
  <1>14. RowsStep(sheet.rows, l, sheet'.rows) /\ BookedStep(sheet.booked, l, sheet'.booked)
    <2>1. PlainStep(l) BY <1>8, <1>9 DEF PlainStep
    <2> QED BY ONLY <2>1, PlainLists
  <1>15. l.k \notin {"stock", "fund", "name", "booking"} BY <1>8
  <1> QED BY <1>9, <1>10, <1>12, <1>13, <1>14, <1>15, StepKept

(* Portfolios. What is read of a complete text. *)
StocksOf(text) == {i \in DOMAIN text : text[i].k = "stock"}
FundsOf(text) == {i \in DOMAIN text : text[i].k = "fund"}

LEMMA FirstHeading ==
  ASSUME NEW b, NEW text, TextRight(b, text), NEW i \in DOMAIN text, NEW h \in 1 .. i, text[h].k \in {"stocks", "funds"}
  PROVE  /\ h \in DOMAIN text
         /\ \A j \in 1 .. (h - 1) : text[j].k # text[h].k
         /\ \A j \in (h + 1) .. i : Before(b, text[h].k, text[j].k)
  <1>1. Len(text) \in Nat /\ DOMAIN text = 1 .. Len(text) BY DEF TextRight
  <1>2. h \in DOMAIN text BY <1>1
  <1>3. \A j \in 1 .. (h - 1) : j \in DOMAIN text /\ j < h BY <1>1, <1>2
  <1>4. \A j \in (h + 1) .. i : j \in DOMAIN text /\ h < j BY <1>1, <1>2
  <1>5. \A j \in 1 .. (h - 1) : Before(b, text[j].k, text[h].k) BY <1>2, <1>3 DEF TextRight
  <1>6. \A j \in 1 .. (h - 1) : text[j].k # text[h].k BY <1>5 DEF Before
  <1>7. \A j \in (h + 1) .. i : Before(b, text[h].k, text[j].k) BY <1>2, <1>4 DEF TextRight
  <1> QED BY <1>2, <1>6, <1>7

LEMMA CashInSection ==
  ASSUME NEW b, NEW text, TextRight(b, text), b # "Stockbit", NEW i \in DOMAIN text, text[i].k \in {"booking", "balance"},
         NEW stops, stops \subseteq {"stocks", "funds"}
  PROVE  i \in SectionAt(text, "cash", stops)
  <1>1. Len(text) \in Nat /\ DOMAIN text = 1 .. Len(text) BY DEF TextRight
  <1>2. text # <<>> BY <1>1
  <1>3. text[1].k = "cash" /\ 1 \in 1 .. i BY <1>1, <1>2 DEF TextRight
  <1>4. \A j \in 1 .. (1 - 1) : text[j].k # "cash" OBVIOUS
  <1>5. \A j \in (1 + 1) .. i : text[j].k \notin stops
    <2> SUFFICES ASSUME NEW j \in (1 + 1) .. i PROVE text[j].k \notin {"stocks", "funds"}
      OBVIOUS
    <2>1. j \in DOMAIN text /\ (j < i \/ j = i) BY <1>1
    <2>2. CASE j < i
      <3>1. Before(b, text[j].k, text[i].k) BY <2>1, <2>2 DEF TextRight
      <3> QED BY <3>1 DEF Before
    <2>3. CASE j = i BY <2>3
    <2> QED BY <2>1, <2>2, <2>3
  <1> QED BY <1>3, <1>4, <1>5 DEF SectionAt

LEMMA StockInSection ==
  ASSUME NEW b, NEW text, TextRight(b, text), NEW i \in DOMAIN text, text[i].k = "stock",
         NEW stops, stops \in {{"stocks", "funds"}, {"funds"}} \/ (stops = {"total"} /\ b = "Stockbit")
  PROVE  /\ i \in SectionAt(text, "stocks", stops)
         /\ i + 1 \in DOMAIN text /\ text[i + 1].k = "name" => i + 1 \in SectionAt(text, "stocks", stops)
  <1>1. Len(text) \in Nat /\ DOMAIN text = 1 .. Len(text) BY DEF TextRight
  <1>2. PICK h \in 1 .. i : text[h].k = "stocks" BY DEF TextRight, HeadOf
  <1>3. /\ h \in DOMAIN text
        /\ \A j \in 1 .. (h - 1) : text[j].k # "stocks"
        /\ \A j \in (h + 1) .. i : Before(b, "stocks", text[j].k)
    BY <1>2, FirstHeading
  <1>4. \A j \in (h + 1) .. i : text[j].k \notin {"stocks", "funds"} /\ (b = "Stockbit" => text[j].k # "total")
    <2> SUFFICES ASSUME NEW j \in (h + 1) .. i PROVE text[j].k \notin {"stocks", "funds"} /\ (b = "Stockbit" => text[j].k # "total")
      OBVIOUS
    <2>1. j \in DOMAIN text /\ (j < i \/ j = i) BY <1>1, <1>3
    <2>2. text[j].k # "stocks" BY <1>3 DEF Before
    <2>3. CASE j < i
      <3>1. Before(b, text[j].k, text[i].k) BY <2>1, <2>3 DEF TextRight
      <3> QED BY <2>2, <3>1 DEF Before
    <2>4. CASE j = i BY <2>4
    <2> QED BY <2>1, <2>3, <2>4
  <1>5. \A j \in (h + 1) .. i : text[j].k \notin stops BY <1>4
  <1>6. i \in SectionAt(text, "stocks", stops) BY <1>2, <1>3, <1>5 DEF SectionAt
  <1>7. ASSUME i + 1 \in DOMAIN text, text[i + 1].k = "name"
        PROVE  i + 1 \in SectionAt(text, "stocks", stops)
    <2>1. h \in 1 .. (i + 1) BY <1>1
    <2>2. \A j \in (h + 1) .. (i + 1) : text[j].k \notin stops
      <3>1. \A j \in (h + 1) .. (i + 1) : j \in (h + 1) .. i \/ j = i + 1 BY <1>1, <1>3
      <3>2. "name" \notin stops OBVIOUS
      <3> QED BY <1>5, <1>7, <3>1, <3>2
    <2> QED BY <1>2, <1>3, <1>7, <2>1, <2>2 DEF SectionAt
  <1> QED BY <1>6, <1>7

LEMMA FundInSection ==
  ASSUME NEW b, NEW text, TextRight(b, text), NEW i \in DOMAIN text, text[i].k = "fund"
  PROVE  /\ i \in SectionAt(text, "funds", {})
         /\ i + 1 \in DOMAIN text => i + 1 \in SectionAt(text, "funds", {})
  <1>1. Len(text) \in Nat /\ DOMAIN text = 1 .. Len(text) BY DEF TextRight
  <1>2. PICK h \in 1 .. i : text[h].k = "funds" BY DEF TextRight, HeadOf
  <1>3. \A j \in 1 .. (h - 1) : text[j].k # "funds" BY <1>2, FirstHeading
  <1>4. h \in 1 .. (i + 1) BY <1>1
  <1> QED BY <1>2, <1>3, <1>4 DEF SectionAt

LEMMA NoStockAmongFunds ==
  ASSUME NEW b, NEW text, TextRight(b, text), NEW i \in SectionAt(text, "funds", {})
  PROVE  i \in DOMAIN text /\ text[i].k # "stock"
  <1>1. PICK h \in 1 .. i : text[h].k = "funds" /\ i \in DOMAIN text BY DEF SectionAt
  <1>2. /\ h \in DOMAIN text
        /\ \A j \in (h + 1) .. i : Before(b, "funds", text[j].k)
    BY <1>1, FirstHeading
  <1>3. CASE i = h BY <1>1, <1>3
  <1>4. CASE i # h
    <2>1. i \in (h + 1) .. i
      <3>1. Len(text) \in Nat /\ DOMAIN text = 1 .. Len(text) BY DEF TextRight
      <3> QED BY <1>1, <1>4, <3>1
    <2> QED BY <1>1, <1>2, <2>1 DEF Before
  <1> QED BY <1>1, <1>3, <1>4

LEMMA StocksFirst ==
  ASSUME NEW b, NEW text, TextRight(b, text), NEW i \in StocksOf(text), NEW j \in FundsOf(text)
  PROVE  i < j
  <1>1. Len(text) \in Nat /\ DOMAIN text = 1 .. Len(text) /\ i \in DOMAIN text /\ j \in DOMAIN text /\ text[i].k = "stock" /\ text[j].k = "fund"
    BY DEF TextRight, StocksOf, FundsOf
  <1>2. PICK h \in 1 .. j : text[h].k = "funds" BY <1>1 DEF TextRight, HeadOf
  <1>3. h \in DOMAIN text BY <1>1, <1>2
  <1>4. ~ (h < i)
    <2> SUFFICES ASSUME h < i PROVE FALSE
      OBVIOUS
    <2>1. Before(b, text[h].k, text[i].k) BY <1>1, <1>3 DEF TextRight
    <2> QED BY <1>1, <1>2, <2>1 DEF Before
  <1>5. i # h /\ i # j BY <1>1, <1>2
  <1> QED BY <1>1, <1>2, <1>3, <1>4, <1>5

LEMMA HoldingSame ==
  ASSUME NEW class, NEW l, NEW a \in BOOLEAN, NEW c \in BOOLEAN, a <=> c
  PROVE  Holding(class, l, a) = Holding(class, l, c)
  <1>1. a = c OBVIOUS
  <1> QED BY <1>1, Zenon

LEMMA ConcatForm ==
  ASSUME NEW S, NEW p \in Seq(S), NEW q \in Seq(S)
  PROVE  p \o q = [j \in 1 .. (Len(p) + Len(q)) |-> IF j <= Len(p) THEN p[j] ELSE q[j - Len(p)]]
  <1>1. /\ p \o q \in Seq(S) /\ Len(p \o q) = Len(p) + Len(q)
        /\ \A j \in 1 .. (Len(p) + Len(q)) : (p \o q)[j] = IF j <= Len(p) THEN p[j] ELSE q[j - Len(p)]
    BY ConcatProperties
  <1> DEFINE c == p \o q
             n == Len(p) + Len(q)
             f == [j \in 1 .. n |-> IF j <= Len(p) THEN p[j] ELSE q[j - Len(p)]]
  <1>2. c \in Seq(S) /\ Len(c) = n /\ \A j \in 1 .. n : c[j] = f[j] BY <1>1
  <1>3. n \in Nat /\ f = [j \in 1 .. n |-> f[j]] OBVIOUS
  <1> HIDE DEF c, n, f
  <1>4. c = [j \in 1 .. n |-> c[j]] BY ONLY <1>2, <1>3
  <1>5. c = f BY ONLY <1>2, <1>3, <1>4
  <1> QED BY <1>5 DEF c, f, n

LEMMA HeldJoined ==
  ASSUME NEW text \in Seq(TextLines), NEW I, NEW J, \A i \in 1 .. Len(text), j \in 1 .. Len(text) : i \in I /\ j \in J => i < j
  PROVE  HeldAt(text, I \cup J) = HeldAt(text, I) \o HeldAt(text, J)
  <1> DEFINE n == Len(text)
             a == Places(I, n)
             b == Places(J, n)
             both == Places(I \cup J, n)
             H(x) == HoldingAt(text, x)
  <1>1. n \in Nat OBVIOUS
  <1>2. both = a \o b
    <2>1. Ahead(I, J, n) BY <1>1 DEF Ahead
    <2>2. AreJoined(I, J, n)
      <3> HIDE DEF n
      <3> QED BY ONLY <2>1, PlacesJoined
    <2> QED BY <2>2 DEF AreJoined
  <1>3. a \in Seq(Int) /\ b \in Seq(Int) /\ Len(a) \in Nat /\ Len(b) \in Nat /\ DOMAIN a = 1 .. Len(a) /\ DOMAIN b = 1 .. Len(b)
    BY <1>1, PlacesInside
  <1>4. /\ HeldAt(text, I) = [j \in 1 .. Len(a) |-> H(a[j])]
        /\ HeldAt(text, J) = [j \in 1 .. Len(b) |-> H(b[j])]
        /\ HeldAt(text, I \cup J) = [j \in DOMAIN both |-> H(both[j])]
    BY <1>3 DEF HeldAt
  <1> HIDE DEF a, b, both, n, H
  <1> DEFINE p == [j \in 1 .. Len(a) |-> H(a[j])]
             q == [j \in 1 .. Len(b) |-> H(b[j])]
  <1>5. Len(p) = Len(a) /\ Len(q) = Len(b) BY ONLY <1>3
  <1>6. p \o q = [j \in 1 .. (Len(a) + Len(b)) |-> IF j <= Len(a) THEN p[j] ELSE q[j - Len(a)]]
    <2> HIDE DEF p, q
    <2>0. p \in Seq({H(x) : x \in Int}) /\ q \in Seq({H(x) : x \in Int})
      <3>1. (\A j \in 1 .. Len(a) : H(a[j]) \in {H(x) : x \in Int}) /\ \A j \in 1 .. Len(b) : H(b[j]) \in {H(x) : x \in Int}
        BY <1>3
      <3> QED BY ONLY <1>3, <3>1 DEF p, q
    <2>1. p \o q = [j \in 1 .. (Len(p) + Len(q)) |-> IF j <= Len(p) THEN p[j] ELSE q[j - Len(p)]]
      BY ONLY <2>0, ConcatForm
    <2> QED BY <1>5, <2>1
  <1>7. DOMAIN both = 1 .. (Len(a) + Len(b)) /\ \A j \in 1 .. (Len(a) + Len(b)) : both[j] = IF j <= Len(a) THEN a[j] ELSE b[j - Len(a)]
    BY ONLY <1>2, <1>3
  <1>8. \A j \in 1 .. (Len(a) + Len(b)) : H(both[j]) = IF j <= Len(a) THEN p[j] ELSE q[j - Len(a)]
    <2> SUFFICES ASSUME NEW j \in 1 .. (Len(a) + Len(b)) PROVE H(both[j]) = IF j <= Len(a) THEN p[j] ELSE q[j - Len(a)]
      OBVIOUS
    <2>1. CASE j <= Len(a)
      <3>1. j \in 1 .. Len(a) /\ both[j] = a[j] BY <1>3, <1>7, <2>1
      <3> QED BY <2>1, <3>1
    <2>2. CASE ~ (j <= Len(a))
      <3>1. j - Len(a) \in 1 .. Len(b) /\ both[j] = b[j - Len(a)] BY <1>3, <1>7, <2>2
      <3> QED BY <2>2, <3>1
    <2> QED BY <2>1, <2>2
  <1>9. [j \in DOMAIN both |-> H(both[j])] = p \o q
    <2> HIDE DEF p, q
    <2> QED BY <1>6, <1>7, <1>8
  <1> QED BY <1>4, <1>9

(* Portfolios. Each section is read as it was printed. *)
ListedBy(text, at, listed) ==
  listed = [j \in DOMAIN at |-> listed[j]] /\ \A j \in DOMAIN at : listed[j] = HoldingAt(text, at[j])

LEMMA ListedIsHeld ==
  ASSUME NEW text, Len(text) \in Nat, NEW I, NEW J, \A i \in 1 .. Len(text) : i \in I <=> i \in J,
         NEW listed, ListedBy(text, Places(I, Len(text)), listed)
  PROVE  listed = HeldAt(text, J)
  <1> DEFINE at == Places(I, Len(text))
  <1>1. at = Places(J, Len(text)) BY PlacesOfSame
  <1>2. listed = [j \in DOMAIN at |-> listed[j]] /\ \A j \in DOMAIN at : listed[j] = HoldingAt(text, at[j])
    BY DEF ListedBy
  <1>3. HeldAt(text, J) = [j \in DOMAIN at |-> HoldingAt(text, at[j])] BY <1>1 DEF HeldAt
  <1> HIDE DEF at
  <1> QED BY ONLY <1>2, <1>3

\* What the rows of a section are read as, when the rule for names finds every name.
LEMMA RowRead ==
  ASSUME NEW text, NEW i, NEW class, NEW a \in BOOLEAN,
         class = IF text[i].k = "stock" THEN "stock" ELSE "mutual_fund",
         a <=> (i + 1 \in DOMAIN text /\ text[i + 1].k = "name")
  PROVE  Holding(class, text[i], a) = HoldingAt(text, i)
  <1> DEFINE c == i + 1 \in DOMAIN text /\ text[i + 1].k = "name"
  <1>1. c \in BOOLEAN /\ (a <=> c) OBVIOUS
  <1>2. HoldingAt(text, i) = Holding(class, text[i], c) BY Zenon DEF HoldingAt
  <1> HIDE DEF c
  <1>3. Holding(class, text[i], a) = Holding(class, text[i], c) BY ONLY <1>1, HoldingSame
  <1> QED BY <1>2, <1>3

LEMMA TextIsText ==
  ASSUME NEW b, NEW text, TextRight(b, text)
  PROVE  text \in Seq(TextLines) /\ Len(text) \in Nat /\ DOMAIN text = 1 .. Len(text)
  <1>1. text \in Seq(TextLines) BY DEF TextRight
  <1> QED BY ONLY <1>1

LEMMA StocksAreRead ==
  ASSUME NEW b, b \in {"BNI", "IPOT portfolio"}, NEW text, TextRight(b, text)
  PROVE  StocksIn(text) = HeldAt(text, StocksOf(text))
  <1> DEFINE sec == SectionAt(text, "stocks", {"stocks", "funds"})
             I == {i \in sec : text[i].k = "stock"}
             at == Places(I, Len(text))
             named(i) == i + 1 \in sec /\ FALSE
             listed == [j \in DOMAIN at |-> Holding("stock", text[at[j]], named(at[j]))]
  <1>0. b \in {"BNI", "IPOT portfolio"} /\ TextRight(b, text) OBVIOUS
  <1>1. Len(text) \in Nat /\ DOMAIN text = 1 .. Len(text) BY TextIsText
  <1>2. StocksIn(text) = listed BY DEF StocksIn, HoldingsIn, StockRow, Never
  <1>3. sec \subseteq DOMAIN text BY DEF SectionAt
  <1>4. \A i \in DOMAIN text : text[i].k = "stock" => i \in sec BY StockInSection
  <1>5. \A i \in 1 .. Len(text) : i \in I <=> i \in StocksOf(text) BY <1>1, <1>3, <1>4 DEF StocksOf
  <1>6. DOMAIN at = 1 .. Len(at) /\ \A j \in 1 .. Len(at) : at[j] \in 1 .. Len(text) /\ at[j] \in I
    BY <1>1, PlacesInside
  <1> HIDE DEF at
  <1>7. \A j \in DOMAIN at : listed[j] = HoldingAt(text, at[j])
    <2> SUFFICES ASSUME NEW j \in DOMAIN at PROVE listed[j] = HoldingAt(text, at[j])
      OBVIOUS
    <2>1. at[j] \in DOMAIN text /\ text[at[j]].k = "stock" BY <1>1, <1>4, <1>6
    <2>2. named(at[j]) \in BOOLEAN /\ (named(at[j]) <=> (at[j] + 1 \in DOMAIN text /\ text[at[j] + 1].k = "name"))
      BY <1>3, <2>1 DEF TextRight, NextTo
    <2>3. listed[j] = Holding("stock", text[at[j]], named(at[j])) BY Zenon
    <2> HIDE DEF named
    <2>4. Holding("stock", text[at[j]], named(at[j])) = HoldingAt(text, at[j])
      BY ONLY <2>1, <2>2, RowRead
    <2> QED BY <2>3, <2>4
  <1>8. listed = [j \in DOMAIN at |-> listed[j]] OBVIOUS
  <1> HIDE DEF listed, I
  <1>9. ListedBy(text, Places(I, Len(text)), listed) BY <1>7, <1>8 DEF ListedBy, at
  <1>10. listed = HeldAt(text, StocksOf(text)) BY ONLY <1>1, <1>5, <1>9, ListedIsHeld
  <1> QED BY <1>2, <1>10

LEMMA BniFundsAreRead ==
  ASSUME NEW b, b = "BNI", NEW text, TextRight(b, text)
  PROVE  BniFunds(text) = HeldAt(text, FundsOf(text))
  <1> DEFINE sec == SectionAt(text, "funds", {})
             I == {i \in sec : text[i].k \in {"stock", "fund"}}
             at == Places(I, Len(text))
             named(i) == i + 1 \in sec /\ text[i + 1].k \notin {"stock", "fund", "total", "stocks", "funds"}
             listed == [j \in DOMAIN at |-> Holding("mutual_fund", text[at[j]], named(at[j]))]
  <1>0. b = "BNI" /\ TextRight(b, text) OBVIOUS
  <1>1. Len(text) \in Nat /\ DOMAIN text = 1 .. Len(text) BY TextIsText
  <1>2. BniFunds(text) = listed BY DEF BniFunds, HoldingsIn, AnyRow, NotARow
  <1>3. sec \subseteq DOMAIN text BY DEF SectionAt
  <1>4. /\ \A i \in DOMAIN text : text[i].k = "fund" => i \in sec
        /\ \A i \in sec : text[i].k # "stock"
    BY FundInSection, NoStockAmongFunds
  <1>5. \A i \in 1 .. Len(text) : i \in I <=> i \in FundsOf(text) BY <1>1, <1>3, <1>4 DEF FundsOf
  <1>6. DOMAIN at = 1 .. Len(at) /\ \A j \in 1 .. Len(at) : at[j] \in 1 .. Len(text) /\ at[j] \in I
    BY <1>1, PlacesInside
  <1> HIDE DEF at
  <1>7. \A j \in DOMAIN at : listed[j] = HoldingAt(text, at[j])
    <2> SUFFICES ASSUME NEW j \in DOMAIN at PROVE listed[j] = HoldingAt(text, at[j])
      OBVIOUS
    <2>1. at[j] \in DOMAIN text /\ text[at[j]].k = "fund" BY <1>1, <1>4, <1>6
    <2>2. named(at[j]) \in BOOLEAN /\ (named(at[j]) <=> (at[j] + 1 \in DOMAIN text /\ text[at[j] + 1].k = "name"))
      <3>1. at[j] + 1 \in DOMAIN text => at[j] + 1 \in sec BY <2>1, FundInSection
      <3>2. at[j] + 1 \in sec => at[j] + 1 \in DOMAIN text BY <1>3
      <3>3. at[j] + 1 \in DOMAIN text => text[at[j] + 1].k \in {"fund", "total", "name"}
        BY <2>1 DEF TextRight, NextTo
      <3> HIDE DEF sec
      <3> QED BY <3>1, <3>2, <3>3
    <2>3. listed[j] = Holding("mutual_fund", text[at[j]], named(at[j])) BY Zenon
    <2> HIDE DEF named
    <2>4. Holding("mutual_fund", text[at[j]], named(at[j])) = HoldingAt(text, at[j])
      BY ONLY <2>1, <2>2, RowRead
    <2> QED BY <2>3, <2>4
  <1>8. listed = [j \in DOMAIN at |-> listed[j]] OBVIOUS
  <1> HIDE DEF listed, I
  <1>9. ListedBy(text, Places(I, Len(text)), listed) BY <1>7, <1>8 DEF ListedBy, at
  <1>10. listed = HeldAt(text, FundsOf(text)) BY ONLY <1>1, <1>5, <1>9, ListedIsHeld
  <1> QED BY <1>2, <1>10

LEMMA IpotFundsAreRead ==
  ASSUME NEW b, b = "IPOT portfolio", NEW text, TextRight(b, text)
  PROVE  IpotFunds(text) = HeldAt(text, FundsOf(text))
  <1> DEFINE sec == SectionAt(text, "funds", {})
             I == {i \in sec : text[i].k \in {"stock", "fund"}}
             at == Places(I, Len(text))
             named(i) == i + 1 \in sec /\ FALSE
             listed == [j \in DOMAIN at |-> Holding("mutual_fund", text[at[j]], named(at[j]))]
  <1>0. b = "IPOT portfolio" /\ TextRight(b, text) OBVIOUS
  <1>1. Len(text) \in Nat /\ DOMAIN text = 1 .. Len(text) BY TextIsText
  <1>2. IpotFunds(text) = listed BY DEF IpotFunds, HoldingsIn, AnyRow, Never
  <1>3. sec \subseteq DOMAIN text BY DEF SectionAt
  <1>4. /\ \A i \in DOMAIN text : text[i].k = "fund" => i \in sec
        /\ \A i \in sec : text[i].k # "stock"
    BY FundInSection, NoStockAmongFunds
  <1>5. \A i \in 1 .. Len(text) : i \in I <=> i \in FundsOf(text) BY <1>1, <1>3, <1>4 DEF FundsOf
  <1>6. DOMAIN at = 1 .. Len(at) /\ \A j \in 1 .. Len(at) : at[j] \in 1 .. Len(text) /\ at[j] \in I
    BY <1>1, PlacesInside
  <1> HIDE DEF at
  <1>7. \A j \in DOMAIN at : listed[j] = HoldingAt(text, at[j])
    <2> SUFFICES ASSUME NEW j \in DOMAIN at PROVE listed[j] = HoldingAt(text, at[j])
      OBVIOUS
    <2>1. at[j] \in DOMAIN text /\ text[at[j]].k = "fund" BY <1>1, <1>4, <1>6
    <2>2. named(at[j]) \in BOOLEAN /\ (named(at[j]) <=> (at[j] + 1 \in DOMAIN text /\ text[at[j] + 1].k = "name"))
      BY <1>3, <2>1 DEF TextRight, NextTo
    <2>3. listed[j] = Holding("mutual_fund", text[at[j]], named(at[j])) BY Zenon
    <2> HIDE DEF named
    <2>4. Holding("mutual_fund", text[at[j]], named(at[j])) = HoldingAt(text, at[j])
      BY ONLY <2>1, <2>2, RowRead
    <2> QED BY <2>3, <2>4
  <1>8. listed = [j \in DOMAIN at |-> listed[j]] OBVIOUS
  <1> HIDE DEF listed, I
  <1>9. ListedBy(text, Places(I, Len(text)), listed) BY <1>7, <1>8 DEF ListedBy, at
  <1>10. listed = HeldAt(text, FundsOf(text)) BY ONLY <1>1, <1>5, <1>9, ListedIsHeld
  <1> QED BY <1>2, <1>10

SeenStocks(text) == {i \in StocksOf(text) : LossRow(text[i])}
SeenFunds(text) == {i \in FundsOf(text) : GainRow(text[i])}

LEMMA OldStocksAreRead ==
  ASSUME NEW b, b = "BNI old", NEW text, TextRight(b, text)
  PROVE  HoldingsIn(text, SectionAt(text, "stocks", {"funds"}), "stock", LossRow, NameLine) = HeldAt(text, SeenStocks(text))
  <1> DEFINE sec == SectionAt(text, "stocks", {"funds"})
             I == {i \in sec : text[i].k = "stock" /\ ~ text[i].whole}
             at == Places(I, Len(text))
             named(i) == i + 1 \in sec /\ text[i + 1].k = "name"
             listed == [j \in DOMAIN at |-> Holding("stock", text[at[j]], named(at[j]))]
  <1>0. b = "BNI old" /\ TextRight(b, text) OBVIOUS
  <1>1. Len(text) \in Nat /\ DOMAIN text = 1 .. Len(text) BY TextIsText
  <1>2. HoldingsIn(text, SectionAt(text, "stocks", {"funds"}), "stock", LossRow, NameLine) = listed
    BY DEF HoldingsIn, LossRow, NameLine
  <1>3. sec \subseteq DOMAIN text BY DEF SectionAt
  <1>4. \A i \in DOMAIN text : text[i].k = "stock" => i \in sec BY StockInSection
  <1>5. \A i \in 1 .. Len(text) : i \in I <=> i \in SeenStocks(text)
    BY <1>1, <1>3, <1>4 DEF SeenStocks, StocksOf, LossRow
  <1>6. DOMAIN at = 1 .. Len(at) /\ \A j \in 1 .. Len(at) : at[j] \in 1 .. Len(text) /\ at[j] \in I
    BY <1>1, PlacesInside
  <1> HIDE DEF at
  <1>7. \A j \in DOMAIN at : listed[j] = HoldingAt(text, at[j])
    <2> SUFFICES ASSUME NEW j \in DOMAIN at PROVE listed[j] = HoldingAt(text, at[j])
      OBVIOUS
    <2>1. at[j] \in DOMAIN text /\ text[at[j]].k = "stock" BY <1>1, <1>4, <1>6
    <2>2. named(at[j]) \in BOOLEAN /\ (named(at[j]) <=> (at[j] + 1 \in DOMAIN text /\ text[at[j] + 1].k = "name"))
      <3>1. at[j] + 1 \in DOMAIN text /\ text[at[j] + 1].k = "name" => at[j] + 1 \in sec
        BY ONLY <1>0, <2>1, StockInSection DEF sec
      <3>2. \A i \in sec : i \in DOMAIN text BY <1>3
      <3> HIDE DEF sec
      <3> QED BY <3>1, <3>2
    <2>3. listed[j] = Holding("stock", text[at[j]], named(at[j])) BY Zenon
    <2> HIDE DEF named
    <2>4. Holding("stock", text[at[j]], named(at[j])) = HoldingAt(text, at[j])
      BY ONLY <2>1, <2>2, RowRead
    <2> QED BY <2>3, <2>4
  <1>8. listed = [j \in DOMAIN at |-> listed[j]] OBVIOUS
  <1> HIDE DEF listed, I
  <1>9. ListedBy(text, Places(I, Len(text)), listed) BY <1>7, <1>8 DEF ListedBy, at
  <1>10. listed = HeldAt(text, SeenStocks(text)) BY ONLY <1>1, <1>5, <1>9, ListedIsHeld
  <1> QED BY <1>2, <1>10

LEMMA OldFundsAreRead ==
  ASSUME NEW b, b = "BNI old", NEW text, TextRight(b, text)
  PROVE  HoldingsIn(text, SectionAt(text, "funds", {}), "mutual_fund", GainRow, NameLine) = HeldAt(text, SeenFunds(text))
  <1> DEFINE sec == SectionAt(text, "funds", {})
             I == {i \in sec : text[i].k = "fund" /\ text[i].whole}
             at == Places(I, Len(text))
             named(i) == i + 1 \in sec /\ text[i + 1].k = "name"
             listed == [j \in DOMAIN at |-> Holding("mutual_fund", text[at[j]], named(at[j]))]
  <1>0. b = "BNI old" /\ TextRight(b, text) OBVIOUS
  <1>1. Len(text) \in Nat /\ DOMAIN text = 1 .. Len(text) BY TextIsText
  <1>2. HoldingsIn(text, SectionAt(text, "funds", {}), "mutual_fund", GainRow, NameLine) = listed
    BY DEF HoldingsIn, GainRow, NameLine
  <1>3. sec \subseteq DOMAIN text BY DEF SectionAt
  <1>4. /\ \A i \in DOMAIN text : text[i].k = "fund" => i \in sec
        /\ \A i \in sec : text[i].k # "stock"
    BY FundInSection, NoStockAmongFunds
  <1>5. \A i \in 1 .. Len(text) : i \in I <=> i \in SeenFunds(text)
    BY <1>1, <1>3, <1>4 DEF SeenFunds, FundsOf, GainRow
  <1>6. DOMAIN at = 1 .. Len(at) /\ \A j \in 1 .. Len(at) : at[j] \in 1 .. Len(text) /\ at[j] \in I
    BY <1>1, PlacesInside
  <1> HIDE DEF at
  <1>7. \A j \in DOMAIN at : listed[j] = HoldingAt(text, at[j])
    <2> SUFFICES ASSUME NEW j \in DOMAIN at PROVE listed[j] = HoldingAt(text, at[j])
      OBVIOUS
    <2>1. at[j] \in DOMAIN text /\ text[at[j]].k = "fund" BY <1>1, <1>4, <1>6
    <2>2. named(at[j]) \in BOOLEAN /\ (named(at[j]) <=> (at[j] + 1 \in DOMAIN text /\ text[at[j] + 1].k = "name"))
      <3>1. at[j] + 1 \in DOMAIN text /\ text[at[j] + 1].k = "name" => at[j] + 1 \in sec
        BY ONLY <1>0, <2>1, FundInSection DEF sec
      <3>2. \A i \in sec : i \in DOMAIN text BY <1>3
      <3> HIDE DEF sec
      <3> QED BY <3>1, <3>2
    <2>3. listed[j] = Holding("mutual_fund", text[at[j]], named(at[j])) BY Zenon
    <2> HIDE DEF named
    <2>4. Holding("mutual_fund", text[at[j]], named(at[j])) = HoldingAt(text, at[j])
      BY ONLY <2>1, <2>2, RowRead
    <2> QED BY <2>3, <2>4
  <1>8. listed = [j \in DOMAIN at |-> listed[j]] OBVIOUS
  <1> HIDE DEF listed, I
  <1>9. ListedBy(text, Places(I, Len(text)), listed) BY <1>7, <1>8 DEF ListedBy, at
  <1>10. listed = HeldAt(text, SeenFunds(text)) BY ONLY <1>1, <1>5, <1>9, ListedIsHeld
  <1> QED BY <1>2, <1>10

LEMMA StockbitIsRead ==
  ASSUME NEW b, b = "Stockbit", NEW text, TextRight(b, text)
  PROVE  StockbitHoldings(text) = HeldAt(text, StocksOf(text))
  <1> DEFINE sec == SectionAt(text, "stocks", {"total"})
             I == {i \in sec : text[i].k = "stock"}
             at == Places(I, Len(text))
             named(i) == i + 1 \in sec /\ text[i + 1].k = "name"
             listed == [j \in DOMAIN at |-> Holding("stock", text[at[j]], named(at[j]))]
  <1>0. b = "Stockbit" /\ TextRight(b, text) OBVIOUS
  <1>1. Len(text) \in Nat /\ DOMAIN text = 1 .. Len(text) BY TextIsText
  <1>2. StockbitHoldings(text) = listed BY DEF StockbitHoldings, HoldingsIn, StockRow, NameLine
  <1>3. sec \subseteq DOMAIN text BY DEF SectionAt
  <1>4. \A i \in DOMAIN text : text[i].k = "stock" => i \in sec BY StockInSection
  <1>5. \A i \in 1 .. Len(text) : i \in I <=> i \in StocksOf(text) BY <1>1, <1>3, <1>4 DEF StocksOf
  <1>6. DOMAIN at = 1 .. Len(at) /\ \A j \in 1 .. Len(at) : at[j] \in 1 .. Len(text) /\ at[j] \in I
    BY <1>1, PlacesInside
  <1> HIDE DEF at
  <1>7. \A j \in DOMAIN at : listed[j] = HoldingAt(text, at[j])
    <2> SUFFICES ASSUME NEW j \in DOMAIN at PROVE listed[j] = HoldingAt(text, at[j])
      OBVIOUS
    <2>1. at[j] \in DOMAIN text /\ text[at[j]].k = "stock" BY <1>1, <1>4, <1>6
    <2>2. named(at[j]) \in BOOLEAN /\ (named(at[j]) <=> (at[j] + 1 \in DOMAIN text /\ text[at[j] + 1].k = "name"))
      <3>1. at[j] + 1 \in DOMAIN text /\ text[at[j] + 1].k = "name" => at[j] + 1 \in sec
        BY ONLY <1>0, <2>1, StockInSection DEF sec
      <3>2. \A i \in sec : i \in DOMAIN text BY <1>3
      <3> HIDE DEF sec
      <3> QED BY <3>1, <3>2
    <2>3. listed[j] = Holding("stock", text[at[j]], named(at[j])) BY Zenon
    <2> HIDE DEF named
    <2>4. Holding("stock", text[at[j]], named(at[j])) = HoldingAt(text, at[j])
      BY ONLY <2>1, <2>2, RowRead
    <2> QED BY <2>3, <2>4
  <1>8. listed = [j \in DOMAIN at |-> listed[j]] OBVIOUS
  <1> HIDE DEF listed, I
  <1>9. ListedBy(text, Places(I, Len(text)), listed) BY <1>7, <1>8 DEF ListedBy, at
  <1>10. listed = HeldAt(text, StocksOf(text)) BY ONLY <1>1, <1>5, <1>9, ListedIsHeld
  <1> QED BY <1>2, <1>10

(* Portfolios. A complete statement is read. *)
Agreed(text, section, k, v) ==
  /\ \A i \in section : i \in Nat
  /\ \E i \in section : text[i].k = k
  /\ \A i \in section : text[i].k = k => text[i].amount = v

LEMMA AmountFound ==
  ASSUME NEW text, NEW section, NEW k, NEW v, Agreed(text, section, k, v)
  PROVE  AmountOn(text, section, k) = v
  <1> DEFINE at == {i \in section : text[i].k = k}
  <1>1. at \in SUBSET Nat /\ at # {} BY DEF Agreed
  <1>2. PICK m \in at : \A n \in at : m <= n BY <1>1, LeastNumber
  <1>3. Min(at) \in at BY <1>2, Zenon DEF Min
  <1>4. AmountOn(text, section, k) = text[Min(at)].amount BY <1>1 DEF AmountOn
  <1> QED BY <1>3, <1>4 DEF Agreed

LEMMA HeldTogether ==
  ASSUME NEW b, NEW text, TextRight(b, text), NEW S, NEW F, S \subseteq StocksOf(text), F \subseteq FundsOf(text), NEW I,
         \A i \in DOMAIN text : i \in I <=> i \in S \/ i \in F
  PROVE  HeldAt(text, S) \o HeldAt(text, F) = HeldAt(text, I)
  <1>1. text \in Seq(TextLines) /\ Len(text) \in Nat /\ DOMAIN text = 1 .. Len(text) BY TextIsText
  <1>2. \A i \in 1 .. Len(text), j \in 1 .. Len(text) : i \in S /\ j \in F => i < j BY StocksFirst
  <1>3. HeldAt(text, S \cup F) = HeldAt(text, S) \o HeldAt(text, F) BY <1>1, <1>2, HeldJoined
  <1>4. \A i \in 1 .. Len(text) : i \in S \cup F <=> i \in I BY <1>1
  <1>5. HeldAt(text, S \cup F) = HeldAt(text, I) BY ONLY <1>1, <1>4, HeldSame
  <1> QED BY <1>3, <1>5

LEMMA HoldingsAreRead ==
  ASSUME Printing(bank, sheet), sheet.k = "totals", bank # "IPOT statement"
  PROVE  HoldingsOf(sheet.text) = sheet.rows \/ (bank = "BNI old" /\ HoldingsOf(sheet.text) = HeldAt(sheet.text, SeenIn(sheet.text)))
  <1> DEFINE text == sheet.text
  <1>1. /\ TextRight(bank, text) /\ sheet.rows = HeldAt(text, RowsIn(text)) /\ bank \in AllBrokers
        /\ bank = "Stockbit" => ~ HasKind(text, "fund")
    BY PortfolioAssumption DEF Printing, ListsKept
  <1>2. Len(text) \in Nat /\ DOMAIN text = 1 .. Len(text) BY <1>1, TextIsText
  <1> HIDE DEF text
  <1>3. CASE bank \in {"BNI", "IPOT portfolio"}
    <2>1. \A i \in DOMAIN text : i \in RowsIn(text) <=> i \in StocksOf(text) \/ i \in FundsOf(text)
      BY DEF RowsIn, StocksOf, FundsOf
    <2>2. HeldAt(text, StocksOf(text)) \o HeldAt(text, FundsOf(text)) = sheet.rows
      <3>1. StocksOf(text) \subseteq StocksOf(text) /\ FundsOf(text) \subseteq FundsOf(text) OBVIOUS
      <3>2. HeldAt(text, StocksOf(text)) \o HeldAt(text, FundsOf(text)) = HeldAt(text, RowsIn(text))
        BY ONLY <1>1, <2>1, <3>1, HeldTogether
      <3> QED BY <1>1, <3>2
    <2>3. StocksIn(text) = HeldAt(text, StocksOf(text)) BY <1>1, <1>3, StocksAreRead
    <2>4. CASE bank = "BNI"
      <3>1. BniFunds(text) = HeldAt(text, FundsOf(text)) BY <1>1, <2>4, BniFundsAreRead
      <3>2. HoldingsOf(text) = StocksIn(text) \o BniFunds(text) BY <2>4 DEF HoldingsOf
      <3> QED BY <2>2, <2>3, <3>1, <3>2 DEF text
    <2>5. CASE bank = "IPOT portfolio"
      <3>1. IpotFunds(text) = HeldAt(text, FundsOf(text)) BY <1>1, <2>5, IpotFundsAreRead
      <3>2. HoldingsOf(text) = StocksIn(text) \o IpotFunds(text) BY <2>5 DEF HoldingsOf
      <3> QED BY <2>2, <2>3, <3>1, <3>2 DEF text
    <2> QED BY <1>3, <2>4, <2>5
  <1>4. CASE bank = "Stockbit"
    <2>1. \A i \in 1 .. Len(text) : i \in StocksOf(text) <=> i \in RowsIn(text)
      BY <1>1, <1>2, <1>4 DEF RowsIn, StocksOf, HasKind
    <2>2. HeldAt(text, StocksOf(text)) = HeldAt(text, RowsIn(text)) BY ONLY <1>2, <2>1, HeldSame
    <2>3. StockbitHoldings(text) = HeldAt(text, StocksOf(text)) BY <1>1, <1>4, StockbitIsRead
    <2>4. HoldingsOf(text) = StockbitHoldings(text) BY <1>4 DEF HoldingsOf
    <2> QED BY <1>1, <2>2, <2>3, <2>4 DEF text
  <1>5. CASE bank = "BNI old"
    <2>1. \A i \in DOMAIN text : i \in SeenIn(text) <=> i \in SeenStocks(text) \/ i \in SeenFunds(text)
      BY DEF SeenIn, SeenStocks, SeenFunds, StocksOf, FundsOf, LossRow, GainRow
    <2>2. SeenStocks(text) \subseteq StocksOf(text) /\ SeenFunds(text) \subseteq FundsOf(text)
      BY DEF SeenStocks, SeenFunds
    <2>3. HeldAt(text, SeenStocks(text)) \o HeldAt(text, SeenFunds(text)) = HeldAt(text, SeenIn(text))
      BY ONLY <1>1, <2>1, <2>2, HeldTogether
    <2>4. OldHoldings(text) = HeldAt(text, SeenStocks(text)) \o HeldAt(text, SeenFunds(text))
      BY <1>1, <1>5, OldStocksAreRead, OldFundsAreRead DEF OldHoldings
    <2>5. HoldingsOf(text) = OldHoldings(text) BY <1>5 DEF HoldingsOf
    <2> QED BY <1>5, <2>3, <2>4, <2>5 DEF text
  <1> QED BY <1>1, <1>3, <1>4, <1>5 DEF AllBrokers

LEMMA BalanceIsFound ==
  ASSUME Printing(bank, sheet), sheet.k = "totals"
  PROVE  BalanceShown(sheet.text) = sheet.saldo
  <1> DEFINE text == sheet.text
             v == sheet.saldo
  <1>1. /\ TextRight(bank, text) /\ bank \in AllBrokers /\ HasKind(text, "balance") /\ v \in Int /\ sheet.of \in Nat
        /\ bank # "IPOT portfolio" => sheet.of = 0
        /\ bank = "IPOT portfolio" /\ sheet.of > 0 => HasKind(text, "net of funds")
        /\ \A i \in DOMAIN text : /\ text[i].k = "balance" => text[i].amount = v + sheet.of
                                  /\ text[i].k = "net of funds" => text[i].amount = v /\ bank = "IPOT portfolio" /\ sheet.of > 0
    BY PortfolioAssumption DEF Printing, Progress, MoneyRight
  <1>9. v \in Int /\ sheet.of \in Nat BY <1>1, Zenon
  <1>2. Len(text) \in Nat /\ DOMAIN text = 1 .. Len(text) BY <1>1, TextIsText
  <1>3. PICK i \in DOMAIN text : text[i].k = "balance" BY <1>1 DEF HasKind
  <1>4. sheet.of = 0 => \A j \in DOMAIN text : text[j].k = "balance" => text[j].amount = v
    <2> HIDE DEF text, v
    <2> SUFFICES ASSUME sheet.of = 0, NEW j \in DOMAIN text, text[j].k = "balance" PROVE text[j].amount = v
      BY Zenon
    <2>1. text[j].amount = v + sheet.of BY <1>1, Zenon
    <2>2. v + 0 = v BY ONLY <1>9
    <2> QED BY ONLY <2>1, <2>2, sheet.of = 0
  <1>0. (sheet.of = 0 \/ sheet.of > 0) /\ ~ (0 > 0) BY ONLY <1>9
  <1> HIDE DEF text, v
  <1>5. CASE bank = "IPOT portfolio" /\ sheet.of > 0
    <2>1. \E j \in DOMAIN text : text[j].k = "net of funds" BY <1>1, <1>5 DEF HasKind
    <2>2. Agreed(text, DOMAIN text, "net of funds", v)
      <3>1. \A j \in DOMAIN text : j \in Nat BY <1>2
      <3>2. \A j \in DOMAIN text : text[j].k = "net of funds" => text[j].amount = v BY <1>1
      <3> QED BY ONLY <2>1, <3>1, <3>2 DEF Agreed
    <2>3. BalanceShown(text) = AmountOn(text, DOMAIN text, "net of funds") BY <1>5, <2>1 DEF BalanceShown
    <2> QED BY <2>2, <2>3, AmountFound DEF text, v
  <1>6. CASE sheet.of = 0 /\ bank \in {"BNI", "BNI old"}
    <2> DEFINE stops == IF bank = "BNI" THEN {"stocks", "funds"} ELSE {"stocks"}
               sec == SectionAt(text, "cash", stops)
    <2>1. i \in sec
      <3>1. stops \subseteq {"stocks", "funds"} /\ bank # "Stockbit" BY <1>6
      <3>2. text[i].k \in {"booking", "balance"} BY <1>3
      <3> HIDE DEF stops
      <3> QED BY <1>1, <1>3, <3>1, <3>2, CashInSection
    <2>2. \A j \in sec : j \in DOMAIN text BY DEF SectionAt
    <2>3. BalanceShown(text) = AmountOn(text, sec, "balance") BY <1>6 DEF BalanceShown
    <2> HIDE DEF sec, stops
    <2>4. Agreed(text, sec, "balance", v)
      <3>1. \A j \in sec : j \in Nat BY <1>2, <2>2
      <3>2. \A j \in sec : text[j].k = "balance" => text[j].amount = v BY <1>4, <1>6, <2>2
      <3>3. \E j \in sec : text[j].k = "balance" BY <1>3, <2>1
      <3> QED BY ONLY <3>1, <3>2, <3>3 DEF Agreed
    <2> QED BY <2>3, <2>4, AmountFound DEF text, v
  <1>7. CASE sheet.of = 0 /\ bank \notin {"BNI", "BNI old"}
    <2>1. ~ \E j \in DOMAIN text : text[j].k = "net of funds" BY <1>1, <1>0, <1>7
    <2>2. BalanceShown(text) = AmountOn(text, DOMAIN text, "balance") BY <1>7, <2>1 DEF BalanceShown
    <2>3. Agreed(text, DOMAIN text, "balance", v)
      <3>1. \A j \in DOMAIN text : j \in Nat BY <1>2
      <3>2. \A j \in DOMAIN text : text[j].k = "balance" => text[j].amount = v BY <1>4, <1>7
      <3> QED BY ONLY <1>3, <3>1, <3>2 DEF Agreed
    <2> QED BY <2>2, <2>3, AmountFound DEF text, v
  <1> QED BY <1>0, <1>1, <1>5, <1>6, <1>7

LEMMA CashIsRead ==
  ASSUME Printing(bank, sheet), sheet.k = "totals"
  PROVE  /\ bank = "BNI old" => CashOf(sheet.text) = sheet.saldo
         /\ CashOf(sheet.text) = sheet.saldo \/ (sheet.saldo < 0 /\ NotFound(sheet.text) = TRUE)
  BY BalanceIsFound DEF CashOf, NotFound

LEMMA Negatives ==
  \A z \in Int : -z = 0 - z
  OBVIOUS

LEMMA NegativeOfNone ==
  -0 = 0
  <1>1. 0 \in Int /\ 0 - 0 = 0 OBVIOUS
  <1>2. -0 = 0 - 0 BY ONLY <1>1, Negatives, Zenon
  <1> QED BY ONLY <1>1, <1>2, Zenon

LEMMA ColumnsRead ==
  ASSUME NEW l, l.amount \in Int, l.saldo \in Int
  PROVE  /\ l.amount > 0 => IpotAmount(Columns(l)) = l.amount /\ Columns(l)[4] = l.saldo
         /\ l.saldo <= 0 => IpotAmount(Columns(l)) = l.amount
  <1> DEFINE a == l.amount
             s == l.saldo
             beside == l.beside
             debit == IF a < 0 THEN -a ELSE 0
             credit == IF a > 0 THEN a ELSE 0
             c == IF a < 0 THEN <<debit, credit, s, beside>> ELSE <<a, debit, credit, s>>
  <1>1. Columns(l) = c BY DEF Columns
  <1>2. IpotAmount(c) = IF c[3] > 0 THEN c[3] ELSE IF c[2] > 0 THEN -c[2] ELSE -c[1]
    BY DEF IpotAmount
  <1>3. a \in Int /\ s \in Int OBVIOUS
  <1> HIDE DEF a, s, beside
  <1>4. CASE a < 0
    <2>1. c[1] = -a /\ c[2] = 0 /\ c[3] = s /\ ~ (a > 0) BY ONLY <1>3, <1>4
    <2> HIDE DEF c
    <2> QED BY <1>1, <1>2, <1>3, <1>4, <2>1 DEF a, s
  <1>5. CASE a = 0
    <2>1. c[1] = 0 /\ c[2] = 0 /\ c[3] = 0 BY ONLY <1>3, <1>5
    <2> HIDE DEF c
    <2>2. ~ (0 > 0) OBVIOUS
    <2>3. IpotAmount(c) = -c[1] BY ONLY <1>2, <2>1, <2>2
    <2>4. -c[1] = -0 BY ONLY <2>1, Zenon
    <2>5. IpotAmount(c) = a /\ ~ (a > 0) BY ONLY <1>5, <2>2, <2>3, <2>4, NegativeOfNone
    <2> QED BY <1>1, <2>5 DEF a
  <1>6. CASE a > 0
    <2>1. c[3] = a /\ c[4] = s BY ONLY <1>3, <1>6
    <2> HIDE DEF c
    <2> QED BY <1>1, <1>2, <1>3, <1>6, <2>1 DEF a, s
  <1> QED BY <1>3, <1>4, <1>5, <1>6

LEMMA NoneIsLost ==
  ASSUME NEW text, NEW n \in Nat, DOMAIN text = 1 .. n, \A i \in DOMAIN text : ~ Overdrawn(text[i]), NEW i \in DOMAIN text
  PROVE  ~ Lost(text, i)
  <1> DEFINE before == {j \in 1 .. (i - 1) : \A k \in j .. (i - 1) : Overdrawn(text[k])}
  <1>1. before = {}
    <2> SUFFICES ASSUME NEW j \in before PROVE FALSE
      OBVIOUS
    <2>1. i - 1 \in j .. (i - 1) /\ i - 1 \in DOMAIN text OBVIOUS
    <2> QED BY <2>1
  <1> HIDE DEF before
  <1>2. Cardinality(before) % 2 = 0
    <2>1. Cardinality(before) = 0 BY <1>1, FS_EmptySet
    <2>2. 0 % 2 = 0 OBVIOUS
    <2> QED BY ONLY <2>1, <2>2
  <1>3. Lost(text, i) = IF bank = "BNI" THEN Cardinality(before) % 2 = 1 ELSE Overdrawn(text[i])
    BY DEF Lost, before
  <1>4. ~ (0 = 1) OBVIOUS
  <1> QED BY <1>2, <1>3, <1>4

LEMMA BookingsAreRead ==
  ASSUME Printing(bank, sheet), Solvent
  PROVE  BookedRight(bank, BookingsOf(sheet.text), sheet.booked) /\ BookingsOf(sheet.text) # <<>>
  <1> DEFINE text == sheet.text
             printed == BookedIn(text)
             sec == IF bank = "BNI" THEN SectionAt(text, "cash", {"stocks", "funds"}) ELSE DOMAIN text
             I == BookingPlaces(text)
             at == Places(I, Len(text))
             found == [j \in DOMAIN at |-> BookingRead(text, at[j])]
  <1>1. /\ TextRight(bank, text) /\ sheet.booked = BookedAt(text, printed) /\ sheet.booked # <<>>
        /\ bank \in {"BNI", "IPOT statement"} /\ \A i \in DOMAIN text : ~ Overdrawn(text[i])
    BY DEF Printing, ListsKept, Solvent
  <1>2. text \in Seq(TextLines) /\ Len(text) \in Nat /\ DOMAIN text = 1 .. Len(text)
    BY <1>1, TextIsText
  <1> HIDE DEF text
  <1>3. \A i \in 1 .. Len(text) : i \in I <=> i \in printed
    <2>1. sec \subseteq DOMAIN text BY DEF SectionAt
    <2>2. \A i \in DOMAIN text : text[i].k = "booking" => i \in sec
      <3> SUFFICES ASSUME NEW i \in DOMAIN text, text[i].k = "booking" PROVE i \in sec
        OBVIOUS
      <3>1. CASE bank = "BNI"
        <4> DEFINE stops == {"stocks", "funds"}
        <4>1. bank # "Stockbit" /\ text[i].k \in {"booking", "balance"} /\ stops \subseteq {"stocks", "funds"}
          BY <3>1
        <4> HIDE DEF stops
        <4>2. i \in SectionAt(text, "cash", stops) BY <1>1, <4>1, CashInSection
        <4> QED BY <3>1, <4>2 DEF stops
      <3>2. CASE bank # "BNI" BY <3>2
      <3> QED BY <3>1, <3>2
    <2>3. \A i \in DOMAIN text : ~ Lost(text, i)
      <3>1. PICK n \in Nat : n = Len(text) BY <1>2
      <3> QED BY <1>1, <1>2, <3>1, NoneIsLost
    <2>4. I = {i \in sec : text[i].k = "booking" /\ text[i].of # "Beginning Balance" /\ ~ Lost(text, i)}
      BY DEF BookingPlaces
    <2> HIDE DEF sec, I
    <2> QED BY <1>2, <2>1, <2>2, <2>3, <2>4 DEF BookedIn
  <1>4. at = Places(printed, Len(text)) BY ONLY <1>2, <1>3, PlacesOfSame
  <1>5. Len(at) \in Nat /\ DOMAIN at = 1 .. Len(at) /\ \A j \in 1 .. Len(at) : at[j] \in 1 .. Len(text)
    BY <1>2, PlacesInside
  <1>6. BookingsOf(text) = found BY <1>1 DEF BookingsOf
  <1>7. sheet.booked = [j \in DOMAIN at |-> Booking(text[at[j]].amount, text[at[j]].saldo)]
    BY <1>1, <1>4 DEF BookedAt
  <1> HIDE DEF at
  <1>8. DOMAIN found = 1 .. Len(at) /\ Len(found) = Len(at) /\ DOMAIN sheet.booked = 1 .. Len(at) /\ Len(sheet.booked) = Len(at)
    BY <1>5, <1>7
  <1>9. ASSUME NEW i \in 1 .. Len(at)
        PROVE  /\ bank = "BNI" \/ sheet.booked[i].amount > 0 => found[i] = sheet.booked[i]
               /\ sheet.booked[i].saldo <= 0 => found[i].amount = sheet.booked[i].amount
    <2> DEFINE l == text[at[i]]
               b == sheet.booked[i]
               f == found[i]
    <2>0. at[i] \in DOMAIN text BY <1>2, <1>5
    <2>1. l \in TextLines /\ ~ Overdrawn(l)
      <3>1. l \in TextLines BY <1>2, <2>0
      <3>2. ~ Overdrawn(l) BY ONLY <1>1, <2>0, Zenon
      <3> QED BY <3>1, <3>2
    <2>2. l.amount \in Int /\ l.saldo \in Int BY <2>1 DEF TextLines
    <2>3. f = BookingRead(text, at[i]) /\ b = Booking(l.amount, l.saldo) BY <1>5, <1>7
    <2>4. f = IF bank = "BNI" THEN b ELSE Booking(IpotAmount(Columns(l)), Columns(l)[4])
      BY <1>1, <2>1, <2>3 DEF BookingRead
    <2> HIDE DEF l, b, f
    <2>5. b.amount = l.amount /\ b.saldo = l.saldo BY <2>3 DEF Booking
    <2>6. CASE bank = "BNI" BY <2>4, <2>6 DEF b, f
    <2>7. CASE bank # "BNI"
      <3> DEFINE c == Columns(l)
      <3>1. /\ l.amount > 0 => IpotAmount(c) = l.amount /\ c[4] = l.saldo
            /\ l.saldo <= 0 => IpotAmount(c) = l.amount
        BY <2>2, ColumnsRead
      <3>2. f = Booking(IpotAmount(c), c[4]) BY <2>4, <2>7
      <3> HIDE DEF c
      <3>3. f.amount = IpotAmount(c) BY <3>2 DEF Booking
      <3>4. l.amount > 0 => f = b BY <2>3, <3>1, <3>2
      <3> QED BY <2>5, <2>7, <3>1, <3>3, <3>4 DEF b, f
    <2> QED BY <2>6, <2>7
  <1> HIDE DEF found
  <1>10. found # <<>>
    <2>1. sheet.booked # <<>> => Len(at) # 0 BY <1>5, <1>8
    <2> QED BY <1>1, <1>8, <2>1
  <1> QED BY <1>6, <1>8, <1>9, <1>10 DEF BookedRight, text

LEMMA MismatchSeen ==
  ASSUME Printing(bank, sheet), sheet.k = "totals", bank = "BNI old",
         HoldingsOf(sheet.text) = HeldAt(sheet.text, SeenIn(sheet.text))
  PROVE  HoldingsOf(sheet.text) = sheet.rows \/ Mismatch(sheet.text) = TRUE
  <1> DEFINE text == sheet.text
             found == WorthOf(HeldAt(text, SeenIn(text)))
             worth == WorthOf(sheet.rows)
             saldo == sheet.saldo
             assets == AmountOn(text, DOMAIN text, "assets")
             off == WorthOf(HoldingsOf(text)) + CashOf(text) - assets
  <1>1. /\ TextRight(bank, text) /\ sheet.rows = HeldAt(text, RowsIn(text)) /\ saldo \in Int
        /\ worth \in Int /\ found \in Int
        /\ RowsIn(text) \subseteq SeenIn(text) \/ found + Tolerance < worth
    BY DEF Printing, ListsKept, AssetsKnown, MoneyRight
  <1>2. \E i \in DOMAIN text : text[i].k = "assets" BY DEF Printing, Progress, MoneyRight, HasKind
  <1>3. \A i \in DOMAIN text : text[i].k = "assets" => text[i].amount = saldo + worth
    BY DEF Printing, MoneyRight
  <1>4. Len(text) \in Nat /\ DOMAIN text = 1 .. Len(text) BY <1>1, TextIsText
  <1>5. CashOf(text) = saldo BY CashIsRead
  <1>6. WorthOf(HoldingsOf(text)) = found OBVIOUS
  <1> HIDE DEF text, found, worth, saldo, assets
  <1>7. assets = saldo + worth
    <2>1. Agreed(text, DOMAIN text, "assets", saldo + worth)
      <3> DEFINE sum == saldo + worth
      <3>1. \A i \in DOMAIN text : i \in Nat BY ONLY <1>4
      <3>2. \A i \in DOMAIN text : text[i].k = "assets" => text[i].amount = sum BY <1>3
      <3> HIDE DEF sum
      <3>3. Agreed(text, DOMAIN text, "assets", sum) BY ONLY <1>2, <3>1, <3>2 DEF Agreed
      <3> QED BY <3>3 DEF sum
    <2> QED BY <2>1, AmountFound DEF assets
  <1>8. CASE RowsIn(text) \subseteq SeenIn(text)
    <2>1. \A i \in 1 .. Len(text) : i \in SeenIn(text) <=> i \in RowsIn(text)
      BY <1>4, <1>8 DEF SeenIn, RowsIn, LossRow, GainRow
    <2>2. HeldAt(text, SeenIn(text)) = HeldAt(text, RowsIn(text)) BY ONLY <1>4, <2>1, HeldSame
    <2> QED BY <1>1, <2>2 DEF text
  <1>9. CASE found + Tolerance < worth
    <2>1. off = found + saldo - (saldo + worth) BY <1>5, <1>6, <1>7
    <2>2. saldo \in Int /\ worth \in Int /\ found \in Int /\ Tolerance \in Nat
      BY <1>1, PortfolioAssumption
    <2> HIDE DEF off
    <2>3. off \notin -Tolerance .. Tolerance BY ONLY <1>9, <2>1, <2>2
    <2>4. Mismatch(text) = (bank = "BNI old" /\ off \notin -Tolerance .. Tolerance)
      BY DEF Mismatch, off, assets
    <2> QED BY <2>3, <2>4 DEF text
  <1> QED BY <1>1, <1>8, <1>9

LEMMA PortfolioReadsKept ==
  ASSUME Printing(bank, sheet), read = NewRead, PortfolioReads
  PROVE  bank' \in Brokers /\ sheet'.k = "closed" /\ HoldingsReadAsPrinted' /\ CashReadAsPrinted'
  <1> DEFINE found == HoldingsOf(sheet.text)
             made == BookingsOf(sheet.text)
             cash == CashOf(sheet.text)
             off == Mismatch(sheet.text)
             unseen == NotFound(sheet.text)
             error == off \/ unseen
             asked == bank \notin {"BNI old", "IPOT statement"}
  <1>1. sheet.k = "totals" /\ bank' = bank /\ sheet' = [sheet EXCEPT !.k = "closed"]
    BY DEF PortfolioReads
  <1>2. PICK holdings \in Answers(found, asked, Guess("stock")), booked \in Answers(made, bank = "IPOT statement", Booking(0, 0)) :
          read' = [read EXCEPT !.rows = holdings, !.booked = booked, !.closing = cash, !.error = error]
    BY Zenon DEF PortfolioReads
  <1>3. bank \in Brokers /\ DOMAIN sheet = SheetFields /\ (bank = "IPOT statement" => sheet.rows = <<>>)
    BY DEF Printing, ListsKept
  <1>4. cash = sheet.saldo \/ (sheet.saldo < 0 /\ unseen = TRUE) BY <1>1, CashIsRead
  <1>5. Solvent => BookedRight(bank, made, sheet.booked) /\ made # <<>> BY BookingsAreRead
  <1>6. bank # "IPOT statement" => found = sheet.rows \/ (bank = "BNI old" /\ off = TRUE)
    BY <1>1, HoldingsAreRead, MismatchSeen
  <1>7. (found # <<>> \/ bank = "BNI old" => holdings = found) /\ (made # <<>> => booked = made)
    BY <1>2 DEF Answers
  <1> HIDE DEF found, made, cash, off, unseen
  <1>8. read'.rows = holdings /\ read'.booked = booked /\ read'.closing = cash /\ read'.error = error
    BY <1>2 DEF NewRead
  <1>9. /\ sheet'.k = "closed" /\ sheet'.rows = sheet.rows /\ sheet'.booked = sheet.booked /\ sheet'.saldo = sheet.saldo
        /\ sheet'.text = sheet.text
    BY <1>1, <1>3 DEF SheetFields
  <1>10. sheet.rows # <<>> => read'.rows = sheet.rows \/ (bank = "BNI old" /\ read'.error)
    <2>1. CASE bank = "IPOT statement" BY <1>3, <2>1
    <2>2. CASE bank # "IPOT statement" BY <1>6, <1>7, <1>8, <2>2
    <2> QED BY <2>1, <2>2
  <1>11. HoldingsReadAsPrinted' BY <1>1, <1>9, <1>10 DEF HoldingsReadAsPrinted
  <1>12. read'.closing = sheet.saldo \/ (sheet.saldo < 0 /\ read'.error) BY <1>4, <1>8
  <1>13. Solvent' = Solvent BY <1>1, <1>9 DEF Solvent, Overdrawn
  <1>14. CashReadAsPrinted'
    <2>1. Solvent' => BookedRight(bank', read'.booked, sheet'.booked)
      BY ONLY <1>1, <1>5, <1>7, <1>8, <1>9, <1>13
    <2>2. read'.closing = sheet'.saldo \/ (sheet'.saldo < 0 /\ read'.error) BY ONLY <1>9, <1>12
    <2> QED BY ONLY <2>1, <2>2 DEF CashReadAsPrinted
  <1> QED BY <1>1, <1>3, <1>9, <1>11, <1>14

LEMMA PortfolioInitial ==
  ASSUME PortfolioInit
  PROVE  PortfolioInv
  <1>1. bank \in Brokers /\ read = NewRead BY DEF PortfolioInit
  <1>2. PICK cash \in Figures \cup {0} : sheet = [NewSheet EXCEPT !.saldo = cash, !.opening = cash]
    BY DEF PortfolioInit
  <1>3. cash \in Int BY ReadingAssumption
  <1>4. /\ DOMAIN sheet = SheetFields /\ sheet.k = "start" /\ sheet.of = 0 /\ sheet.saldo \in Int /\ sheet.text = <<>>
        /\ sheet.rows = <<>> /\ sheet.booked = <<>>
    BY <1>2, <1>3 DEF NewSheet, SheetFields
  <1> DEFINE text == <<>>
  <1>5. text \in Seq(TextLines) /\ Len(text) = 0 /\ \A i \in DOMAIN text : FALSE BY 1 .. 0 = {}
  <1>6. \A I : HeldAt(text, I) = <<>> /\ BookedAt(text, I) = <<>>
    <2> SUFFICES ASSUME NEW I PROVE HeldAt(text, I) = <<>> /\ BookedAt(text, I) = <<>>
      OBVIOUS
    <2>1. Places(I, Len(text)) = <<>> BY <1>5, NoPlaces
    <2>2. DOMAIN <<>> = {} OBVIOUS
    <2>3. HeldAt(text, I) = [j \in {} |-> HoldingAt(text, Places(I, Len(text))[j])]
      BY <2>1, <2>2 DEF HeldAt
    <2>4. BookedAt(text, I) = [j \in {} |-> Booking(text[Places(I, Len(text))[j]].amount, text[Places(I, Len(text))[j]].saldo)]
      BY <2>1, <2>2 DEF BookedAt
    <2> HIDE DEF text
    <2> QED BY <2>3, <2>4
  <1>7. text = <<>> OBVIOUS
  <1> HIDE DEF text
  <1>8. TextRight(bank, text) BY <1>5, <1>7 DEF TextRight
  <1>9. \A k : ~ HasKind(text, k) BY <1>5 DEF HasKind
  <1>10. Progress(bank, "start", 0, text) BY <1>5, <1>7, <1>9 DEF Progress, StockPart, FundPart
  <1>11. RowsIn(text) = {} BY <1>5 DEF RowsIn
  <1>12. MoneyRight(bank, 0, sheet.saldo, 0, text) BY <1>4, <1>5 DEF MoneyRight
  <1>13. AssetsKnown(0, text) BY <1>6, <1>11, WorthOfNone DEF AssetsKnown
  <1>14. ListsKept(bank, <<>>, <<>>, text) BY <1>6, <1>9 DEF ListsKept
  <1>15. Printing(bank, sheet)
    BY <1>1, <1>4, <1>7, <1>8, <1>10, <1>12, <1>13, <1>14, WorthOfNone DEF Printing
  <1> QED BY <1>1, <1>15 DEF PortfolioInv

LEMMA PortfolioStepsKept ==
  ASSUME PortfolioInv, PortfolioStep
  PROVE  PortfolioInv'
  <1>1. CASE sheet.k = "closed"
    <2>1. /\ ~ CashOpens /\ ~ CashBooking /\ ~ CashBalance /\ ~ SectionOpens /\ ~ StockPrinted /\ ~ SectionTotal
          /\ ~ PageFooter /\ ~ PortfolioTotals /\ ~ PortfolioReads
      BY <1>1 DEF CashOpens, CashBooking, CashBalance, SectionOpens, StockPrinted, SectionTotal, PageFooter, PortfolioTotals, PortfolioReads
    <2>2. ~ FundPrinted
      <3> SUFFICES ASSUME FundPrinted PROVE FALSE
        OBVIOUS
      <3>1. CASE Money > 0 BY <1>1, <3>1 DEF FundPrinted
      <3>2. CASE ~ (Money > 0) BY <1>1, <3>2 DEF FundPrinted
      <3> QED BY <3>1, <3>2
    <2>3. ~ NamePrinted
      <3> SUFFICES ASSUME NamePrinted PROVE FALSE
        OBVIOUS
      <3>1. sheet.k \in {"fund", "stock"} BY DEF NamePrinted
      <3> QED BY <1>1, <3>1
    <2> QED BY <2>1, <2>2, <2>3 DEF PortfolioStep
  <1>2. CASE sheet.k # "closed"
    <2>1. Printing(bank, sheet) /\ read = NewRead BY <1>2 DEF PortfolioInv
    <2>2. CASE PortfolioReads BY <2>1, <2>2, PortfolioReadsKept DEF PortfolioInv
    <2>3. CASE CashOpens \/ CashBooking \/ CashBalance \/ SectionOpens \/ StockPrinted \/ FundPrinted
                 \/ NamePrinted \/ SectionTotal \/ PageFooter \/ PortfolioTotals
      <3>1. Printing(bank', sheet') /\ read' = read
        BY <2>1, <2>3, CashOpensKept, CashBookingKept, CashBalanceKept, SectionOpensKept, StockPrintedKept, FundPrintedKept,
           NamePrintedKept, SectionTotalKept, PageFooterKept, PortfolioTotalsKept
      <3>2. read' = NewRead' BY <2>1, <3>1 DEF NewRead
      <3> QED BY <3>1, <3>2 DEF PortfolioInv
    <2> QED BY <2>2, <2>3 DEF PortfolioStep
  <1> QED BY <1>1, <1>2

LEMMA PortfolioUnchanged ==
  ASSUME PortfolioInv, UNCHANGED rvars
  PROVE  PortfolioInv'
  <1>1. bank' = bank /\ sheet' = sheet /\ read' = read BY DEF rvars
  <1>2. CASE Printing(bank, sheet) /\ read = NewRead
    <2>1. Printing(bank', sheet') BY <1>1, <1>2
    <2>2. read' = NewRead' BY <1>1, <1>2 DEF NewRead
    <2> QED BY <2>1, <2>2 DEF PortfolioInv
  <1>3. CASE bank \in Brokers /\ sheet.k = "closed" /\ HoldingsReadAsPrinted /\ CashReadAsPrinted
    BY <1>1, <1>3 DEF PortfolioInv, HoldingsReadAsPrinted, CashReadAsPrinted, Solvent, Overdrawn
  <1> QED BY <1>2, <1>3 DEF PortfolioInv

LEMMA PortfolioAsPrinted ==
  ASSUME PortfolioInv
  PROVE  HoldingsReadAsPrinted /\ CashReadAsPrinted /\ bank \in Brokers
  <1>1. CASE Printing(bank, sheet)
    <2>1. sheet.k # "closed" /\ bank \in Brokers BY <1>1 DEF Printing
    <2> QED BY <2>1 DEF HoldingsReadAsPrinted, CashReadAsPrinted
  <1> QED BY <1>1 DEF PortfolioInv

(* StatementReading. Positions and picked lines. *)
LEMMA PlacesUnlike ==
  ASSUME NEW I, NEW n \in Nat
  PROVE  \A i \in 1 .. Len(Places(I, n)), j \in 1 .. Len(Places(I, n)) : i # j => Places(I, n)[i] # Places(I, n)[j]
  <1> DEFINE right(k) == \A i \in 1 .. Len(Places(I, k)), j \in 1 .. Len(Places(I, k)) : i # j => Places(I, k)[i] # Places(I, k)[j]
             good == {k \in 0 .. n : right(k)}
  <1>1. right(0)
    <2>1. Places(I, 0) = <<>> /\ Len(<<>>) = 0 /\ 1 .. 0 = {} BY NoPlaces
    <2> QED BY <2>1
  <1>2. ASSUME NEW k \in 0 .. (n - 1), right(k)
        PROVE  right(k + 1)
    <2> DEFINE at == Places(I, k)
    <2>1. k \in Nat OBVIOUS
    <2>2. at \in Seq(Int) /\ Len(at) \in Nat /\ \A j \in 1 .. Len(at) : at[j] \in 1 .. k
      BY <2>1, PlacesInside
    <2>3. Places(I, k + 1) = IF k + 1 \in I THEN Append(at, k + 1) ELSE at BY <2>1, NextPlace
    <2>4. \A i \in 1 .. Len(at), j \in 1 .. Len(at) : i # j => at[i] # at[j] BY <1>2
    <2> HIDE DEF at
    <2>5. CASE k + 1 \notin I BY <2>3, <2>4, <2>5
    <2>6. CASE k + 1 \in I
      <3> DEFINE new == Append(at, k + 1)
      <3>1. Len(new) = Len(at) + 1 /\ new[Len(at) + 1] = k + 1 /\ \A j \in 1 .. Len(at) : new[j] = at[j]
        BY <2>1, <2>2
      <3>2. \A j \in 1 .. Len(at) : at[j] # k + 1 BY <2>1, <2>2
      <3> HIDE DEF new
      <3>3. \A i \in 1 .. (Len(at) + 1), j \in 1 .. (Len(at) + 1) : i # j => new[i] # new[j]
        <4> SUFFICES ASSUME NEW i \in 1 .. (Len(at) + 1), NEW j \in 1 .. (Len(at) + 1), i # j PROVE new[i] # new[j]
          OBVIOUS
        <4>1. (i \in 1 .. Len(at) \/ i = Len(at) + 1) /\ (j \in 1 .. Len(at) \/ j = Len(at) + 1)
          BY <2>2
        <4> QED BY <2>4, <3>1, <3>2, <4>1
      <3>4. Places(I, k + 1) = new BY <2>3, <2>6 DEF new
      <3> QED BY <3>1, <3>3, <3>4
    <2> QED BY <2>5, <2>6
  <1>3. 0 .. n \subseteq good
    <2>1. 0 \in good
      <3> HIDE DEF right
      <3> QED BY <1>1
    <2>2. \A k \in 0 .. (n - 1) : k \in good => k + 1 \in good
      <3> HIDE DEF right
      <3> QED BY <1>2
    <2> HIDE DEF good
    <2> QED BY <2>1, <2>2, UpFromZero
  <1>4. n \in good
    <2> HIDE DEF good
    <2> QED BY <1>3
  <1> QED BY <1>4

\* The lines picked are those at the positions.
LEMMA PickedLines ==
  ASSUME NEW S, NEW s \in Seq(S), NEW I, NEW p, p = Picked(s, I)
  PROVE  /\ \A x \in ToSet(p) : \E i \in DOMAIN s : i \in I /\ x = s[i]
         /\ \A i \in DOMAIN s : i \in I => s[i] \in ToSet(p)
  <1> DEFINE at == Places(I, Len(s))
  <1>1. Len(s) \in Nat /\ DOMAIN s = 1 .. Len(s) OBVIOUS
  <1>2. DOMAIN at = 1 .. Len(at) /\ \A j \in 1 .. Len(at) : at[j] \in 1 .. Len(s) /\ at[j] \in I
    BY <1>1, PlacesInside
  <1>3. \A i \in 1 .. Len(s) : i \in I => \E j \in 1 .. Len(at) : at[j] = i
    BY <1>1, PlacesAreNumbers
  <1>4. p = [j \in DOMAIN at |-> s[at[j]]] BY DEF Picked
  <1> HIDE DEF at
  <1>5. DOMAIN p = 1 .. Len(at) /\ \A j \in 1 .. Len(at) : p[j] = s[at[j]] BY <1>2, <1>4
  <1>6. ToSet(p) = {p[j] : j \in 1 .. Len(at)} BY <1>5 DEF ToSet
  <1>7. \A x \in ToSet(p) : \E i \in DOMAIN s : i \in I /\ x = s[i] BY <1>1, <1>2, <1>5, <1>6
  <1>8. ASSUME NEW i \in DOMAIN s, i \in I PROVE s[i] \in ToSet(p)
    <2>1. PICK j \in 1 .. Len(at) : at[j] = i BY <1>1, <1>3, <1>8
    <2> QED BY <1>5, <1>6, <2>1
  <1> QED BY <1>7, <1>8

LEMMA GreatestNumber ==
  ASSUME NEW n \in Nat, NEW S \in SUBSET (1 .. n), S # {}
  PROVE  \E m \in S : \A i \in S : i <= m
  <1> DEFINE T == {n - i : i \in S}
  <1>1. T \in SUBSET Nat /\ T # {}
    <2>1. \A i \in S : n - i \in Nat OBVIOUS
    <2>2. T # {} OBVIOUS
    <2>3. T \subseteq Nat BY <2>1
    <2> QED BY ONLY <2>2, <2>3
  <1>2. PICK t \in T : \A u \in T : t <= u
    <2> HIDE DEF T
    <2> QED BY <1>1, LeastNumber
  <1>3. PICK m \in S : t = n - m OBVIOUS
  <1>4. \A i \in S : n - m <= n - i BY <1>2, <1>3
  <1>5. \A i \in S : i <= m BY <1>4
  <1> QED BY <1>3, <1>5

LEMMA LastFound ==
  ASSUME NEW S, NEW text \in Seq(S), NEW at \in SUBSET (DOMAIN text), at # {}, NEW none
  PROVE  \E i \in at : LastOf(text, at, none) = text[i]
  <1>1. Len(text) \in Nat /\ DOMAIN text = 1 .. Len(text) OBVIOUS
  <1>2. PICK m \in at : \A i \in at : i <= m BY <1>1, GreatestNumber
  <1>3. Max(at) \in at BY <1>2, Zenon DEF Max
  <1>4. LastOf(text, at, none) = text[Max(at)] BY DEF LastOf
  <1> QED BY <1>3, <1>4

(* First pages. The summary tables of bank b. *)
(* Which lines may stand above which, and which amounts they show. *)
FrontKinds == {"summary", "product", "bonds", "bond", "customer", "account", "rate"}
FrontLines == [k : FrontKinds, of : Products \cup {Blank}, currency : AnyCurrency, amount : Nat, rupiah : Nat]

HeldLine(l) == l.k = "product" /\ l.amount > 0                 \* an account, and not a line that looks like one
FrontLineRight(b, l) ==
  /\ HeldLine(l) \/ l.k = "bond" => l.amount > 0 /\ l.rupiah = l.amount * Rate[l.currency]
  /\ l.k = "product" /\ ~ HeldLine(l) => b = "Permata front"
  /\ l.k = "rate" => l.amount = Rate[l.currency]
FrontBefore(b, above, below) ==
  /\ above.k = "bonds" => below.k # "bonds"
  /\ below.k = "bond" => above.k \notin {"customer", "account"}
  /\ HeldLine(below) => above.k \in {"summary", "product"}
  /\ HeldLine(above) /\ HeldLine(below) => above.of # below.of \/ (b = "Maybank front" /\ above.currency # below.currency)
BelowBonds(l) == l.k \in {"bond", "customer", "account", "rate"} \/ (l.k = "product" /\ ~ HeldLine(l))

FrontRight(b, text) ==
  /\ text \in Seq(FrontLines)
  /\ \A i \in DOMAIN text : FrontLineRight(b, text[i])
  /\ \A i \in DOMAIN text, j \in DOMAIN text : i < j => FrontBefore(b, text[i], text[j])
  /\ \A i \in DOMAIN text : BelowBonds(text[i]) => \E h \in DOMAIN text : h < i /\ text[h].k = "bonds"
  /\ b = "Permata front" => text # <<>> /\ text[1].k = "summary"

FrontProgress(k, text) ==
  /\ k = "front" => \A i \in DOMAIN text : text[i].k \in {"summary", "product"}
  /\ k = "bonds" => \A i \in DOMAIN text : text[i].k \notin {"customer", "account"}
  /\ k # "front" => \E i \in DOMAIN text : text[i].k = "bonds"

LEMMA FrontLonger ==
  ASSUME NEW text \in Seq(FrontLines), NEW l \in FrontLines, NEW new, new = Append(text, l), NEW n, n = Len(text)
  PROVE  /\ new \in Seq(FrontLines) /\ n \in Nat /\ DOMAIN text = 1 .. n /\ DOMAIN new = 1 .. (n + 1)
         /\ new[n + 1] = l /\ new # <<>> /\ (text # <<>> => 1 \in 1 .. n)
         /\ \A i \in 1 .. n : new[i] = text[i]
  <1>1. /\ new \in Seq(FrontLines) /\ n \in Nat /\ DOMAIN text = 1 .. n /\ DOMAIN new = 1 .. (n + 1)
        /\ new[n + 1] = l /\ new # <<>> /\ \A i \in 1 .. n : new[i] = text[i]
    OBVIOUS
  <1>2. text # <<>> => 1 \in 1 .. n OBVIOUS
  <1> QED BY <1>1, <1>2

LEMMA FrontGrows ==
  ASSUME NEW b, NEW text, FrontRight(b, text), NEW l \in FrontLines, NEW new, new = Append(text, l), FrontLineRight(b, l),
         \A i \in DOMAIN text : FrontBefore(b, text[i], l),
         BelowBonds(l) => \E h \in DOMAIN text : text[h].k = "bonds",
         text = <<>> => b # "Permata front"
  PROVE  FrontRight(b, new)
  <1> DEFINE n == Len(text)
  <1>1. text \in Seq(FrontLines) BY DEF FrontRight
  <1>2. /\ new \in Seq(FrontLines) /\ n \in Nat /\ DOMAIN text = 1 .. n /\ DOMAIN new = 1 .. (n + 1)
        /\ new[n + 1] = l /\ new # <<>> /\ (text # <<>> => 1 \in 1 .. n)
        /\ \A i \in 1 .. n : new[i] = text[i]
    <2>1. n = Len(text) OBVIOUS
    <2> HIDE DEF n
    <2> QED BY ONLY <1>1, <2>1, l \in FrontLines, new = Append(text, l), FrontLonger
  <1> HIDE DEF n
  <1>n. n \in Nat BY <1>2
  <1>d. DOMAIN text = 1 .. n /\ DOMAIN new = 1 .. (n + 1) BY <1>2
  <1>3. \A i \in 1 .. (n + 1) : i = n + 1 \/ i \in 1 .. n BY ONLY <1>n
  <1>4. \A i \in DOMAIN new : FrontLineRight(b, new[i]) BY <1>2, <1>3 DEF FrontRight
  <1>5. ASSUME NEW i \in DOMAIN new, NEW j \in DOMAIN new, i < j
        PROVE  FrontBefore(b, new[i], new[j])
    <2>1. i \in 1 .. n /\ (j \in 1 .. n \/ j = n + 1)
      BY ONLY <1>n, <1>d, i \in DOMAIN new, j \in DOMAIN new, i < j
    <2>2. CASE j \in 1 .. n
      <3>1. FrontBefore(b, text[i], text[j]) BY <1>2, <1>5, <2>1, <2>2 DEF FrontRight
      <3> QED BY <1>2, <2>1, <2>2, <3>1
    <2>3. CASE j = n + 1 BY <1>2, <2>1, <2>3
    <2> QED BY <2>1, <2>2, <2>3
  <1>6. ASSUME NEW i \in DOMAIN new, BelowBonds(new[i])
        PROVE  \E h \in DOMAIN new : h < i /\ new[h].k = "bonds"
    <2>1. CASE i \in 1 .. n
      <3>1. PICK h \in DOMAIN text : h < i /\ text[h].k = "bonds" BY <1>2, <1>6, <2>1 DEF FrontRight
      <3>2. h \in DOMAIN new /\ h \in 1 .. n BY ONLY <1>n, <1>d, h \in DOMAIN text
      <3>3. new[h] = text[h] BY <1>2, <3>2
      <3> QED BY <3>1, <3>2, <3>3
    <2>2. CASE i = n + 1
      <3>1. PICK h \in DOMAIN text : text[h].k = "bonds" BY <1>2, <1>6, <2>2
      <3>2. h \in DOMAIN new /\ h \in 1 .. n /\ h < n + 1 BY ONLY <1>n, <1>d, h \in DOMAIN text
      <3>3. new[h] = text[h] BY <1>2, <3>2
      <3> QED BY <2>2, <3>1, <3>2, <3>3
    <2> QED BY <1>2, <1>3, <2>1, <2>2
  <1>7. b = "Permata front" => new # <<>> /\ new[1].k = "summary" BY <1>2 DEF FrontRight
  <1> QED BY <1>2, <1>4, <1>5, <1>6, <1>7 DEF FrontRight

(* First pages. What is read of a complete text. *)
LEMMA FrontText ==
  ASSUME NEW b, NEW text, FrontRight(b, text)
  PROVE  text \in Seq(FrontLines) /\ Len(text) \in Nat /\ DOMAIN text = 1 .. Len(text)
  <1>1. text \in Seq(FrontLines) BY DEF FrontRight
  <1> QED BY ONLY <1>1

LEMMA FrontLineTyped ==
  ASSUME NEW b, NEW text, FrontRight(b, text), NEW i \in DOMAIN text
  PROVE  /\ text[i] \in FrontLines /\ text[i].amount \in Nat /\ text[i].currency \in AnyCurrency /\ FrontLineRight(b, text[i])
         /\ Rate[text[i].currency] \in Nat \ {0}
  <1>1. text \in Seq(FrontLines) BY DEF FrontRight
  <1>2. text[i] \in FrontLines BY ONLY <1>1, i \in DOMAIN text
  <1>3. text[i].amount \in Nat /\ text[i].currency \in AnyCurrency BY <1>2 DEF FrontLines
  <1>4. Rate[text[i].currency] \in Nat \ {0} BY <1>3, RateAssumption DEF AnyCurrency
  <1> QED BY <1>2, <1>3, <1>4 DEF FrontRight

LEMMA LineValued ==
  ASSUME NEW b, NEW text, FrontRight(b, text), NEW i \in DOMAIN text, HeldLine(text[i]) \/ text[i].k = "bond"
  PROVE  text[i].amount > 0 /\ text[i].rupiah = text[i].amount * Rate[text[i].currency]
  <1>1. FrontLineRight(b, text[i]) BY FrontLineTyped
  <1> QED BY <1>1, Zenon DEF FrontLineRight

LEMMA RatePaid ==
  ASSUME NEW a \in Nat, a > 0, NEW r \in Nat \ {0}
  PROVE  (a * r) \div a = r /\ (a * r) \div r = a /\ a * r > 0 /\ a # 0 /\ r > 0
  OBVIOUS

\* A line at its position among the lines of a kind.
KindPlaces(text, k) == Places({i \in DOMAIN text : text[i].k = k}, Len(text))
LinesPlaced(text, k, rows, at) ==
  /\ rows = [j \in DOMAIN at |-> text[at[j]]] /\ DOMAIN rows = DOMAIN at
  /\ \A j \in DOMAIN at : rows[j] = text[at[j]] /\ at[j] \in DOMAIN text /\ text[at[j]].k = k
  /\ \A i \in DOMAIN at, j \in DOMAIN at : i # j => at[i] # at[j]

LEMMA LinesAt ==
  ASSUME NEW S, NEW text \in Seq(S), NEW k, NEW rows, rows = LinesOf(text, k), NEW at, at = KindPlaces(text, k)
  PROVE  LinesPlaced(text, k, rows, at)
  <1> DEFINE I == {i \in DOMAIN text : text[i].k = k}
  <1>1. Len(text) \in Nat /\ DOMAIN text = 1 .. Len(text) OBVIOUS
  <1>2. rows = [j \in DOMAIN at |-> text[at[j]]] BY DEF LinesOf, Picked, KindPlaces
  <1>3. at = Places(I, Len(text)) BY DEF KindPlaces
  <1>4. \A i \in I : i \in DOMAIN text /\ text[i].k = k OBVIOUS
  <1> HIDE DEF I
  <1>5. DOMAIN at = 1 .. Len(at) /\ \A j \in 1 .. Len(at) : at[j] \in I BY <1>1, <1>3, PlacesInside
  <1>6. \A i \in 1 .. Len(at), j \in 1 .. Len(at) : i # j => at[i] # at[j]
    BY <1>1, <1>3, PlacesUnlike
  <1> QED BY <1>2, <1>4, <1>5, <1>6 DEF LinesPlaced

BondsOf(text) == LET rows == LinesOf(text, "bond") IN [i \in DOMAIN rows |-> [of |-> rows[i].of, value |-> rows[i].amount, fx |-> Rate[rows[i].currency]]]

\* The bonds of Permata stand between their heading and the pages that follow.
LEMMA BondsInSection ==
  ASSUME NEW b, NEW text, FrontRight(b, text), NEW i \in DOMAIN text, text[i].k = "bond"
  PROVE  i \in SectionAt(text, "bonds", {"customer", "account"})
  <1>1. Len(text) \in Nat /\ DOMAIN text = 1 .. Len(text) BY FrontText
  <1>2. PICK h \in DOMAIN text : h < i /\ text[h].k = "bonds" BY DEF FrontRight, BelowBonds
  <1>3. h \in 1 .. i BY <1>1, <1>2
  <1>4. \A j \in 1 .. (h - 1) : text[j].k # "bonds"
    <2>1. \A j \in 1 .. (h - 1) : j \in DOMAIN text /\ j < h BY <1>1
    <2>2. \A j \in 1 .. (h - 1) : FrontBefore(b, text[j], text[h]) BY <2>1 DEF FrontRight
    <2> QED BY <1>2, <2>2 DEF FrontBefore
  <1>5. \A j \in (h + 1) .. i : text[j].k \notin {"customer", "account"}
    <2> SUFFICES ASSUME NEW j \in (h + 1) .. i PROVE text[j].k \notin {"customer", "account"}
      OBVIOUS
    <2>1. j \in DOMAIN text /\ (j < i \/ j = i) BY <1>1, <1>2
    <2>2. CASE j < i
      <3>1. FrontBefore(b, text[j], text[i]) BY <2>1, <2>2 DEF FrontRight
      <3> QED BY <3>1 DEF FrontBefore
    <2>3. CASE j = i BY <2>3
    <2> QED BY <2>1, <2>2, <2>3
  <1> QED BY <1>2, <1>3, <1>4, <1>5 DEF SectionAt

LEMMA BondRowsFound ==
  ASSUME NEW b, NEW text, FrontRight(b, text)
  PROVE  BondRows(text) = LinesOf(text, "bond")
  <1> DEFINE I == {i \in SectionAt(text, "bonds", {"customer", "account"}) : text[i].k = "bond"}
             J == {i \in DOMAIN text : text[i].k = "bond"}
  <1>1. Len(text) \in Nat /\ DOMAIN text = 1 .. Len(text) BY FrontText
  <1>2. \A i \in SectionAt(text, "bonds", {"customer", "account"}) : i \in DOMAIN text
    BY DEF SectionAt
  <1>3. \A i \in DOMAIN text : text[i].k = "bond" => i \in SectionAt(text, "bonds", {"customer", "account"})
    BY BondsInSection
  <1>4. \A i \in 1 .. Len(text) : i \in I <=> i \in J BY <1>1, <1>3
  <1> HIDE DEF I, J
  <1>5. Places(I, Len(text)) = Places(J, Len(text)) BY ONLY <1>1, <1>4, PlacesOfSame
  <1>6. Picked(text, I) = Picked(text, J) BY <1>5 DEF Picked
  <1> QED BY <1>6 DEF BondRows, LinesOf, I, J

LEMMA BondFound ==
  ASSUME NEW b, NEW text, FrontRight(b, text), NEW l, \E x \in DOMAIN text : l = text[x] /\ text[x].k = "bond"
  PROVE  FxRate(l) = Rate[l.currency]
  <1>1. PICK x \in DOMAIN text : l = text[x] /\ text[x].k = "bond" OBVIOUS
  <1> DEFINE r == Rate[l.currency]
             a == l.amount
  <1>2. a \in Nat /\ a > 0 /\ l.rupiah = a * r /\ r \in Nat \ {0}
    <2>1. l.amount \in Nat /\ Rate[l.currency] \in Nat \ {0} BY <1>1, FrontLineTyped
    <2>2. l.amount > 0 /\ l.rupiah = l.amount * Rate[l.currency] BY <1>1, LineValued, Zenon
    <2> QED BY ONLY <2>1, <2>2, Zenon DEF a, r
  <1>3. FxRate(l) = IF a = 0 THEN 1 ELSE l.rupiah \div a BY DEF FxRate
  <1> HIDE DEF r, a
  <1>4. FxRate(l) = r BY <1>2, <1>3, RatePaid
  <1> QED BY <1>4 DEF r

LEMMA BondSectionRead ==
  ASSUME NEW b, NEW text, FrontRight(b, text)
  PROVE  BondSection(text) = BondsOf(text)
  <1> DEFINE rows == LinesOf(text, "bond")
             at == KindPlaces(text, "bond")
             found == [i \in DOMAIN rows |-> [of |-> rows[i].of, value |-> rows[i].amount, fx |-> FxRate(rows[i])]]
  <1>1. text \in Seq(FrontLines) BY FrontText
  <1>2. DOMAIN rows = DOMAIN at /\ \A j \in DOMAIN at : rows[j] = text[at[j]] /\ at[j] \in DOMAIN text /\ text[at[j]].k = "bond"
    <2>1. rows = LinesOf(text, "bond") /\ at = KindPlaces(text, "bond") OBVIOUS
    <2> HIDE DEF rows, at
    <2>2. LinesPlaced(text, "bond", rows, at) BY ONLY <1>1, <2>1, LinesAt
    <2> QED BY <2>2 DEF LinesPlaced
  <1>3. BondSection(text) = found BY BondRowsFound DEF BondSection
  <1> HIDE DEF at, rows
  <1>4. \A i \in DOMAIN rows : FxRate(rows[i]) = Rate[rows[i].currency] BY <1>2, BondFound
  <1>5. found = [i \in DOMAIN rows |-> [of |-> rows[i].of, value |-> rows[i].amount, fx |-> Rate[rows[i].currency]]]
    BY <1>4
  <1> QED BY <1>3, <1>5 DEF BondsOf, rows

\* Maybank: a rate line for every foreign currency.
LEMMA RateLineRead ==
  ASSUME NEW b, NEW text, FrontRight(b, text), NEW currency, \E i \in DOMAIN text : text[i].k = "rate" /\ text[i].currency = currency
  PROVE  RateLine(text, currency) = Rate[currency]
  <1> DEFINE at == {i \in DOMAIN text : text[i].k = "rate" /\ text[i].currency = currency}
             none == [amount |-> 0]
  <1>1. text \in Seq(FrontLines) BY FrontText
  <1>2. at \in SUBSET (DOMAIN text) /\ at # {} OBVIOUS
  <1>3. RateLine(text, currency) = LastOf(text, at, none).amount BY DEF RateLine
  <1>4. \A i \in at : i \in DOMAIN text /\ text[i].k = "rate" /\ text[i].currency = currency OBVIOUS
  <1> HIDE DEF at, none
  <1>5. PICK i \in at : LastOf(text, at, none) = text[i] BY ONLY <1>1, <1>2, LastFound
  <1>6. FrontLineRight(b, text[i]) BY <1>4, FrontLineTyped
  <1> QED BY <1>3, <1>4, <1>5, <1>6 DEF FrontLineRight

LEMMA MaybankBondsRead ==
  ASSUME NEW b, NEW text, FrontRight(b, text), \A currency \in Currencies : \E i \in DOMAIN text : text[i].k = "rate" /\ text[i].currency = currency
  PROVE  MaybankBonds(text) = BondsOf(text)
  <1> DEFINE rows == LinesOf(text, "bond")
             at == KindPlaces(text, "bond")
             fx(l) == IF l.currency = "IDR" THEN 1 ELSE RateLine(text, l.currency)
             value(l) == IF fx(l) > 0 THEN l.rupiah \div fx(l) ELSE 0
             found == [i \in DOMAIN rows |-> [of |-> rows[i].of, value |-> value(rows[i]), fx |-> fx(rows[i])]]
  <1>1. text \in Seq(FrontLines) BY FrontText
  <1>2. DOMAIN rows = DOMAIN at /\ \A j \in DOMAIN at : rows[j] = text[at[j]] /\ at[j] \in DOMAIN text /\ text[at[j]].k = "bond"
    <2>1. rows = LinesOf(text, "bond") /\ at = KindPlaces(text, "bond") OBVIOUS
    <2> HIDE DEF rows, at
    <2>2. LinesPlaced(text, "bond", rows, at) BY ONLY <1>1, <2>1, LinesAt
    <2> QED BY <2>2 DEF LinesPlaced
  <1>3. MaybankBonds(text) = found BY DEF MaybankBonds
  <1> HIDE DEF at, rows
  <1>4. \A x \in DOMAIN text : text[x].k = "bond" => fx(text[x]) = Rate[text[x].currency] /\ value(text[x]) = text[x].amount
    <2> SUFFICES ASSUME NEW x \in DOMAIN text, text[x].k = "bond" PROVE fx(text[x]) = Rate[text[x].currency] /\ value(text[x]) = text[x].amount
      OBVIOUS
    <2> DEFINE l == text[x]
               a == l.amount
               r == Rate[l.currency]
    <2>1. a \in Nat /\ a > 0 /\ l.rupiah = a * r /\ r \in Nat \ {0} /\ l.currency \in AnyCurrency
      <3>1. text[x].amount \in Nat /\ Rate[text[x].currency] \in Nat \ {0} /\ text[x].currency \in AnyCurrency
        BY FrontLineTyped
      <3>2. text[x].amount > 0 /\ text[x].rupiah = text[x].amount * Rate[text[x].currency]
        <4> HIDE DEF l, a, r, fx, value, found
        <4>1. HeldLine(text[x]) \/ text[x].k = "bond" OBVIOUS
        <4> QED BY ONLY <4>1, FrontRight(b, text), x \in DOMAIN text, LineValued, Zenon
      <3> QED BY ONLY <3>1, <3>2, Zenon DEF l, a, r
    <2>2. fx(l) = r
      <3>1. CASE l.currency = "IDR" BY <3>1, RateAssumption
      <3>2. CASE l.currency # "IDR"
        <4>1. l.currency \in Currencies BY <2>1, <3>2 DEF AnyCurrency
        <4>2. RateLine(text, l.currency) = Rate[l.currency] BY <4>1, RateLineRead
        <4> QED BY <3>2, <4>2
      <3> QED BY <3>1, <3>2
    <2>3. value(l) = IF fx(l) > 0 THEN l.rupiah \div fx(l) ELSE 0 OBVIOUS
    <2> HIDE DEF l, a, r, fx, value
    <2>4. value(l) = a BY <2>1, <2>2, <2>3, RatePaid
    <2> QED BY <2>2, <2>4 DEF l, a, r
  <1> HIDE DEF fx, value
  <1>5. \A i \in DOMAIN rows : fx(rows[i]) = Rate[rows[i].currency] /\ value(rows[i]) = rows[i].amount
    BY <1>2, <1>4
  <1>6. found = [i \in DOMAIN rows |-> [of |-> rows[i].of, value |-> rows[i].amount, fx |-> Rate[rows[i].currency]]]
    BY <1>5
  <1> QED BY <1>3, <1>6 DEF BondsOf, rows

\* Permata: the accounts of the summary.
LEMMA AccountInSummary ==
  ASSUME NEW b, b = "Permata front", NEW text, FrontRight(b, text), NEW i \in DOMAIN text, HeldLine(text[i])
  PROVE  i \in SectionAt(text, "summary", {"bonds", "account"})
  <1>1. Len(text) \in Nat /\ DOMAIN text = 1 .. Len(text) BY FrontText
  <1>2. text[1].k = "summary" /\ 1 \in 1 .. i
    <2>1. text[1].k = "summary" BY DEF FrontRight
    <2>2. 1 \in 1 .. i BY ONLY <1>1, i \in DOMAIN text
    <2> QED BY <2>1, <2>2
  <1>3. \A j \in 1 .. (1 - 1) : text[j].k # "summary"
    <2>1. \A j \in 1 .. (1 - 1) : FALSE BY ONLY TRUE
    <2> QED BY ONLY <2>1
  <1>4. \A j \in (1 + 1) .. i : text[j].k \notin {"bonds", "account"}
    <2> SUFFICES ASSUME NEW j \in (1 + 1) .. i PROVE text[j].k \notin {"bonds", "account"}
      OBVIOUS
    <2>1. j \in DOMAIN text /\ (j < i \/ j = i) BY ONLY <1>1, i \in DOMAIN text, j \in (1 + 1) .. i
    <2>2. CASE j < i
      <3>1. FrontBefore(b, text[j], text[i]) BY <2>1, <2>2 DEF FrontRight
      <3> QED BY <3>1 DEF FrontBefore
    <2>3. CASE j = i BY <2>3 DEF HeldLine
    <2> QED BY <2>1, <2>2, <2>3
  <1> QED BY <1>2, <1>3, <1>4 DEF SectionAt

LEMMA SummaryHeld ==
  ASSUME NEW b, b = "Permata front", NEW text, FrontRight(b, text), NEW i \in SectionAt(text, "summary", {"bonds", "account"}), text[i].k = "product"
  PROVE  i \in DOMAIN text /\ HeldLine(text[i])
  <1>0. Len(text) \in Nat /\ DOMAIN text = 1 .. Len(text) BY FrontText
  <1>1. PICK h \in 1 .. i : /\ i \in DOMAIN text /\ text[h].k = "summary" /\ \A j \in 1 .. (h - 1) : text[j].k # "summary"
                            /\ \A j \in (h + 1) .. i : text[j].k # "bonds"
    BY DEF SectionAt
  <1>2. i \in DOMAIN text /\ text[1].k = "summary" BY <1>1 DEF FrontRight
  <1>3. h = 1
    <2>1. h = 1 \/ 1 \in 1 .. (h - 1) BY ONLY <1>0, <1>2, h \in 1 .. i
    <2> QED BY <1>1, <1>2, <2>1
  <1>4. ASSUME ~ HeldLine(text[i]) PROVE FALSE
    <2>1. BelowBonds(text[i]) BY <1>4 DEF BelowBonds
    <2>2. PICK g \in DOMAIN text : g < i /\ text[g].k = "bonds" BY <1>2, <2>1 DEF FrontRight
    <2>3. g = 1 \/ g \in (1 + 1) .. i BY ONLY <1>0, <1>2, <2>2
    <2> QED BY <1>1, <1>2, <1>3, <2>2, <2>3
  <1> QED BY <1>2, <1>4

LEMMA HeldUnlike ==
  ASSUME NEW b, NEW text, FrontRight(b, text), NEW i \in DOMAIN text, NEW j \in DOMAIN text, HeldLine(text[i]), HeldLine(text[j]), i # j
  PROVE  text[i].of # text[j].of \/ (b = "Maybank front" /\ text[i].currency # text[j].currency)
  <1>1. i < j \/ j < i BY FrontText
  <1>2. CASE i < j
    <2>1. FrontBefore(b, text[i], text[j]) BY <1>2 DEF FrontRight
    <2> QED BY <2>1 DEF FrontBefore
  <1>3. CASE j < i
    <2>1. FrontBefore(b, text[j], text[i]) BY <1>3 DEF FrontRight
    <2> QED BY <2>1 DEF FrontBefore
  <1> QED BY <1>1, <1>2, <1>3

LEMMA RupiahRead ==
  ASSUME NEW b, b = "Permata front", NEW text, FrontRight(b, text), NEW i \in DOMAIN text, HeldLine(text[i])
  PROVE  Rupiah(text, text[i].of) = text[i].amount * Rate[text[i].currency]
  <1> DEFINE at == {j \in IdrSummary(text) : text[j].of = text[i].of}
             none == [rupiah |-> 0]
  <1>1. text \in Seq(FrontLines) BY FrontText
  <1>2. text[i].rupiah > 0 /\ text[i].rupiah = text[i].amount * Rate[text[i].currency]
    <2> DEFINE a == text[i].amount
               r == Rate[text[i].currency]
    <2>1. a \in Nat /\ r \in Nat \ {0} BY FrontLineTyped
    <2>2. a > 0 /\ text[i].rupiah = a * r BY LineValued, Zenon
    <2> HIDE DEF a, r
    <2>3. a * r > 0 BY <2>1, <2>2, RatePaid
    <2> QED BY ONLY <2>2, <2>3, Zenon DEF a, r
  <1>3. i \in at BY <1>2, AccountInSummary DEF IdrSummary, HeldLine
  <1>4. \A j \in at : j = i
    <2> SUFFICES ASSUME NEW j \in at, j # i PROVE FALSE
      OBVIOUS
    <2>1. j \in DOMAIN text /\ HeldLine(text[j]) BY SummaryHeld DEF IdrSummary
    <2>2. text[j].of = text[i].of OBVIOUS
    <2>3. b # "Maybank front" OBVIOUS
    <2> QED BY <2>1, <2>2, <2>3, HeldUnlike
  <1>5. Rupiah(text, text[i].of) = LastOf(text, at, none).rupiah BY DEF Rupiah
  <1> HIDE DEF at, none
  <1>6. at \in SUBSET (DOMAIN text) /\ at # {} BY <1>3, <1>4
  <1>7. PICK j \in at : LastOf(text, at, none) = text[j] BY ONLY <1>1, <1>6, LastFound
  <1>8. Rupiah(text, text[i].of) = text[i].rupiah BY <1>4, <1>5, <1>7
  <1> QED BY ONLY <1>2, <1>8, Zenon

HeldPlaces(text) == {i \in DOMAIN text : text[i].k = "product" /\ \A j \in 1 .. i : text[j].k # "bonds"}

LEMMA HeldPlacesHeld ==
  ASSUME NEW b, NEW text, FrontRight(b, text), NEW i \in HeldPlaces(text)
  PROVE  i \in DOMAIN text /\ HeldLine(text[i])
  <1>1. i \in DOMAIN text /\ text[i].k = "product" /\ \A j \in 1 .. i : text[j].k # "bonds"
    BY DEF HeldPlaces
  <1>2. ASSUME ~ HeldLine(text[i]) PROVE FALSE
    <2>1. PICK g \in DOMAIN text : g < i /\ text[g].k = "bonds"
      BY <1>1, <1>2 DEF FrontRight, BelowBonds
    <2>2. g \in 1 .. i
      <3>1. Len(text) \in Nat /\ DOMAIN text = 1 .. Len(text) BY FrontText
      <3>2. i \in DOMAIN text BY <1>1
      <3> QED BY ONLY <2>1, <3>1, <3>2, g \in DOMAIN text
    <2> QED BY <1>1, <2>1, <2>2
  <1> QED BY <1>1, <1>2

\* The dollar rate.
LEMMA RatePaired ==
  ASSUME NEW b, NEW text, FrontRight(b, text)
  PROVE  PairedRate(text) = IF \E i \in DOMAIN text : text[i].k = "bond" /\ text[i].currency = "USD" THEN Rate["USD"] ELSE Blank
  <1>1. text \in Seq(FrontLines) BY FrontText
  <1>2. ToSet(text) = {text[i] : i \in DOMAIN text} BY DEF ToSet
  <1> DEFINE usd == {l \in ToSet(text) : l.k = "bond" /\ l.currency = "USD" /\ l.amount > 0}
             rates == UsdRates(text)
  <1>3. rates = {FxRate(l) : l \in usd} BY DEF UsdRates
  <1>4. \A l \in usd : FxRate(l) = Rate["USD"] /\ \E i \in DOMAIN text : text[i].k = "bond" /\ text[i].currency = "USD"
    <2> SUFFICES ASSUME NEW l \in usd PROVE FxRate(l) = Rate["USD"] /\ \E i \in DOMAIN text : text[i].k = "bond" /\ text[i].currency = "USD"
      OBVIOUS
    <2>1. PICK i \in DOMAIN text : l = text[i] BY <1>2
    <2>2. l.k = "bond" /\ l.currency = "USD" OBVIOUS
    <2>3. FxRate(l) = Rate[l.currency] BY <2>1, <2>2, BondFound
    <2> QED BY <2>1, <2>2, <2>3
  <1>5. CASE \E i \in DOMAIN text : text[i].k = "bond" /\ text[i].currency = "USD"
    <2>1. PICK i \in DOMAIN text : text[i].k = "bond" /\ text[i].currency = "USD" BY <1>5
    <2>2. text[i] \in usd
      <3>1. text[i].amount > 0 BY <2>1, LineValued, Zenon
      <3> QED BY <1>2, <2>1, <3>1
    <2> HIDE DEF usd
    <2>3. rates = {Rate["USD"]} BY <1>3, <1>4, <2>2
    <2> HIDE DEF rates
    <2>4. Cardinality(rates) = 1 BY <2>3, FS_Singleton
    <2>5. (CHOOSE rate \in rates : TRUE) = Rate["USD"] BY <2>3
    <2> QED BY <1>5, <2>4, <2>5 DEF PairedRate, rates
  <1>6. CASE ~ \E i \in DOMAIN text : text[i].k = "bond" /\ text[i].currency = "USD"
    <2>1. usd = {} BY <1>4, <1>6
    <2> HIDE DEF usd
    <2>2. rates = {} BY <1>3, <2>1
    <2>3. Cardinality(rates) = 0 BY <2>2, FS_EmptySet
    <2>4. Cardinality(rates) # 1 BY <2>3
    <2> QED BY <1>6, <2>4 DEF PairedRate
  <1> QED BY <1>5, <1>6

LEMMA NumbersUnlike ==
  ASSUME NEW text, NEW a, NEW c, a.of = c.of, a.currency # c.currency
  PROVE  AccountNumber(text, a) # AccountNumber(text, c)
  <1> DEFINE N(x) == <<"number", x.of, x.currency>>
             P(x) == <<x.of, x.currency>>
             none == <<>>
  <1>1. \A x : AccountNumber(text, x) \in {N(x), P(x)} \/ (AccountNumber(text, x) = none /\ x.currency = "IDR")
    BY DEF AccountNumber
  <1>2. \A x : Len(N(x)) = 3 /\ N(x)[3] = x.currency /\ Len(P(x)) = 2 /\ P(x)[2] = x.currency
    OBVIOUS
  <1>3. Len(none) = 0 OBVIOUS
  <1>4. 3 # 2 /\ 3 # 0 /\ 2 # 0 OBVIOUS
  <1> HIDE DEF N, P, none
  <1>5. N(a) # N(c) /\ P(a) # P(c) BY <1>2, Zenon
  <1>6. N(a) # P(c) /\ P(a) # N(c) BY <1>2, <1>4, Zenon
  <1>7. N(a) # none /\ P(a) # none /\ N(c) # none /\ P(c) # none BY <1>2, <1>3, <1>4, Zenon
  <1> QED BY <1>1, <1>5, <1>6, <1>7

IdentitiesUnlike(found) ==
  \A i \in DOMAIN found, j \in DOMAIN found :
    i # j => <<found[i].of, found[i].number>> # <<found[j].of, found[j].number>>

LEMMA MaybankAccountsRead ==
  ASSUME NEW b, b = "Maybank front", NEW text, FrontRight(b, text), NEW found, found = MaybankAccounts(text)
  PROVE  IdentitiesUnlike(found)
  <1> DEFINE rows == LinesOf(text, "product")
             at == KindPlaces(text, "product")
  <1>1. text \in Seq(FrontLines) BY FrontText
  <1>2. /\ DOMAIN rows = DOMAIN at
        /\ \A j \in DOMAIN at : rows[j] = text[at[j]] /\ at[j] \in DOMAIN text /\ text[at[j]].k = "product"
        /\ \A i \in DOMAIN at, j \in DOMAIN at : i # j => at[i] # at[j]
    <2>1. rows = LinesOf(text, "product") /\ at = KindPlaces(text, "product") OBVIOUS
    <2> HIDE DEF rows, at
    <2>2. LinesPlaced(text, "product", rows, at) BY ONLY <1>1, <2>1, LinesAt
    <2> QED BY <2>2 DEF LinesPlaced
  <1>3. found = [i \in DOMAIN rows |-> [of |-> rows[i].of, number |-> AccountNumber(text, rows[i]), value |-> rows[i].amount]]
    BY DEF MaybankAccounts
  <1> HIDE DEF rows, at
  <1>4. DOMAIN found = DOMAIN at /\ \A i \in DOMAIN at : found[i].of = rows[i].of /\ found[i].number = AccountNumber(text, rows[i])
    <2> DEFINE r(i) == [of |-> rows[i].of, number |-> AccountNumber(text, rows[i]), value |-> rows[i].amount]
    <2>1. found = [i \in DOMAIN rows |-> r(i)] BY <1>3
    <2>2. \A i : r(i).of = rows[i].of /\ r(i).number = AccountNumber(text, rows[i]) OBVIOUS
    <2> HIDE DEF r
    <2>3. DOMAIN found = DOMAIN at /\ \A i \in DOMAIN at : found[i] = r(i) BY ONLY <1>2, <2>1
    <2> QED BY <2>2, <2>3, Zenon
  <1>5. ASSUME NEW i \in DOMAIN at, NEW j \in DOMAIN at, i # j
        PROVE  <<found[i].of, found[i].number>> # <<found[j].of, found[j].number>>
    <2>1. HeldLine(text[at[i]]) /\ HeldLine(text[at[j]])
      <3>1. FrontLineRight(b, text[at[i]]) /\ FrontLineRight(b, text[at[j]]) BY <1>2, FrontLineTyped
      <3>2. b # "Permata front" OBVIOUS
      <3> QED BY <1>2, <3>1, <3>2 DEF FrontLineRight
    <2>2. at[i] \in DOMAIN text /\ at[j] \in DOMAIN text /\ at[i] # at[j] BY <1>2, <1>5
    <2>3. rows[i].of # rows[j].of \/ rows[i].currency # rows[j].currency
      <3>1. text[at[i]].of # text[at[j]].of \/ text[at[i]].currency # text[at[j]].currency
        BY ONLY <2>1, <2>2, FrontRight(b, text), HeldUnlike
      <3> QED BY <1>2, <3>1, Zenon
    <2>4. CASE rows[i].of # rows[j].of BY <1>4, <2>4
    <2>5. CASE rows[i].of = rows[j].of /\ rows[i].currency # rows[j].currency
      <3>1. AccountNumber(text, rows[i]) # AccountNumber(text, rows[j]) BY <2>5, NumbersUnlike
      <3> QED BY <1>4, <3>1
    <2> QED BY <2>3, <2>4, <2>5
  <1> QED BY <1>4, <1>5 DEF IdentitiesUnlike

(* First pages. The invariant. *)
PagesPrinted == sheet.k = "pages" =>
  /\ bank \in Parsers
  /\ \E lay \in Layouts[bank] :
       \A page \in 1 .. 2 : lay[page] \subseteq sheet.pages[page] /\ sheet.pages[page] \subseteq lay[page] \cup Mentions
FrontPrinting(b, s) ==
  /\ b \in Fronts /\ s.k \in {"front", "bonds", "pages of accounts"}
  /\ FrontRight(b, s.text)
  /\ FrontProgress(s.k, s.text)
FrontInv ==
  /\ DOMAIN sheet = SheetFields /\ DOMAIN read = ReadFields
  /\ \/ bank \in Parsers /\ sheet.k \in {"pages", "routed"} /\ PagesPrinted /\ RoutedToItsParser
     \/ FrontPrinting(bank, sheet)
     \/ bank \in Fronts /\ sheet.k = "read" /\ FrontReadAsPrinted

NewLines(text, l, new) ==
  /\ \A i \in DOMAIN new : (i \in DOMAIN text /\ new[i] = text[i]) \/ new[i] = l
  /\ \A i \in DOMAIN text : i \in DOMAIN new /\ new[i] = text[i]
  /\ \E i \in DOMAIN new : new[i] = l

LEMMA OneMoreLine ==
  ASSUME NEW text \in Seq(FrontLines), NEW l \in FrontLines, NEW new, new = Append(text, l)
  PROVE  NewLines(text, l, new)
  <1> DEFINE n == Len(text)
  <1>1. /\ n \in Nat /\ DOMAIN text = 1 .. n /\ DOMAIN new = 1 .. (n + 1)
        /\ new[n + 1] = l /\ \A i \in 1 .. n : new[i] = text[i]
    BY FrontLonger
  <1> HIDE DEF n
  <1>2. n \in Nat BY <1>1
  <1>3. (\A i \in 1 .. (n + 1) : i \in 1 .. n \/ i = n + 1) /\ 1 .. n \subseteq 1 .. (n + 1) /\ n + 1 \in 1 .. (n + 1)
    BY ONLY <1>2
  <1> QED BY <1>1, <1>3 DEF NewLines

LEMMA FrontPrintKept ==
  ASSUME FrontInv, FrontPrinting(bank, sheet), NEW l, l \in FrontLines, NEW k, k \in {"front", "bonds", "pages of accounts"}, FrontPrints(l, k),
         FrontLineRight(bank, l), \A i \in DOMAIN sheet.text : FrontBefore(bank, sheet.text[i], l),
         BelowBonds(l) => \E h \in DOMAIN sheet.text : sheet.text[h].k = "bonds",
         NEW new, new = Append(sheet.text, l), FrontProgress(k, new)
  PROVE  FrontInv'
  <1>1. /\ bank \in Fronts /\ sheet' = [sheet EXCEPT !.k = k, !.text = new] /\ bank' = bank /\ read' = read
    BY DEF FrontPrints
  <1>2. FrontRight(bank, sheet.text) /\ DOMAIN sheet = SheetFields /\ DOMAIN read = ReadFields
    BY DEF FrontInv, FrontPrinting
  <1>3. sheet.text = <<>> => bank # "Permata front" BY <1>2 DEF FrontRight
  <1>4. FrontRight(bank, new) BY <1>2, <1>3, FrontGrows
  <1>5. sheet'.k = k /\ sheet'.text = new /\ DOMAIN sheet' = SheetFields
    BY <1>1, <1>2 DEF SheetFields
  <1>6. FrontPrinting(bank', sheet') BY <1>1, <1>4, <1>5 DEF FrontPrinting
  <1> QED BY <1>1, <1>2, <1>5, <1>6 DEF FrontInv

LEMMA FrontProductKept ==
  ASSUME FrontInv, FrontProduct
  PROVE  FrontInv'
  <1>1. sheet.k = "front" BY DEF FrontProduct
  <1>2. PICK of \in Products, currency \in AnyCurrency, amount \in Figures :
          /\ \A p \in ToSet(Printed("product")) : p.of # of \/ (bank = "Maybank front" /\ p.currency # currency)
          /\ FrontPrints(ProductLine([of |-> of, currency |-> currency, amount |-> amount]), "front")
    BY DEF FrontProduct
  <1> DEFINE l == ProductLine([of |-> of, currency |-> currency, amount |-> amount])
             text == sheet.text
             new == Append(text, l)
  <1>3. FrontPrinting(bank, sheet) /\ FrontRight(bank, text) /\ \A i \in DOMAIN text : text[i].k \in {"summary", "product"}
    BY <1>1 DEF FrontInv, FrontPrinting, FrontProgress
  <1>4. amount \in Nat /\ amount > 0 /\ Rate[currency] \in Nat \ {0} /\ amount * Rate[currency] \in Nat
    BY ReadingAssumption, RateAssumption DEF AnyCurrency
  <1>5. l \in FrontLines /\ l.k = "product" /\ l.amount = amount /\ l.of = of /\ l.currency = currency /\ l.rupiah = amount * Rate[currency]
    BY <1>4 DEF ProductLine, FrontLines, FrontKinds
  <1>6. text \in Seq(FrontLines) BY <1>3, FrontText
  <1>7. \A i \in DOMAIN text : text[i].k = "product" => text[i].of # of \/ (bank = "Maybank front" /\ text[i].currency # currency)
    <2> DEFINE I == {i \in DOMAIN text : text[i].k = "product"}
               p == Printed("product")
    <2>1. p = Picked(text, I) BY DEF Printed, LinesOf
    <2> HIDE DEF I, p
    <2>2. \A i \in DOMAIN text : i \in I => text[i] \in ToSet(p) BY <1>6, <2>1, PickedLines
    <2> QED BY <1>2, <2>2 DEF I, p
  <1> HIDE DEF text
  <1>8. new = Append(text, l) OBVIOUS
  <1>9. FrontPrints(l, "front") BY <1>2
  <1> HIDE DEF l, new
  <1>10. FrontLineRight(bank, l)
    <2>1. l.amount > 0 /\ l.rupiah = l.amount * Rate[l.currency] BY ONLY <1>4, <1>5, Zenon
    <2> QED BY <1>5, <2>1 DEF FrontLineRight, HeldLine
  <1>11. \A i \in DOMAIN text : FrontBefore(bank, text[i], l)
    BY <1>3, <1>5, <1>7 DEF FrontBefore, HeldLine
  <1>12. ~ BelowBonds(l) BY <1>4, <1>5 DEF BelowBonds, HeldLine
  <1>13. NewLines(text, l, new) BY <1>5, <1>6, <1>8, OneMoreLine
  <1>14. FrontProgress("front", new) BY <1>3, <1>5, <1>13 DEF NewLines, FrontProgress
  <1> QED BY <1>3, <1>5, <1>8, <1>9, <1>10, <1>11, <1>12, <1>14, FrontPrintKept DEF text

\* What a step of a summary finds, and what a plain line asks for.
LEMMA FrontFacts ==
  ASSUME FrontInv, sheet.k \in {"front", "bonds", "pages of accounts"}
  PROVE  /\ FrontPrinting(bank, sheet) /\ FrontRight(bank, sheet.text) /\ FrontProgress(sheet.k, sheet.text)
         /\ sheet.text \in Seq(FrontLines) /\ bank \in Fronts
  <1>1. FrontPrinting(bank, sheet) BY DEF FrontInv
  <1>2. FrontRight(bank, sheet.text) /\ FrontProgress(sheet.k, sheet.text) /\ bank \in Fronts
    BY <1>1 DEF FrontPrinting
  <1> QED BY <1>1, <1>2, FrontText

LEMMA HeadingTyped ==
  ASSUME NEW k \in FrontKinds
  PROVE  /\ FrontLine(k) \in FrontLines /\ FrontLine(k).k = k /\ FrontLine(k).amount = 0
  BY DEF FrontLine, FrontLines, AnyCurrency

LEMMA FrontBondsHeadingKept ==
  ASSUME FrontInv, FrontBondsHeading
  PROVE  FrontInv'
  <1> DEFINE l == FrontLine("bonds")
             text == sheet.text
             new == Append(text, l)
  <1>1. sheet.k = "front" /\ FrontPrints(l, "bonds") BY DEF FrontBondsHeading
  <1>2. /\ FrontPrinting(bank, sheet) /\ text \in Seq(FrontLines) /\ bank \in Fronts
        /\ \A i \in DOMAIN text : text[i].k \in {"summary", "product"}
    BY <1>1, FrontFacts DEF FrontProgress
  <1>3. l \in FrontLines /\ l.k = "bonds"
    <2>1. "bonds" \in FrontKinds BY DEF FrontKinds
    <2> QED BY <2>1, HeadingTyped
  <1>4. new = Append(text, l) OBVIOUS
  <1> HIDE DEF l, new
  <1>5. FrontLineRight(bank, l) /\ ~ BelowBonds(l) /\ \A i \in DOMAIN text : FrontBefore(bank, text[i], l)
    BY <1>2, <1>3 DEF FrontLineRight, FrontBefore, BelowBonds, HeldLine
  <1>6. NewLines(text, l, new) BY <1>2, <1>3, <1>4, OneMoreLine
  <1>7. FrontProgress("bonds", new) BY <1>2, <1>3, <1>6 DEF NewLines, FrontProgress
  <1> QED BY <1>1, <1>2, <1>3, <1>4, <1>5, <1>7, FrontPrintKept

\* A printed line with two of its fields changed is a line of that kind still.
LEMMA StrayLineMade ==
  ASSUME NEW m, NEW a, NEW b, NEW K, NEW O, NEW C, NEW A, NEW R,
         m \in [k : K, of : O, currency : C, amount : A, rupiah : R], a \in O, b \in R
  PROVE  /\ [m EXCEPT !.of = a, !.rupiah = b] \in [k : K, of : O, currency : C, amount : A, rupiah : R]
         /\ [m EXCEPT !.of = a, !.rupiah = b].k = m.k
         /\ [m EXCEPT !.of = a, !.rupiah = b].amount = m.amount
  OBVIOUS
LEMMA RateLineMade ==
  ASSUME NEW m, NEW a, NEW b, NEW K, NEW O, NEW C, NEW A, NEW R,
         m \in [k : K, of : O, currency : C, amount : A, rupiah : R], a \in C, b \in A
  PROVE  /\ [m EXCEPT !.currency = a, !.amount = b] \in [k : K, of : O, currency : C, amount : A, rupiah : R]
         /\ [m EXCEPT !.currency = a, !.amount = b].k = m.k
         /\ [m EXCEPT !.currency = a, !.amount = b].currency = a
         /\ [m EXCEPT !.currency = a, !.amount = b].amount = b
  OBVIOUS

LEMMA BondTyped ==
  ASSUME NEW of \in Products, NEW currency \in AnyCurrency, NEW amount \in Figures, NEW l,
         l = [ProductLine([of |-> of, currency |-> currency, amount |-> amount]) EXCEPT !.k = "bond"]
  PROVE  l \in FrontLines /\ l.k = "bond" /\ \A b : FrontLineRight(b, l)
  <1>1. amount \in Nat /\ amount > 0 /\ Rate[currency] \in Nat \ {0} /\ amount * Rate[currency] \in Nat
    BY ReadingAssumption, RateAssumption DEF AnyCurrency
  <1>2. l = [k |-> "bond", of |-> of, currency |-> currency, amount |-> amount, rupiah |-> amount * Rate[currency]]
    BY DEF ProductLine
  <1> DEFINE z == amount * Rate[currency]
             m == [k |-> "bond", of |-> of, currency |-> currency, amount |-> amount, rupiah |-> z]
  <1>6. l = m /\ z \in Nat /\ z = amount * Rate[currency] BY ONLY <1>1, <1>2
  <1> HIDE DEF z
  <1>3. m \in FrontLines
    BY ONLY <1>1, <1>6, of \in Products, currency \in AnyCurrency DEF FrontLines, FrontKinds
  <1>7. m.k = "bond" /\ m.amount = amount /\ m.currency = currency /\ m.rupiah = z BY ONLY TRUE
  <1> HIDE DEF m
  <1>4. l \in FrontLines /\ l.k = "bond" /\ l.amount = amount /\ l.currency = currency /\ l.rupiah = amount * Rate[currency]
    BY ONLY <1>3, <1>6, <1>7
  <1>5. l.amount > 0 /\ l.rupiah = l.amount * Rate[l.currency] BY ONLY <1>1, <1>4, Zenon
  <1> QED BY <1>3, <1>4, <1>5 DEF FrontLineRight, HeldLine

LEMMA FrontBondKept ==
  ASSUME FrontInv, FrontBond
  PROVE  FrontInv'
  <1> DEFINE text == sheet.text
  <1>1. sheet.k = "bonds" BY DEF FrontBond
  <1>0. PICK of \in Products, currency \in AnyCurrency, amount \in Figures :
          FrontPrints([ProductLine([of |-> of, currency |-> currency, amount |-> amount]) EXCEPT !.k = "bond"], "bonds")
    BY DEF FrontBond
  <1> DEFINE l == [ProductLine([of |-> of, currency |-> currency, amount |-> amount]) EXCEPT !.k = "bond"]
             new == Append(text, l)
  <1>2. /\ FrontPrinting(bank, sheet) /\ text \in Seq(FrontLines) /\ bank \in Fronts
        /\ \A i \in DOMAIN text : text[i].k \notin {"customer", "account"}
        /\ \E i \in DOMAIN text : text[i].k = "bonds"
    BY <1>1, FrontFacts DEF FrontProgress
  <1>3. l \in FrontLines /\ l.k = "bond" /\ FrontLineRight(bank, l) BY BondTyped
  <1>4. new = Append(text, l) /\ FrontPrints(l, "bonds") BY <1>0
  <1> HIDE DEF l, new
  <1>5. \A i \in DOMAIN text : FrontBefore(bank, text[i], l) BY <1>2, <1>3 DEF FrontBefore, HeldLine
  <1>6. NewLines(text, l, new) BY <1>2, <1>3, <1>4, OneMoreLine
  <1>7. FrontProgress("bonds", new) BY <1>2, <1>3, <1>6 DEF NewLines, FrontProgress
  <1> QED BY <1>2, <1>3, <1>4, <1>5, <1>7, FrontPrintKept

\* The lines that follow the bonds.
LEMMA FrontBelowKept ==
  ASSUME FrontInv, sheet.k \in {"bonds", "pages of accounts"}, NEW l, l \in FrontLines, FrontPrints(l, "pages of accounts"),
         FrontLineRight(bank, l), l.k \notin {"bonds", "bond"}, ~ HeldLine(l)
  PROVE  FrontInv'
  <1> DEFINE text == sheet.text
             new == Append(text, l)
  <1>1. /\ FrontPrinting(bank, sheet) /\ text \in Seq(FrontLines)
        /\ \E i \in DOMAIN text : text[i].k = "bonds"
    BY FrontFacts DEF FrontProgress
  <1>2. new = Append(text, l) OBVIOUS
  <1> HIDE DEF new
  <1>3. \A i \in DOMAIN text : FrontBefore(bank, text[i], l) BY DEF FrontBefore
  <1>4. NewLines(text, l, new) BY <1>1, <1>2, OneMoreLine
  <1>5. FrontProgress("pages of accounts", new) BY <1>1, <1>4 DEF NewLines, FrontProgress
  <1> QED BY <1>1, <1>2, <1>3, <1>5, FrontPrintKept

LEMMA FrontCustomerKept ==
  ASSUME FrontInv, FrontCustomer
  PROVE  FrontInv'
  <1> DEFINE l == FrontLine("customer")
  <1>1. sheet.k = "bonds" /\ FrontPrints(l, "pages of accounts") BY DEF FrontCustomer
  <1>2. "customer" \in FrontKinds BY DEF FrontKinds
  <1>3. l \in FrontLines /\ l.k = "customer" BY <1>2, HeadingTyped
  <1> HIDE DEF l
  <1>4. FrontLineRight(bank, l) /\ ~ HeldLine(l) BY <1>3 DEF FrontLineRight, HeldLine
  <1> QED BY <1>1, <1>3, <1>4, FrontBelowKept

LEMMA FrontStrayKept ==
  ASSUME FrontInv, FrontStray
  PROVE  FrontInv'
  <1>1. sheet.k = "pages of accounts" /\ bank = "Permata front" BY DEF FrontStray
  <1>2. PICK of \in Products : FrontPrints([FrontLine("product") EXCEPT !.of = of, !.rupiah = 1], sheet.k)
    BY DEF FrontStray
  <1> DEFINE l == [FrontLine("product") EXCEPT !.of = of, !.rupiah = 1]
  <1>3. FrontPrints(l, "pages of accounts") BY <1>1, <1>2
  <1> DEFINE m == FrontLine("product")
  <1>4. m \in FrontLines /\ m.k = "product" /\ m.amount = 0 /\ of \in Products \cup {Blank} /\ 1 \in Nat
    BY HeadingTyped DEF FrontKinds, FrontLine
  <1> HIDE DEF m
  <1>8. [m EXCEPT !.of = of, !.rupiah = 1] \in FrontLines /\ [m EXCEPT !.of = of, !.rupiah = 1].k = "product" /\ [m EXCEPT !.of = of, !.rupiah = 1].amount = 0
    BY ONLY <1>4, StrayLineMade DEF FrontLines
  <1>5. l \in FrontLines /\ l.k = "product" /\ l.amount = 0 BY ONLY <1>8 DEF m
  <1> HIDE DEF l
  <1>6. ~ HeldLine(l) BY <1>5 DEF HeldLine
  <1>7. FrontLineRight(bank, l) BY <1>1, <1>5, <1>6 DEF FrontLineRight
  <1> QED BY <1>1, <1>3, <1>5, <1>6, <1>7, FrontBelowKept

LEMMA FrontAccountKept ==
  ASSUME FrontInv, FrontAccount
  PROVE  FrontInv'
  <1>1. sheet.k = "pages of accounts" BY DEF FrontAccount
  <1>2. PICK a \in ToSet(AccountsHeld) : FrontPrints([a EXCEPT !.k = "account"], sheet.k)
    BY DEF FrontAccount
  <1> DEFINE l == [a EXCEPT !.k = "account"]
             text == sheet.text
             I == {i \in DOMAIN sheet.text : sheet.text[i].k = "product" /\ \A j \in 1 .. i : sheet.text[j].k # "bonds"}
             p == AccountsHeld
  <1>3. text \in Seq(FrontLines) BY <1>1, FrontFacts
  <1>4. a \in FrontLines
    <2>1. p = Picked(text, I) BY DEF AccountsHeld
    <2> HIDE DEF p, I, text
    <2>2. \A x \in ToSet(p) : \E i \in DOMAIN text : i \in I /\ x = text[i]
      BY ONLY <1>3, <2>1, PickedLines
    <2>3. \A i \in DOMAIN text : text[i] \in FrontLines BY ONLY <1>3
    <2> QED BY <2>2, <2>3 DEF p
  <1>5. FrontPrints(l, "pages of accounts") BY <1>1, <1>2
  <1>6. l \in FrontLines /\ l.k = "account" BY <1>4 DEF FrontLines, FrontKinds
  <1> HIDE DEF l
  <1>7. ~ HeldLine(l) /\ FrontLineRight(bank, l) BY <1>6 DEF HeldLine, FrontLineRight
  <1> QED BY <1>1, <1>5, <1>6, <1>7, FrontBelowKept

LEMMA FrontRatesKept ==
  ASSUME FrontInv, FrontRates
  PROVE  FrontInv'
  <1>1. sheet.k = "pages of accounts" BY DEF FrontRates
  <1>2. PICK currency \in Currencies : FrontPrints([FrontLine("rate") EXCEPT !.currency = currency, !.amount = Rate[currency]], sheet.k)
    BY DEF FrontRates
  <1> DEFINE l == [FrontLine("rate") EXCEPT !.currency = currency, !.amount = Rate[currency]]
  <1>3. FrontPrints(l, "pages of accounts") BY <1>1, <1>2
  <1> DEFINE m == FrontLine("rate")
             r == Rate[currency]
  <1>5. Rate[currency] \in Nat /\ currency \in AnyCurrency BY RateAssumption DEF AnyCurrency
  <1>4. m \in FrontLines /\ m.k = "rate" BY HeadingTyped DEF FrontKinds, FrontLine
  <1> HIDE DEF m, r
  <1>8. /\ [m EXCEPT !.currency = currency, !.amount = r] \in FrontLines
        /\ [m EXCEPT !.currency = currency, !.amount = r].k = "rate"
        /\ [m EXCEPT !.currency = currency, !.amount = r].currency = currency
        /\ [m EXCEPT !.currency = currency, !.amount = r].amount = r
    BY ONLY <1>4, <1>5, RateLineMade DEF FrontLines, r
  <1>6. l \in FrontLines /\ l.k = "rate" /\ l.currency = currency /\ l.amount = Rate[currency]
    BY ONLY <1>8 DEF m, r
  <1> HIDE DEF l
  <1>7. ~ HeldLine(l) /\ FrontLineRight(bank, l) BY <1>6 DEF HeldLine, FrontLineRight
  <1> QED BY <1>1, <1>3, <1>6, <1>7, FrontBelowKept

(* StatementFronts. Which parser is asked first, and says yes. *)
Orders == 1 .. 16

\* The last parser, in the order they are asked, that a mark can tell of.
Rank(x) ==
  CASE x \in {"Rekening Tagihan", "Credit Card Billing"} -> 1
    [] x = "RDN" -> 2
    [] x \in {"Mutasi Transaksi", "PermataTabungan USD"} -> 3
    [] x \in {"Permata", "Rekening Koran"} -> 4
    [] x = "REKENING KARTU KREDIT" -> 5
    [] x = "REKENING TAPRES" -> 6
    [] x \in {"BCA", "TAHAPAN"} -> 7
    [] x \in {"RINGKASAN PORTOFOLIO", "ALOKASI ASET"} -> 8
    [] x = "Maybank" -> 9
    [] x = "Tgl. Statement" -> 10
    [] x \in {"CIMB Niaga", "COMBINE STATEMENT"} -> 11
    [] x = "Client Portofolio" -> 12
    [] x \in {"INDO PREMIER", "Client Statement"} -> 13
    [] x \in {"CONSOLIDATE ACCOUNT STATEMENT", "CASH SUMMARY", "PORTFOLIO STATEMENT", "BNI Sekuritas"} -> 14
    [] x = "CLIENT STATEMENT" -> 15
    [] OTHER -> 16

LEMMA ParsersAsked ==
  /\ DOMAIN ParserOrder = Orders /\ Len(ParserOrder) = 16
  /\ ParserOrder[1][1] = "permata_cc" /\ ParserOrder[2][1] = "permata_rdn"
  /\ ParserOrder[3][1] = "permata_usd_savings" /\ ParserOrder[4][1] = "permata_savings"
  /\ ParserOrder[5][1] = "bca_cc" /\ ParserOrder[6][1] = "bca_rdn"
  /\ ParserOrder[7][1] = "bca_savings" /\ ParserOrder[8][1] = "maybank_consol"
  /\ ParserOrder[9][1] = "maybank_cc" /\ ParserOrder[10][1] = "cimb_niaga_cc"
  /\ ParserOrder[11][1] = "cimb_niaga_consol" /\ ParserOrder[12][1] = "ipot_portfolio"
  /\ ParserOrder[13][1] = "ipot_statement" /\ ParserOrder[14][1] = "bni_sekuritas_legacy"
  /\ ParserOrder[15][1] = "bni_sekuritas" /\ ParserOrder[16][1] = "stockbit_sekuritas"
  BY DEF ParserOrder, Orders

LEMMA ParsersInOrder ==
  \A i, k \in Orders : ParserOrder[i][1] = ParserOrder[k][1] => i = k
  BY ParsersAsked DEF Orders

LEMMA RanksOfMarks ==
  /\ \A m \in ParserOrder[1][2] : \A x \in m : Rank(x) = 1
  /\ \A m \in ParserOrder[2][2] : "RDN" \in m /\ \A x \in m : Rank(x) \in {2, 4}
  /\ \A m \in ParserOrder[3][2] : \A x \in m : Rank(x) = 3
  /\ \A m \in ParserOrder[4][2] : \A x \in m : Rank(x) = 4
  /\ \A m \in ParserOrder[5][2] : "REKENING KARTU KREDIT" \in m /\ \A x \in m : Rank(x) \in {5, 7}
  /\ \A m \in ParserOrder[6][2] : \A x \in m : Rank(x) = 6
  /\ \A m \in ParserOrder[7][2] : \A x \in m : Rank(x) = 7
  /\ \A m \in ParserOrder[8][2] : ("RINGKASAN PORTOFOLIO" \in m \/ "ALOKASI ASET" \in m) /\ \A x \in m : Rank(x) \in {8, 9}
  /\ \A m \in ParserOrder[9][2] : "Maybank" \in m /\ \A x \in m : Rank(x) \in {9, 16}
  /\ \A m \in ParserOrder[10][2] : "Tgl. Statement" \in m /\ \A x \in m : Rank(x) \in {10, 11}
  /\ \A m \in ParserOrder[11][2] : \A x \in m : Rank(x) = 11
  /\ \A m \in ParserOrder[12][2] : "Client Portofolio" \in m /\ \A x \in m : Rank(x) \in {12, 13}
  /\ \A m \in ParserOrder[13][2] : \A x \in m : Rank(x) = 13
  /\ \A m \in ParserOrder[14][2] : \A x \in m : Rank(x) = 14
  /\ \A m \in ParserOrder[15][2] : \A x \in m : Rank(x) = 15
  /\ \A m \in ParserOrder[16][2] : \A x \in m : Rank(x) = 16
  <1>1. /\ \A m \in ParserOrder[1][2] : \A x \in m : Rank(x) = 1
        /\ \A m \in ParserOrder[3][2] : \A x \in m : Rank(x) = 3
        /\ \A m \in ParserOrder[4][2] : \A x \in m : Rank(x) = 4
        /\ \A m \in ParserOrder[6][2] : \A x \in m : Rank(x) = 6
        /\ \A m \in ParserOrder[7][2] : \A x \in m : Rank(x) = 7
    BY DEF ParserOrder, Rank
  <1>2. /\ \A m \in ParserOrder[11][2] : \A x \in m : Rank(x) = 11
        /\ \A m \in ParserOrder[13][2] : \A x \in m : Rank(x) = 13
        /\ \A m \in ParserOrder[14][2] : \A x \in m : Rank(x) = 14
        /\ \A m \in ParserOrder[15][2] : \A x \in m : Rank(x) = 15
        /\ \A m \in ParserOrder[16][2] : \A x \in m : Rank(x) = 16
    BY DEF ParserOrder, Rank
  <1>3. \A m \in ParserOrder[2][2] : "RDN" \in m /\ \A x \in m : Rank(x) \in {2, 4}
    BY DEF ParserOrder, Rank
  <1>4. \A m \in ParserOrder[5][2] : "REKENING KARTU KREDIT" \in m /\ \A x \in m : Rank(x) \in {5, 7}
    BY DEF ParserOrder, Rank
  <1>5. \A m \in ParserOrder[8][2] : ("RINGKASAN PORTOFOLIO" \in m \/ "ALOKASI ASET" \in m) /\ \A x \in m : Rank(x) \in {8, 9}
    BY DEF ParserOrder, Rank
  <1>6. \A m \in ParserOrder[9][2] : "Maybank" \in m /\ \A x \in m : Rank(x) \in {9, 16}
    BY DEF ParserOrder, Rank
  <1>7. \A m \in ParserOrder[10][2] : "Tgl. Statement" \in m /\ \A x \in m : Rank(x) \in {10, 11}
    BY DEF ParserOrder, Rank
  <1>8. \A m \in ParserOrder[12][2] : "Client Portofolio" \in m /\ \A x \in m : Rank(x) \in {12, 13}
    BY DEF ParserOrder, Rank
  <1> QED BY <1>1, <1>2, <1>3, <1>4, <1>5, <1>6, <1>7, <1>8

LEMMA RankOfItsOwn ==
  ASSUME NEW i \in {1, 3, 4, 6, 7, 11, 13, 14, 15, 16}, NEW marks \in ParserOrder[i][2], NEW x \in marks
  PROVE  Rank(x) = i
  <1>1. CASE i \in {1, 3, 4, 6, 7}
    <2>1. \/ i = 1 /\ Rank(x) = 1
          \/ i = 3 /\ Rank(x) = 3
          \/ i = 4 /\ Rank(x) = 4
          \/ i = 6 /\ Rank(x) = 6
          \/ i = 7 /\ Rank(x) = 7
      BY <1>1, RanksOfMarks
    <2> QED BY <2>1
  <1>2. CASE i \in {11, 13}
    <2>1. \/ i = 11 /\ Rank(x) = 11
          \/ i = 13 /\ Rank(x) = 13
      BY <1>2, RanksOfMarks
    <2> QED BY <2>1
  <1>3. CASE i \in {14, 15, 16}
    <2>1. \/ i = 14 /\ Rank(x) = 14
          \/ i = 15 /\ Rank(x) = 15
          \/ i = 16 /\ Rank(x) = 16
      BY <1>3, RanksOfMarks
    <2> QED BY <2>1
  <1> QED BY <1>1, <1>2, <1>3

\* A parser looks for marks of its own rank or a later one.
LEMMA MarksRanked ==
  ASSUME NEW i \in Orders, NEW marks \in ParserOrder[i][2], NEW x \in marks
  PROVE  Rank(x) \in Int /\ Rank(x) >= i
  <1>1. CASE i \in {1, 3, 4, 6, 7, 11, 13, 14, 15, 16}
    <2>1. Rank(x) = i BY <1>1, RankOfItsOwn
    <2> QED BY <2>1 DEF Orders
  <1>2. CASE i \in {2, 5, 8, 9, 10, 12}
    <2>1. \/ i = 2 /\ Rank(x) \in {2, 4}
          \/ i = 5 /\ Rank(x) \in {5, 7}
          \/ i = 8 /\ Rank(x) \in {8, 9}
          \/ i = 9 /\ Rank(x) \in {9, 16}
          \/ i = 10 /\ Rank(x) \in {10, 11}
          \/ i = 12 /\ Rank(x) \in {12, 13}
      BY <1>2, RanksOfMarks
    <2> QED BY <2>1
  <1> QED BY <1>1, <1>2 DEF Orders

\* One of those of its own rank is not mentioned by a booking.
LEMMA MarksNotMentioned ==
  ASSUME NEW i \in Orders, NEW marks \in ParserOrder[i][2]
  PROVE  \E x \in marks : Rank(x) = i /\ x \notin Mentions
  <1>1. ~ (marks \subseteq Mentions) BY MentionsAssumption, ParsersAsked
  <1>2. \A x \in Confusing : x \notin Mentions BY MentionsAssumption
  <1>3. CASE i \in {1, 3, 4, 6, 7, 11, 13, 14, 15, 16}
    <2>1. \A x \in marks : Rank(x) = i BY <1>3, RankOfItsOwn
    <2> QED BY <1>1, <2>1
  <1>4. CASE i \in {2, 5, 8, 9, 10, 12}
    <2>1. /\ Rank("RDN") = 2 /\ Rank("REKENING KARTU KREDIT") = 5
          /\ Rank("RINGKASAN PORTOFOLIO") = 8 /\ Rank("ALOKASI ASET") = 8
          /\ Rank("Maybank") = 9 /\ Rank("Tgl. Statement") = 10 /\ Rank("Client Portofolio") = 12
      BY DEF Rank
    <2>2. /\ "RDN" \notin Mentions /\ "REKENING KARTU KREDIT" \notin Mentions
          /\ "RINGKASAN PORTOFOLIO" \notin Mentions /\ "ALOKASI ASET" \notin Mentions
          /\ "Maybank" \notin Mentions /\ "Tgl. Statement" \notin Mentions /\ "Client Portofolio" \notin Mentions
      BY <1>2 DEF Confusing
    <2>3. \/ i = 2 /\ "RDN" \in marks
          \/ i = 5 /\ "REKENING KARTU KREDIT" \in marks
          \/ i = 8 /\ ("RINGKASAN PORTOFOLIO" \in marks \/ "ALOKASI ASET" \in marks)
          \/ i = 9 /\ "Maybank" \in marks
          \/ i = 10 /\ "Tgl. Statement" \in marks
          \/ i = 12 /\ "Client Portofolio" \in marks
      BY RanksOfMarks, <1>4
    <2> QED BY <2>1, <2>2, <2>3
  <1> QED BY <1>3, <1>4 DEF Orders

LEMMA SpecialLayouts ==
  /\ Layouts["maybank_consol"] = {<<{"Maybank", "KARTU KREDIT"}, {"RINGKASAN PORTOFOLIO"}>>,
                                  <<{"Maybank", "KARTU KREDIT", "ALOKASI ASET"}, {}>>}
  /\ Layouts["cimb_niaga_cc"] = {<<{"Tgl. Statement", "KARTU KREDIT"}, {"CIMB Niaga"}>>,
                                 <<{"Tgl. Statement", "CIMB Niaga"}, {}>>}
  <1>1. "maybank_consol" \in Parsers /\ "cimb_niaga_cc" \in Parsers
    BY ParsersAsked DEF Parsers, Orders
  <1> QED BY <1>1 DEF Layouts

LEMMA LayoutsOfParsers ==
  ASSUME NEW j \in Orders, j \notin {8, 10}
  PROVE  Layouts[ParserOrder[j][1]] = {<<Page(marks), {}>> : marks \in ParserOrder[j][2]}
  <1> DEFINE p == ParserOrder[j][1]
  <1>1. p \in Parsers /\ p # "maybank_consol" /\ p # "cimb_niaga_cc"
    BY ParsersAsked DEF Parsers, Orders
  <1>2. (CHOOSE i \in DOMAIN ParserOrder : ParserOrder[i][1] = p) = j
    BY ParsersAsked, ParsersInOrder
  <1> HIDE DEF p
  <1>3. Layouts[p] = LET i == CHOOSE i \in DOMAIN ParserOrder : ParserOrder[i][1] = p
                     IN {<<Page(marks), {}>> : marks \in ParserOrder[i][2]}
    BY <1>1, Zenon DEF Layouts
  <1> QED BY <1>2, <1>3 DEF p

\* Nothing in a layout tells of a parser that is asked earlier.
LEMMA LayoutsRanked ==
  ASSUME NEW j \in Orders, NEW lay \in Layouts[ParserOrder[j][1]], NEW x \in lay[1] \cup lay[2]
  PROVE  Rank(x) \in Int /\ Rank(x) >= j
  <1>1. Rank("KARTU KREDIT") = 16 /\ Rank("Maybank") = 9 /\ Rank("RINGKASAN PORTOFOLIO") = 8
        /\ Rank("ALOKASI ASET") = 8 /\ Rank("Tgl. Statement") = 10 /\ Rank("CIMB Niaga") = 11
    BY DEF Rank
  <1>2. CASE j = 8
    <2>1. x \in {"Maybank", "KARTU KREDIT", "RINGKASAN PORTOFOLIO", "ALOKASI ASET"}
      <3>1. lay \in Layouts["maybank_consol"] BY <1>2, ParsersAsked
      <3>2. \/ lay = <<{"Maybank", "KARTU KREDIT"}, {"RINGKASAN PORTOFOLIO"}>>
            \/ lay = <<{"Maybank", "KARTU KREDIT", "ALOKASI ASET"}, {}>>
        BY <3>1, SpecialLayouts, Zenon
      <3>3. CASE lay = <<{"Maybank", "KARTU KREDIT"}, {"RINGKASAN PORTOFOLIO"}>> BY <3>3
      <3>4. CASE lay = <<{"Maybank", "KARTU KREDIT", "ALOKASI ASET"}, {}>> BY <3>4
      <3> QED BY <3>2, <3>3, <3>4
    <2>2. Rank(x) \in {8, 9, 16} BY <1>1, <2>1
    <2> QED BY <1>2, <2>2
  <1>3. CASE j = 10
    <2>1. x \in {"Tgl. Statement", "KARTU KREDIT", "CIMB Niaga"}
      <3>1. lay \in Layouts["cimb_niaga_cc"] BY <1>3, ParsersAsked
      <3>2. \/ lay = <<{"Tgl. Statement", "KARTU KREDIT"}, {"CIMB Niaga"}>>
            \/ lay = <<{"Tgl. Statement", "CIMB Niaga"}, {}>>
        BY <3>1, SpecialLayouts, Zenon
      <3>3. CASE lay = <<{"Tgl. Statement", "KARTU KREDIT"}, {"CIMB Niaga"}>> BY <3>3
      <3>4. CASE lay = <<{"Tgl. Statement", "CIMB Niaga"}, {}>> BY <3>4
      <3> QED BY <3>2, <3>3, <3>4
    <2>2. Rank(x) \in {10, 11, 16} BY <1>1, <2>1
    <2> QED BY <1>3, <2>2
  <1>4. CASE j \notin {8, 10}
    <2>1. PICK marks \in ParserOrder[j][2] : lay = <<Page(marks), {}>> BY <1>4, LayoutsOfParsers
    <2>2. x \in marks \/ x = "KARTU KREDIT" BY <2>1 DEF Page
    <2>3. CASE x \in marks BY <2>3, MarksRanked
    <2>4. CASE x = "KARTU KREDIT"
      <3>1. Rank(x) = 16 BY <1>1, <2>4
      <3> QED BY <3>1 DEF Orders
    <2> QED BY <2>2, <2>3, <2>4
  <1> QED BY <1>2, <1>3, <1>4

\* A parser recognises what its bank prints.
LEMMA OwnRecognised ==
  ASSUME NEW j \in Orders, NEW lay \in Layouts[ParserOrder[j][1]], NEW first, NEW second,
         lay[1] \subseteq first, lay[2] \subseteq second
  PROVE  CanParse(ParserOrder[j], first, second)
  <1>1. CASE j = 8
    <2>1. ParserOrder[j][1] \in Both /\ ParserOrder[j][1] = "maybank_consol"
      BY <1>1, ParsersAsked DEF Both
    <2>2. \A marks \in {{"Maybank", "RINGKASAN PORTOFOLIO"}, {"Maybank", "ALOKASI ASET"}} : marks \in ParserOrder[8][2]
      BY DEF ParserOrder
    <2>3. \/ lay = <<{"Maybank", "KARTU KREDIT"}, {"RINGKASAN PORTOFOLIO"}>>
          \/ lay = <<{"Maybank", "KARTU KREDIT", "ALOKASI ASET"}, {}>>
      BY <2>1, SpecialLayouts, Zenon
    <2>4. \/ {"Maybank", "RINGKASAN PORTOFOLIO"} \subseteq first \cup second
          \/ {"Maybank", "ALOKASI ASET"} \subseteq first \cup second
      <3>1. CASE lay = <<{"Maybank", "KARTU KREDIT"}, {"RINGKASAN PORTOFOLIO"}>>
        <4>1. "Maybank" \in first /\ "RINGKASAN PORTOFOLIO" \in second BY <3>1
        <4> QED BY <4>1
      <3>2. CASE lay = <<{"Maybank", "KARTU KREDIT", "ALOKASI ASET"}, {}>>
        <4>1. "Maybank" \in first /\ "ALOKASI ASET" \in first BY <3>2
        <4> QED BY <4>1
      <3> QED BY <2>3, <3>1, <3>2
    <2> QED BY <1>1, <2>1, <2>2, <2>4 DEF CanParse
  <1>2. CASE j = 10
    <2>1. ParserOrder[j][1] \in Both /\ ParserOrder[j][1] = "cimb_niaga_cc"
      BY <1>2, ParsersAsked DEF Both
    <2>2. {"CIMB Niaga", "Tgl. Statement"} \in ParserOrder[10][2] BY DEF ParserOrder
    <2>3. \/ lay = <<{"Tgl. Statement", "KARTU KREDIT"}, {"CIMB Niaga"}>>
          \/ lay = <<{"Tgl. Statement", "CIMB Niaga"}, {}>>
      BY <2>1, SpecialLayouts, Zenon
    <2>4. {"CIMB Niaga", "Tgl. Statement"} \subseteq first \cup second
      <3>1. CASE lay = <<{"Tgl. Statement", "KARTU KREDIT"}, {"CIMB Niaga"}>>
        <4>1. "Tgl. Statement" \in first /\ "CIMB Niaga" \in second BY <3>1
        <4> QED BY <4>1
      <3>2. CASE lay = <<{"Tgl. Statement", "CIMB Niaga"}, {}>>
        <4>1. "Tgl. Statement" \in first /\ "CIMB Niaga" \in first BY <3>2
        <4> QED BY <4>1
      <3> QED BY <2>3, <3>1, <3>2
    <2> QED BY <1>2, <2>1, <2>2, <2>4 DEF CanParse
  <1>3. CASE j \notin {8, 10}
    <2>1. PICK marks \in ParserOrder[j][2] : lay = <<Page(marks), {}>> BY <1>3, LayoutsOfParsers
    <2> QED BY <2>1 DEF Page, CanParse
  <1> QED BY <1>1, <1>2, <1>3

LEMMA FirstToRecognise ==
  ASSUME NEW j \in Orders, NEW lay \in Layouts[ParserOrder[j][1]], NEW first, NEW second,
         lay[1] \subseteq first, first \subseteq lay[1] \cup Mentions,
         lay[2] \subseteq second, second \subseteq lay[2] \cup Mentions
  PROVE  DetectAndParse(first, second) = ParserOrder[j][1]
  <1>1. ASSUME NEW i \in 1 .. (j - 1), CanParse(ParserOrder[i], first, second)
        PROVE  FALSE
    <2>1. PICK marks \in ParserOrder[i][2] : marks \subseteq first \cup second BY <1>1 DEF CanParse
    <2>2. PICK x \in marks : Rank(x) = i /\ x \notin Mentions BY MarksNotMentioned DEF Orders
    <2>3. x \in lay[1] \cup lay[2] BY <2>1, <2>2
    <2>4. Rank(x) >= j BY <2>3, LayoutsRanked
    <2> QED BY <2>2, <2>4 DEF Orders
  <1> DEFINE yes == {i \in 1 .. 16 : CanParse(ParserOrder[i], first, second)}
             at == SelectInSeq(ParserOrder, LAMBDA entry : CanParse(entry, first, second))
  <1>2. j \in yes /\ \A i \in yes : j <= i BY <1>1, OwnRecognised DEF Orders
  <1>3. at = Min(yes) BY <1>2, ParsersAsked DEF SelectInSeq
  <1>4. Min(yes) = j
    <2> HIDE DEF yes
    <2>1. yes \subseteq Int BY DEF yes
    <2>2. Min(yes) \in yes /\ \A i \in yes : Min(yes) <= i BY <1>2 DEF Min
    <2>3. Min(yes) <= j /\ j <= Min(yes) /\ Min(yes) \in Int /\ j \in Int
      BY <1>2, <2>1, <2>2 DEF Orders
    <2> QED BY <2>3
  <1>5. DetectAndParse(first, second) = IF at = 0 THEN Blank ELSE ParserOrder[at][1]
    BY DEF DetectAndParse
  <1> QED BY <1>3, <1>4, <1>5 DEF Orders

(* First pages. What is read of a summary. *)
FrontRead(b, text, r) ==
  LET held == Picked(text, HeldPlaces(text))
  IN /\ r.rows = BondsOf(text)
     /\ \A i \in DOMAIN r.accounts :
          IF b = "Permata front" THEN r.accounts[i] = held[i].amount * Rate[held[i].currency]
          ELSE \A j \in DOMAIN r.accounts :
                 i # j => <<r.accounts[i].of, r.accounts[i].number>> # <<r.accounts[j].of, r.accounts[j].number>>
     /\ b = "Permata front" =>
          r.currency = IF \E l \in ToSet(LinesOf(text, "bond")) : l.currency = "USD" THEN Rate["USD"] ELSE Blank

LEMMA DollarBonds ==
  ASSUME NEW text \in Seq(FrontLines)
  PROVE  (\E l \in ToSet(LinesOf(text, "bond")) : l.currency = "USD") <=> \E i \in DOMAIN text : text[i].k = "bond" /\ text[i].currency = "USD"
  <1> DEFINE I == {i \in DOMAIN text : text[i].k = "bond"}
             p == LinesOf(text, "bond")
  <1>1. p = Picked(text, I) BY DEF LinesOf
  <1> HIDE DEF I, p
  <1>2. /\ \A x \in ToSet(p) : \E i \in DOMAIN text : i \in I /\ x = text[i]
        /\ \A i \in DOMAIN text : i \in I => text[i] \in ToSet(p)
    BY <1>1, PickedLines
  <1> QED BY <1>2 DEF I, p

LEMMA PermataRead ==
  ASSUME NEW text, FrontRight("Permata front", text), NEW held, held = Picked(text, HeldPlaces(text)), NEW r,
         r.rows = BondSection(text), r.accounts = [i \in DOMAIN held |-> Rupiah(text, held[i].of)], r.currency = PairedRate(text)
  PROVE  FrontRead("Permata front", text, r)
  <1> DEFINE b == "Permata front"
             I == HeldPlaces(text)
  <1>1. text \in Seq(FrontLines) /\ FrontRight(b, text) BY FrontText
  <1>2. r.rows = BondsOf(text) BY BondSectionRead
  <1>7. held = Picked(text, I) /\ b = "Permata front" OBVIOUS
  <1> HIDE DEF I, b
  <1>3. \A x \in ToSet(held) : \E i \in DOMAIN text : i \in I /\ x = text[i]
    <2>1. text \in Seq(FrontLines) /\ held = Picked(text, I) BY <1>1, <1>7
    <2>2. /\ \A x \in ToSet(held) : \E i \in DOMAIN text : i \in I /\ x = text[i]
          /\ \A i \in DOMAIN text : i \in I => text[i] \in ToSet(held)
      BY ONLY <2>1, PickedLines
    <2> QED BY <2>2
  <1>4. ASSUME NEW i \in DOMAIN held PROVE Rupiah(text, held[i].of) = held[i].amount * Rate[held[i].currency]
    <2>1. held[i] \in ToSet(held) BY DEF ToSet
    <2>2. PICK x \in DOMAIN text : x \in I /\ held[i] = text[x] BY <1>3, <2>1
    <2>3. HeldLine(text[x]) BY <1>1, <2>2, HeldPlacesHeld DEF I
    <2>4. Rupiah(text, text[x].of) = text[x].amount * Rate[text[x].currency]
      BY ONLY <1>1, <1>7, <2>3, x \in DOMAIN text, RupiahRead
    <2> QED BY ONLY <2>2, <2>4, Zenon
  <1>5. \A i \in DOMAIN r.accounts : r.accounts[i] = held[i].amount * Rate[held[i].currency]
    <2> DEFINE v(i) == Rupiah(text, held[i].of)
               w(i) == held[i].amount * Rate[held[i].currency]
    <2>1. \A i \in DOMAIN held : v(i) = w(i) BY <1>4
    <2>2. r.accounts = [i \in DOMAIN held |-> v(i)] OBVIOUS
    <2> HIDE DEF v, w
    <2>3. \A i \in DOMAIN r.accounts : r.accounts[i] = w(i) BY ONLY <2>1, <2>2
    <2> QED BY ONLY <2>3 DEF w
  <1>6. r.currency = IF \E l \in ToSet(LinesOf(text, "bond")) : l.currency = "USD" THEN Rate["USD"] ELSE Blank
    <2>1. PairedRate(text) = IF \E i \in DOMAIN text : text[i].k = "bond" /\ text[i].currency = "USD" THEN Rate["USD"] ELSE Blank
      BY ONLY <1>1, RatePaired
    <2>2. (\E l \in ToSet(LinesOf(text, "bond")) : l.currency = "USD") <=> \E i \in DOMAIN text : text[i].k = "bond" /\ text[i].currency = "USD"
      BY ONLY <1>1, DollarBonds
    <2> QED BY <2>1, <2>2, Zenon
  <1> QED BY <1>2, <1>5, <1>6, Zenon DEF FrontRead, b

LEMMA MaybankRead ==
  ASSUME NEW text, FrontRight("Maybank front", text), NEW r,
         {l.currency : l \in ToSet(LinesOf(text, "rate"))} = Currencies,
         r.accounts = MaybankAccounts(text), r.rows = MaybankBonds(text)
  PROVE  FrontRead("Maybank front", text, r)
  <1> DEFINE b == "Maybank front"
             I == {i \in DOMAIN text : text[i].k = "rate"}
             p == LinesOf(text, "rate")
  <1>1. text \in Seq(FrontLines) /\ FrontRight(b, text) /\ p = Picked(text, I)
    BY FrontText DEF LinesOf
  <1>2. {l.currency : l \in ToSet(p)} = Currencies OBVIOUS
  <1> HIDE DEF I, p
  <1>3. \A x \in ToSet(p) : \E i \in DOMAIN text : i \in I /\ x = text[i]
    <2>1. text \in Seq(FrontLines) /\ p = Picked(text, I) BY <1>1
    <2>2. /\ \A x \in ToSet(p) : \E i \in DOMAIN text : i \in I /\ x = text[i]
          /\ \A i \in DOMAIN text : i \in I => text[i] \in ToSet(p)
      BY ONLY <2>1, PickedLines
    <2> QED BY <2>2
  <1>4. \A currency \in Currencies : \E i \in DOMAIN text : text[i].k = "rate" /\ text[i].currency = currency
    <2> SUFFICES ASSUME NEW currency \in Currencies PROVE \E i \in DOMAIN text : text[i].k = "rate" /\ text[i].currency = currency
      OBVIOUS
    <2>1. PICK l \in ToSet(p) : currency = l.currency BY <1>2
    <2>2. PICK i \in DOMAIN text : i \in I /\ l = text[i] BY <1>3
    <2> QED BY <2>1, <2>2 DEF I
  <1>5. r.rows = BondsOf(text) BY <1>1, <1>4, MaybankBondsRead
  <1>6. IdentitiesUnlike(r.accounts) BY <1>1, MaybankAccountsRead
  <1>7. b # "Permata front" OBVIOUS
  <1> QED BY <1>5, <1>6, <1>7 DEF FrontRead, IdentitiesUnlike

LEMMA FrontReadsKept ==
  ASSUME FrontInv, FrontReads
  PROVE  FrontInv'
  <1> DEFINE text == sheet.text
             held == Picked(text, HeldPlaces(text))
  <1>1. /\ sheet.k = "pages of accounts" /\ sheet' = [sheet EXCEPT !.k = "read"] /\ bank' = bank
        /\ bank = "Maybank front" => {l.currency : l \in ToSet(LinesOf(text, "rate"))} = Currencies
    BY DEF FrontReads, Printed
  <1>2. FrontRight(bank, text) /\ bank \in Fronts /\ DOMAIN sheet = SheetFields /\ DOMAIN read = ReadFields
    BY <1>1, FrontFacts DEF FrontInv
  <1>3. AccountsHeld = held BY DEF AccountsHeld, HeldPlaces
  <1>4. read' = IF bank = "Permata front"
                THEN [read EXCEPT !.accounts = [i \in DOMAIN held |-> Rupiah(text, held[i].of)],
                                  !.rows = BondSection(text), !.currency = PairedRate(text)]
                ELSE [read EXCEPT !.accounts = MaybankAccounts(text), !.rows = MaybankBonds(text)]
    BY <1>3, Zenon DEF FrontReads
  <1>5. sheet'.k = "read" /\ sheet'.text = text /\ DOMAIN sheet' = SheetFields /\ DOMAIN read' = ReadFields
    BY <1>1, <1>2, <1>4 DEF SheetFields
  <1>6. {"accounts", "rows", "currency"} \subseteq DOMAIN read BY <1>2 DEF ReadFields
  <1> HIDE DEF text
  <1>7. FrontRead(bank, text, read')
    <2>1. CASE bank = "Permata front"
      <3>1. /\ read'.accounts = [i \in DOMAIN held |-> Rupiah(text, held[i].of)]
            /\ read'.rows = BondSection(text) /\ read'.currency = PairedRate(text)
        BY <1>4, <1>6, <2>1
      <3>2. FrontRight("Permata front", text) /\ held = Picked(text, HeldPlaces(text)) BY <1>2, <2>1
      <3> HIDE DEF held
      <3>3. FrontRead("Permata front", text, read') BY ONLY <3>1, <3>2, PermataRead
      <3> QED BY <2>1, <3>3
    <2>2. CASE bank = "Maybank front"
      <3>1. read'.accounts = MaybankAccounts(text) /\ read'.rows = MaybankBonds(text)
        BY <1>4, <1>6, <2>2
      <3>2. FrontRight("Maybank front", text) /\ {l.currency : l \in ToSet(LinesOf(text, "rate"))} = Currencies
        BY <1>1, <1>2, <2>2
      <3>3. FrontRead("Maybank front", text, read') BY ONLY <3>1, <3>2, MaybankRead
      <3> QED BY <2>2, <3>3
    <2> QED BY <1>2, <2>1, <2>2 DEF Fronts
  <1>8. FrontReadAsPrinted'
    <2>1. BondsPrinted' = BondsOf(sheet'.text) /\ AccountsHeld' = Picked(sheet'.text, HeldPlaces(sheet'.text))
      BY DEF BondsPrinted, BondsOf, Printed, AccountsHeld, HeldPlaces
    <2>2. Printed("bond")' = LinesOf(sheet'.text, "bond") BY DEF Printed
    <2>3. FrontRead(bank', sheet'.text, read') BY <1>1, <1>5, <1>7
    <2> QED BY <2>1, <2>2, <2>3, Zenon DEF FrontRead, FrontReadAsPrinted
  <1> QED BY <1>1, <1>2, <1>5, <1>8 DEF FrontInv

(* First pages. The parser asked for. *)
LEMMA RoutedRight ==
  ASSUME FrontInv, Routed
  PROVE  FrontInv'
  <1>0. sheet.k = "pages" /\ bank \in Parsers /\ PagesPrinted BY DEF FrontInv, Routed, FrontPrinting
  <1>1. /\ sheet'.k = "routed" /\ read'.of = DetectAndParse(sheet.pages[1], sheet.pages[2]) /\ bank' = bank
        /\ DOMAIN sheet' = SheetFields /\ DOMAIN read' = ReadFields
    BY DEF Routed, FrontInv, SheetFields, ReadFields
  <1>2. PICK j \in Orders : bank = ParserOrder[j][1] BY <1>0, ParsersAsked DEF Parsers
  <1>3. PICK lay \in Layouts[ParserOrder[j][1]] :
          \A page \in 1 .. 2 : lay[page] \subseteq sheet.pages[page] /\ sheet.pages[page] \subseteq lay[page] \cup Mentions
    BY <1>0, <1>2 DEF PagesPrinted
  <1>4. DetectAndParse(sheet.pages[1], sheet.pages[2]) = ParserOrder[j][1] BY <1>3, FirstToRecognise
  <1> QED BY <1>0, <1>1, <1>2, <1>4 DEF FrontInv, PagesPrinted, RoutedToItsParser

LEMMA MentionedOnPage ==
  ASSUME FrontInv, Mentioned
  PROVE  FrontInv'
  <1>0. sheet.k = "pages" /\ bank \in Parsers /\ PagesPrinted /\ DOMAIN sheet = SheetFields /\ DOMAIN read = ReadFields
    BY DEF FrontInv, Mentioned, FrontPrinting
  <1>1. PICK mark \in Mentions, on \in 1 .. 2 :
          sheet' = [sheet EXCEPT !.pages = <<IF on = 1 THEN @[1] \cup {mark} ELSE @[1], IF on = 2 THEN @[2] \cup {mark} ELSE @[2]>>,
                                 !.stray = @ + 1]
    BY DEF Mentioned
  <1>2. sheet'.k = "pages" /\ bank' = bank /\ read' = read /\ DOMAIN sheet' = SheetFields
    BY <1>0, <1>1 DEF Mentioned, SheetFields
  <1>3. sheet'.pages = <<IF on = 1 THEN sheet.pages[1] \cup {mark} ELSE sheet.pages[1],
                         IF on = 2 THEN sheet.pages[2] \cup {mark} ELSE sheet.pages[2]>>
    BY <1>0, <1>1 DEF SheetFields
  <1>4. \A page \in 1 .. 2 : sheet.pages[page] \subseteq sheet'.pages[page] /\ sheet'.pages[page] \subseteq sheet.pages[page] \cup Mentions
    <2>1. sheet'.pages[1] = IF on = 1 THEN sheet.pages[1] \cup {mark} ELSE sheet.pages[1] BY <1>3
    <2>2. sheet'.pages[2] = IF on = 2 THEN sheet.pages[2] \cup {mark} ELSE sheet.pages[2] BY <1>3
    <2> QED BY <2>1, <2>2
  <1>6. PICK lay \in Layouts[bank] :
          \A page \in 1 .. 2 : lay[page] \subseteq sheet.pages[page] /\ sheet.pages[page] \subseteq lay[page] \cup Mentions
    BY <1>0 DEF PagesPrinted
  <1>7. \A page \in 1 .. 2 : lay[page] \subseteq sheet'.pages[page] /\ sheet'.pages[page] \subseteq lay[page] \cup Mentions
    BY <1>4, <1>6
  <1> QED BY <1>0, <1>2, <1>6, <1>7 DEF FrontInv, PagesPrinted, RoutedToItsParser

(* First pages. All of them. *)
LEMMA FrontInitial ==
  ASSUME FrontInit
  PROVE  FrontInv
  <1>1. DOMAIN sheet = SheetFields /\ DOMAIN read = ReadFields
    BY DEF FrontInit, NewSheet, NewRead, SheetFields, ReadFields
  <1>2. CASE bank \in Parsers /\ \E pages \in Layouts[bank] : sheet = [NewSheet EXCEPT !.k = "pages", !.pages = pages]
    <2>1. sheet.k = "pages" /\ sheet.pages \in Layouts[bank] BY <1>2 DEF NewSheet
    <2> QED BY <1>1, <1>2, <2>1 DEF FrontInv, PagesPrinted, RoutedToItsParser
  <1>3. CASE bank \in Fronts /\ sheet = [NewSheet EXCEPT !.k = "front", !.text = IF bank = "Permata front" THEN <<FrontLine("summary")>> ELSE <<>>]
    <2> DEFINE text == IF bank = "Permata front" THEN <<FrontLine("summary")>> ELSE <<>>
    <2>1. sheet.k = "front" /\ sheet.text = text BY <1>3 DEF NewSheet
    <2>2. FrontLine("summary") \in FrontLines /\ FrontLine("summary").k = "summary"
      <3>1. "summary" \in FrontKinds BY DEF FrontKinds
      <3> QED BY <3>1, HeadingTyped
    <2>3. text \in Seq(FrontLines) /\ \A i \in DOMAIN text : i = 1 /\ text[i] = FrontLine("summary")
      <3> DEFINE l == FrontLine("summary")
                 one == <<l>>
                 none == <<>>
      <3>1. l \in FrontLines BY <2>2
      <3>2. text = one \/ text = none OBVIOUS
      <3> HIDE DEF l
      <3>3. one \in Seq(FrontLines) /\ \A i \in DOMAIN one : i = 1 /\ one[i] = l BY ONLY <3>1
      <3>4. none \in Seq(FrontLines) /\ DOMAIN none = {} BY ONLY TRUE
      <3> HIDE DEF one, none
      <3> QED BY ONLY <3>2, <3>3, <3>4 DEF l
    <2>4. bank = "Permata front" => text # <<>> /\ text[1].k = "summary" BY <2>2
    <2> HIDE DEF text
    <2>5. \A i \in DOMAIN text : FrontLineRight(bank, text[i]) /\ ~ BelowBonds(text[i]) /\ text[i].k = "summary"
      BY <2>2, <2>3 DEF FrontLineRight, BelowBonds, HeldLine
    <2>6. \A i \in DOMAIN text, j \in DOMAIN text : ~ (i < j) BY <2>3
    <2>7. FrontRight(bank, text) BY <2>3, <2>4, <2>5, <2>6 DEF FrontRight
    <2>8. FrontProgress("front", text) BY <2>5 DEF FrontProgress
    <2> QED BY <1>1, <1>3, <2>1, <2>7, <2>8 DEF FrontInv, FrontPrinting
  <1> QED BY <1>2, <1>3 DEF FrontInit

LEMMA FrontStepsKept ==
  ASSUME FrontInv, FrontStep
  PROVE  FrontInv'
  BY RoutedRight, MentionedOnPage, FrontProductKept, FrontBondsHeadingKept, FrontBondKept, FrontCustomerKept,
     FrontStrayKept, FrontAccountKept, FrontRatesKept, FrontReadsKept DEF FrontStep

LEMMA FrontUnchanged ==
  ASSUME FrontInv, UNCHANGED rvars
  PROVE  FrontInv'
  <1>1. sheet' = sheet /\ read' = read /\ bank' = bank BY DEF rvars
  <1>2. PagesPrinted' = PagesPrinted /\ RoutedToItsParser' = RoutedToItsParser
    BY <1>1 DEF PagesPrinted, RoutedToItsParser
  <1>3. FrontReadAsPrinted' = FrontReadAsPrinted
    BY <1>1 DEF FrontReadAsPrinted, BondsPrinted, Printed, AccountsHeld
  <1> QED BY <1>1, <1>2, <1>3 DEF FrontInv

LEMMA FrontAsPrinted ==
  ASSUME FrontInv
  PROVE  /\ FrontReadAsPrinted /\ RoutedToItsParser /\ bank \in Parsers \cup Fronts
         /\ sheet.k \in {"pages", "routed", "front", "bonds", "pages of accounts", "read"}
  BY DEF FrontInv, FrontPrinting, FrontReadAsPrinted, RoutedToItsParser

(* Statements. Every statement is one of four kinds and stays of it. *)
StatementsInv == CardInv \/ AccountInv \/ PortfolioInv \/ FrontInv

KindsApart ==
  /\ CardBanks \cap AccountBanks = {} /\ CardBanks \cap AllBrokers = {} /\ AccountBanks \cap AllBrokers = {}
  /\ (Parsers \cup Fronts) \cap (CardBanks \cup AccountBanks \cup AllBrokers) = {}

LEMMA BanksApart == KindsApart
  <1>1. Parsers \subseteq {"permata_cc", "permata_rdn", "permata_usd_savings", "permata_savings", "bca_cc", "bca_rdn", "bca_savings",
                     "maybank_consol", "maybank_cc", "cimb_niaga_cc", "cimb_niaga_consol", "ipot_portfolio", "ipot_statement",
                     "bni_sekuritas_legacy", "bni_sekuritas", "stockbit_sekuritas"}
    BY ParsersAsked DEF Parsers
  <1>2. CardBanks \cap AccountBanks = {} /\ CardBanks \cap AllBrokers = {} /\ AccountBanks \cap AllBrokers = {}
    BY DEF CardBanks, AccountBanks, AllBrokers
  <1>3. Fronts \cap (CardBanks \cup AccountBanks \cup AllBrokers) = {}
    BY DEF Fronts, CardBanks, AccountBanks, AllBrokers
  <1>4. Parsers \cap (CardBanks \cup AccountBanks \cup AllBrokers) = {}
    BY <1>1 DEF CardBanks, AccountBanks, AllBrokers
  <1> QED BY <1>2, <1>3, <1>4 DEF KindsApart

LEMMA CardBanked ==
  ASSUME CardInv
  PROVE  bank \in CardBanks
  BY DEF CardInv, CardTyped

LEMMA KindKept ==
  ASSUME StatementsInv, StatementsNext
  PROVE  StatementsInv'
  <1>1. Brokers \subseteq AllBrokers BY PortfolioAssumption
  <1>2. CASE CardInv
    <2>1. ~ AccountStep /\ ~ PortfolioStep /\ ~ FrontStep
      BY <1>1, <1>2, CardBanked, BanksApart DEF KindsApart, AccountStep, PortfolioStep, FrontStep
    <2> QED BY <1>2, <2>1, CardStepsKept DEF StatementsNext, StatementsInv
  <1>3. CASE AccountInv
    <2>1. ~ CardStep /\ ~ PortfolioStep /\ ~ FrontStep
      BY <1>1, <1>3, AccountBanked, BanksApart DEF KindsApart, CardStep, PortfolioStep, FrontStep
    <2> QED BY <1>3, <2>1, AccountStepsKept DEF StatementsNext, StatementsInv
  <1>4. CASE PortfolioInv
    <2>1. ~ CardStep /\ ~ AccountStep /\ ~ FrontStep
      BY <1>1, <1>4, PortfolioAsPrinted, BanksApart DEF KindsApart, CardStep, AccountStep, FrontStep
    <2> QED BY <1>4, <2>1, PortfolioStepsKept DEF StatementsNext, StatementsInv
  <1>5. CASE FrontInv
    <2>1. ~ CardStep /\ ~ AccountStep /\ ~ PortfolioStep
      BY <1>1, <1>5, FrontAsPrinted, BanksApart DEF KindsApart, CardStep, AccountStep, PortfolioStep
    <2> QED BY <1>5, <2>1, FrontStepsKept DEF StatementsNext, StatementsInv
  <1> QED BY <1>2, <1>3, <1>4, <1>5 DEF StatementsInv

LEMMA KindsAsPrinted ==
  ASSUME StatementsInv
  PROVE  ReadAsPrinted /\ RoutedToItsParser
  <1>1. Brokers \subseteq AllBrokers BY PortfolioAssumption
  <1>2. bank \notin CardBanks => CardReadAsPrinted BY DEF CardReadAsPrinted
  <1>3. bank \notin AccountBanks => AccountReadAsPrinted BY DEF AccountReadAsPrinted
  <1>4. bank \notin Brokers => HoldingsReadAsPrinted /\ CashReadAsPrinted
    BY DEF HoldingsReadAsPrinted, CashReadAsPrinted
  <1>5. bank \notin Parsers \cup Fronts => FrontReadAsPrinted /\ RoutedToItsParser
    BY DEF FrontReadAsPrinted, RoutedToItsParser
  <1>6. CASE CardInv
    BY <1>1, <1>3, <1>4, <1>5, <1>6, CardBanked, CardsAsPrinted, BanksApart DEF KindsApart, ReadAsPrinted
  <1>7. CASE AccountInv
    BY <1>1, <1>2, <1>4, <1>5, <1>7, AccountBanked, AccountsAsPrinted, BanksApart DEF KindsApart, ReadAsPrinted
  <1>8. CASE PortfolioInv
    BY <1>1, <1>2, <1>3, <1>5, <1>8, PortfolioAsPrinted, BanksApart DEF KindsApart, ReadAsPrinted
  <1>9. CASE FrontInv
    BY <1>1, <1>2, <1>3, <1>4, <1>9, FrontAsPrinted, BanksApart DEF KindsApart, ReadAsPrinted
  <1> QED BY <1>6, <1>7, <1>8, <1>9 DEF StatementsInv

LEMMA StatementsBegin ==
  ASSUME StatementsInit
  PROVE  StatementsInv
  BY CardInitial, AccountInitial, PortfolioInitial, FrontInitial DEF StatementsInit, StatementsInv

LEMMA StatementsStand ==
  ASSUME StatementsInv, UNCHANGED rvars
  PROVE  StatementsInv'
  BY CardUnchanged, AccountUnchanged, PortfolioUnchanged, FrontUnchanged DEF StatementsInv

(* In whatever order and on however many pages a bank prints, under the     *)
(* assumptions on its layout (ReadingAssumption, AccountAssumption and those *)
(* of PortfolioStatements), what ReadAsPrinted claims of the bookings,       *)
(* accounts, holdings and balances its parser read holds at the end.         *)
THEOREM StatementsAlwaysRead == StatementsSpec => []ReadAsPrinted
  <1>1. StatementsInit => StatementsInv BY StatementsBegin
  <1>2. StatementsInv /\ [StatementsNext]_rvars => StatementsInv' BY KindKept, StatementsStand
  <1>3. StatementsInv => ReadAsPrinted BY KindsAsPrinted
  <1> QED BY <1>1, <1>2, <1>3, PTL DEF StatementsSpec

(* A statement is read by the parser written for its layout, whatever its *)
(* bookings mention and on whichever page the bank puts its name: *)
(* detect_and_parse asks the parsers in an order in which nothing a layout *)
(* prints, nor a mention, satisfies the can_parse of one asked earlier. *)
THEOREM StatementsAlwaysRouted == StatementsSpec => []RoutedToItsParser
  <1>1. StatementsInit => StatementsInv BY StatementsBegin
  <1>2. StatementsInv /\ [StatementsNext]_rvars => StatementsInv' BY KindKept, StatementsStand
  <1>3. StatementsInv => RoutedToItsParser BY KindsAsPrinted
  <1> QED BY <1>1, <1>2, <1>3, PTL DEF StatementsSpec
=============================================================================
