--------------------------- MODULE MCCoreTaxLedger ---------------------------
(* Finite instances of CoreTaxLedger for TLC. *)
EXTENDS CoreTaxLedger, TLC

CONSTANTS cash, fund, gold, shares, k1, k2

Order == [i \in Items |-> IF i = cash THEN 1 ELSE 2]
Shown == [l \in Lines |-> IF l = shares THEN fund ELSE None]
Defaults == [l \in Lines |-> IF l = gold THEN Sticky ELSE Refreshable]
Said == {[names |-> fund, rule |-> Refreshable], [names |-> None, rule |-> Sticky]}

Nothing == [fp \in Fingerprints |-> None]
LastYear == [Nothing EXCEPT ![<<"new", fund>>] = k1]
Learnt == {Nothing, LastYear}

Serial == [overlap |-> FALSE, edits |-> 3, starts |-> 2]
Overlapping == [overlap |-> TRUE, edits |-> 2, starts |-> 1]
TwoAtOnce == [overlap |-> TRUE, edits |-> 1, starts |-> 2]
AllRegimes == {Serial, Overlapping, TwoAtOnce}

Alike == Permutations(Requests)
=============================================================================
