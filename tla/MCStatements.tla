----------------------------- MODULE MCStatements -----------------------------
(* Small instances of the statements that banks print.                        *)
EXTENDS Statements

MCRowDates == {<<12, -1>>, <<1, 0>>}
MCCards == <<"c1", "c2", "c3">>
MCNameOn == [c1 |-> "self", c2 |-> "spouse", c3 |-> "other"]
MCOwner == [self |-> "O1", spouse |-> "O2"]
MCAccts == <<"a1", "a2">>
MCCurrencyOf == [a1 |-> "IDR", a2 |-> "USD"]
MCRate == [IDR |-> 1, USD |-> 16, SGD |-> 12]
===============================================================================
