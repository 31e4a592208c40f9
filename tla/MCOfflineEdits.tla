---- MODULE MCOfflineEdits ----
EXTENDS OfflineEdits

\* s and q are short readings of the line g, but not of one another; a and b
\* have one text but two owners, and are the two sides of a transfer; p is a
\* card settlement of the same day and amount as g.
MCLines == {"s", "g", "q", "a", "b", "p"}
MCText == [l \in MCLines |-> CASE l \in {"a", "b"} -> "TRF" [] OTHER -> l]
MCIdentity == [l \in MCLines |-> CASE l \in {"s", "g", "q", "p"} -> "day" [] OTHER -> l]
MCOwner == [l \in MCLines |-> IF l = "b" THEN "wife" ELSE "man"]
MCVariants == {<<"s", "g">>, <<"g", "s">>, <<"q", "g">>, <<"g", "q">>}
MCTransfers == {[debit |-> "a", credit |-> "b"]}
MCSheets == {<<"s", "a">>, <<"g", "p", "q">>, <<"a", "b">>}
MCTokens == [p \in {"TRF", "s", "g", "q", "p"} |-> IF p = "s" THEN 2 ELSE 1]
MCHits == [k \in {"exact", "contains", "regex"} \X DOMAIN MCTokens |->
            IF k[1] = "exact" THEN {k[2]} ELSE IF k[2] \in {"s", "q"} THEN {k[2], "g"} ELSE {k[2]}]
MCLike == [p \in DOMAIN MCTokens |-> IF p = "s" THEN {"s", "g"} ELSE {p}]
MCNames == {"Food", "Fun", "Other", "Ignored", "Transfer"}
MCReserved == [ignored |-> "Ignored", transfer |-> "Transfer", other |-> "Other"]
MCSeeded == {<<>>, <<[type |-> "exact", pattern |-> "TRF", owner |-> None, category |-> "Other"],
                     [type |-> "exact", pattern |-> "TRF", owner |-> "wife", category |-> "Food"],
                     [type |-> "contains", pattern |-> "q", owner |-> None, category |-> "Other"]>>}
MCTeachable == {<<"contains", "s">>, <<"regex", "TRF">>, <<"exact", "g">>}
R(overlap, assisted, offline, i, e) ==
  [overlap |-> overlap, assisted |-> assisted, offline |-> offline, imports |-> i, edits |-> e]
MCRegimes == {R(FALSE, FALSE, FALSE, 2, 2), R(TRUE, FALSE, FALSE, 1, 2),
              R(FALSE, TRUE, FALSE, 1, 1), R(FALSE, FALSE, TRUE, 1, 2)}
====
