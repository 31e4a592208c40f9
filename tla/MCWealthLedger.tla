---- MODULE MCWealthLedger ----
EXTENDS WealthLedger

MCStatements == {[s1 |-> 1, s2 |-> 1], [s1 |-> 2], [b1 |-> 2], [f1 |-> 1]}
R(overlap, ops, bound) == [overlap |-> overlap, ops |-> ops, bound |-> bound]
MCRegimes ==
  {R(FALSE, {"balance", "holding", "debt", "view", "delete"}, 2),
   R(FALSE, {"holding", "view"}, 3), R(FALSE, {"debt", "card", "view"}, 3),
   R(TRUE, {"portfolio", "view", "holding"}, 2), R(TRUE, {"portfolio"}, 3),
   R(FALSE, {"sync", "view", "balance"}, 3), R(TRUE, {"savings"}, 3),
   R(FALSE, {"holding", "view", "balance", "fail"}, 2), R(FALSE, {"view", "holding", "debt", "delete", "fail"}, 2)}
====
