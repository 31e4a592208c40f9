---------------------------- MODULE MCPdfPipeline ----------------------------
(* Finite instances of PdfPipeline for TLC. *)
EXTENDS PdfPipeline

\* Two accounts of one bank in one month, the first statement issued again
\* under its old name, and a third account without a transaction.
CONSTANTS first, second, again, quiet

Names == [f \in Files |-> IF f = again THEN first ELSE f]
OneMonth == [f \in Files |-> "savings"]
Accounts == [f \in Files |-> IF f = again THEN first ELSE f]
TwoOfThem == [savings |-> 2]

With(which, who, what) == [files |-> which, actors |-> who, may |-> what]
Disturbed == {"read", "warn", "import", "record", "restart"}
Deployed ==
  {With({first, second}, {"worker"}, Disturbed),
   With({first, second}, {"pipeline"}, Disturbed \cup {"lock"}),
   With({first, again}, {"pipeline"}, {"read"}),
   With({first, again, quiet}, {"pipeline"}, {"warn"}),
   With({first, quiet}, {"worker"}, {}),
   With({first}, {"worker", "pipeline"}, {"read", "warn"}),
   With({first}, {"batch", "pipeline"}, {}),
   With({first}, {"batch"}, {"extract", "read"})}
=============================================================================
