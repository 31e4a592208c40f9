------------------------- MODULE MCActionApprovals -------------------------
(* Finite instances of ActionApprovals for TLC. *)
EXTENDS ActionApprovals, TLC

CONSTANTS a1, a2, move, reply, delete

\* One approval of each kind, or one kind only.
AllClasses == (move :> "mutation") @@ (reply :> "needs_reply") @@ (delete :> "unsupported")
MutationOnly == (move :> "mutation")

ServerSymmetry == Permutations(Servers)
=============================================================================
