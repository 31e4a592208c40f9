--------------------------- MODULE ApprovalLedger ---------------------------
(***************************************************************************)
(* What the approval queue promises, whatever the tables, handlers and     *)
(* processes behind it: an approval is decided once, attempted at most     *)
(* once and only after a human approved it, and is closed once with a      *)
(* verdict that tells the truth about what the attempt did.                *)
(***************************************************************************)
CONSTANT Ids

VARIABLES phase,   \* where each approval stands
          effect   \* whether its action has been carried out

ledger == <<phase, effect>>

Phases == {"absent", "pending", "approved", "rejected", "expired", "running",
           "executed", "blocked", "failed"}

Init == /\ phase = [i \in Ids |-> "absent"]
        /\ effect = [i \in Ids |-> FALSE]

Move(i, from, to) == /\ phase[i] = from
                     /\ phase' = [phase EXCEPT ![i] = to]
                     /\ UNCHANGED effect

Propose(i) == Move(i, "absent", "pending")

Decide(i) == \/ Move(i, "pending", "approved")
             \/ Move(i, "pending", "rejected")

\* Expiry is swept: several pending approvals may lapse in one step.
Lapse(S) == /\ \A i \in S : phase[i] = "pending"
            /\ phase' = [i \in Ids |-> IF i \in S THEN "expired" ELSE phase[i]]
            /\ UNCHANGED effect

Attempt(i) == Move(i, "approved", "running")

Perform(i) == /\ phase[i] = "running"
              /\ ~ effect[i]
              /\ effect' = [effect EXCEPT ![i] = TRUE]
              /\ UNCHANGED phase

\* An attempt that failed, or was given up, may or may not have had its effect.
Close(i) == \/ effect[i] /\ Move(i, "running", "executed")
            \/ ~ effect[i] /\ Move(i, "running", "blocked")
            \/ Move(i, "running", "failed")

Next == \/ \E i \in Ids : Propose(i) \/ Decide(i) \/ Attempt(i) \/ Perform(i) \/ Close(i)
        \/ \E S \in SUBSET Ids : Lapse(S)

Spec == Init /\ [][Next]_ledger
=============================================================================
