----------------------------- MODULE MCAgentLoop -----------------------------
(* Finite instances of AgentLoop for TLC. *)
EXTENDS AgentLoop

\* Commands that are lost, replayed, limited and acknowledged late; then scans
\* and reloads that are requested while the loop works and fails.
Commanded == [texts |-> {"pause", "resume", Chatter}, restarts |-> TRUE,
              messages |-> 3, config |-> 1, requests |-> 0, faults |-> 2]
Requesting == [texts |-> {"scan", "pause"}, restarts |-> FALSE,
               messages |-> 1, config |-> 2, requests |-> 2, faults |-> 1]
Deployed == {Commanded, Requesting}
=============================================================================
