-------------------------- MODULE ImapIntakeProofs --------------------------
(***************************************************************************)
(* Proofs about the rules that run on each mail of the IMAP scan           *)
(* (MailRules), for every table of rules, every mailbox and every number   *)
(* of faults: no mail is lost, what is done to a mail was ruled and told.  *)
(* The proofs about the scan itself (ImapIntake) follow them.              *)
(***************************************************************************)
EXTENDS ImapIntake, MailRules, FiniteSetTheorems, SequenceTheorems, WellFoundedInduction, TLAPS

(***************************************************************************)
(* The gates. What FirstClosed finds is the name of the first closed gate, *)
(* and a name of none of them only where all are open.                     *)
(***************************************************************************)
LEMMA LeastNumber ==
  ASSUME NEW S \in SUBSET Nat, S # {}
  PROVE  \E m \in S : \A n \in S : m <= n
  <1> DEFINE sets == {0 .. i : i \in S}
  <1>1. \A i \in S : 0 .. i \in SUBSET Nat /\ IsFiniteSet(0 .. i)
    BY FS_Interval
  <1>2. sets \subseteq FiniteSubsetsOf(Nat) /\ sets # {}
    BY <1>1 DEF FiniteSubsetsOf
  <1>3. PICK x \in sets : \A y \in sets : ~ (<<y, x>> \in StrictSubsetOrdering(Nat))
    <2>1. IsWellFoundedOn(StrictSubsetOrdering(Nat), FiniteSubsetsOf(Nat))
      BY FS_StrictSubsetOrderingWellFounded
    <2> HIDE DEF sets
    <2> QED
      BY <1>2, <2>1, WFMin
  <1>4. PICK m \in S : x = 0 .. m
    BY <1>3
  <1>5. ASSUME NEW n \in S, n < m
        PROVE  FALSE
    <2>1. 0 .. n \subseteq 0 .. m /\ m \in 0 .. m /\ m \notin 0 .. n
      BY <1>5
    <2>2. <<0 .. n, 0 .. m>> \in StrictSubsetOrdering(Nat)
      BY <1>1, <2>1 DEF StrictSubsetOrdering
    <2> QED
      BY <1>3, <1>4, <2>2
  <1> QED
    BY <1>5

GateNames == {"mode_blocked", "mutation_disabled", "dry_run", "action_not_allowed", "identity_incomplete",
              "unsupported", "account_disabled", "folder_state_unavailable", "uidvalidity_mismatch",
              "capability_cache_missing", "capability_unknown", "approval_disabled",
              "manual_review_required", "execution_started", "rejected", "expired", "terminal"}
Gate == BOOLEAN \X GateNames
Chains == Seq(Gate)
ShutAt(chain) == {i \in DOMAIN chain : ~ chain[i][1]}
Shut(chain) == {chain[i][2] : i \in ShutAt(chain)}
ShutBy(gate) == IF gate[1] THEN {} ELSE {gate[2]}

LEMMA ShutFound ==
  ASSUME NEW chain \in Chains, NEW otherwise
  PROVE  /\ Shut(chain) = {} => FirstClosed(chain, otherwise) = otherwise
         /\ Shut(chain) # {} => FirstClosed(chain, otherwise) \in Shut(chain)
  <1> DEFINE first == CHOOSE i \in ShutAt(chain) : \A j \in ShutAt(chain) : i <= j
  <1>1. CASE Shut(chain) = {}
    <2>1. ShutAt(chain) = {}
      BY <1>1, Zenon DEF Shut
    <2> QED
      BY <1>1, <2>1, Zenon DEF FirstClosed, ShutAt
  <1>2. CASE Shut(chain) # {}
    <2>1. ShutAt(chain) # {} /\ ShutAt(chain) \in SUBSET Nat
      BY <1>2 DEF Shut, ShutAt, Chains
    <2>2. \E m \in ShutAt(chain) : \A n \in ShutAt(chain) : m <= n
      BY <2>1, LeastNumber
    <2>3. first \in ShutAt(chain)
      BY <2>2
    <2>4. FirstClosed(chain, otherwise) = chain[first][2]
      BY <2>1, Zenon DEF FirstClosed, ShutAt
    <2> HIDE DEF first
    <2> QED
      BY <1>2, <2>3, <2>4, Zenon DEF Shut
  <1> QED
    BY <1>1, <1>2

LEMMA ShutNamed ==
  ASSUME NEW chain \in Chains
  PROVE  Shut(chain) \subseteq GateNames
  <1>1. \A i \in DOMAIN chain : chain[i] \in Gate
    BY DEF Chains
  <1>2. \A g \in Gate : g[2] \in GateNames
    BY DEF Gate
  <1> QED
    BY <1>1, <1>2, Zenon DEF Shut, ShutAt

LEMMA JoinedChains ==
  ASSUME NEW s \in Chains, NEW t \in Chains
  PROVE  s \o t \in Chains /\ Shut(s \o t) = Shut(s) \cup Shut(t)
  <1>1. /\ s \o t \in Chains /\ Len(s) \in Nat /\ Len(t) \in Nat
        /\ DOMAIN s = 1 .. Len(s) /\ DOMAIN t = 1 .. Len(t) /\ DOMAIN (s \o t) = 1 .. (Len(s) + Len(t))
        /\ \A i \in 1 .. Len(s) : (s \o t)[i] = s[i]
        /\ \A i \in 1 .. Len(t) : (s \o t)[Len(s) + i] = t[i]
    BY DEF Chains
  <1>2. ASSUME NEW i \in 1 .. (Len(s) + Len(t)), i \notin 1 .. Len(s)
        PROVE  i - Len(s) \in 1 .. Len(t) /\ (s \o t)[i] = t[i - Len(s)]
    BY <1>1, <1>2
  <1>3. \A i \in 1 .. Len(s) : i \in 1 .. (Len(s) + Len(t))
    BY <1>1
  <1>4. \A i \in 1 .. Len(t) : Len(s) + i \in 1 .. (Len(s) + Len(t))
    BY <1>1
  <1>5. ASSUME NEW i \in ShutAt(s)
        PROVE  s[i][2] \in Shut(s \o t)
    BY <1>1, <1>3, Zenon DEF Shut, ShutAt
  <1>6. ASSUME NEW i \in ShutAt(t)
        PROVE  t[i][2] \in Shut(s \o t)
    BY <1>1, <1>4, Zenon DEF Shut, ShutAt
  <1>7. ASSUME NEW i \in ShutAt(s \o t)
        PROVE  (s \o t)[i][2] \in Shut(s) \cup Shut(t)
    BY <1>1, <1>2, Zenon DEF Shut, ShutAt
  <1>8. Shut(s \o t) = Shut(s) \cup Shut(t)
    BY <1>5, <1>6, <1>7, Zenon DEF Shut
  <1> QED
    BY <1>1, <1>8

LEMMA GateShut ==
  ASSUME NEW open \in BOOLEAN, NEW name \in GateNames
  PROVE  <<open, name>> \in Gate /\ ShutBy(<<open, name>>) = IF open THEN {} ELSE {name}
  <1>1. <<open, name>> \in Gate
    BY DEF Gate
  <1>2. ShutBy(<<open, name>>) = IF open THEN {} ELSE {name}
    BY Zenon DEF ShutBy
  <1> QED
    BY <1>1, <1>2

LEMMA OneGate ==
  ASSUME NEW a \in Gate
  PROVE  <<a>> \in Chains /\ Shut(<<a>>) = ShutBy(a)
  <1>1. <<a>> \in Chains /\ DOMAIN <<a>> = {1} /\ <<a>>[1] = a
    BY DEF Chains
  <1> QED
    BY <1>1, Zenon DEF Shut, ShutAt, ShutBy

LEMMA ThreeGates ==
  ASSUME NEW a \in Gate, NEW b \in Gate, NEW c \in Gate
  PROVE  <<a, b, c>> \in Chains /\ Shut(<<a, b, c>>) = ShutBy(a) \cup ShutBy(b) \cup ShutBy(c)
  <1> DEFINE chain == <<a, b, c>>
  <1>1. chain \in Chains /\ DOMAIN chain = {1, 2, 3} /\ chain[1] = a /\ chain[2] = b /\ chain[3] = c
    BY DEF Chains
  <1> HIDE DEF chain
  <1>2. \A n : n \in Shut(chain) <=> n \in ShutBy(a) \cup ShutBy(b) \cup ShutBy(c)
    BY <1>1, Zenon DEF Shut, ShutAt, ShutBy
  <1> QED
    BY <1>1, <1>2, Zenon DEF chain

LEMMA ShutWhere ==
  ASSUME NEW chain, NEW n
  PROVE  n \in Shut(chain) <=> \E i \in DOMAIN chain : n \in ShutBy(chain[i])
  BY Zenon DEF Shut, ShutAt, ShutBy

\* What each chain of the four finds closed.
ShutIf(open, name) == IF open THEN {} ELSE {name}

LEMMA GateShutIf ==
  \A open \in BOOLEAN, name \in GateNames :
    <<open, name>> \in Gate /\ ShutBy(<<open, name>>) = ShutIf(open, name)
  BY GateShut, Zenon DEF ShutIf

ShutStatic(s) ==
  ShutIf(s.mode = "live", "mode_blocked") \cup ShutIf(s.enabled, "mutation_disabled")
    \cup ShutIf(~ s.dryRun, "dry_run")

LEMMA StaticGates ==
  ASSUME NEW s \in Settings
  PROVE  Static(s) \in Chains /\ Shut(Static(s)) = ShutStatic(s)
  <1> DEFINE a == <<s.mode = "live", "mode_blocked">>
             b == <<s.enabled, "mutation_disabled">>
             c == <<~ s.dryRun, "dry_run">>
  <1>1. (s.mode = "live") \in BOOLEAN /\ s.enabled \in BOOLEAN /\ (~ s.dryRun) \in BOOLEAN
    BY DEF Settings
  <1>2. {"mode_blocked", "mutation_disabled", "dry_run"} \subseteq GateNames
    BY DEF GateNames
  <1>3. a \in Gate /\ ShutBy(a) = ShutIf(s.mode = "live", "mode_blocked")
    BY <1>1, <1>2, GateShutIf, Zenon
  <1>4. b \in Gate /\ ShutBy(b) = ShutIf(s.enabled, "mutation_disabled")
    BY <1>1, <1>2, GateShutIf, Zenon
  <1>5. c \in Gate /\ ShutBy(c) = ShutIf(~ s.dryRun, "dry_run")
    BY <1>1, <1>2, GateShutIf, Zenon
  <1>6. Static(s) = <<a, b, c>>
    BY Zenon DEF Static
  <1> HIDE DEF a, b, c
  <1> QED
    <2>1. <<a, b, c>> \in Chains /\ Shut(<<a, b, c>>) = ShutBy(a) \cup ShutBy(b) \cup ShutBy(c)
      BY <1>3, <1>4, <1>5, ThreeGates
    <2> QED
      BY <1>3, <1>4, <1>5, <1>6, <2>1, Zenon DEF ShutStatic

LEMMA PlanShut ==
  ASSUME NEW s \in Settings, NEW type
  PROVE  /\ PlanGates(s, type) \in Chains
         /\ Shut(PlanGates(s, type)) = ShutStatic(s) \cup ShutIf(Allowed(s, type), "action_not_allowed")
  <1> DEFINE a == <<Allowed(s, type), "action_not_allowed">>
  <1>1. Allowed(s, type) \in BOOLEAN /\ "action_not_allowed" \in GateNames
    BY DEF Allowed, GateNames
  <1>2. a \in Gate /\ ShutBy(a) = ShutIf(Allowed(s, type), "action_not_allowed")
    BY <1>1, GateShutIf, Zenon
  <1>3. PlanGates(s, type) = Static(s) \o <<a>>
    BY Zenon DEF PlanGates
  <1> HIDE DEF a
  <1>4. <<a>> \in Chains /\ Shut(<<a>>) = ShutBy(a)
    BY <1>2, OneGate
  <1> QED
    <2>1. Static(s) \in Chains /\ Shut(Static(s)) = ShutStatic(s)
      BY StaticGates
    <2>2. Static(s) \o <<a>> \in Chains /\ Shut(Static(s) \o <<a>>) = Shut(Static(s)) \cup Shut(<<a>>)
      BY <1>4, <2>1, JoinedChains
    <2> QED
      BY <1>2, <1>3, <1>4, <2>1, <2>2, Zenon

LEMMA PreviewShut ==
  ASSUME NEW s \in Settings, ShutStatic(s) = {}
  PROVE  PreviewGate(s, Identity) = "ready" /\ MessagePreviewGate(s) = "planned"
  <1> DEFINE a == <<Identity \subseteq Identity, "unsupported">>
  <1>1. (Identity \subseteq Identity) \in BOOLEAN /\ (Identity \subseteq Identity) /\ "unsupported" \in GateNames
    BY DEF GateNames
  <1>2. a \in Gate /\ ShutBy(a) = {}
    BY <1>1, GateShutIf, Zenon DEF ShutIf
  <1>3. PreviewGate(s, Identity) = FirstClosed(Static(s) \o <<a>>, "ready")
    BY Zenon DEF PreviewGate
  <1> HIDE DEF a
  <1>4. <<a>> \in Chains /\ Shut(<<a>>) = {}
    BY <1>2, OneGate, Zenon
  <1>5. Static(s) \o <<a>> \in Chains /\ Shut(Static(s) \o <<a>>) = {}
    BY <1>4, StaticGates, JoinedChains
  <1>6. Static(s) \in Chains /\ Shut(Static(s)) = {}
    BY StaticGates
  <1> QED
    BY <1>3, <1>5, <1>6, ShutFound, Zenon DEF MessagePreviewGate

ShutExecution(s, type, parts) ==
  ShutStatic(s) \cup ShutIf(Allowed(s, type), "action_not_allowed")
    \cup ShutIf(Identity \subseteq parts, "identity_incomplete") \cup ShutIf(type # "add_label", "unsupported")

LEMMA ExecutionShut ==
  ASSUME NEW s \in Settings, NEW type, NEW parts
  PROVE  /\ ShutExecution(s, type, parts) = {} => ExecutionGate(s, type, parts) = "open"
         /\ ShutExecution(s, type, parts) # {} => ExecutionGate(s, type, parts) \in ShutExecution(s, type, parts)
  <1> DEFINE a == <<Allowed(s, type), "action_not_allowed">>
             b == <<Identity \subseteq parts, "identity_incomplete">>
             c == <<type # "add_label", "unsupported">>
             rest == <<a, b, c>>
             chain == Static(s) \o rest
  <1>1. Allowed(s, type) \in BOOLEAN /\ (Identity \subseteq parts) \in BOOLEAN /\ (type # "add_label") \in BOOLEAN
    BY DEF Allowed
  <1>2. {"action_not_allowed", "identity_incomplete", "unsupported"} \subseteq GateNames
    BY DEF GateNames
  <1>3. a \in Gate /\ ShutBy(a) = ShutIf(Allowed(s, type), "action_not_allowed")
    BY <1>1, <1>2, GateShutIf, Zenon
  <1>4. b \in Gate /\ ShutBy(b) = ShutIf(Identity \subseteq parts, "identity_incomplete")
    BY <1>1, <1>2, GateShutIf, Zenon
  <1>5. c \in Gate /\ ShutBy(c) = ShutIf(type # "add_label", "unsupported")
    BY <1>1, <1>2, GateShutIf, Zenon
  <1>6. ExecutionGate(s, type, parts) = FirstClosed(chain, "open")
    BY Zenon DEF ExecutionGate
  <1> HIDE DEF a, b, c
  <1>7. rest \in Chains /\ Shut(rest) = ShutBy(a) \cup ShutBy(b) \cup ShutBy(c)
    BY <1>3, <1>4, <1>5, ThreeGates
  <1> HIDE DEF rest
  <1>8. chain \in Chains /\ Shut(chain) = Shut(Static(s)) \cup Shut(rest)
    BY <1>7, StaticGates, JoinedChains, Zenon
  <1> HIDE DEF chain
  <1>9. Shut(chain) = ShutExecution(s, type, parts)
    BY <1>3, <1>4, <1>5, <1>7, <1>8, StaticGates DEF ShutExecution
  <1> QED
    BY <1>6, <1>8, <1>9, ShutFound, Zenon

-----------------------------------------------------------------------------
(***************************************************************************)
(* What the approvals page calls ready.                                    *)
(***************************************************************************)
LEMMA ReadinessOpen ==
  ASSUME NEW s \in Settings, NEW a \in Approvals, NEW store \in Stores,
         FirstClosed(Readiness(s, a, store), "ready") = "ready"
  PROVE  /\ ShutStatic(s) = {} /\ Allowed(s, a.type)
         /\ {"account", "folder", "uid"} \subseteq a.parts /\ a.validity # 0
         /\ store.account = "enabled"
         /\ FolderValidity(a, store) # 0 /\ Agree(s, FolderValidity(a, store), a.validity)
  <1> DEFINE cache == CacheOf(a, store)
             capability == CapabilityStatus(a.type, cache)
             g1 == <<"account" \in a.parts, "identity_incomplete">>
             g2 == <<"folder" \in a.parts, "identity_incomplete">>
             g3 == <<"uid" \in a.parts, "identity_incomplete">>
             g4 == <<a.validity # 0, "identity_incomplete">>
             g5 == <<"account" \in a.parts /\ store.account = "enabled", "account_disabled">>
             g6 == <<FolderValidity(a, store) # 0, "folder_state_unavailable">>
             g7 == <<Agree(s, FolderValidity(a, store), a.validity), "uidvalidity_mismatch">>
             g8 == <<s.needCache => cache # NoCache, "capability_cache_missing">>
             g9 == <<Agree(s, cache.validity, a.validity), "uidvalidity_mismatch">>
             g10 == <<cache # NoCache => capability \in {"known", "unknown"}, "capability_unknown">>
             g11 == <<Allowed(s, a.type), "action_not_allowed">>
             rest == <<g1, g2, g3, g4, g5, g6, g7, g8, g9, g10, g11>>
             plan == PlanGates(s, a.type)
  <1>1. /\ ("account" \in a.parts) \in BOOLEAN /\ ("folder" \in a.parts) \in BOOLEAN
        /\ ("uid" \in a.parts) \in BOOLEAN /\ (a.validity # 0) \in BOOLEAN
        /\ ("account" \in a.parts /\ store.account = "enabled") \in BOOLEAN
        /\ (FolderValidity(a, store) # 0) \in BOOLEAN
        /\ (s.needCache => cache # NoCache) \in BOOLEAN
        /\ (cache # NoCache => capability \in {"known", "unknown"}) \in BOOLEAN
    OBVIOUS
  <1>2. \A x, y : Agree(s, x, y) \in BOOLEAN
    BY DEF Agree
  <1>3. Allowed(s, a.type) \in BOOLEAN
    BY DEF Allowed
  <1>4. {"identity_incomplete", "account_disabled", "folder_state_unavailable", "uidvalidity_mismatch",
         "capability_cache_missing", "capability_unknown", "action_not_allowed"} \subseteq GateNames
    BY DEF GateNames
  <1>5. Readiness(s, a, store) = plan \o rest
    BY Zenon DEF Readiness
  <1> HIDE DEF cache, capability
  <1>6. g1 \in Gate /\ ShutBy(g1) = ShutIf("account" \in a.parts, "identity_incomplete")
    BY <1>1, <1>4, GateShutIf, Zenon
  <1>7. g2 \in Gate /\ ShutBy(g2) = ShutIf("folder" \in a.parts, "identity_incomplete")
    BY <1>1, <1>4, GateShutIf, Zenon
  <1>8. g3 \in Gate /\ ShutBy(g3) = ShutIf("uid" \in a.parts, "identity_incomplete")
    BY <1>1, <1>4, GateShutIf, Zenon
  <1>9. g4 \in Gate /\ ShutBy(g4) = ShutIf(a.validity # 0, "identity_incomplete")
    BY <1>1, <1>4, GateShutIf, Zenon
  <1>10. g5 \in Gate /\ ShutBy(g5) = ShutIf("account" \in a.parts /\ store.account = "enabled", "account_disabled")
    BY <1>1, <1>4, GateShutIf, Zenon
  <1>11. g6 \in Gate /\ ShutBy(g6) = ShutIf(FolderValidity(a, store) # 0, "folder_state_unavailable")
    BY <1>1, <1>4, GateShutIf, Zenon
  <1>12. g7 \in Gate /\ ShutBy(g7) = ShutIf(Agree(s, FolderValidity(a, store), a.validity), "uidvalidity_mismatch")
    BY <1>2, <1>4, GateShutIf, Zenon
  <1>13. g8 \in Gate
    BY <1>1, <1>4, GateShutIf, Zenon
  <1>14. g9 \in Gate
    BY <1>2, <1>4, GateShutIf, Zenon
  <1>15. g10 \in Gate
    BY <1>1, <1>4, GateShutIf, Zenon
  <1>16. g11 \in Gate
    BY <1>3, <1>4, GateShutIf, Zenon
  <1> HIDE DEF g1, g2, g3, g4, g5, g6, g7, g8, g9, g10, g11
  <1>17. /\ rest \in Chains
         /\ \A n : \A g \in {g1, g2, g3, g4, g5, g6, g7} : n \in ShutBy(g) => n \in Shut(rest)
    <2>1. rest \in Chains /\ DOMAIN rest = 1 .. 11
      BY <1>6, <1>7, <1>8, <1>9, <1>10, <1>11, <1>12, <1>13, <1>14, <1>15, <1>16 DEF Chains
    <2>2. /\ rest[1] = g1 /\ rest[2] = g2 /\ rest[3] = g3 /\ rest[4] = g4
          /\ rest[5] = g5 /\ rest[6] = g6 /\ rest[7] = g7
      OBVIOUS
    <2>3. {1, 2, 3, 4, 5, 6, 7} \subseteq 1 .. 11
      OBVIOUS
    <2> HIDE DEF rest
    <2> QED
      BY <2>1, <2>2, <2>3, ShutWhere
  <1> HIDE DEF rest
  <1>18. plan \in Chains /\ Shut(plan) = ShutStatic(s) \cup ShutIf(Allowed(s, a.type), "action_not_allowed")
    BY PlanShut
  <1> HIDE DEF plan
  <1>19. plan \o rest \in Chains /\ Shut(plan \o rest) = Shut(plan) \cup Shut(rest)
    BY <1>17, <1>18, JoinedChains
  <1>20. Shut(plan \o rest) = {}
    <2>1. "ready" \notin Shut(plan \o rest)
      BY <1>19, ShutNamed DEF GateNames
    <2> QED
      BY <1>5, <1>19, <2>1, ShutFound
  <1>21. ShutStatic(s) = {} /\ ShutIf(Allowed(s, a.type), "action_not_allowed") = {}
    BY <1>18, <1>19, <1>20
  <1>22. /\ ShutBy(g1) = {} /\ ShutBy(g2) = {} /\ ShutBy(g3) = {} /\ ShutBy(g4) = {}
         /\ ShutBy(g5) = {} /\ ShutBy(g6) = {} /\ ShutBy(g7) = {}
    BY <1>17, <1>19, <1>20
  <1> QED
    BY <1>6, <1>7, <1>8, <1>9, <1>10, <1>11, <1>12, <1>21, <1>22 DEF ShutIf
LEMMA ApprovalReady ==
  ASSUME NEW s \in Settings, NEW a \in Approvals, NEW store \in Stores,
         a.type \in MutationTypes, ApprovalGate(s, a, store) = "ready"
  PROVE  /\ a.started = "no" /\ a.status \in {"pending", "approved"}
         /\ FirstClosed(Readiness(s, a, store), "ready") = "ready"
  <1> DEFINE opened == a.status \in {"pending", "approved"}
             g1 == <<store.enabled, "approval_disabled">>
             g2 == <<~ (opened /\ a.started = "stale"), "manual_review_required">>
             g3 == <<a.started = "no", "execution_started">>
             g4 == <<a.status # "rejected", "rejected">>
             g5 == <<~ (a.status = "expired" \/ (a.status = "pending" /\ a.overdue)), "expired">>
             g6 == <<a.status \notin Closed, "terminal">>
             g7 == <<a.type # "notify_dashboard", "unsupported">>
             g8 == <<a.type \in MutationTypes \cup {"add_to_needs_reply"}, "unsupported">>
             chain == <<g1, g2, g3, g4, g5, g6, g7, g8>>
             before == FirstClosed(chain, "open")
  <1>1. /\ store.enabled \in BOOLEAN /\ (~ (opened /\ a.started = "stale")) \in BOOLEAN
        /\ (a.started = "no") \in BOOLEAN /\ (a.status # "rejected") \in BOOLEAN
        /\ (~ (a.status = "expired" \/ (a.status = "pending" /\ a.overdue))) \in BOOLEAN
        /\ (a.status \notin Closed) \in BOOLEAN /\ (a.type # "notify_dashboard") \in BOOLEAN
        /\ (a.type \in MutationTypes \cup {"add_to_needs_reply"}) \in BOOLEAN
    BY DEF Stores
  <1>2. {"approval_disabled", "manual_review_required", "execution_started", "rejected", "expired",
         "terminal", "unsupported"} \subseteq GateNames
    BY DEF GateNames
  <1>3. ApprovalGate(s, a, store) =
          IF before # "open" THEN before
          ELSE IF a.type \in MutationTypes THEN FirstClosed(Readiness(s, a, store), "ready")
          ELSE "ready"
    BY Zenon DEF ApprovalGate
  <1> HIDE DEF opened
  <1>4. g1 \in Gate /\ g2 \in Gate
    BY <1>1, <1>2, GateShutIf, Zenon
  <1>5. g3 \in Gate /\ ShutBy(g3) = ShutIf(a.started = "no", "execution_started")
    BY <1>1, <1>2, GateShutIf, Zenon
  <1>6. g4 \in Gate /\ ShutBy(g4) = ShutIf(a.status # "rejected", "rejected")
    BY <1>1, <1>2, GateShutIf, Zenon
  <1>7. /\ g5 \in Gate
        /\ ShutBy(g5) = ShutIf(~ (a.status = "expired" \/ (a.status = "pending" /\ a.overdue)), "expired")
    BY <1>1, <1>2, GateShutIf, Zenon
  <1>8. g6 \in Gate /\ ShutBy(g6) = ShutIf(a.status \notin Closed, "terminal")
    BY <1>1, <1>2, GateShutIf, Zenon
  <1>9. g7 \in Gate /\ g8 \in Gate
    BY <1>1, <1>2, GateShutIf, Zenon
  <1> HIDE DEF g1, g2, g3, g4, g5, g6, g7, g8
  <1>10. chain \in Chains /\ DOMAIN chain = 1 .. 8
    BY <1>4, <1>5, <1>6, <1>7, <1>8, <1>9 DEF Chains
  <1>11. chain[3] = g3 /\ chain[4] = g4 /\ chain[5] = g5 /\ chain[6] = g6 /\ {3, 4, 5, 6} \subseteq 1 .. 8
    OBVIOUS
  <1> HIDE DEF chain
  <1>12. before \in Shut(chain) \cup {"open"} /\ (before = "open" => Shut(chain) = {})
    <2>1. "open" \notin Shut(chain)
      BY <1>10, ShutNamed DEF GateNames
    <2> QED
      BY <1>10, <2>1, ShutFound
  <1> HIDE DEF before
  <1>13. before = "open"
    <2>1. "ready" \notin Shut(chain)
      BY <1>10, ShutNamed DEF GateNames
    <2>2. before # "open" => ApprovalGate(s, a, store) = before
      BY <1>3
    <2>3. before = "open" \/ before \in Shut(chain)
      BY <1>12, Zenon
    <2> QED
      BY <2>1, <2>2, <2>3, Zenon
  <1>14. ShutBy(g3) = {} /\ ShutBy(g4) = {} /\ ShutBy(g5) = {} /\ ShutBy(g6) = {}
    BY <1>10, <1>11, <1>12, <1>13, ShutWhere
  <1>15. a.started = "no" /\ a.status # "rejected" /\ a.status # "expired" /\ a.status \notin Closed
    BY <1>5, <1>6, <1>7, <1>8, <1>14 DEF ShutIf
  <1>16. a.status \in {"pending", "approved"}
    BY <1>15 DEF Approvals, Closed
  <1>18. ApprovalGate(s, a, store) = FirstClosed(Readiness(s, a, store), "ready")
    BY <1>3, <1>13
  <1> QED
    BY <1>15, <1>16, <1>18

LEMMA ReadyMeans ==
  ASSUME NEW s \in Settings, NEW a \in Approvals, NEW store \in Stores,
         a.type \in MutationTypes, ApprovalGate(s, a, store) = "ready"
  PROVE  /\ ExecutionGate(s, a.type, a.parts \cup {"validity"}) = IF a.type = "add_label" THEN "unsupported" ELSE "open"
         /\ a.status \in {"pending", "approved"} /\ a.started = "no" /\ store.account = "enabled"
         /\ s.matchValidity => a.validity = store.folderValidity
  <1> DEFINE parts == a.parts \cup {"validity"}
  <1>1. /\ a.started = "no" /\ a.status \in {"pending", "approved"}
        /\ FirstClosed(Readiness(s, a, store), "ready") = "ready"
    BY ApprovalReady
  <1>2. /\ ShutStatic(s) = {} /\ Allowed(s, a.type)
        /\ {"account", "folder", "uid"} \subseteq a.parts /\ a.validity # 0
        /\ store.account = "enabled"
        /\ FolderValidity(a, store) # 0 /\ Agree(s, FolderValidity(a, store), a.validity)
    BY <1>1, ReadinessOpen
  <1>3. Identity \subseteq parts
    BY <1>2 DEF Identity
  <1> HIDE DEF parts
  <1>4. ShutExecution(s, a.type, parts) = IF a.type = "add_label" THEN {"unsupported"} ELSE {}
    BY <1>2, <1>3 DEF ShutExecution, ShutIf
  <1>5. ExecutionGate(s, a.type, parts) = IF a.type = "add_label" THEN "unsupported" ELSE "open"
    BY <1>4, ExecutionShut
  <1>6. FolderValidity(a, store) = store.folderValidity
    BY <1>2 DEF FolderValidity, Placed
  <1>7. s.matchValidity => a.validity = store.folderValidity
    BY <1>2, <1>6 DEF Agree
  <1> QED
    BY <1>1, <1>2, <1>5, <1>7 DEF parts
-----------------------------------------------------------------------------
(***************************************************************************)
(* The invariant. First the types.                                         *)
(***************************************************************************)
ScanStages == {"idle", "rows", "read", "actions", "act", "gate", "do", "mark", "record"}
HeldItem == [mail : RuleMails, uid : 1 .. Cardinality(RuleMails), validity : Nat]
Listing == [id : RuleIds, priority : Int, match : {"ALL", "ANY"}]
Loaded == [id : RuleIds, priority : Int, match : {"ALL", "ANY"}, conditions : SUBSET Condition, actions : Seq(Action)]
StepType == [rule : RuleIds, action : Action \cup {[type |-> "raise", stop |-> FALSE]}]
Letter == [uid : 0 .. Cardinality(RuleMails), seen : BOOLEAN, flagged : BOOLEAN, deleted : BOOLEAN, filed : 0 .. 2]
EventType == [mail : RuleMails, rule : RuleIds, outcome : Outcomes \cup {"planned"},
              type : MutationTypes \cup LocalTypes]

RulesTyped ==
  /\ ruleRegime \in RuleRegimes
  /\ edits \in [made : Nat, next : Nat] /\ uidValidity \in Nat \ {0}
  /\ DOMAIN rules \subseteq {r \in RuleIds : r < edits.next} /\ \A r \in DOMAIN rules : rules[r] \in Contents
  /\ mailbox \in [RuleMails -> Letter] /\ events \subseteq EventType
  /\ needsReplies \subseteq RuleMails /\ settled \subseteq RuleMails
  /\ reader \in [pc : ScanStages, items : SUBSET HeldItem, unread : SUBSET Listing, loaded : Seq(Loaded),
                 todo : Seq(StepType), outcome : Outcomes \cup {"none"}]
  /\ during \in [RuleIds -> SUBSET (Contents \cup {Absent})]

\* Where the scan stands.
Changing == reader.pc \in {"gate", "do", "mark", "record"}
Placed0 ==
  /\ ~ On("idle") => reader.items # {}
  /\ On("actions") => reader.loaded # <<>>
  /\ Changing => reader.todo # <<>> /\ Type0 \in MutationTypes /\ Event("planned") \in events
  /\ reader.pc \in {"do", "mark"} => GateOf(Type0) = "open" /\ Item0.validity \in {Unknown, uidValidity}
  /\ On("record") => reader.outcome # "none"

\* The mails in hand. A UID names one mail for as long as the folder keeps its UIDVALIDITY.
ItemsInHand ==
  /\ \A i \in reader.items :
       /\ i.mail \in ruleRegime.fresh \ settled /\ i.validity <= uidValidity
       /\ i.validity = uidValidity => \A m \in RuleMails : mailbox[m].uid = i.uid => m = i.mail
  /\ \A i, j \in reader.items : i.mail = j.mail => i = j
  /\ \A m, n \in RuleMails : mailbox[m].uid = mailbox[n].uid /\ mailbox[m].uid # Nowhere => m = n
  /\ RuleMails \ ruleRegime.fresh \subseteq settled

CopiesFirst ==
  /\ NoMailIsLost
  /\ On("mark") => \A m \in Addressed : mailbox[m].filed > 0

Answered == told = [gate |-> "none"] \/
            (told.of \in Questions /\ told.gate = ApprovalGate(told.of.settings, told.of.approval, told.of.store))

\* The history of the rules since the evaluation began.
Active == reader.pc \notin {"idle", "rows"}
VersionsKept ==
  Active =>
    /\ \A r \in DOMAIN rules : rules[r] \in during[r]
    /\ \A r \in RuleIds : r >= edits.next => Absent \in during[r]
    /\ edits.made = 0 => \A r \in RuleIds : during[r] = {IF r \in DOMAIN rules THEN rules[r] ELSE Absent}

\* A row was a version of its rule, and what was read of it since then too, unless
\* the rule was deleted before its actions were read.
Versions(r) == during[r] \ {Absent}
ReadFrom(row) == \E v \in Versions(row.id) :
  Applies(v, Mail0) /\ v.priority = row.priority /\ v.match = row.match
Emptied(row) == row.actions = <<>> /\ row.id \notin DOMAIN rules
FilledFrom(row) ==
  /\ Emptied(row) \/ \E v \in Versions(row.id) : v.conditions = row.conditions
  /\ Emptied(row) \/ \E v \in Versions(row.id) : v.actions = row.actions
ToFill(i) == On("actions") /\ i = Len(reader.loaded)

HalfFilled(row) ==
  row.actions = <<>> /\ (row.id \notin DOMAIN rules \/ \E v \in Versions(row.id) : v.conditions = row.conditions)
RowRead(i) ==
  LET row == reader.loaded[i] IN
  /\ row.id < edits.next /\ ReadFrom(row)
  /\ IF ToFill(i) THEN HalfFilled(row) ELSE FilledFrom(row)
  /\ \A j \in DOMAIN reader.loaded : i < j => Before(row, reader.loaded[j])
  /\ \A u \in reader.unread : Before(row, u)
RowFound(r) == (\E u \in reader.unread : u.id = r) \/ \E i \in DOMAIN reader.loaded : reader.loaded[i].id = r

RulesRead ==
  reader.pc \in {"read", "actions"} =>
    /\ \A row \in reader.unread : row.id < edits.next /\ ReadFrom(row)
    /\ \A u, w \in reader.unread : u.id = w.id => u = w
    /\ \A i \in DOMAIN reader.loaded : RowRead(i)
    /\ \A r \in RuleIds : (\A v \in during[r] : Applies(v, Mail0)) => RowFound(r)

\* What has to be done for a mail, while no rule is edited.
Halts(row, m) == (\E c \in row.conditions : Raises(c)) \/ (Matches(row, m) /\ Stops(row))
Acts(row, m) == ~ (\E c \in row.conditions : Raises(c)) /\ Matches(row, m)
Due(m, r, type) ==
  /\ r \in DOMAIN rules /\ Applies(rules[r], m) /\ Acts(rules[r], m)
  /\ \E a \in ToSet(ActionsOf(rules[r])) : a.type = type
  /\ \A a \in DOMAIN rules : Precedes(a, r) /\ Applies(rules[a], m) => ~ Halts(rules[a], m)
Over(m, r, type) == \E f \in events : f.mail = m /\ f.rule = r /\ f.type = type /\ f.outcome # "planned"
AheadOf(r, type) == \E i \in DOMAIN reader.todo : reader.todo[i].rule = r /\ reader.todo[i].action.type = type

DuesPaid ==
  /\ \A m \in RuleMails \ ruleRegime.fresh : \A e \in events : e.mail # m
  /\ \A e \in events : e.outcome = "planned" => e.type \in MutationTypes
  /\ edits.made = 0 =>
       /\ \A e \in events : e.outcome = "planned" => Due(e.mail, e.rule, e.type)
       /\ Evaluated => \A step \in Planned : Due(Mail0, step.rule, step.action.type)
       /\ \A r \in RuleIds, type \in MutationTypes :
            /\ Evaluated /\ Due(Mail0, r, type) => Over(Mail0, r, type) \/ AheadOf(r, type)
            /\ \A m \in settled \cap ruleRegime.fresh : Due(m, r, type) => Over(m, r, type)

RInv == /\ RulesTyped /\ Placed0 /\ ItemsInHand /\ CopiesFirst /\ Answered /\ VersionsKept
        /\ RulesRead /\ ActionsWereSaved /\ StopsAreFinal /\ DuesPaid
-----------------------------------------------------------------------------
(***************************************************************************)
(* What is taken from a set: an item in hand, the next row of the rules.   *)
(***************************************************************************)
LeastItem(S) == CHOOSE i \in S : \A j \in S : i.uid <= j.uid
FirstOf(S) == CHOOSE a \in S : \A b \in S \ {a} : Before(a, b)

LEMMA Chosen == /\ Item0 = LeastItem(reader.items) /\ NextRow = FirstOf(reader.unread)
                /\ Item0' = LeastItem(reader'.items) /\ NextRow' = FirstOf(reader'.unread)
  BY DEF Item0, LeastItem, NextRow, FirstOf

LEMMA ItemChosen ==
  ASSUME NEW S \in SUBSET HeldItem, S # {}
  PROVE  LeastItem(S) \in S
  <1> DEFINE uids == {i.uid : i \in S}
  <1>1. uids \in SUBSET Nat /\ uids # {}
    BY RulesAssumption, FS_CardinalityType DEF HeldItem
  <1>2. PICK n \in uids : \A k \in uids : n <= k
    <2> HIDE DEF uids
    <2> QED
      BY <1>1, LeastNumber
  <1>3. \E i \in S : \A j \in S : i.uid <= j.uid
    BY <1>2
  <1> QED
    BY <1>3, Zenon DEF LeastItem

LEMMA FirstPlace ==
  ASSUME NEW n \in Nat, NEW S \in SUBSET (1 .. n), S # {}, NEW R,
         \A x, y, z \in S : <<x, y>> \in R /\ <<y, z>> \in R => <<x, z>> \in R,
         \A x, y \in S : x = y \/ <<x, y>> \in R \/ <<y, x>> \in R
  PROVE  \E x \in S : \A y \in S \ {x} : <<x, y>> \in R
  <1> DEFINE Least(T, x) == \A y \in T \ {x} : <<x, y>> \in R
             bad == {k \in 0 .. n : \E T \in SUBSET (S \cap (1 .. k)) :
                                      T # {} /\ ~ \E x \in T : Least(T, x)}
  <1>1. bad = {}
    <2> SUFFICES ASSUME bad # {} PROVE FALSE
      OBVIOUS
    <2>1. PICK m \in bad : \A k \in bad : m <= k
      <3>1. bad \in SUBSET Nat
        OBVIOUS
      <3> HIDE DEF bad
      <3> QED
        BY <3>1, LeastNumber
    <2>2. PICK T \in SUBSET (S \cap (1 .. m)) : T # {} /\ ~ \E x \in T : Least(T, x)
      BY <2>1
    <2>3. m \in 1 .. n /\ m - 1 \in 0 .. n /\ m - 1 \notin bad
      <3>1. m \in 0 .. n
        BY <2>1
      <3>2. m # 0
        <4>1. m = 0 => 1 .. m = {}
          BY <3>1
        <4> HIDE DEF bad
        <4> QED
          BY <2>2, <4>1
      <3> HIDE DEF bad
      <3>3. m - 1 \notin bad
        BY <2>1, <3>1
      <3> QED
        BY <3>1, <3>2, <3>3
    <2>4. T \ {m} \in SUBSET (S \cap (1 .. (m - 1)))
      BY <2>3
    <2>5. CASE T \ {m} = {}
      BY <2>2, <2>5
    <2>6. CASE T \ {m} # {}
      <3>1. PICK x \in T \ {m} : Least(T \ {m}, x)
        BY <2>3, <2>4, <2>6
      <3>2. CASE m \notin T
        BY <2>2, <3>1, <3>2
      <3>3. CASE m \in T
        <4>1. x \in S /\ m \in S /\ x # m
          BY <3>1, <3>3
        <4>2. CASE <<x, m>> \in R
          BY <2>2, <3>1, <4>2
        <4>3. CASE <<m, x>> \in R
          <5>1. Least(T, m)
            BY <3>1, <4>1, <4>3
          <5> QED
            BY <2>2, <3>3, <5>1
        <4> QED
          BY <4>1, <4>2, <4>3
      <3> QED
        BY <3>2, <3>3
    <2> QED
      BY <2>5, <2>6
  <1>2. n \in 0 .. n /\ S \in SUBSET (S \cap (1 .. n))
    OBVIOUS
  <1> QED
    BY <1>1, <1>2

LEMMA RowChosen ==
  ASSUME NEW S \in SUBSET Listing, S # {}, \A u, w \in S : u.id = w.id => u = w
  PROVE  FirstOf(S) \in S /\ \A b \in S \ {FirstOf(S)} : Before(FirstOf(S), b)
  <1> DEFINE n == Cardinality(RuleIds)
             ids == {a.id : a \in S}
             R == {p \in ids \X ids : \A a, b \in S : a.id = p[1] /\ b.id = p[2] => Before(a, b)}
  <1>1. n \in Nat /\ RuleIds = 1 .. n
    BY RulesAssumption, FS_CardinalityType
  <1>2. ids \in SUBSET (1 .. n) /\ ids # {}
    BY <1>1 DEF Listing
  <1>3. \A a, b \in S : <<a.id, b.id>> \in R <=> Before(a, b)
    OBVIOUS
  <1>4. ASSUME NEW x \in ids, NEW y \in ids
        PROVE  x = y \/ <<x, y>> \in R \/ <<y, x>> \in R
    <2>1. PICK a \in S, b \in S : x = a.id /\ y = b.id
      OBVIOUS
    <2>2. a \in Listing /\ b \in Listing
      BY <2>1
    <2>3. a.id = b.id \/ Before(a, b) \/ Before(b, a)
      <3>1. a.id \in Int /\ b.id \in Int /\ a.priority \in Int /\ b.priority \in Int
        BY <1>1, <2>2 DEF Listing
      <3>2. a.id = b.id \/ a.id < b.id \/ b.id < a.id
        BY <3>1
      <3>3. a.priority = b.priority \/ a.priority < b.priority \/ b.priority < a.priority
        BY <3>1
      <3> QED
        BY <3>2, <3>3 DEF Before
    <2> HIDE DEF R
    <2> QED
      BY <1>3, <2>1, <2>3
  <1>5. ASSUME NEW x \in ids, NEW y \in ids, NEW z \in ids, <<x, y>> \in R, <<y, z>> \in R
        PROVE  <<x, z>> \in R
    <2>1. PICK a \in S, b \in S, c \in S : x = a.id /\ y = b.id /\ z = c.id
      OBVIOUS
    <2>2. a \in Listing /\ b \in Listing /\ c \in Listing
      BY <2>1
    <2> HIDE DEF R
    <2>3. Before(a, b) /\ Before(b, c)
      BY <1>3, <1>5, <2>1
    <2>4. Before(a, c)
      BY <1>1, <2>2, <2>3 DEF Listing, Before
    <2> QED
      BY <1>3, <2>1, <2>4
  <1>6. PICK x \in ids : \A y \in ids \ {x} : <<x, y>> \in R
    <2> HIDE DEF n, ids, R
    <2>1. \A x, y, z \in ids : <<x, y>> \in R /\ <<y, z>> \in R => <<x, z>> \in R
      BY <1>5, Zenon
    <2>2. \A x, y \in ids : x = y \/ <<x, y>> \in R \/ <<y, x>> \in R
      BY <1>4, Zenon
    <2> QED
      BY <1>1, <1>2, <2>1, <2>2, FirstPlace, Zenon
  <1>7. PICK a \in S : x = a.id
    BY <1>6
  <1>8. \A b \in S \ {a} : Before(a, b)
    <2> SUFFICES ASSUME NEW b \in S \ {a} PROVE Before(a, b)
      OBVIOUS
    <2>1. b.id \in ids \ {x}
      BY <1>7
    <2>2. <<a.id, b.id>> \in R
      BY <1>6, <1>7, <2>1
    <2> HIDE DEF R
    <2> QED
      BY <1>3, <2>2
  <1>9. \E c \in S : \A b \in S \ {c} : Before(c, b)
    BY <1>8
  <1> QED
    BY <1>9, Zenon DEF FirstOf
-----------------------------------------------------------------------------
(***************************************************************************)
(* The plan of a mail: the actions of the rules that match, in their order,*)
(* up to the first that ends the evaluation.                               *)
(***************************************************************************)
LEMMA SetJoined ==
  ASSUME NEW S, NEW s \in Seq(S), NEW t \in Seq(S)
  PROVE  s \o t \in Seq(S) /\ ToSet(s \o t) = ToSet(s) \cup ToSet(t)
  <1>1. /\ s \o t \in Seq(S) /\ Len(s) \in Nat /\ Len(t) \in Nat
        /\ DOMAIN s = 1 .. Len(s) /\ DOMAIN t = 1 .. Len(t) /\ DOMAIN (s \o t) = 1 .. (Len(s) + Len(t))
        /\ \A i \in 1 .. Len(s) : (s \o t)[i] = s[i]
        /\ \A i \in 1 .. Len(t) : (s \o t)[Len(s) + i] = t[i]
    OBVIOUS
  <1>2. ASSUME NEW i \in 1 .. (Len(s) + Len(t)), i \notin 1 .. Len(s)
        PROVE  i - Len(s) \in 1 .. Len(t) /\ (s \o t)[i] = t[i - Len(s)]
    BY <1>1, <1>2
  <1>3. \A i \in 1 .. Len(s) : i \in 1 .. (Len(s) + Len(t))
    BY <1>1
  <1>4. \A i \in 1 .. Len(t) : Len(s) + i \in 1 .. (Len(s) + Len(t))
    BY <1>1
  <1>5. ToSet(s \o t) \subseteq ToSet(s) \cup ToSet(t)
    BY <1>1, <1>2, Zenon DEF ToSet
  <1>6. ToSet(s) \subseteq ToSet(s \o t) /\ ToSet(t) \subseteq ToSet(s \o t)
    BY <1>1, <1>3, <1>4, Zenon DEF ToSet
  <1> QED
    BY <1>1, <1>5, <1>6

LEMMA SetAppended ==
  ASSUME NEW S, NEW s \in Seq(S), NEW e \in S
  PROVE  Append(s, e) \in Seq(S) /\ ToSet(Append(s, e)) = ToSet(s) \cup {e}
  <1>1. /\ Append(s, e) \in Seq(S) /\ Len(s) \in Nat /\ DOMAIN s = 1 .. Len(s)
        /\ DOMAIN Append(s, e) = 1 .. (Len(s) + 1) /\ Append(s, e)[Len(s) + 1] = e
        /\ \A i \in 1 .. Len(s) : Append(s, e)[i] = s[i]
        /\ 1 .. (Len(s) + 1) = 1 .. Len(s) \cup {Len(s) + 1}
    OBVIOUS
  <1>2. ToSet(Append(s, e)) \subseteq ToSet(s) \cup {e}
    BY <1>1, Zenon DEF ToSet
  <1>3. ToSet(s) \subseteq ToSet(Append(s, e))
    BY <1>1, Zenon DEF ToSet
  <1>4. e \in ToSet(Append(s, e))
    <2>1. Len(s) + 1 \in DOMAIN Append(s, e)
      BY <1>1
    <2> QED
      BY <1>1, <2>1, Zenon DEF ToSet
  <1> QED
    BY <1>1, <1>2, <1>3, <1>4

LEMMA ActionsRight ==
  ASSUME NEW row, row.actions \in Seq(Action)
  PROVE  /\ ActionsOf(row) \in Seq(Action)
         /\ ToSet(ActionsOf(row)) \subseteq ToSet(row.actions) \cup {Stop}
         /\ row.actions = <<>> => ToSet(ActionsOf(row)) = {}
  <1>1. Stop \in Action
    BY DEF Stop, Action, LocalTypes
  <1>2. CASE Stops(row) /\ "stop_processing" \notin Named(row)
    <2>1. ActionsOf(row) = Append(row.actions, Stop)
      BY <1>2 DEF ActionsOf
    <2>2. row.actions # <<>>
      BY <1>2 DEF Stops
    <2> QED
      BY <1>1, <2>1, <2>2, SetAppended
  <1>3. CASE ~ (Stops(row) /\ "stop_processing" \notin Named(row))
    <2>1. ActionsOf(row) = row.actions
      BY <1>3 DEF ActionsOf
    <2>2. row.actions = <<>> => ToSet(row.actions) = {}
      BY DEF ToSet
    <2> QED
      BY <2>1, <2>2
  <1> QED
    BY <1>2, <1>3

\* A rule counts by its conditions, its way of matching and its actions.
LEMMA SameRule ==
  ASSUME NEW x, NEW y, NEW m, x.conditions = y.conditions, x.match = y.match, x.actions = y.actions
  PROVE  /\ Matches(x, m) <=> Matches(y, m)
         /\ Halts(x, m) <=> Halts(y, m)
         /\ Acts(x, m) <=> Acts(y, m)
         /\ Stops(x) <=> Stops(y)
         /\ ActionsOf(x) = ActionsOf(y)
  <1>1. Matches(x, m) <=> Matches(y, m)
    BY Zenon DEF Matches
  <1>2. Stops(x) <=> Stops(y)
    BY Zenon DEF Stops
  <1>3. Named(x) = Named(y)
    BY Zenon DEF Named
  <1> QED
    BY <1>1, <1>2, <1>3, Zenon DEF Halts, Acts, ActionsOf

LEMMA StepsRight ==
  ASSUME NEW row \in Loaded
  PROVE  /\ Steps(row) \in Seq(StepType)
         /\ \A s \in StepType : s \in ToSet(Steps(row)) <=> s.rule = row.id /\ s.action \in ToSet(ActionsOf(row))
         /\ \A s \in ToSet(Steps(row)) : s \in StepType
  <1> DEFINE acts == ActionsOf(row)
  <1>1. acts \in Seq(Action) /\ row.id \in RuleIds
    BY ActionsRight DEF Loaded
  <1>2. Steps(row) = [i \in DOMAIN acts |-> [rule |-> row.id, action |-> acts[i]]]
    BY DEF Steps
  <1> HIDE DEF acts
  <1>3. \A i \in DOMAIN acts : [rule |-> row.id, action |-> acts[i]] \in StepType
    BY <1>1 DEF StepType
  <1>4. Steps(row) \in Seq(StepType)
    BY <1>1, <1>2, <1>3
  <1>5. ASSUME NEW s \in StepType
        PROVE  s \in ToSet(Steps(row)) <=> s.rule = row.id /\ s.action \in ToSet(acts)
    <2>1. ASSUME NEW i \in DOMAIN acts
          PROVE  s = [rule |-> row.id, action |-> acts[i]] <=> s.rule = row.id /\ s.action = acts[i]
      BY <1>5 DEF StepType
    <2>2. /\ DOMAIN Steps(row) = DOMAIN acts
          /\ \A i \in DOMAIN acts : Steps(row)[i] = [rule |-> row.id, action |-> acts[i]]
      BY <1>2
    <2> QED
      BY <2>1, <2>2, Zenon DEF ToSet
  <1>6. \A s \in ToSet(Steps(row)) : s \in StepType
    BY <1>4 DEF ToSet
  <1> QED
    BY <1>4, <1>5, <1>6 DEF acts

Rounds(m, loaded, f, n) ==
  f = [i \in 0 .. n |-> IF i = 0 THEN [todo |-> <<>>, over |-> FALSE] ELSE Consider(m, f[i - 1], loaded[i])]

LEMMA RoundsExist ==
  ASSUME NEW m, NEW loaded, NEW n \in Nat
  PROVE  \E f : Rounds(m, loaded, f, n)
  <1> DEFINE bad == {k \in Nat : ~ \E f : Rounds(m, loaded, f, k)}
             none == [todo |-> <<>>, over |-> FALSE]
  <1>1. bad = {}
    <2> SUFFICES ASSUME bad # {} PROVE FALSE
      OBVIOUS
    <2>1. PICK k \in bad : \A l \in bad : k <= l
      <3>1. bad \in SUBSET Nat
        OBVIOUS
      <3> HIDE DEF bad
      <3> QED
        BY <3>1, LeastNumber
    <2>2. k \in Nat /\ ~ \E f : Rounds(m, loaded, f, k)
      BY <2>1
    <2> HIDE DEF none
    <2>3. CASE k = 0
      <3> DEFINE f == [i \in 0 .. k |-> none]
      <3>1. f = [i \in 0 .. k |-> IF i = 0 THEN none ELSE Consider(m, f[i - 1], loaded[i])]
        BY <2>3
      <3> QED
        BY <2>2, <3>1 DEF Rounds, none
    <2>4. CASE k # 0
      <3>1. k - 1 \in Nat
        BY <2>2, <2>4
      <3>2. k - 1 \notin bad
        <4> HIDE DEF bad
        <4> QED
          BY <2>1, <2>2
      <3>3. PICK f : Rounds(m, loaded, f, k - 1)
        BY <3>1, <3>2
      <3>4. f = [i \in 0 .. (k - 1) |-> IF i = 0 THEN none ELSE Consider(m, f[i - 1], loaded[i])]
        BY <3>3, Zenon DEF Rounds, none
      <3> DEFINE g == [i \in 0 .. k |-> IF i = k THEN Consider(m, f[k - 1], loaded[k]) ELSE f[i]]
      <3>5. \A i \in 0 .. k : i # k => g[i] = f[i]
        OBVIOUS
      <3>6. \A i \in 0 .. k : g[i] = IF i = 0 THEN none ELSE Consider(m, g[i - 1], loaded[i])
        <4> SUFFICES ASSUME NEW i \in 0 .. k
                     PROVE  g[i] = IF i = 0 THEN none ELSE Consider(m, g[i - 1], loaded[i])
          OBVIOUS
        <4>1. i # 0 => g[i - 1] = f[i - 1]
          BY <3>5, <2>2
        <4>2. CASE i = k
          BY <2>2, <2>4, <4>1, <4>2
        <4>3. CASE i # k
          <5>1. i \in 0 .. (k - 1)
            BY <4>3, <2>2
          <5>2. f[i] = IF i = 0 THEN none ELSE Consider(m, f[i - 1], loaded[i])
            BY <3>4, <5>1
          <5> QED
            BY <3>5, <4>1, <4>3, <5>2
        <4> QED
          BY <4>2, <4>3
      <3>7. g = [i \in 0 .. k |-> IF i = 0 THEN none ELSE Consider(m, g[i - 1], loaded[i])]
        <4>1. g = [i \in 0 .. k |-> g[i]]
          OBVIOUS
        <4> HIDE DEF g
        <4> QED
          BY <3>6, <4>1
      <3> QED
        BY <2>2, <3>7 DEF Rounds, none
    <2> QED
      BY <2>3, <2>4
  <1> QED
    BY <1>1

PlannedBy(m, loaded, f) ==
  /\ f[0] = [todo |-> <<>>, over |-> FALSE] /\ Plan(m, loaded) = f[Len(loaded)].todo
  /\ \A i \in 1 .. Len(loaded) : f[i] = Consider(m, f[i - 1], loaded[i])

LEMMA PlanRounds ==
  ASSUME NEW m, NEW loaded \in Seq(Loaded)
  PROVE  \E f : PlannedBy(m, loaded, f)
  <1> DEFINE n == Len(loaded)
             f == CHOOSE g : Rounds(m, loaded, g, n)
  <1>1. n \in Nat
    OBVIOUS
  <1>2. Plan(m, loaded) = f[n].todo
    BY DEF Plan, Rounds
  <1>3. Rounds(m, loaded, f, n)
    <2> HIDE DEF n
    <2> QED
      BY <1>1, RoundsExist
  <1> HIDE DEF n, f
  <1>4. f[0] = [todo |-> <<>>, over |-> FALSE]
    BY <1>1, <1>3 DEF Rounds
  <1>5. ASSUME NEW i \in 1 .. n
        PROVE  f[i] = Consider(m, f[i - 1], loaded[i])
    <2>1. i \in 0 .. n /\ i # 0
      BY <1>1
    <2> QED
      BY <1>3, <2>1 DEF Rounds
  <1> QED
    BY <1>2, <1>4, <1>5 DEF n, PlannedBy

\* What one round makes of a plan p.
PlanType == [todo : Seq(StepType), over : BOOLEAN]
Benign(s) == s \in StepType /\ s.action.type # "raise"

LEMMA ConsiderRight ==
  ASSUME NEW m, NEW p \in PlanType, NEW row \in Loaded
  PROVE  /\ Consider(m, p, row) \in PlanType
         /\ Consider(m, p, row).over <=> (p.over \/ Halts(row, m))
         /\ \A s : Benign(s) =>
              (s \in ToSet(Consider(m, p, row).todo) <=>
                 s \in ToSet(p.todo) \/ (~ p.over /\ Acts(row, m) /\ s \in ToSet(Steps(row))))
  <1>1. p.todo \in Seq(StepType) /\ p.over \in BOOLEAN
    BY DEF PlanType
  <1>2. Stops(row) \in BOOLEAN /\ Matches(row, m) \in BOOLEAN
    BY DEF Stops, Matches
  <1>3. CASE p.over
    <2>1. Consider(m, p, row) = p
      BY <1>3 DEF Consider
    <2> QED
      BY <1>3, <2>1
  <1>4. CASE ~ p.over /\ \E c \in row.conditions : Raises(c)
    <2> DEFINE raise == [rule |-> row.id, action |-> [type |-> "raise", stop |-> FALSE]]
    <2>1. Consider(m, p, row) = [todo |-> p.todo \o RaiseStep(row), over |-> TRUE]
      BY <1>4, Zenon DEF Consider
    <2>2. raise \in StepType /\ raise.action.type = "raise"
      BY DEF StepType, Loaded
    <2>3. RaiseStep(row) = <<raise>>
      BY DEF RaiseStep
    <2> HIDE DEF raise
    <2>4. <<raise>> \in Seq(StepType) /\ ToSet(<<raise>>) = {raise}
      BY <2>2 DEF ToSet
    <2>5. /\ p.todo \o RaiseStep(row) \in Seq(StepType)
          /\ ToSet(p.todo \o RaiseStep(row)) = ToSet(p.todo) \cup {raise}
      <3> DEFINE t == <<raise>>
      <3>1. t \in Seq(StepType) /\ ToSet(t) = {raise} /\ RaiseStep(row) = t
        BY <2>3, <2>4
      <3> HIDE DEF t
      <3>2. p.todo \o t \in Seq(StepType) /\ ToSet(p.todo \o t) = ToSet(p.todo) \cup ToSet(t)
        BY <1>1, <3>1, SetJoined
      <3> QED
        BY <3>1, <3>2
    <2>6. Consider(m, p, row) \in PlanType /\ Consider(m, p, row).over
      BY <2>1, <2>5 DEF PlanType
    <2>7. Halts(row, m) /\ ~ Acts(row, m)
      BY <1>4 DEF Halts, Acts
    <2> QED
      BY <1>4, <2>1, <2>2, <2>5, <2>6, <2>7 DEF Benign
  <1>5. CASE ~ p.over /\ ~ (\E c \in row.conditions : Raises(c)) /\ Matches(row, m)
    <2>1. Consider(m, p, row) = [todo |-> p.todo \o Steps(row), over |-> Stops(row)]
      BY <1>5, Zenon DEF Consider
    <2>2. /\ p.todo \o Steps(row) \in Seq(StepType)
          /\ ToSet(p.todo \o Steps(row)) = ToSet(p.todo) \cup ToSet(Steps(row))
      BY <1>1, StepsRight, SetJoined
    <2>3. Consider(m, p, row) \in PlanType
      BY <1>2, <2>1, <2>2 DEF PlanType
    <2>4. Consider(m, p, row).over <=> Stops(row)
      <3>1. Consider(m, p, row).over = Stops(row)
        BY <2>1
      <3> QED
        BY <3>1, Zenon
    <2>5. (Halts(row, m) <=> Stops(row)) /\ Acts(row, m)
      BY <1>5, Zenon DEF Halts, Acts
    <2>6. Consider(m, p, row).todo = p.todo \o Steps(row)
      BY <2>1
    <2> QED
      BY <1>5, <2>2, <2>3, <2>4, <2>5, <2>6, Zenon
  <1>6. CASE ~ p.over /\ ~ (\E c \in row.conditions : Raises(c)) /\ ~ Matches(row, m)
    <2>1. Consider(m, p, row) = p
      BY <1>6, Zenon DEF Consider
    <2>2. ~ Halts(row, m) /\ ~ Acts(row, m)
      BY <1>6 DEF Halts, Acts
    <2> QED
      BY <1>6, <2>1, <2>2, Zenon
  <1> QED
    BY <1>1, <1>2, <1>3, <1>4, <1>5, <1>6, Zenon

InTurn(loaded, m, j) == \A i \in 1 .. (j - 1) : ~ Halts(loaded[i], m)
ActedOn(loaded, m, j, s) == InTurn(loaded, m, j) /\ Acts(loaded[j], m) /\ s \in ToSet(Steps(loaded[j]))

LEMMA PlanRight ==
  ASSUME NEW m, NEW loaded \in Seq(Loaded)
  PROVE  /\ Plan(m, loaded) \in Seq(StepType)
         /\ \A s : Benign(s) =>
              (s \in ToSet(Plan(m, loaded)) <=> \E j \in 1 .. Len(loaded) : ActedOn(loaded, m, j, s))
  <1> DEFINE n == Len(loaded)
             Right(p, k) == /\ p \in PlanType
                            /\ p.over <=> \E j \in 1 .. k : Halts(loaded[j], m)
                            /\ \A s : Benign(s) =>
                                 (s \in ToSet(p.todo) <=> \E j \in 1 .. k : ActedOn(loaded, m, j, s))
  <1>0. PICK f : PlannedBy(m, loaded, f)
    BY PlanRounds, Zenon
  <1>1. /\ f[0] = [todo |-> <<>>, over |-> FALSE] /\ Plan(m, loaded) = f[n].todo
        /\ \A i \in 1 .. n : f[i] = Consider(m, f[i - 1], loaded[i])
    BY <1>0 DEF PlannedBy
  <1>2. n \in Nat /\ \A i \in 1 .. n : loaded[i] \in Loaded
    OBVIOUS
  <1> DEFINE bad == {k \in 0 .. n : ~ Right(f[k], k)}
  <1>3. Right(f[0], 0)
    <2>1. <<>> \in Seq(StepType) /\ ToSet(<<>>) = {} /\ 1 .. 0 = {}
      BY DEF ToSet
    <2>2. f[0] \in PlanType
      BY <1>1, <2>1 DEF PlanType
    <2>3. f[0].todo = <<>> /\ ~ f[0].over
      BY <1>1
    <2> QED
      BY <2>1, <2>2, <2>3, Zenon
  <1>4. ASSUME NEW k \in 1 .. n, Right(f[k - 1], k - 1)
        PROVE  Right(f[k], k)
    <2> DEFINE p == f[k - 1]
               row == loaded[k]
    <2>1. f[k] = Consider(m, p, row) /\ row \in Loaded /\ p \in PlanType
      BY <1>1, <1>2, <1>4
    <2>2. 1 .. k = 1 .. (k - 1) \cup {k}
      BY <1>2
    <2>3. p.over <=> ~ InTurn(loaded, m, k)
      BY <1>4, Zenon DEF InTurn
    <2>4. /\ f[k] \in PlanType
          /\ f[k].over <=> (p.over \/ Halts(row, m))
          /\ \A s : Benign(s) =>
               (s \in ToSet(f[k].todo) <=>
                  s \in ToSet(p.todo) \/ (~ p.over /\ Acts(row, m) /\ s \in ToSet(Steps(row))))
      BY <2>1, ConsiderRight, Zenon
    <2>5. f[k].over <=> \E j \in 1 .. k : Halts(loaded[j], m)
      BY <1>4, <2>2, <2>4, Zenon
    <2>6. ASSUME NEW s, Benign(s)
          PROVE  s \in ToSet(f[k].todo) <=> \E j \in 1 .. k : ActedOn(loaded, m, j, s)
      <3>1. s \in ToSet(p.todo) <=> \E j \in 1 .. (k - 1) : ActedOn(loaded, m, j, s)
        BY <1>4, <2>6, Zenon
      <3>2. ActedOn(loaded, m, k, s) <=> (~ p.over /\ Acts(row, m) /\ s \in ToSet(Steps(row)))
        BY <2>3, Zenon DEF ActedOn
      <3> QED
        BY <2>2, <2>4, <2>6, <3>1, <3>2, Zenon
    <2> QED
      BY <2>4, <2>5, <2>6, Zenon
  <1> HIDE DEF Right
  <1>5. bad = {}
    <2> SUFFICES ASSUME bad # {} PROVE FALSE
      OBVIOUS
    <2>1. PICK k \in bad : \A l \in bad : k <= l
      <3>1. bad \in SUBSET Nat
        BY <1>2
      <3> HIDE DEF bad
      <3> QED
        BY <3>1, LeastNumber
    <2>2. k \in 0 .. n /\ ~ Right(f[k], k)
      BY <2>1
    <2>3. k # 0
      BY <1>3, <2>2
    <2>4. k \in 1 .. n /\ k - 1 \in 0 .. n
      BY <1>2, <2>2, <2>3
    <2>5. k - 1 \notin bad
      <3> HIDE DEF bad
      <3> QED
        BY <2>1, <2>4
    <2>6. Right(f[k - 1], k - 1)
      BY <2>4, <2>5
    <2> QED
      BY <1>4, <2>2, <2>4, <2>6
  <1>6. Right(f[n], n)
    BY <1>2, <1>5
  <1>7. f[n] \in PlanType
    BY <1>6 DEF Right
  <1>8. f[n].todo \in Seq(StepType)
    BY <1>7 DEF PlanType
  <1> QED
    BY <1>1, <1>6, <1>8, Zenon DEF Right
-----------------------------------------------------------------------------
(***************************************************************************)
(* The invariant holds at first.                                           *)
(***************************************************************************)
Mails == Cardinality(RuleMails)

LEMMA MailsCounted == Mails \in Nat
  BY RulesAssumption, FS_CardinalityType DEF Mails

LEMMA MailsNumbered ==
  \E f \in [1 .. Mails -> RuleMails] : f = SetToSeq(RuleMails) /\ \A m \in RuleMails : \E i \in 1 .. Mails : f[i] = m
  <1> DEFINE f == SetToSeq(RuleMails)
  <1>1. IsFiniteSet(RuleMails) /\ Mails \in Nat
    BY MailsCounted, RulesAssumption
  <1>2. ExistsBijection(1 .. Mails, RuleMails)
    BY <1>1, FS_CountingElements, FS_CardinalityType DEF Mails
  <1>3. \E g \in [1 .. Mails -> RuleMails] : IsInjective(g)
    BY <1>2 DEF ExistsBijection, Bijection, Injection
  <1>4. f \in [1 .. Mails -> RuleMails] /\ IsInjective(f)
    BY <1>3, Zenon DEF SetToSeq, Mails
  <1> HIDE DEF f
  <1>5. f \in Injection(1 .. Mails, RuleMails) /\ Cardinality(1 .. Mails) = Mails
    BY <1>1, <1>4, FS_Interval DEF Injection
  <1>6. f \in Surjection(1 .. Mails, RuleMails)
    BY <1>1, <1>5, FS_Injection DEF Mails
  <1>7. \A m \in RuleMails : \E i \in 1 .. Mails : f[i] = m
    BY <1>6 DEF Surjection
  <1> QED
    BY <1>4, <1>7 DEF f

LEMMA RulesInitInductive == RulesInit => RInv
  <1> SUFFICES ASSUME RulesInit PROVE RInv
    OBVIOUS
  <1>1. /\ ruleRegime \in RuleRegimes /\ rules = ruleRegime.saved
        /\ uidValidity = 1 /\ events = {} /\ needsReplies = {} /\ settled = RuleMails \ ruleRegime.fresh
        /\ reader = Asleep /\ during = [r \in RuleIds |-> {}]
        /\ told = [gate |-> "none"] /\ edits = [made |-> 0, next |-> Len(ruleRegime.saved) + 1]
    BY DEF RulesInit
  <1>2. PICK f \in [1 .. Mails -> RuleMails] :
          f = SetToSeq(RuleMails) /\ \A m \in RuleMails : \E i \in 1 .. Mails : f[i] = m
    BY MailsNumbered
  <1> DEFINE uid(m) == CHOOSE i \in DOMAIN f : f[i] = m
  <1>3. mailbox = [m \in RuleMails |-> [uid |-> uid(m), seen |-> FALSE, flagged |-> FALSE,
                                        deleted |-> FALSE, filed |-> 0]]
    BY <1>2, Zenon DEF RulesInit
  <1>4. \A m \in RuleMails : uid(m) \in 1 .. Mails /\ f[uid(m)] = m
    BY <1>2
  <1> HIDE DEF uid
  <1>5. /\ mailbox \in [RuleMails -> Letter]
        /\ \A m \in RuleMails : mailbox[m].uid = uid(m) /\ ~ mailbox[m].deleted /\ mailbox[m].uid # 0
    <2>1. \A m \in RuleMails : uid(m) \in 0 .. Mails /\ uid(m) # 0
      BY <1>4, MailsCounted
    <2> QED
      BY <1>3, <2>1 DEF Letter, Mails
  <1>6. /\ reader.pc = "idle" /\ reader.items = {} /\ reader.todo = <<>>
        /\ reader \in [pc : ScanStages, items : SUBSET HeldItem, unread : SUBSET Listing, loaded : Seq(Loaded),
                       todo : Seq(StepType), outcome : Outcomes \cup {"none"}]
    BY <1>1 DEF Asleep, ScanStages
  <1>7. RulesTyped
    <2>1. rules \in Seq(Contents) /\ DOMAIN rules \subseteq RuleIds
      BY <1>1, RulesAssumption
    <2>2. DOMAIN rules \subseteq {r \in RuleIds : r < edits.next}
      BY <1>1, <2>1
    <2>3. \A r \in DOMAIN rules : rules[r] \in Contents
      BY <2>1
    <2>4. edits \in [made : Nat, next : Nat]
      BY <1>1, <2>1
    <2> QED
      BY <1>1, <1>5, <1>6, <2>2, <2>3, <2>4 DEF RulesTyped
  <1>8. Placed0
    BY <1>6 DEF Placed0, On, Changing
  <1>9. ItemsInHand
    <2>1. \A m, n \in RuleMails : mailbox[m].uid = mailbox[n].uid => m = n
      BY <1>4, <1>5
    <2> QED
      BY <1>1, <1>6, <2>1 DEF ItemsInHand
  <1>10. CopiesFirst
    BY <1>5, <1>6 DEF CopiesFirst, NoMailIsLost, On, Nowhere
  <1>11. Answered /\ VersionsKept /\ RulesRead /\ ActionsWereSaved /\ StopsAreFinal
    BY <1>1, <1>6 DEF Answered, VersionsKept, Active, RulesRead, ActionsWereSaved, StopsAreFinal, Evaluated
  <1>12. DuesPaid
    BY <1>1, <1>6 DEF DuesPaid, Evaluated
  <1> QED
    BY <1>7, <1>8, <1>9, <1>10, <1>11, <1>12 DEF RInv
-----------------------------------------------------------------------------
(***************************************************************************)
(* The steps keep the invariant. What a step leaves alone.                 *)
(***************************************************************************)
LEMMA SameItem ==
  ASSUME reader'.items = reader.items
  PROVE  Item0' = Item0 /\ Mail0' = Mail0
  <1>1. Item0' = Item0
    BY Chosen
  <1>2. Mail0 = Item0.mail /\ Mail0' = Item0'.mail
    BY DEF Mail0
  <1> QED
    BY <1>1, <1>2

LEMMA SameStep ==
  ASSUME reader'.todo = reader.todo
  PROVE  Step0' = Step0 /\ Type0' = Type0
  BY DEF Step0, Type0

LEMMA TailTold ==
  ASSUME NEW s \in Seq(StepType), s # <<>>
  PROVE  /\ Tail(s) \in Seq(StepType) /\ Head(s) \in StepType
         /\ \A i \in DOMAIN Tail(s) : i + 1 \in DOMAIN s /\ Tail(s)[i] = s[i + 1]
         /\ \A i \in DOMAIN s : s[i] = Head(s) \/ (i - 1 \in DOMAIN Tail(s) /\ Tail(s)[i - 1] = s[i])
  <1>1. /\ Len(s) \in Nat \ {0} /\ DOMAIN s = 1 .. Len(s) /\ Head(s) = s[1]
        /\ Tail(s) \in Seq(StepType) /\ DOMAIN Tail(s) = 1 .. (Len(s) - 1)
        /\ \A i \in 1 .. (Len(s) - 1) : Tail(s)[i] = s[i + 1]
    OBVIOUS
  <1>2. Head(s) \in StepType
    BY <1>1
  <1>3. ASSUME NEW i \in 1 .. Len(s), i # 1
        PROVE  i - 1 \in 1 .. (Len(s) - 1) /\ Tail(s)[i - 1] = s[i]
    BY <1>1, <1>3
  <1> QED
    BY <1>1, <1>2, <1>3

LEMMA TodoTyped ==
  ASSUME RulesTyped
  PROVE  /\ reader.todo \in Seq(StepType)
         /\ reader.todo # <<>> => Step0 \in StepType /\ Step0 = reader.todo[1] /\ 1 \in DOMAIN reader.todo
         /\ Planned = {s \in ToSet(reader.todo) : s.action.type # "raise"}
  <1>1. reader.todo \in Seq(StepType)
    BY DEF RulesTyped
  <1>2. reader.todo # <<>> => Step0 \in StepType /\ Step0 = reader.todo[1] /\ 1 \in DOMAIN reader.todo
    BY <1>1 DEF Step0
  <1>3. Planned = {s \in ToSet(reader.todo) : s.action.type # "raise"}
    BY DEF Planned, ToSet
  <1> QED
    BY <1>1, <1>2, <1>3

LEMMA InHand ==
  ASSUME RulesTyped, reader.items # {}
  PROVE  /\ Item0 \in reader.items /\ Item0 \in HeldItem /\ Mail0 \in RuleMails
         /\ Item0.uid \in 1 .. Mails /\ Item0.validity \in Nat
  <1>1. reader.items \in SUBSET HeldItem
    BY DEF RulesTyped
  <1>2. LeastItem(reader.items) \in reader.items
    BY <1>1, ItemChosen
  <1>3. Item0 \in reader.items /\ Item0 \in HeldItem
    BY <1>1, <1>2, Chosen
  <1> QED
    BY <1>3 DEF HeldItem, Mail0, Mails

\* The scan ends.
LEMMA AsleepKept ==
  ASSUME RInv, reader' = Asleep,
         UNCHANGED <<rules, mailbox, uidValidity, events, needsReplies, settled, during, told, ruleRegime, edits>>
  PROVE  RInv'
  <1>1. /\ reader'.pc = "idle" /\ reader'.items = {} /\ reader'.todo = <<>>
        /\ reader' \in [pc : ScanStages, items : SUBSET HeldItem, unread : SUBSET Listing, loaded : Seq(Loaded),
                        todo : Seq(StepType), outcome : Outcomes \cup {"none"}]
    BY DEF Asleep, ScanStages
  <1>2. RulesTyped'
    BY <1>1 DEF RInv, RulesTyped
  <1>3. Placed0'
    BY <1>1 DEF Placed0, On, Changing
  <1>4. ItemsInHand'
    BY <1>1 DEF RInv, ItemsInHand
  <1>5. CopiesFirst'
    BY <1>1 DEF RInv, CopiesFirst, NoMailIsLost, On
  <1>6. Answered'
    BY DEF RInv, Answered
  <1>7. VersionsKept' /\ RulesRead' /\ ActionsWereSaved' /\ StopsAreFinal'
    BY <1>1 DEF VersionsKept, Active, RulesRead, ActionsWereSaved, StopsAreFinal, Evaluated
  <1>8. DuesPaid'
    <2>1. /\ \A m, r, type : Due(m, r, type)' <=> Due(m, r, type)
          /\ \A m, r, type : Over(m, r, type)' <=> Over(m, r, type)
      BY DEF Due, Over, Precedes
    <2>2. ~ Evaluated'
      BY <1>1 DEF Evaluated
    <2> QED
      BY <2>1, <2>2 DEF RInv, DuesPaid
  <1> QED
    BY <1>2, <1>3, <1>4, <1>5, <1>6, <1>7, <1>8 DEF RInv

\* A step on the way through the plan leaves alone what the plan was made of.
Carrying ==
  /\ Evaluated /\ Evaluated'
  /\ reader'.items = reader.items
  /\ reader'.todo = reader.todo \/ (reader.todo # <<>> /\ reader'.todo = Tail(reader.todo))
  /\ UNCHANGED <<rules, during, told, ruleRegime, edits>>

LEMMA CarriedPlan ==
  ASSUME RulesTyped, Carrying
  PROVE  Planned' \subseteq Planned /\ Mail0' = Mail0 /\ reader'.todo \in Seq(StepType)
  <1>1. Mail0' = Mail0
    BY SameItem DEF Carrying
  <1>2. reader.todo \in Seq(StepType) /\ (reader.todo # <<>> => Tail(reader.todo) \in Seq(StepType))
    BY TodoTyped, TailTold
  <1>3. CASE reader'.todo = reader.todo
    BY <1>1, <1>2, <1>3 DEF Planned
  <1>4. CASE reader.todo # <<>> /\ reader'.todo = Tail(reader.todo)
    <2>1. \A i \in DOMAIN reader'.todo : i + 1 \in DOMAIN reader.todo /\ reader'.todo[i] = reader.todo[i + 1]
      BY <1>2, <1>4, TailTold
    <2>2. Planned' \subseteq Planned
      BY <2>1, Zenon DEF Planned
    <2> QED
      BY <1>1, <1>2, <1>4, <2>2
  <1> QED
    BY <1>3, <1>4 DEF Carrying

LEMMA Carried ==
  ASSUME RInv, Carrying
  PROVE  Answered' /\ VersionsKept' /\ RulesRead' /\ ActionsWereSaved' /\ StopsAreFinal'
  <1>1. RulesTyped /\ Evaluated /\ Answered /\ VersionsKept /\ ActionsWereSaved /\ StopsAreFinal
    BY DEF RInv, Carrying
  <1>2. Planned' \subseteq Planned /\ Mail0' = Mail0
    BY <1>1, CarriedPlan
  <1>3. /\ rules' = rules /\ during' = during /\ told' = told /\ ruleRegime' = ruleRegime /\ edits' = edits
        /\ Evaluated'
    BY DEF Carrying
  <1>4. Answered'
    BY <1>1, <1>3 DEF Answered
  <1>5. VersionsKept'
    <2>1. Active
      BY <1>1 DEF Active, Evaluated
    <2> QED
      BY <1>1, <1>3, <2>1 DEF VersionsKept
  <1>6. RulesRead'
    BY <1>3 DEF RulesRead, Evaluated
  <1>7. ActionsWereSaved'
    BY <1>1, <1>2, <1>3, Zenon DEF ActionsWereSaved
  <1>8. StopsAreFinal'
    <2>1. \A a, b : Precedes(a, b)' <=> Precedes(a, b)
      BY <1>3 DEF Precedes
    <2>2. \A r : Unedited(r)' <=> Unedited(r)
      BY <1>3 DEF Unedited
    <2> QED
      BY <1>1, <1>2, <1>3, <2>1, <2>2, Zenon DEF StopsAreFinal
  <1> QED
    BY <1>4, <1>5, <1>6, <1>7, <1>8

\* A step that tells nothing of the plan.
LEMMA DuesStay ==
  ASSUME RInv, Carrying, reader'.todo = reader.todo, UNCHANGED <<events, settled>>
  PROVE  DuesPaid'
  <1>1. DuesPaid /\ Evaluated /\ RulesTyped
    BY DEF RInv, Carrying
  <1>2. Planned' \subseteq Planned /\ Mail0' = Mail0
    BY <1>1, CarriedPlan
  <1>3. /\ rules' = rules /\ edits' = edits /\ events' = events /\ settled' = settled /\ ruleRegime' = ruleRegime
        /\ reader'.todo = reader.todo
    BY DEF Carrying
  <1>4. /\ \A m, r, type : Due(m, r, type)' <=> Due(m, r, type)
        /\ \A m, r, type : Over(m, r, type)' <=> Over(m, r, type)
        /\ \A r, type : AheadOf(r, type)' <=> AheadOf(r, type)
    BY <1>3 DEF Due, Over, AheadOf, Precedes
  <1> QED
    BY <1>1, <1>2, <1>3, <1>4, Zenon DEF DuesPaid
-----------------------------------------------------------------------------
(***************************************************************************)
(* The executor.                                                           *)
(***************************************************************************)
ReaderType == [pc : ScanStages, items : SUBSET HeldItem, unread : SUBSET Listing, loaded : Seq(Loaded),
               todo : Seq(StepType), outcome : Outcomes \cup {"none"}]

Executing ==
  /\ Changing
  /\ reader' \in ReaderType /\ reader'.pc \in {"do", "mark", "record"}
  /\ reader'.items = reader.items /\ reader'.todo = reader.todo
  /\ reader'.pc \in {"do", "mark"} => GateOf(Type0) = "open" /\ Item0.validity \in {Unknown, uidValidity}
  /\ reader'.pc = "record" => reader'.outcome # "none"
  /\ UNCHANGED <<rules, uidValidity, events, needsReplies, settled, during, told, ruleRegime, edits>>

LEMMA ExecutingKept ==
  ASSUME RInv, Executing,
         mailbox' \in [RuleMails -> Letter],
         \A m \in RuleMails : mailbox'[m].uid \in {mailbox[m].uid, Nowhere},
         CopiesFirst'
  PROVE  RInv'
  <1>1. RulesTyped /\ Placed0 /\ ItemsInHand
    BY DEF RInv
  <1>2. Carrying
    BY DEF Executing, Carrying, Changing, Evaluated
  <1>3. Answered' /\ VersionsKept' /\ RulesRead' /\ ActionsWereSaved' /\ StopsAreFinal' /\ DuesPaid'
    BY <1>2, Carried, DuesStay DEF Executing
  <1>4. Item0' = Item0 /\ Mail0' = Mail0 /\ Step0' = Step0 /\ Type0' = Type0
    BY SameItem, SameStep DEF Executing
  <1>5. RulesTyped'
    BY <1>1 DEF Executing, RulesTyped, ReaderType
  <1>6. Placed0'
    <2>1. reader.items # {} /\ reader.todo # <<>> /\ Type0 \in MutationTypes /\ Event("planned") \in events
      BY <1>1 DEF Executing, Placed0, Changing, On
    <2>2. Event("planned")' = Event("planned") /\ GateOf(Type0)' = GateOf(Type0)
      BY <1>4, Zenon DEF Event, GateOf, Executing
    <2> QED
      BY <1>4, <2>1, <2>2 DEF Executing, Placed0, Changing, On
  <1>7. ItemsInHand'
    <2>1. \A i \in reader.items : i.uid # Nowhere
      BY <1>1, MailsCounted DEF RulesTyped, HeldItem, Nowhere, Mails
    <2> QED
      BY <1>1, <2>1 DEF ItemsInHand, Executing
  <1> QED
    BY <1>3, <1>5, <1>6, <1>7 DEF RInv

LEMMA AnswerTyped ==
  ASSUME RulesTyped, NEW pc \in ScanStages, NEW outcome \in Outcomes
  PROVE  /\ [reader EXCEPT !.pc = pc] \in ReaderType
         /\ Answer(outcome) \in ReaderType
         /\ [reader EXCEPT !.pc = pc].items = reader.items /\ [reader EXCEPT !.pc = pc].todo = reader.todo
         /\ [reader EXCEPT !.pc = pc].pc = pc
         /\ Answer(outcome).items = reader.items /\ Answer(outcome).todo = reader.todo
         /\ Answer(outcome).pc = "record" /\ Answer(outcome).outcome = outcome
  BY DEF RulesTyped, ReaderType, Answer, ScanStages

LEMMA OutcomesNamed == /\ {"completed", "failed", "unsupported", "uidvalidity_mismatch"} \subseteq Outcomes
                       /\ "none" \notin Outcomes
                       /\ {"do", "mark", "record", "act", "gate"} \subseteq ScanStages
  BY DEF Outcomes, ScanStages

\* No connection, another folder, a refusal.
LEMMA AnsweredKept ==
  ASSUME RInv, CannotReach \/ CannotMove \/ ServerRefuses
  PROVE  RInv'
  <1>1. RulesTyped /\ CopiesFirst
    BY DEF RInv
  <1>2. PICK outcome \in {"failed", "unsupported"} : reader' = Answer(outcome) /\ OnlyReader /\ during' = during /\ Changing
    <2>1. CASE CannotReach
      BY <2>1 DEF CannotReach, CallExecutor, ReadOn, On, Changing
    <2>2. CASE CannotMove
      BY <2>2 DEF CannotMove, Moving, Doing, ReadOn, Quiet, On, Changing
    <2>3. CASE ServerRefuses
      BY <2>3 DEF ServerRefuses, Doing, ReadOn, On, Changing
    <2> QED
      BY <2>1, <2>2, <2>3
  <1>3. Executing
    BY <1>1, <1>2, AnswerTyped, OutcomesNamed DEF Executing, OnlyReader, Elsewhere
  <1>4. mailbox' = mailbox /\ mailbox \in [RuleMails -> Letter]
    BY <1>1, <1>2 DEF OnlyReader, RulesTyped
  <1>5. CopiesFirst'
    <2>1. reader'.pc = "record"
      BY <1>1, <1>2, AnswerTyped, OutcomesNamed
    <2> QED
      BY <1>1, <1>4, <2>1 DEF CopiesFirst, NoMailIsLost, On
  <1> QED
    BY <1>3, <1>4, <1>5, ExecutingKept

LEMMA CheckKept ==
  ASSUME RInv, CheckValidity(uidValidity) \/ CheckValidity(Unknown)
  PROVE  RInv'
  <1>1. RulesTyped /\ CopiesFirst
    BY DEF RInv
  <1>2. PICK read \in {uidValidity, Unknown} : CheckValidity(read)
    OBVIOUS
  <1>3. /\ On("gate") /\ GateOf(Type0) = "open" /\ OnlyReader /\ during' = during
        /\ reader' = IF read = Item0.validity THEN [reader EXCEPT !.pc = "do"] ELSE Answer("uidvalidity_mismatch")
    BY <1>2 DEF CheckValidity, CallExecutor, ReadOn, SameFolder
  <1>4. Executing
    BY <1>1, <1>3, AnswerTyped, OutcomesNamed DEF Executing, OnlyReader, Elsewhere, Changing, On
  <1>5. mailbox' = mailbox /\ mailbox \in [RuleMails -> Letter]
    BY <1>1, <1>3 DEF OnlyReader, RulesTyped
  <1>6. CopiesFirst'
    <2>1. reader'.pc # "mark"
      BY <1>1, <1>3, AnswerTyped, OutcomesNamed
    <2> QED
      BY <1>1, <1>5, <2>1 DEF CopiesFirst, NoMailIsLost, On
  <1> QED
    BY <1>4, <1>5, <1>6, ExecutingKept

\* What an open gate tells, and a closed one.
LEMMA GateTells ==
  ASSUME RulesTyped, NEW type
  PROVE  /\ ruleRegime.settings \in Settings
         /\ GateOf(type) = "open" =>
              /\ ShutStatic(ruleRegime.settings) = {} /\ Allowed(ruleRegime.settings, type)
              /\ type # "add_label"
         /\ GateOf(type) # "open" => GateOf(type) \in Outcomes
  <1> DEFINE s == ruleRegime.settings
             shut == ShutExecution(s, type, Identity)
  <1>1. s \in Settings
    BY RulesAssumption DEF RulesTyped
  <1>2. /\ shut = {} => GateOf(type) = "open"
        /\ shut # {} => GateOf(type) \in shut
    BY <1>1, ExecutionShut DEF GateOf
  <1>3. /\ "open" \notin shut /\ shut \subseteq Outcomes
        /\ shut = {} => ShutStatic(s) = {} /\ Allowed(s, type) /\ type # "add_label"
    BY DEF ShutExecution, ShutStatic, ShutIf, Outcomes
  <1> HIDE DEF shut
  <1> QED
    BY <1>1, <1>2, <1>3

LEMMA FlagsKept ==
  ASSUME RInv, StoreFlags
  PROVE  RInv'
  <1>1. RulesTyped /\ Placed0 /\ CopiesFirst
    BY DEF RInv
  <1>2. On("do") /\ Type0 # "move_to_folder" /\ Type0 \in MutationTypes /\ GateOf(Type0) = "open" /\ Changing
    BY <1>1 DEF StoreFlags, Doing, Placed0, On, Changing
  <1>3. Type0 \in {"mark_read", "mark_unread", "mark_flagged", "unmark_flagged"}
    BY <1>1, <1>2, GateTells DEF MutationTypes, AllowGated
  <1> DEFINE flags(letter) == CASE Type0 = "mark_read"      -> [letter EXCEPT !.seen = TRUE]
                               [] Type0 = "mark_unread"    -> [letter EXCEPT !.seen = FALSE]
                               [] Type0 = "mark_flagged"   -> [letter EXCEPT !.flagged = TRUE]
                               [] Type0 = "unmark_flagged" -> [letter EXCEPT !.flagged = FALSE]
  <1>4. /\ mailbox' = [m \in RuleMails |-> IF m \in Addressed THEN flags(mailbox[m]) ELSE mailbox[m]]
        /\ reader' = Answer("completed")
        /\ UNCHANGED <<events, needsReplies, settled>> /\ Elsewhere /\ Quiet
    BY Zenon DEF StoreFlags, Change
  <1>5. ASSUME NEW letter \in Letter
        PROVE  /\ flags(letter) \in Letter /\ flags(letter).uid = letter.uid
               /\ flags(letter).deleted = letter.deleted /\ flags(letter).filed = letter.filed
    BY <1>3 DEF Letter
  <1> HIDE DEF flags
  <1>6. /\ mailbox' \in [RuleMails -> Letter]
        /\ \A m \in RuleMails : /\ mailbox'[m].uid = mailbox[m].uid /\ mailbox'[m].deleted = mailbox[m].deleted
                                /\ mailbox'[m].filed = mailbox[m].filed
    <2>1. mailbox \in [RuleMails -> Letter]
      BY <1>1 DEF RulesTyped
    <2> QED
      BY <1>4, <1>5, <2>1
  <1>7. Executing
    BY <1>1, <1>2, <1>4, AnswerTyped, OutcomesNamed DEF Executing, Elsewhere, Quiet
  <1>8. CopiesFirst'
    <2>1. reader'.pc = "record"
      BY <1>1, <1>4, AnswerTyped, OutcomesNamed
    <2> QED
      BY <1>1, <1>6, <2>1 DEF CopiesFirst, NoMailIsLost, On
  <1> QED
    BY <1>6, <1>7, <1>8, ExecutingKept

LEMMA FiledMore ==
  ASSUME NEW letter \in Letter
  PROVE  /\ FileCopy(letter) \in Letter /\ FileCopy(letter).uid = letter.uid
         /\ FileCopy(letter).filed > 0
         /\ [FileCopy(letter) EXCEPT !.uid = Nowhere] \in Letter
         /\ [FileCopy(letter) EXCEPT !.uid = Nowhere].uid = Nowhere
         /\ [FileCopy(letter) EXCEPT !.uid = Nowhere].filed > 0
         /\ [letter EXCEPT !.deleted = TRUE] \in Letter
         /\ [letter EXCEPT !.deleted = TRUE].uid = letter.uid
         /\ [letter EXCEPT !.deleted = TRUE].filed = letter.filed
  <1> DEFINE more == IF letter.filed = 2 THEN 2 ELSE letter.filed + 1
  <1>1. more \in 0 .. 2 /\ more > 0
    BY DEF Letter
  <1>2. FileCopy(letter) = [letter EXCEPT !.filed = more]
    BY DEF FileCopy
  <1>3. Nowhere \in 0 .. Cardinality(RuleMails)
    BY MailsCounted DEF Nowhere, Mails
  <1> HIDE DEF more
  <1> QED
    BY <1>1, <1>2, <1>3 DEF Letter

LEMMA MovedKept ==
  ASSUME RInv, Move
  PROVE  RInv'
  <1>1. RulesTyped /\ Placed0 /\ CopiesFirst
    BY DEF RInv
  <1>2. On("do") /\ Changing
    BY DEF Move, Moving, Doing, On, Changing
  <1> DEFINE gone(letter) == [FileCopy(letter) EXCEPT !.uid = Nowhere]
  <1>3. /\ mailbox' = [m \in RuleMails |-> IF m \in Addressed THEN gone(mailbox[m]) ELSE mailbox[m]]
        /\ reader' = Answer("completed")
        /\ UNCHANGED <<events, needsReplies, settled>> /\ Elsewhere /\ Quiet
    BY Zenon DEF Move, Change
  <1>4. \A letter \in Letter : gone(letter) \in Letter /\ gone(letter).uid = Nowhere /\ gone(letter).filed > 0
    BY FiledMore
  <1> HIDE DEF gone
  <1>5. /\ mailbox' \in [RuleMails -> Letter]
        /\ \A m \in RuleMails : mailbox'[m] = mailbox[m] \/ (mailbox'[m].uid = Nowhere /\ mailbox'[m].filed > 0)
    <2>1. mailbox \in [RuleMails -> Letter]
      BY <1>1 DEF RulesTyped
    <2> QED
      BY <1>3, <1>4, <2>1
  <1>6. Executing
    BY <1>1, <1>2, <1>3, AnswerTyped, OutcomesNamed DEF Executing, Elsewhere, Quiet
  <1>7. CopiesFirst'
    <2>1. reader'.pc = "record"
      BY <1>1, <1>3, AnswerTyped, OutcomesNamed
    <2> QED
      BY <1>1, <1>5, <2>1 DEF CopiesFirst, NoMailIsLost, On
  <1> QED
    BY <1>5, <1>6, <1>7, ExecutingKept

LEMMA CopiedKept ==
  ASSUME RInv, Copy
  PROVE  RInv'
  <1>1. RulesTyped /\ Placed0 /\ CopiesFirst
    BY DEF RInv
  <1>2. On("do") /\ Changing /\ GateOf(Type0) = "open" /\ Item0.validity \in {Unknown, uidValidity}
    BY <1>1 DEF Copy, Moving, Doing, On, Changing, Placed0
  <1>3. /\ mailbox' = [m \in RuleMails |-> IF m \in Addressed THEN FileCopy(mailbox[m]) ELSE mailbox[m]]
        /\ reader' = [reader EXCEPT !.pc = "mark"]
        /\ UNCHANGED <<events, needsReplies, settled>> /\ Elsewhere /\ Quiet
    BY Zenon DEF Copy, Change
  <1>4. /\ mailbox' \in [RuleMails -> Letter]
        /\ \A m \in RuleMails : /\ mailbox'[m].uid = mailbox[m].uid
                                /\ mailbox'[m] = mailbox[m] \/ mailbox'[m].filed > 0
        /\ \A m \in Addressed : mailbox'[m].filed > 0
    <2>1. mailbox \in [RuleMails -> Letter]
      BY <1>1 DEF RulesTyped
    <2>2. \A letter \in Letter : FileCopy(letter) \in Letter /\ FileCopy(letter).uid = letter.uid
                                  /\ FileCopy(letter).filed > 0
      BY FiledMore
    <2>3. Addressed \subseteq RuleMails
      BY DEF Addressed
    <2> QED
      BY <1>3, <2>1, <2>2, <2>3
  <1>5. Executing
    BY <1>1, <1>2, <1>3, AnswerTyped, OutcomesNamed DEF Executing, Elsewhere, Quiet
  <1>6. CopiesFirst'
    <2>1. Addressed' = Addressed
      BY <1>4, <1>5, SameItem DEF Addressed, Executing
    <2>2. NoMailIsLost'
      BY <1>1, <1>4 DEF CopiesFirst, NoMailIsLost
    <2> QED
      BY <1>4, <2>1, <2>2 DEF CopiesFirst
  <1> QED
    BY <1>4, <1>5, <1>6, ExecutingKept

LEMMA MarkedKept ==
  ASSUME RInv, MarkDeleted
  PROVE  RInv'
  <1>1. RulesTyped /\ Placed0 /\ CopiesFirst
    BY DEF RInv
  <1>2. On("mark") /\ Changing
    BY DEF MarkDeleted, On, Changing
  <1> DEFINE marked(letter) == [letter EXCEPT !.deleted = TRUE]
  <1>3. /\ mailbox' = [m \in RuleMails |-> IF m \in Addressed THEN marked(mailbox[m]) ELSE mailbox[m]]
        /\ reader' = Answer("completed")
        /\ UNCHANGED <<events, needsReplies, settled>> /\ Elsewhere /\ Quiet
    BY Zenon DEF MarkDeleted, Change
  <1>4. \A letter \in Letter : marked(letter) \in Letter /\ marked(letter).uid = letter.uid
                               /\ marked(letter).filed = letter.filed
    BY FiledMore
  <1> HIDE DEF marked
  <1>5. /\ mailbox' \in [RuleMails -> Letter]
        /\ \A m \in RuleMails : /\ mailbox'[m].uid = mailbox[m].uid
                                /\ mailbox'[m] = mailbox[m] \/ mailbox'[m].filed > 0
    <2>1. mailbox \in [RuleMails -> Letter]
      BY <1>1 DEF RulesTyped
    <2>2. \A m \in Addressed : mailbox[m].filed > 0
      BY <1>1, <1>2 DEF CopiesFirst
    <2> QED
      BY <1>3, <1>4, <2>1, <2>2
  <1>6. Executing
    BY <1>1, <1>2, <1>3, AnswerTyped, OutcomesNamed DEF Executing, Elsewhere, Quiet
  <1>7. CopiesFirst'
    <2>1. reader'.pc = "record"
      BY <1>1, <1>3, AnswerTyped, OutcomesNamed
    <2> QED
      BY <1>1, <1>5, <2>1 DEF CopiesFirst, NoMailIsLost, On
  <1> QED
    BY <1>5, <1>6, <1>7, ExecutingKept
-----------------------------------------------------------------------------
(***************************************************************************)
(* What is put on record: an outcome ends the action, an intent precedes   *)
(* it. Then the mail is settled.                                           *)
(***************************************************************************)
LEMMA MailInHand ==
  ASSUME RInv, reader.items # {}
  PROVE  Mail0 \in ruleRegime.fresh /\ Mail0 \notin settled /\ Mail0 \in RuleMails /\ Item0 \in reader.items
  <1>1. RulesTyped /\ ItemsInHand
    BY DEF RInv
  <1>2. Item0 \in reader.items /\ Mail0 \in RuleMails
    BY <1>1, InHand
  <1> QED
    BY <1>1, <1>2 DEF ItemsInHand, Mail0

LEMMA EventTyped ==
  ASSUME RInv, reader.items # {}, reader.todo # <<>>, Type0 # "raise", NEW outcome \in Outcomes \cup {"planned"}
  PROVE  /\ Event(outcome) \in EventType /\ Step0 \in Planned /\ Step0.rule \in RuleIds
         /\ Event(outcome).mail = Mail0 /\ Event(outcome).rule = Step0.rule
         /\ Event(outcome).type = Type0 /\ Event(outcome).outcome = outcome
  <1>1. RulesTyped
    BY DEF RInv
  <1>2. Mail0 \in RuleMails /\ Step0 \in StepType /\ Step0 = reader.todo[1] /\ 1 \in DOMAIN reader.todo
    BY <1>1, InHand, TodoTyped
  <1>3. Type0 \in MutationTypes \cup LocalTypes /\ Step0.rule \in RuleIds
    BY <1>2 DEF Type0, StepType, Action
  <1>4. Step0 \in Planned
    BY <1>2 DEF Planned, Type0
  <1> QED
    BY <1>2, <1>3, <1>4 DEF Event, EventType

LoggedOn(outcome) ==
  /\ Evaluated /\ reader.todo # <<>> /\ Type0 # "raise"
  /\ Log(outcome) /\ reader' = NextStep
  /\ needsReplies' \subseteq RuleMails
  /\ UNCHANGED <<rules, mailbox, uidValidity, settled, during, told, ruleRegime, edits>>

LEMMA LoggedKept ==
  ASSUME RInv, NEW outcome \in Outcomes, LoggedOn(outcome)
  PROVE  RInv'
  <1>1. RulesTyped /\ Placed0 /\ ItemsInHand /\ CopiesFirst /\ DuesPaid
    BY DEF RInv
  <1>2. /\ Evaluated /\ reader.todo # <<>> /\ Type0 # "raise"
        /\ events' = events \cup {Event(outcome)} /\ reader' = NextStep
        /\ needsReplies' \subseteq RuleMails
        /\ UNCHANGED <<rules, mailbox, uidValidity, settled, during, told, ruleRegime, edits>>
    BY DEF LoggedOn, Log
  <1>3. reader.items # {}
    BY <1>1, <1>2 DEF Placed0, Evaluated, On
  <1>4. reader.todo \in Seq(StepType) /\ Tail(reader.todo) \in Seq(StepType) /\ Step0 = Head(reader.todo)
    BY <1>1, <1>2, TodoTyped, TailTold DEF Step0
  <1>5. /\ reader' \in ReaderType /\ reader'.pc = "act" /\ reader'.items = reader.items
        /\ reader'.todo = Tail(reader.todo)
    BY <1>1, <1>2, <1>4 DEF NextStep, RulesTyped, ReaderType, ScanStages
  <1>6. Carrying
    BY <1>2, <1>5 DEF Carrying, Evaluated
  <1>7. Answered' /\ VersionsKept' /\ RulesRead' /\ ActionsWereSaved' /\ StopsAreFinal'
    BY <1>6, Carried
  <1>8. Planned' \subseteq Planned /\ Mail0' = Mail0
    BY <1>1, <1>6, CarriedPlan
  <1>9. /\ Event(outcome) \in EventType /\ Event(outcome).mail = Mail0 /\ Event(outcome).rule = Step0.rule
        /\ Event(outcome).type = Type0 /\ Event(outcome).outcome = outcome
    BY <1>2, <1>3, EventTyped
  <1>10. RulesTyped'
    BY <1>1, <1>2, <1>5, <1>9 DEF RulesTyped, ReaderType
  <1>11. Placed0'
    BY <1>3, <1>5 DEF Placed0, On, Changing
  <1>12. ItemsInHand' /\ CopiesFirst'
    BY <1>1, <1>2, <1>5 DEF ItemsInHand, CopiesFirst, NoMailIsLost, On
  <1>13. DuesPaid'
    <2>1. \A m, r, type : Due(m, r, type)' <=> Due(m, r, type)
      BY <1>2 DEF Due, Precedes
    <2>2. \A m, r, type : Over(m, r, type) => Over(m, r, type)'
      BY <1>2 DEF Over
    <2>3. outcome # "planned"
      BY DEF Outcomes
    <2>4. \A e \in events' : e.outcome = "planned" => e \in events
      BY <1>2, <1>9, <2>3
    <2>5. ASSUME NEW r, NEW type, AheadOf(r, type)
          PROVE  Over(Mail0, r, type)' \/ AheadOf(r, type)'
      <3>1. PICK i \in DOMAIN reader.todo : reader.todo[i].rule = r /\ reader.todo[i].action.type = type
        BY <2>5 DEF AheadOf
      <3>2. CASE reader.todo[i] = Step0
        <4>1. Event(outcome) \in events' /\ Step0.rule = r /\ Type0 = type
          BY <1>2, <3>1, <3>2 DEF Type0
        <4> QED
          BY <1>8, <1>9, <2>3, <4>1 DEF Over
      <3>3. CASE i - 1 \in DOMAIN reader'.todo /\ reader'.todo[i - 1] = reader.todo[i]
        BY <3>1, <3>3 DEF AheadOf
      <3> QED
        BY <1>2, <1>4, <1>5, <3>2, <3>3, TailTold
    <2>6. Mail0 \in ruleRegime.fresh
      BY <1>3, MailInHand
    <2>7. \A m \in RuleMails \ ruleRegime'.fresh : \A e \in events' : e.mail # m
      BY <1>1, <1>2, <1>9, <2>6 DEF DuesPaid
    <2>8. \A e \in events' : e.outcome = "planned" => e.type \in MutationTypes
      BY <1>1, <2>4 DEF DuesPaid
    <2>9. ASSUME edits'.made = 0
          PROVE  /\ \A e \in events' : e.outcome = "planned" => Due(e.mail, e.rule, e.type)'
                 /\ \A step \in Planned' : Due(Mail0, step.rule, step.action.type)'
                 /\ \A r \in RuleIds, type \in MutationTypes :
                      /\ Due(Mail0, r, type)' => Over(Mail0, r, type)' \/ AheadOf(r, type)'
                      /\ \A m \in settled \cap ruleRegime.fresh : Due(m, r, type)' => Over(m, r, type)'
      <3>1. edits.made = 0
        BY <1>2, <2>9
      <3>2. \A e \in events' : e.outcome = "planned" => Due(e.mail, e.rule, e.type)'
        BY <1>1, <2>1, <2>4, <3>1, Zenon DEF DuesPaid
      <3>3. \A step \in Planned' : Due(Mail0, step.rule, step.action.type)'
        BY <1>1, <1>2, <1>8, <2>1, <3>1, Zenon DEF DuesPaid
      <3>4. \A r \in RuleIds, type \in MutationTypes : Due(Mail0, r, type)' => Over(Mail0, r, type)' \/ AheadOf(r, type)'
        BY <1>1, <1>2, <1>8, <2>1, <2>2, <2>5, <3>1, Zenon DEF DuesPaid
      <3>5. \A r \in RuleIds, type \in MutationTypes, m \in settled \cap ruleRegime.fresh :
              Due(m, r, type)' => Over(m, r, type)'
        BY <1>1, <2>1, <2>2, <3>1, Zenon DEF DuesPaid
      <3> QED
        BY <3>2, <3>3, <3>4, <3>5, Zenon
    <2> QED
      BY <1>2, <1>8, <2>7, <2>8, <2>9, Zenon DEF DuesPaid
  <1> QED
    BY <1>7, <1>10, <1>11, <1>12, <1>13 DEF RInv

LEMMA ConcludedKept ==
  ASSUME RInv, ActLocally \/ TurnAway \/ Conclude
  PROVE  RInv'
  <1>1. RulesTyped /\ Placed0
    BY DEF RInv
  <1>2. needsReplies \subseteq RuleMails /\ reader.outcome \in Outcomes \cup {"none"} /\ "raise" \notin MutationTypes
    BY <1>1 DEF RulesTyped, MutationTypes, AllowGated
  <1>3. CASE ActLocally
    <2>1. /\ On("act") /\ reader.todo # <<>> /\ Type0 # "raise" /\ Log("completed") /\ reader' = NextStep
          /\ needsReplies' = IF Type0 = "add_to_needs_reply" THEN needsReplies \cup {Mail0} ELSE needsReplies
          /\ UNCHANGED <<mailbox, settled>> /\ Elsewhere /\ Quiet
      BY <1>3 DEF ActLocally, Acting
    <2>2. Mail0 \in RuleMails
      BY <1>1, <2>1, InHand DEF Placed0, On
    <2>3. LoggedOn("completed")
      BY <1>2, <2>1, <2>2 DEF LoggedOn, Evaluated, On, Elsewhere, Quiet
    <2> QED
      BY <2>3, OutcomesNamed, LoggedKept
  <1>4. CASE TurnAway
    <2>1. /\ On("gate") /\ GateOf(Type0) # "open" /\ Log(GateOf(Type0)) /\ reader' = NextStep
          /\ UNCHANGED <<mailbox, needsReplies, settled>> /\ Elsewhere /\ Quiet
      BY <1>4 DEF TurnAway
    <2>2. GateOf(Type0) \in Outcomes
      BY <1>1, <2>1, GateTells
    <2>3. LoggedOn(GateOf(Type0))
      BY <1>1, <1>2, <2>1 DEF LoggedOn, Evaluated, On, Elsewhere, Quiet, Placed0, Changing
    <2> QED
      BY <2>2, <2>3, LoggedKept
  <1>5. CASE Conclude
    <2>1. /\ On("record") /\ Log(reader.outcome) /\ reader' = NextStep
          /\ UNCHANGED <<mailbox, needsReplies, settled>> /\ Elsewhere /\ Quiet
      BY <1>5 DEF Conclude
    <2>2. reader.outcome \in Outcomes
      BY <1>1, <1>2, <2>1 DEF Placed0
    <2>3. LoggedOn(reader.outcome)
      BY <1>1, <1>2, <2>1 DEF LoggedOn, Evaluated, On, Elsewhere, Quiet, Placed0, Changing
    <2> QED
      BY <2>2, <2>3, LoggedKept
  <1> QED
    BY <1>3, <1>4, <1>5

LEMMA AnnouncedKept ==
  ASSUME RInv, Announce
  PROVE  RInv'
  <1>1. RulesTyped /\ Placed0 /\ ItemsInHand /\ CopiesFirst /\ DuesPaid
    BY DEF RInv
  <1>2. /\ On("act") /\ reader.todo # <<>> /\ Type0 \in MutationTypes /\ events' = events \cup {Event("planned")}
        /\ reader' = [reader EXCEPT !.pc = "gate"]
        /\ UNCHANGED <<rules, mailbox, uidValidity, needsReplies, settled, during, told, ruleRegime, edits>>
    BY DEF Announce, Acting, Log, Elsewhere, Quiet
  <1>3. reader.items # {} /\ Type0 # "raise"
    BY <1>1, <1>2 DEF Placed0, On, MutationTypes, AllowGated
  <1>4. /\ reader' \in ReaderType /\ reader'.pc = "gate" /\ reader'.items = reader.items
        /\ reader'.todo = reader.todo
    BY <1>1, <1>2, AnswerTyped, OutcomesNamed
  <1>5. Carrying
    BY <1>2, <1>4 DEF Carrying, Evaluated, On
  <1>6. Answered' /\ VersionsKept' /\ RulesRead' /\ ActionsWereSaved' /\ StopsAreFinal'
    BY <1>5, Carried
  <1>7. Planned' \subseteq Planned /\ Mail0' = Mail0 /\ Step0' = Step0 /\ Type0' = Type0
    BY <1>1, <1>4, <1>5, CarriedPlan, SameStep
  <1>8. /\ Event("planned") \in EventType /\ Event("planned").mail = Mail0 /\ Event("planned").rule = Step0.rule
        /\ Event("planned").type = Type0 /\ Event("planned").outcome = "planned" /\ Step0 \in Planned
    BY <1>2, <1>3, EventTyped
  <1>9. RulesTyped'
    BY <1>1, <1>2, <1>4, <1>8 DEF RulesTyped, ReaderType
  <1>10. Placed0'
    <2>1. Event("planned")' = Event("planned")
      BY <1>7, Zenon DEF Event
    <2> QED
      BY <1>2, <1>3, <1>4, <1>7, <2>1 DEF Placed0, On, Changing
  <1>11. ItemsInHand' /\ CopiesFirst'
    BY <1>1, <1>2, <1>4 DEF ItemsInHand, CopiesFirst, NoMailIsLost, On
  <1>12. DuesPaid'
    <2>1. /\ \A m, r, type : Due(m, r, type)' <=> Due(m, r, type)
          /\ \A r, type : AheadOf(r, type)' <=> AheadOf(r, type)
      BY <1>2, <1>4 DEF Due, Precedes, AheadOf
    <2>2. \A m, r, type : Over(m, r, type) => Over(m, r, type)'
      BY <1>2 DEF Over
    <2>3. Mail0 \in ruleRegime.fresh
      BY <1>3, MailInHand
    <2>4. \A m \in RuleMails \ ruleRegime'.fresh : \A e \in events' : e.mail # m
      BY <1>1, <1>2, <1>8, <2>3 DEF DuesPaid
    <2>5. \A e \in events' : e.outcome = "planned" => e.type \in MutationTypes
      BY <1>1, <1>2, <1>8 DEF DuesPaid
    <2>6. Evaluated
      BY <1>2 DEF Evaluated, On
    <2>7. ASSUME edits'.made = 0
          PROVE  /\ \A e \in events' : e.outcome = "planned" => Due(e.mail, e.rule, e.type)'
                 /\ \A step \in Planned' : Due(Mail0, step.rule, step.action.type)'
                 /\ \A r \in RuleIds, type \in MutationTypes :
                      /\ Due(Mail0, r, type)' => Over(Mail0, r, type)' \/ AheadOf(r, type)'
                      /\ \A m \in settled \cap ruleRegime.fresh : Due(m, r, type)' => Over(m, r, type)'
      <3>1. edits.made = 0
        BY <1>2, <2>7
      <3>2. \A step \in Planned : Due(Mail0, step.rule, step.action.type)
        BY <1>1, <2>6, <3>1, Zenon DEF DuesPaid
      <3>3. Due(Mail0, Step0.rule, Type0)
        BY <1>8, <3>2, Zenon DEF Type0
      <3>4. \A e \in events' : e.outcome = "planned" => Due(e.mail, e.rule, e.type)'
        <4>1. \A e \in events : e.outcome = "planned" => Due(e.mail, e.rule, e.type)
          BY <1>1, <3>1, Zenon DEF DuesPaid
        <4>2. Due(Event("planned").mail, Event("planned").rule, Event("planned").type)
          BY <1>8, <3>3
        <4>3. \A e \in events' : e \in events \/ e = Event("planned")
          BY <1>2
        <4> QED
          BY <2>1, <4>1, <4>2, <4>3, Zenon
      <3>5. \A step \in Planned' : Due(Mail0, step.rule, step.action.type)'
        BY <1>2, <1>7, <2>1, <3>2, Zenon
      <3>6. \A r \in RuleIds, type \in MutationTypes : Due(Mail0, r, type)' => Over(Mail0, r, type)' \/ AheadOf(r, type)'
        BY <1>1, <1>2, <1>7, <2>1, <2>2, <2>6, <3>1, Zenon DEF DuesPaid
      <3>7. \A r \in RuleIds, type \in MutationTypes, m \in settled \cap ruleRegime.fresh :
              Due(m, r, type)' => Over(m, r, type)'
        BY <1>1, <2>1, <2>2, <3>1, Zenon DEF DuesPaid
      <3> QED
        BY <3>4, <3>5, <3>6, <3>7, Zenon
    <2> QED
      BY <1>2, <1>7, <2>4, <2>5, <2>7, Zenon DEF DuesPaid
  <1> QED
    BY <1>6, <1>9, <1>10, <1>11, <1>12 DEF RInv

LEMMA EndedKept ==
  ASSUME RInv, Abort \/ ScanFails \/ Stopped
  PROVE  RInv'
  <1>1. reader' = Asleep /\ OnlyReader /\ during' = during
    BY DEF Abort, ScanFails, Stopped, ReadOn, GiveUp, Quiet
  <1> QED
    BY <1>1, AsleepKept DEF OnlyReader, Elsewhere

LEMMA SavedKept ==
  ASSUME RInv, SaveResult
  PROVE  RInv'
  <1>1. RulesTyped /\ Placed0 /\ ItemsInHand /\ CopiesFirst /\ Answered /\ DuesPaid
    BY DEF RInv
  <1>2. /\ On("act") /\ reader.todo = <<>> /\ settled' = settled \cup {Mail0} /\ reader' = Onward
        /\ UNCHANGED <<rules, mailbox, uidValidity, events, needsReplies, during, told, ruleRegime, edits>>
    BY DEF SaveResult, Finished, Elsewhere, Quiet
  <1>3. reader.items # {}
    BY <1>1, <1>2 DEF Placed0, On
  <1>4. Mail0 \in ruleRegime.fresh /\ Mail0 \notin settled /\ Mail0 \in RuleMails /\ Item0 \in reader.items
    BY <1>3, MailInHand
  <1>5. /\ reader' \in ReaderType /\ reader'.items = reader.items \ {Item0}
        /\ reader'.pc = IF reader.items \ {Item0} = {} THEN "idle" ELSE "rows"
    <2> DEFINE rest == reader.items \ {Item0}
    <2>1. rest \in SUBSET HeldItem /\ Asleep.items = {} /\ Asleep.pc = "idle"
      <3>1. reader.items \in SUBSET HeldItem
        BY <1>1 DEF RulesTyped
      <3>2. Asleep.items = {} /\ Asleep.pc = "idle"
        BY DEF Asleep
      <3> QED
        BY <3>1, <3>2
    <2>2. Asleep \in ReaderType /\ [Asleep EXCEPT !.pc = "rows", !.items = rest] \in ReaderType
      <3>1. Asleep \in ReaderType
        BY DEF Asleep, ReaderType, ScanStages
      <3>2. "rows" \in ScanStages
        BY DEF ScanStages
      <3> HIDE DEF rest
      <3>3. ASSUME NEW x \in ReaderType PROVE [x EXCEPT !.pc = "rows", !.items = rest] \in ReaderType
        BY <2>1, <3>2 DEF ReaderType
      <3> QED
        BY <3>1, <3>3
    <2>3. /\ [Asleep EXCEPT !.pc = "rows", !.items = rest].pc = "rows"
          /\ [Asleep EXCEPT !.pc = "rows", !.items = rest].items = rest
      BY DEF Asleep
    <2>4. reader' = IF rest # {} THEN [Asleep EXCEPT !.pc = "rows", !.items = rest] ELSE Asleep
      BY <1>2, Zenon DEF Onward
    <2> HIDE DEF rest
    <2>5. reader' \in ReaderType /\ reader'.items = rest /\ reader'.pc = IF rest = {} THEN "idle" ELSE "rows"
      BY <2>1, <2>2, <2>3, <2>4
    <2> QED
      BY <2>5 DEF rest
  <1>6. RulesTyped'
    BY <1>1, <1>2, <1>4, <1>5 DEF RulesTyped, ReaderType
  <1>7. Placed0'
    BY <1>5 DEF Placed0, On, Changing
  <1>8. ItemsInHand'
    <2>1. \A i \in reader.items \ {Item0} : i.mail # Mail0
      BY <1>1, <1>4 DEF ItemsInHand, Mail0
    <2> QED
      BY <1>1, <1>2, <1>5, <2>1 DEF ItemsInHand
  <1>9. CopiesFirst' /\ Answered'
    BY <1>1, <1>2, <1>5 DEF CopiesFirst, NoMailIsLost, On, Answered
  <1>10. VersionsKept' /\ RulesRead' /\ ActionsWereSaved' /\ StopsAreFinal' /\ ~ Evaluated'
    BY <1>5 DEF VersionsKept, Active, RulesRead, ActionsWereSaved, StopsAreFinal, Evaluated
  <1>11. DuesPaid'
    <2>1. /\ \A m, r, type : Due(m, r, type)' <=> Due(m, r, type)
          /\ \A m, r, type : Over(m, r, type)' <=> Over(m, r, type)
      BY <1>2 DEF Due, Precedes, Over
    <2>2. \A r, type : ~ AheadOf(r, type)
      BY <1>2 DEF AheadOf
    <2>3. Evaluated
      BY <1>2 DEF Evaluated, On
    <2>4. edits.made = 0 => \A r \in RuleIds, type \in MutationTypes, m \in settled' \cap ruleRegime.fresh :
            Due(m, r, type) => Over(m, r, type)
      <3> SUFFICES ASSUME edits.made = 0, NEW r \in RuleIds, NEW type \in MutationTypes,
                          NEW m \in settled' \cap ruleRegime.fresh, Due(m, r, type)
                   PROVE  Over(m, r, type)
        OBVIOUS
      <3>1. m = Mail0 \/ m \in settled \cap ruleRegime.fresh
        BY <1>2
      <3> QED
        BY <1>1, <2>2, <2>3, <3>1, Zenon DEF DuesPaid
    <2>5. ruleRegime' = ruleRegime /\ events' = events /\ edits' = edits
      BY <1>2
    <2>6. edits'.made = 0 => \A e \in events' : e.outcome = "planned" => Due(e.mail, e.rule, e.type)'
      BY <1>1, <2>1, <2>5, Zenon DEF DuesPaid
    <2>7. /\ \A m \in RuleMails \ ruleRegime'.fresh : \A e \in events' : e.mail # m
          /\ \A e \in events' : e.outcome = "planned" => e.type \in MutationTypes
      BY <1>1, <2>5, Zenon DEF DuesPaid
    <2>8. edits'.made = 0 => \A r \in RuleIds, type \in MutationTypes, m \in settled' \cap ruleRegime'.fresh :
            Due(m, r, type)' => Over(m, r, type)'
      BY <2>1, <2>4, <2>5, Zenon
    <2> QED
      BY <1>10, <2>6, <2>7, <2>8, Zenon DEF DuesPaid
  <1> QED
    BY <1>6, <1>7, <1>8, <1>9, <1>10, <1>11 DEF RInv
-----------------------------------------------------------------------------
(***************************************************************************)
(* The folder: a poll, and a new numbering.                                *)
(***************************************************************************)
LEMMA PolledKept ==
  ASSUME RInv, NEW v \in {uidValidity, Unknown}, PollFolder(v)
  PROVE  RInv'
  <1>1. RulesTyped /\ ItemsInHand /\ CopiesFirst /\ Answered /\ DuesPaid
    BY DEF RInv
  <1> DEFINE item(m) == [mail |-> m, uid |-> mailbox[m].uid, validity |-> v]
             items == {item(m) : m \in Waiting}
  <1>2. /\ Waiting # {} /\ reader' = [Asleep EXCEPT !.pc = "rows", !.items = items]
        /\ UNCHANGED <<rules, mailbox, uidValidity, events, needsReplies, settled, during, told, ruleRegime, edits>>
    BY DEF PollFolder, ReadOn, OnlyReader, Elsewhere
  <1>3. v \in Nat /\ v <= uidValidity /\ mailbox \in [RuleMails -> Letter]
    BY <1>1 DEF RulesTyped, Unknown
  <1>4. \A m \in Waiting : /\ m \in RuleMails /\ m \notin settled /\ m \in ruleRegime.fresh
                           /\ mailbox[m].uid \in 1 .. Cardinality(RuleMails)
    <2>1. \A m \in Waiting : m \in RuleMails /\ m \notin settled /\ mailbox[m].uid # 0
      BY DEF Waiting, Nowhere
    <2>2. \A m \in RuleMails : mailbox[m].uid \in 0 .. Mails
      BY <1>3 DEF Letter, Mails
    <2> QED
      BY <1>1, <2>1, <2>2, MailsCounted DEF ItemsInHand, Mails
  <1>5. items \in SUBSET HeldItem /\ items # {}
    <2>1. \A m \in Waiting : item(m) \in HeldItem
      BY <1>3, <1>4 DEF HeldItem
    <2>2. Waiting # {}
      BY <1>2
    <2> HIDE DEF item
    <2> QED
      BY <2>1, <2>2
  <1>6. reader' \in ReaderType /\ reader'.pc = "rows" /\ reader'.items = items
    <2>1. Asleep \in ReaderType
      BY DEF Asleep, ReaderType, ScanStages
    <2>2. "rows" \in ScanStages
      BY DEF ScanStages
    <2> HIDE DEF items
    <2>3. ASSUME NEW x \in ReaderType
          PROVE  /\ [x EXCEPT !.pc = "rows", !.items = items] \in ReaderType
                 /\ [x EXCEPT !.pc = "rows", !.items = items].pc = "rows"
                 /\ [x EXCEPT !.pc = "rows", !.items = items].items = items
      BY <1>5, <2>2 DEF ReaderType
    <2> QED
      BY <1>2, <2>1, <2>3
  <1>7. RulesTyped'
    BY <1>1, <1>2, <1>6 DEF RulesTyped, ReaderType
  <1>8. Placed0'
    BY <1>5, <1>6 DEF Placed0, On, Changing
  <1>9. ItemsInHand'
    <2>1. ASSUME NEW i \in items
          PROVE  /\ i.mail \in ruleRegime.fresh \ settled /\ i.validity <= uidValidity
                 /\ i.validity = uidValidity => \A m \in RuleMails : mailbox[m].uid = i.uid => m = i.mail
      <3>1. PICK m \in Waiting : i = item(m)
        OBVIOUS
      <3>2. i.mail = m /\ i.uid = mailbox[m].uid /\ i.validity = v
        BY <3>1
      <3>3. mailbox[m].uid # Nowhere /\ m \in RuleMails
        BY DEF Waiting
      <3> QED
        BY <1>1, <1>3, <1>4, <3>2, <3>3 DEF ItemsInHand
    <2>2. \A i, j \in items : i.mail = j.mail => i = j
      OBVIOUS
    <2>3. /\ \A m, n \in RuleMails : mailbox[m].uid = mailbox[n].uid /\ mailbox[m].uid # Nowhere => m = n
          /\ RuleMails \ ruleRegime.fresh \subseteq settled
      BY <1>1 DEF ItemsInHand
    <2> HIDE DEF items
    <2> QED
      BY <1>2, <1>6, <2>1, <2>2, <2>3 DEF ItemsInHand
  <1>10. CopiesFirst' /\ Answered'
    BY <1>1, <1>2, <1>6 DEF CopiesFirst, NoMailIsLost, On, Answered
  <1>11. VersionsKept' /\ RulesRead' /\ ActionsWereSaved' /\ StopsAreFinal' /\ ~ Evaluated'
    BY <1>6 DEF VersionsKept, Active, RulesRead, ActionsWereSaved, StopsAreFinal, Evaluated
  <1>12. DuesPaid'
    <2>1. /\ \A m, r, type : Due(m, r, type)' <=> Due(m, r, type)
          /\ \A m, r, type : Over(m, r, type)' <=> Over(m, r, type)
      BY <1>2 DEF Due, Over, Precedes
    <2> QED
      BY <1>1, <1>2, <1>11, <2>1 DEF DuesPaid
  <1> QED
    BY <1>7, <1>8, <1>9, <1>10, <1>11, <1>12 DEF RInv

LEMMA ReadStays ==
  ASSUME RInv, UNCHANGED <<rules, events, settled, reader, during, ruleRegime, edits>>
  PROVE  VersionsKept' /\ RulesRead' /\ ActionsWereSaved' /\ StopsAreFinal' /\ DuesPaid'
  <1>1. VersionsKept /\ RulesRead /\ ActionsWereSaved /\ StopsAreFinal /\ DuesPaid
    BY DEF RInv
  <1>2. /\ rules' = rules /\ events' = events /\ settled' = settled /\ reader' = reader
        /\ during' = during /\ ruleRegime' = ruleRegime /\ edits' = edits
    OBVIOUS
  <1>3. Item0' = Item0 /\ Mail0' = Mail0 /\ Planned' = Planned /\ (Evaluated' <=> Evaluated) /\ (Active' <=> Active)
    BY <1>2, SameItem DEF Planned, Evaluated, Active
  <1>4. /\ \A m, r, type : Due(m, r, type)' <=> Due(m, r, type)
        /\ \A m, r, type : Over(m, r, type)' <=> Over(m, r, type)
        /\ \A r, type : AheadOf(r, type)' <=> AheadOf(r, type)
        /\ \A a, b : Precedes(a, b)' <=> Precedes(a, b)
        /\ \A r : Unedited(r)' <=> Unedited(r)
        /\ \A i : ToFill(i)' <=> ToFill(i)
        /\ \A row : ReadFrom(row)' <=> ReadFrom(row)
        /\ \A row : FilledFrom(row)' <=> FilledFrom(row)
        /\ \A row : HalfFilled(row)' <=> HalfFilled(row)
    BY <1>2, <1>3 DEF Due, Over, AheadOf, Precedes, Unedited, ToFill, On, ReadFrom, FilledFrom, HalfFilled, Emptied, Versions
  <1>5. VersionsKept'
    BY <1>1, <1>2, <1>3, Zenon DEF VersionsKept
  <1>6. RulesRead'
    <2>1. /\ \A i : RowRead(i)' <=> RowRead(i)
          /\ \A r : RowFound(r)' <=> RowFound(r)
      BY <1>2, <1>4, Zenon DEF RowRead, RowFound
    <2> QED
      BY <1>1, <1>2, <1>3, <1>4, <2>1, Zenon DEF RulesRead
  <1>7. ActionsWereSaved'
    BY <1>1, <1>2, <1>3, Zenon DEF ActionsWereSaved
  <1>8. StopsAreFinal'
    BY <1>1, <1>2, <1>3, <1>4, Zenon DEF StopsAreFinal
  <1>9. DuesPaid'
    BY <1>1, <1>2, <1>3, <1>4, Zenon DEF DuesPaid
  <1> QED
    BY <1>5, <1>6, <1>7, <1>8, <1>9

LEMMA RenumberedKept ==
  ASSUME RInv, RenumberFolder
  PROVE  RInv'
  <1>1. RulesTyped /\ Placed0 /\ ItemsInHand /\ CopiesFirst /\ Answered
    BY DEF RInv
  <1>2. /\ reader.pc \notin {"do", "mark"} /\ uidValidity' = uidValidity + 1
        /\ mailbox' = [m \in RuleMails |->
             IF mailbox[m].uid = Nowhere THEN mailbox[m]
             ELSE [mailbox[m] EXCEPT !.uid = Cardinality(RuleMails) + 1 - mailbox[m].uid]]
        /\ UNCHANGED <<rules, events, needsReplies, settled, reader, during, told, ruleRegime, edits>>
    BY DEF RenumberFolder, Quiet
  <1> DEFINE other(u) == IF u = 0 THEN 0 ELSE Mails + 1 - u
  <1>3. /\ mailbox' \in [RuleMails -> Letter]
        /\ \A m \in RuleMails : /\ mailbox[m].uid \in 0 .. Mails /\ mailbox'[m].uid = other(mailbox[m].uid)
                                /\ mailbox'[m].deleted = mailbox[m].deleted
                                /\ mailbox'[m].filed = mailbox[m].filed
    <2>1. mailbox \in [RuleMails -> Letter] /\ Mails \in Nat
      BY <1>1, MailsCounted DEF RulesTyped
    <2>2. ASSUME NEW letter \in Letter, NEW u, u = Mails + 1 - letter.uid, letter.uid # 0
          PROVE  /\ [letter EXCEPT !.uid = u] \in Letter /\ [letter EXCEPT !.uid = u].uid = u
                 /\ [letter EXCEPT !.uid = u].deleted = letter.deleted
                 /\ [letter EXCEPT !.uid = u].filed = letter.filed
      <3>1. letter.uid \in 1 .. Mails
        BY <2>1, <2>2 DEF Letter, Mails
      <3>2. u \in 0 .. Cardinality(RuleMails)
        BY <2>1, <2>2, <3>1 DEF Mails
      <3> QED
        BY <3>2 DEF Letter
    <2>3. ASSUME NEW m \in RuleMails
          PROVE  /\ mailbox'[m] \in Letter
                 /\ mailbox[m].uid \in 0 .. Mails /\ mailbox'[m].uid = other(mailbox[m].uid)
                 /\ mailbox'[m].deleted = mailbox[m].deleted
                 /\ mailbox'[m].filed = mailbox[m].filed
      <3>1. mailbox[m] \in Letter /\ mailbox[m].uid \in 0 .. Mails
        BY <2>1 DEF Letter, Mails
      <3>2. CASE mailbox[m].uid = 0
        BY <1>2, <3>1, <3>2 DEF Nowhere
      <3>3. CASE mailbox[m].uid # 0
        <4>1. mailbox'[m] = [mailbox[m] EXCEPT !.uid = Mails + 1 - mailbox[m].uid]
          BY <1>2, <3>3, Zenon DEF Nowhere, Mails
        <4> QED
          BY <2>2, <3>1, <3>3, <4>1
      <3> QED
        BY <3>2, <3>3
    <2> QED
      BY <1>2, <2>3, Zenon
  <1>4. /\ \A u, w \in 0 .. Mails : other(u) = other(w) => u = w
        /\ \A u \in 0 .. Mails : other(u) = 0 <=> u = 0
    BY MailsCounted
  <1> HIDE DEF other
  <1>5. VersionsKept' /\ RulesRead' /\ ActionsWereSaved' /\ StopsAreFinal' /\ DuesPaid'
    BY <1>2, ReadStays
  <1>6. RulesTyped'
    BY <1>1, <1>2, <1>3 DEF RulesTyped
  <1>7. Placed0'
    <2>1. Item0' = Item0 /\ Mail0' = Mail0 /\ Step0' = Step0 /\ Type0' = Type0
      BY <1>2, SameItem, SameStep
    <2>2. Event("planned")' = Event("planned")
      BY <2>1, Zenon DEF Event
    <2> QED
      BY <1>1, <1>2, <2>1, <2>2 DEF Placed0, On, Changing
  <1>8. ItemsInHand'
    <2>1. \A i \in reader.items : i.validity <= uidValidity' /\ i.validity # uidValidity'
      BY <1>1, <1>2 DEF ItemsInHand, RulesTyped, HeldItem
    <2>2. \A m, n \in RuleMails : mailbox'[m].uid = mailbox'[n].uid /\ mailbox'[m].uid # Nowhere => m = n
      BY <1>1, <1>3, <1>4 DEF ItemsInHand, Nowhere
    <2> QED
      BY <1>1, <1>2, <2>1, <2>2 DEF ItemsInHand
  <1>9. CopiesFirst'
    <2>1. NoMailIsLost'
      BY <1>1, <1>3, <1>4 DEF CopiesFirst, NoMailIsLost, Nowhere
    <2> QED
      BY <1>2, <2>1 DEF CopiesFirst, On
  <1>10. Answered'
    BY <1>1, <1>2 DEF Answered
  <1> QED
    BY <1>5, <1>6, <1>7, <1>8, <1>9, <1>10 DEF RInv

LEMMA ToldKept ==
  ASSUME RInv, NEW q \in Questions, ShowApproval(q)
  PROVE  RInv'
  <1>1. RulesTyped /\ Placed0 /\ ItemsInHand /\ CopiesFirst
    BY DEF RInv
  <1>2. /\ told' = [gate |-> ApprovalGate(q.settings, q.approval, q.store), of |-> q]
        /\ UNCHANGED <<rules, uidValidity, ruleRegime, edits, mailbox, events, needsReplies, settled, reader, during>>
    BY DEF ShowApproval, Quiet
  <1>3. VersionsKept' /\ RulesRead' /\ ActionsWereSaved' /\ StopsAreFinal' /\ DuesPaid'
    BY <1>2, ReadStays
  <1>4. RulesTyped'
    BY <1>1, <1>2 DEF RulesTyped
  <1>5. Item0' = Item0 /\ Mail0' = Mail0 /\ Step0' = Step0 /\ Type0' = Type0
    BY <1>2, SameItem, SameStep
  <1>6. Placed0'
    <2>1. Event("planned")' = Event("planned") /\ GateOf(Type0)' = GateOf(Type0)
      BY <1>2, <1>5, Zenon DEF Event, GateOf
    <2> QED
      BY <1>1, <1>2, <1>5, <2>1 DEF Placed0, On, Changing
  <1>7. ItemsInHand'
    BY <1>1, <1>2 DEF ItemsInHand
  <1>8. CopiesFirst'
    <2>1. Addressed' = Addressed
      BY <1>2, <1>5 DEF Addressed
    <2> QED
      BY <1>1, <1>2, <2>1 DEF CopiesFirst, NoMailIsLost, On
  <1>9. Answered'
    BY <1>2 DEF Answered
  <1> QED
    BY <1>3, <1>4, <1>6, <1>7, <1>8, <1>9 DEF RInv
-----------------------------------------------------------------------------
(***************************************************************************)
(* The rules of a mail are read: the rows, then of each the conditions and *)
(* the actions, while the operator may edit them.                          *)
(***************************************************************************)
LEMMA AbsentApart == Absent \notin Contents
  <1>1. \A c \in Contents : DOMAIN c = {"account", "priority", "enabled", "match", "conditions", "actions"}
    BY DEF Contents
  <1>2. DOMAIN Absent = {"enabled"}
    BY DEF Absent
  <1> QED
    BY <1>1, <1>2

LEMMA VersionAtHand ==
  ASSUME RInv, Active, NEW r \in DOMAIN rules
  PROVE  rules[r] \in Versions(r) /\ rules[r] \in Contents /\ r \in RuleIds /\ r < edits.next
  <1>1. RulesTyped /\ VersionsKept
    BY DEF RInv
  <1>2. rules[r] \in Contents /\ r \in RuleIds /\ r < edits.next
    BY <1>1 DEF RulesTyped
  <1>3. rules[r] \in during[r]
    BY <1>1 DEF VersionsKept
  <1> QED
    BY <1>2, <1>3, AbsentApart DEF Versions

\* A step of the reader before the plan is made.
Reading ==
  /\ ~ On("idle") /\ ~ Evaluated' /\ ~ (reader'.pc = "idle")
  /\ reader' \in ReaderType /\ reader'.items = reader.items
  /\ UNCHANGED <<rules, mailbox, uidValidity, events, needsReplies, settled, told, ruleRegime, edits>>

LEMMA ReadingKept ==
  ASSUME RInv, Reading, during' \in [RuleIds -> SUBSET (Contents \cup {Absent})], VersionsKept', RulesRead',
         reader'.pc = "actions" => reader'.loaded # <<>>
  PROVE  RInv'
  <1>1. RulesTyped /\ Placed0 /\ ItemsInHand /\ CopiesFirst /\ Answered /\ DuesPaid
    BY DEF RInv
  <1>2. /\ ~ Evaluated' /\ reader' \in ReaderType /\ reader'.items = reader.items /\ reader.items # {}
        /\ UNCHANGED <<rules, mailbox, uidValidity, events, needsReplies, settled, told, ruleRegime, edits>>
    BY <1>1 DEF Reading, Placed0
  <1>3. RulesTyped'
    BY <1>1, <1>2 DEF RulesTyped, ReaderType
  <1>4. Placed0'
    BY <1>2 DEF Placed0, On, Changing, Evaluated
  <1>5. ItemsInHand'
    BY <1>1, <1>2 DEF ItemsInHand
  <1>6. CopiesFirst' /\ Answered'
    BY <1>1, <1>2 DEF CopiesFirst, NoMailIsLost, On, Answered, Evaluated
  <1>7. ActionsWereSaved' /\ StopsAreFinal'
    BY <1>2 DEF ActionsWereSaved, StopsAreFinal
  <1>8. DuesPaid'
    <2>1. /\ \A m, r, type : Due(m, r, type)' <=> Due(m, r, type)
          /\ \A m, r, type : Over(m, r, type)' <=> Over(m, r, type)
      BY <1>2 DEF Due, Over, Precedes
    <2> QED
      BY <1>1, <1>2, <2>1 DEF DuesPaid
  <1> QED
    BY <1>3, <1>4, <1>5, <1>6, <1>7, <1>8 DEF RInv

LEMMA ReaderSet ==
  \A x \in ReaderType :
    /\ \A p \in ScanStages : LET y == [x EXCEPT !.pc = p] IN
         /\ y \in ReaderType /\ y.pc = p
         /\ y.items = x.items /\ y.unread = x.unread /\ y.loaded = x.loaded /\ y.todo = x.todo
    /\ \A rows \in SUBSET Listing : LET y == [x EXCEPT !.unread = rows] IN
         /\ y \in ReaderType /\ y.unread = rows
         /\ y.items = x.items /\ y.pc = x.pc /\ y.loaded = x.loaded /\ y.todo = x.todo
    /\ \A loaded \in Seq(Loaded) : LET y == [x EXCEPT !.loaded = loaded] IN
         /\ y \in ReaderType /\ y.loaded = loaded
         /\ y.items = x.items /\ y.pc = x.pc /\ y.unread = x.unread /\ y.todo = x.todo
    /\ \A todo \in Seq(StepType) : LET y == [x EXCEPT !.todo = todo] IN
         /\ y \in ReaderType /\ y.todo = todo
         /\ y.items = x.items /\ y.pc = x.pc /\ y.unread = x.unread /\ y.loaded = x.loaded
  <1> SUFFICES ASSUME NEW x \in ReaderType
               PROVE  /\ \A p \in ScanStages : LET y == [x EXCEPT !.pc = p] IN
                           /\ y \in ReaderType /\ y.pc = p
                           /\ y.items = x.items /\ y.unread = x.unread /\ y.loaded = x.loaded /\ y.todo = x.todo
                      /\ \A rows \in SUBSET Listing : LET y == [x EXCEPT !.unread = rows] IN
                           /\ y \in ReaderType /\ y.unread = rows
                           /\ y.items = x.items /\ y.pc = x.pc /\ y.loaded = x.loaded /\ y.todo = x.todo
                      /\ \A loaded \in Seq(Loaded) : LET y == [x EXCEPT !.loaded = loaded] IN
                           /\ y \in ReaderType /\ y.loaded = loaded
                           /\ y.items = x.items /\ y.pc = x.pc /\ y.unread = x.unread /\ y.todo = x.todo
                      /\ \A todo \in Seq(StepType) : LET y == [x EXCEPT !.todo = todo] IN
                           /\ y \in ReaderType /\ y.todo = todo
                           /\ y.items = x.items /\ y.pc = x.pc /\ y.unread = x.unread /\ y.loaded = x.loaded
    BY Zenon
  <1> QED
    BY DEF ReaderType

LEMMA RowsKept ==
  ASSUME RInv, SelectRules
  PROVE  RInv'
  <1>1. RulesTyped
    BY DEF RInv
  <1> DEFINE chosen == {a \in DOMAIN rules : Applies(rules[a], Mail0)}
             row(r) == [id |-> r, priority |-> rules[r].priority, match |-> rules[r].match]
             rows == {row(r) : r \in chosen}
  <1>2. /\ On("rows") /\ reader' = [reader EXCEPT !.pc = "read", !.loaded = <<>>, !.unread = rows]
        /\ during' = [r \in RuleIds |-> IF r \in DOMAIN rules THEN {rules[r]} ELSE {Absent}]
        /\ UNCHANGED <<rules, mailbox, uidValidity, events, needsReplies, settled, told, ruleRegime, edits>>
    BY DEF SelectRules, ReadOn, OnlyReader, Elsewhere
  <1>3. \A r \in DOMAIN rules : rules[r] \in Contents /\ r \in RuleIds /\ r < edits.next
    BY <1>1 DEF RulesTyped
  <1>4. /\ \A r \in chosen : row(r) \in Listing /\ row(r).id = r /\ r \in DOMAIN rules /\ Applies(rules[r], Mail0)
        /\ \A r \in chosen : row(r).priority = rules[r].priority /\ row(r).match = rules[r].match
    BY <1>3 DEF Listing, Contents
  <1> HIDE DEF row
  <1>5. /\ reader' \in ReaderType /\ reader'.pc = "read" /\ reader'.items = reader.items
        /\ reader'.loaded = <<>> /\ reader'.unread = rows
    <2>1. reader \in ReaderType /\ "read" \in ScanStages
      BY <1>1 DEF RulesTyped, ReaderType, ScanStages
    <2>2. rows \in SUBSET Listing
      BY <1>4
    <2> HIDE DEF rows
    <2>3. <<>> \in Seq(Loaded)
      OBVIOUS
    <2> DEFINE x == [reader EXCEPT !.pc = "read"]
               y == [x EXCEPT !.loaded = <<>>]
               z == [y EXCEPT !.unread = rows]
    <2>4. reader' = z
      BY <1>2
    <2>5. x \in ReaderType /\ x.pc = "read" /\ x.items = reader.items
      BY <2>1, ReaderSet, Zenon
    <2> HIDE DEF x
    <2>6. y \in ReaderType /\ y.pc = "read" /\ y.items = reader.items /\ y.loaded = <<>>
      BY <2>3, <2>5, ReaderSet, Zenon
    <2> HIDE DEF y
    <2>7. /\ z \in ReaderType /\ z.pc = "read" /\ z.items = reader.items
          /\ z.loaded = <<>> /\ z.unread = rows
      BY <2>2, <2>6, ReaderSet, Zenon
    <2> QED
      BY <2>4, <2>7, Zenon
  <1>6. Reading
    BY <1>2, <1>5 DEF Reading, On, Evaluated
  <1>7. during' \in [RuleIds -> SUBSET (Contents \cup {Absent})]
    <2>1. during' = [r \in RuleIds |-> IF r \in DOMAIN rules THEN {rules[r]} ELSE {Absent}]
      BY <1>2
    <2> QED
      BY <1>3, <2>1
  <1>8. VersionsKept'
    <2>1. /\ \A r \in RuleIds : during'[r] = IF r \in DOMAIN rules THEN {rules[r]} ELSE {Absent}
          /\ rules' = rules /\ edits' = edits
      BY <1>2
    <2>2. \A r \in RuleIds : r >= edits.next => r \notin DOMAIN rules
      BY <1>1, <1>3, RulesAssumption, FS_CardinalityType DEF RulesTyped
    <2>3. \A r \in DOMAIN rules' : rules'[r] \in during'[r]
      BY <1>3, <2>1
    <2>4. \A r \in RuleIds : r >= edits'.next => Absent \in during'[r]
      BY <2>1, <2>2
    <2>5. \A r \in RuleIds : during'[r] = {IF r \in DOMAIN rules' THEN rules'[r] ELSE Absent}
      BY <2>1, Zenon
    <2> QED
      BY <2>3, <2>4, <2>5, Zenon DEF VersionsKept
  <1>9. Mail0' = Mail0
    BY <1>5, SameItem
  <1>10. \A r \in DOMAIN rules : Versions(r)' = {rules[r]}
    BY <1>2, <1>3, AbsentApart DEF Versions
  <1>11. ASSUME NEW u \in rows
         PROVE  u.id < edits.next /\ ReadFrom(u)'
    <2>1. PICK r \in chosen : u = row(r)
      OBVIOUS
    <2>2. /\ u.id = r /\ u.priority = rules[r].priority /\ u.match = rules[r].match
          /\ Applies(rules[r], Mail0) /\ r \in DOMAIN rules
      BY <1>4, <2>1
    <2>3. rules[r] \in Versions(u.id)'
      BY <1>10, <2>2
    <2> QED
      BY <1>3, <1>9, <2>2, <2>3, Zenon DEF ReadFrom
  <1>12. ASSUME NEW u \in rows, NEW w \in rows, u.id = w.id
         PROVE  u = w
    <2>1. PICK q \in chosen, r \in chosen : u = row(q) /\ w = row(r)
      OBVIOUS
    <2> QED
      BY <1>4, <1>12, <2>1
  <1>13. ASSUME NEW r \in RuleIds, \A v \in during'[r] : Applies(v, Mail0)
         PROVE  \E u \in rows : u.id = r
    <2>1. r \in DOMAIN rules
      <3>1. ~ Absent.enabled
        BY DEF Absent
      <3>2. ~ Applies(Absent, Mail0)
        BY <3>1, Zenon DEF Applies
      <3> QED
        BY <1>2, <1>13, <3>2
    <2>2. r \in chosen
      BY <1>2, <1>13, <2>1
    <2>3. row(r) \in rows
      BY <2>2
    <2> HIDE DEF chosen, rows
    <2> QED
      BY <1>4, <2>2, <2>3
  <1> HIDE DEF rows
  <1>14. RulesRead'
    <2>1. DOMAIN reader'.loaded = {}
      BY <1>5
    <2>2. \A r \in RuleIds : (\A v \in during'[r] : Applies(v, Mail0)) => RowFound(r)'
      BY <1>5, <1>13, Zenon DEF RowFound
    <2>3. edits' = edits
      BY <1>2
    <2> QED
      BY <1>5, <1>9, <1>11, <1>12, <2>1, <2>2, <2>3, Zenon DEF RulesRead
  <1> QED
    BY <1>5, <1>6, <1>7, <1>8, <1>14, ReadingKept

\* What stays of a row while the rules, and what was read of it, stay.
LEMMA RowStays ==
  ASSUME reader'.items = reader.items, UNCHANGED <<rules, during, edits>>
  PROVE  /\ Mail0' = Mail0
         /\ \A row : ReadFrom(row)' <=> ReadFrom(row)
         /\ \A row : FilledFrom(row)' <=> FilledFrom(row)
         /\ \A row : HalfFilled(row)' <=> HalfFilled(row)
  <1>1. Mail0' = Mail0
    BY SameItem
  <1> QED
    BY <1>1 DEF ReadFrom, FilledFrom, HalfFilled, Emptied, Versions

\* A row reads from its rule by its name and its rank alone.
LEMMA SameRow ==
  ASSUME NEW x, NEW y, x.id = y.id, x.priority = y.priority, x.match = y.match
  PROVE  /\ ReadFrom(x) <=> ReadFrom(y)
         /\ \A z : Before(x, z) <=> Before(y, z)
         /\ \A z : Before(z, x) <=> Before(z, y)
  BY DEF ReadFrom, Before

LEMMA ConditionsKept ==
  ASSUME RInv, SelectConditions
  PROVE  RInv'
  <1>1. RulesTyped /\ VersionsKept /\ RulesRead /\ Active
    BY DEF RInv, SelectConditions, Active, On
  <1> DEFINE row == NextRow
             n == Len(reader.loaded)
             conditions == IF row.id \in DOMAIN rules THEN rules[row.id].conditions ELSE {}
             fresh == [id |-> row.id, priority |-> row.priority, match |-> row.match,
                       conditions |-> conditions, actions |-> <<>>]
             x == [reader EXCEPT !.pc = "actions"]
             y == [x EXCEPT !.unread = reader.unread \ {row}]
             z == [y EXCEPT !.loaded = Append(reader.loaded, fresh)]
  <1>2. /\ On("read") /\ reader.unread # {}
        /\ UNCHANGED <<rules, mailbox, uidValidity, events, needsReplies, settled, told, ruleRegime, edits, during>>
        /\ reader' = z
    BY DEF SelectConditions, ReadOn, OnlyReader, Elsewhere
  <1>3. /\ reader \in ReaderType /\ reader.unread \in SUBSET Listing /\ reader.loaded \in Seq(Loaded)
        /\ "actions" \in ScanStages /\ reader.pc = "read"
    BY <1>1, <1>2 DEF RulesTyped, ReaderType, ScanStages, On
  <1>4. /\ \A u \in reader.unread : u.id < edits.next /\ ReadFrom(u)
        /\ \A u, w \in reader.unread : u.id = w.id => u = w
        /\ \A i \in DOMAIN reader.loaded : RowRead(i)
        /\ \A r \in RuleIds : (\A v \in during[r] : Applies(v, Mail0)) => RowFound(r)
    BY <1>1, <1>3, Zenon DEF RulesRead
  <1>5. row \in reader.unread /\ \A u \in reader.unread \ {row} : Before(row, u)
    BY <1>2, <1>3, <1>4, RowChosen, Chosen
  <1>6. row \in Listing
    BY <1>3, <1>5
  <1> HIDE DEF row
  <1>7. conditions \in SUBSET Condition
    BY <1>1 DEF RulesTyped, Contents
  <1>8. /\ row.id \in DOMAIN rules => rules[row.id] \in Versions(row.id) /\ rules[row.id].conditions = conditions
    BY <1>1, VersionAtHand
  <1> HIDE DEF conditions
  <1>9. /\ fresh \in Loaded /\ fresh.id = row.id /\ fresh.priority = row.priority /\ fresh.match = row.match
        /\ fresh.conditions = conditions /\ fresh.actions = <<>>
    BY <1>6, <1>7 DEF Loaded, Listing
  <1> HIDE DEF fresh
  <1>10. /\ Append(reader.loaded, fresh) \in Seq(Loaded) /\ n \in Nat
         /\ DOMAIN Append(reader.loaded, fresh) = 1 .. (n + 1) /\ DOMAIN reader.loaded = 1 .. n
         /\ Append(reader.loaded, fresh)[n + 1] = fresh
         /\ \A i \in 1 .. n : Append(reader.loaded, fresh)[i] = reader.loaded[i]
         /\ Len(Append(reader.loaded, fresh)) = n + 1
    BY <1>3, <1>9
  <1>11. x \in ReaderType /\ x.pc = "actions" /\ x.items = reader.items
    BY <1>3, ReaderSet, Zenon
  <1> HIDE DEF x
  <1>12. y \in ReaderType /\ y.pc = "actions" /\ y.items = reader.items /\ y.unread = reader.unread \ {row}
    <2>1. reader.unread \ {row} \in SUBSET Listing
      BY <1>3
    <2> QED
      BY <1>11, <2>1, ReaderSet, Zenon
  <1> HIDE DEF y
  <1>13. /\ reader' \in ReaderType /\ reader'.pc = "actions" /\ reader'.items = reader.items
         /\ reader'.unread = reader.unread \ {row} /\ reader'.loaded = Append(reader.loaded, fresh)
    BY <1>2, <1>10, <1>12, ReaderSet, Zenon
  <1> HIDE DEF z, n
  <1>14. Reading
    BY <1>2, <1>3, <1>13 DEF Reading, On, Evaluated
  <1>15. VersionsKept'
    BY <1>1, <1>2 DEF VersionsKept
  <1>16. /\ Mail0' = Mail0
         /\ \A r : ReadFrom(r)' <=> ReadFrom(r)
         /\ \A r : FilledFrom(r)' <=> FilledFrom(r)
         /\ \A r : HalfFilled(r)' <=> HalfFilled(r)
    BY <1>2, <1>13, RowStays
  <1>17. ReadFrom(fresh) /\ fresh.id < edits.next
    BY <1>4, <1>5, <1>9, SameRow
  <1>18. HalfFilled(fresh)
    BY <1>8, <1>9 DEF HalfFilled
  <1>19. \A u : (Before(fresh, u) <=> Before(row, u)) /\ (Before(u, fresh) <=> Before(u, row))
    BY <1>9, SameRow
  <1>20. \A i \in 1 .. (n + 1) : ToFill(i)' <=> i = n + 1
    BY <1>10, <1>13 DEF ToFill, On
  <1>21. ASSUME NEW i \in 1 .. n
         PROVE  RowRead(i)'
    <2>1. RowRead(i) /\ ~ ToFill(i) /\ i \in 1 .. (n + 1) /\ i # n + 1
      BY <1>3, <1>4, <1>10 DEF ToFill, On
    <2>2. reader'.loaded[i] = reader.loaded[i] /\ ~ ToFill(i)'
      BY <1>10, <1>13, <1>20, <2>1
    <2>3. \A j \in DOMAIN reader'.loaded : i < j => Before(reader.loaded[i], reader'.loaded[j])
      <3> SUFFICES ASSUME NEW j \in 1 .. (n + 1), i < j
                   PROVE  Before(reader.loaded[i], reader'.loaded[j])
        BY <1>10, <1>13
      <3>1. CASE j = n + 1
        BY <1>5, <1>10, <1>13, <1>19, <2>1, <3>1 DEF RowRead
      <3>2. CASE j # n + 1
        <4>1. j \in 1 .. n
          BY <1>10, <3>2
        <4> QED
          BY <1>10, <1>13, <2>1, <4>1 DEF RowRead
      <3> QED
        BY <3>1, <3>2
    <2>4. \A u \in reader'.unread : Before(reader.loaded[i], u)
      BY <1>13, <2>1 DEF RowRead
    <2>5. edits' = edits
      BY <1>2
    <2> QED
      BY <1>16, <2>1, <2>2, <2>3, <2>4, <2>5, Zenon DEF RowRead
  <1>22. ASSUME NEW i, i = n + 1
         PROVE  RowRead(i)'
    <2>1. i \in 1 .. (n + 1) /\ reader'.loaded[i] = fresh
      BY <1>10, <1>13, <1>22
    <2>2. \A j \in DOMAIN reader'.loaded : ~ (i < j)
      BY <1>10, <1>13, <1>22
    <2>3. \A u \in reader'.unread : Before(fresh, u)
      BY <1>5, <1>13, <1>19
    <2>4. edits' = edits /\ ToFill(i)'
      BY <1>2, <1>20, <1>22, <2>1
    <2> QED
      BY <1>16, <1>17, <1>18, <2>1, <2>2, <2>3, <2>4, Zenon DEF RowRead
  <1>23. \A i \in DOMAIN reader'.loaded : RowRead(i)'
    <2> SUFFICES ASSUME NEW i \in 1 .. (n + 1) PROVE RowRead(i)'
      BY <1>10, <1>13
    <2>1. i = n + 1 \/ i \in 1 .. n
      BY <1>10
    <2> QED
      BY <1>21, <1>22, <2>1
  <1>24. ASSUME NEW r, RowFound(r)
         PROVE  RowFound(r)'
    <2>1. CASE r = row.id
      <3>1. n + 1 \in DOMAIN reader'.loaded /\ reader'.loaded[n + 1].id = r
        BY <1>9, <1>10, <1>13, <2>1
      <3> QED
        BY <3>1, Zenon DEF RowFound
    <2>2. CASE r # row.id
      <3>1. \A u \in reader.unread : u.id = r => u \in reader'.unread
        BY <1>13, <2>2
      <3>2. \A i \in DOMAIN reader.loaded : i \in DOMAIN reader'.loaded /\ reader'.loaded[i] = reader.loaded[i]
        BY <1>10, <1>13
      <3> QED
        BY <1>24, <3>1, <3>2, Zenon DEF RowFound
    <2> QED
      BY <2>1, <2>2
  <1>25. RulesRead'
    <2>1. during' = during /\ edits' = edits /\ reader'.unread \subseteq reader.unread
      BY <1>2, <1>13
    <2>2. \A u \in reader'.unread : u.id < edits'.next /\ ReadFrom(u)'
      BY <1>4, <1>16, <2>1
    <2>3. \A u, w \in reader'.unread : u.id = w.id => u = w
      BY <1>4, <2>1
    <2>4. \A r \in RuleIds : (\A v \in during'[r] : Applies(v, Mail0')) => RowFound(r)'
      BY <1>4, <1>16, <1>24, <2>1, Zenon
    <2>5. \A v : Applies(v, Mail0)' <=> Applies(v, Mail0')
      BY DEF Applies
    <2> QED
      BY <1>23, <2>2, <2>3, <2>4, <2>5, Zenon DEF RulesRead
  <1>26. reader'.loaded # <<>> /\ during' \in [RuleIds -> SUBSET (Contents \cup {Absent})]
    <2>1. reader'.loaded # <<>>
      <3>1. n + 1 \in 1 .. (n + 1) /\ DOMAIN <<>> = {}
        BY <1>10
      <3>2. DOMAIN reader'.loaded = 1 .. (n + 1)
        BY <1>10, <1>13, Zenon
      <3> QED
        BY <3>1, <3>2
    <2>2. during \in [RuleIds -> SUBSET (Contents \cup {Absent})] /\ during' = during
      BY <1>1, <1>2 DEF RulesTyped
    <2> QED
      BY <2>1, <2>2
  <1> QED
    BY <1>14, <1>15, <1>25, <1>26, ReadingKept

LEMMA FilledKept ==
  ASSUME RInv, SelectActions
  PROVE  RInv'
  <1>1. RulesTyped /\ VersionsKept /\ RulesRead /\ Active /\ Placed0
    BY DEF RInv, SelectActions, Active, On
  <1> DEFINE n == Len(reader.loaded)
             old == reader.loaded[n]
             actions == IF old.id \in DOMAIN rules THEN rules[old.id].actions ELSE <<>>
             new == [old EXCEPT !.actions = actions]
             loaded == [reader.loaded EXCEPT ![n] = new]
             x == [reader EXCEPT !.pc = "read"]
             z == [x EXCEPT !.loaded = loaded]
  <1>2. /\ On("actions")
        /\ UNCHANGED <<rules, mailbox, uidValidity, events, needsReplies, settled, told, ruleRegime, edits, during>>
    BY DEF SelectActions, ReadOn, OnlyReader, Elsewhere
  <1>3. /\ reader \in ReaderType /\ reader.unread \in SUBSET Listing /\ reader.loaded \in Seq(Loaded)
        /\ "read" \in ScanStages /\ reader.pc = "actions" /\ reader.loaded # <<>>
    BY <1>1, <1>2 DEF RulesTyped, ReaderType, ScanStages, On, Placed0
  <1>4. reader' = [reader EXCEPT !.pc = "read", !.loaded[n].actions = actions]
    BY DEF SelectActions, ReadOn
  <1>5. n \in Nat \ {0} /\ DOMAIN reader.loaded = 1 .. n /\ n \in 1 .. n /\ old \in Loaded
    BY <1>3
  <1>6. reader' = z
    <2>1. DOMAIN x = DOMAIN reader /\ x.loaded = reader.loaded
      BY <1>3, ReaderSet, Zenon
    <2> QED
      BY <1>4, <2>1
  <1>7. actions \in Seq(Action) /\ (old.id \in DOMAIN rules => actions = rules[old.id].actions)
        /\ (old.id \notin DOMAIN rules => actions = <<>>)
    <2>1. old.id \in DOMAIN rules => rules[old.id].actions \in Seq(Action)
      BY <1>1 DEF RulesTyped, Contents
    <2> QED
      BY <2>1
  <1> HIDE DEF actions
  <1>8. /\ new \in Loaded /\ new.id = old.id /\ new.priority = old.priority /\ new.match = old.match
        /\ new.conditions = old.conditions /\ new.actions = actions
    BY <1>5, <1>7 DEF Loaded
  <1> HIDE DEF new
  <1>9. /\ loaded \in Seq(Loaded) /\ DOMAIN loaded = 1 .. n /\ loaded[n] = new
        /\ \A i \in 1 .. n : i # n => loaded[i] = reader.loaded[i]
    BY <1>3, <1>5, <1>8
  <1> HIDE DEF loaded
  <1>10. x \in ReaderType /\ x.pc = "read" /\ x.items = reader.items /\ x.unread = reader.unread
    BY <1>3, ReaderSet, Zenon
  <1> HIDE DEF x
  <1>11. /\ reader' \in ReaderType /\ reader'.pc = "read" /\ reader'.items = reader.items
         /\ reader'.unread = reader.unread /\ reader'.loaded = loaded
    BY <1>6, <1>9, <1>10, ReaderSet, Zenon
  <1> HIDE DEF z, old
  <1>12. Reading
    BY <1>2, <1>3, <1>11 DEF Reading, On, Evaluated
  <1>13. VersionsKept'
    <2>1. Active'
      BY <1>11 DEF Active
    <2> QED
      BY <1>1, <1>2 DEF VersionsKept
  <1>14. /\ Mail0' = Mail0
         /\ \A r : ReadFrom(r)' <=> ReadFrom(r)
         /\ \A r : FilledFrom(r)' <=> FilledFrom(r)
         /\ \A r : HalfFilled(r)' <=> HalfFilled(r)
    BY <1>2, <1>11, RowStays
  <1>15. /\ \A u \in reader.unread : u.id < edits.next /\ ReadFrom(u)
         /\ \A u, w \in reader.unread : u.id = w.id => u = w
         /\ \A i \in DOMAIN reader.loaded : RowRead(i)
         /\ \A r \in RuleIds : (\A v \in during[r] : Applies(v, Mail0)) => RowFound(r)
    BY <1>1, <1>3, Zenon DEF RulesRead
  <1>16. old = reader.loaded[n]
    BY DEF old
  <1>17. FilledFrom(new)
    <2>1. HalfFilled(old)
      BY <1>3, <1>5, <1>15, <1>16 DEF RowRead, ToFill, On
    <2>2. CASE old.id \in DOMAIN rules
      <3>1. rules[old.id] \in Versions(old.id)
        BY <1>1, <2>2, VersionAtHand
      <3> QED
        BY <1>7, <1>8, <2>1, <2>2, <3>1 DEF HalfFilled, FilledFrom
    <2>3. CASE old.id \notin DOMAIN rules
      BY <1>7, <1>8, <2>3 DEF FilledFrom, Emptied
    <2> QED
      BY <2>2, <2>3
  <1>18. \A i \in 1 .. n : /\ reader'.loaded[i].id = reader.loaded[i].id
                           /\ reader'.loaded[i].priority = reader.loaded[i].priority
                           /\ reader'.loaded[i].match = reader.loaded[i].match
    BY <1>8, <1>9, <1>11, <1>16
  <1>19. ASSUME NEW i \in 1 .. n
         PROVE  RowRead(i)'
    <2>1. RowRead(i)
      BY <1>5, <1>15
    <2>2. /\ ReadFrom(reader'.loaded[i]) <=> ReadFrom(reader.loaded[i])
          /\ \A z1 : Before(reader'.loaded[i], z1) <=> Before(reader.loaded[i], z1)
      BY <1>18, SameRow
    <2>3. reader'.loaded[i].id < edits.next /\ ReadFrom(reader'.loaded[i])
      BY <1>18, <2>1, <2>2 DEF RowRead
    <2>4. \A u \in reader'.unread : Before(reader'.loaded[i], u)
      BY <1>11, <2>1, <2>2 DEF RowRead
    <2>5. \A j \in 1 .. n : i < j => Before(reader'.loaded[i], reader'.loaded[j])
      <3> SUFFICES ASSUME NEW j \in 1 .. n, i < j
                   PROVE  Before(reader'.loaded[i], reader'.loaded[j])
        OBVIOUS
      <3>1. Before(reader.loaded[i], reader.loaded[j])
        BY <1>5, <2>1 DEF RowRead
      <3>2. \A z1 : Before(z1, reader'.loaded[j]) <=> Before(z1, reader.loaded[j])
        BY <1>18, SameRow
      <3> QED
        BY <2>2, <3>1, <3>2
    <2>6. FilledFrom(reader'.loaded[i])
      <3>1. CASE i = n
        BY <1>9, <1>11, <1>17, <3>1
      <3>2. CASE i # n
        <4>1. ~ ToFill(i)
          BY <1>5, <3>2 DEF ToFill
        <4> QED
          BY <1>9, <1>11, <2>1, <3>2, <4>1 DEF RowRead
      <3> QED
        BY <3>1, <3>2
    <2>7. ~ ToFill(i)' /\ DOMAIN reader'.loaded = 1 .. n /\ edits' = edits
      BY <1>2, <1>9, <1>11 DEF ToFill, On
    <2> QED
      BY <1>14, <2>3, <2>4, <2>5, <2>6, <2>7, Zenon DEF RowRead
  <1>20. ASSUME NEW r, RowFound(r)
         PROVE  RowFound(r)'
    <2>1. \A i \in DOMAIN reader.loaded : i \in DOMAIN reader'.loaded /\ reader'.loaded[i].id = reader.loaded[i].id
      BY <1>5, <1>9, <1>11, <1>18
    <2> QED
      BY <1>11, <1>20, <2>1, Zenon DEF RowFound
  <1>21. RulesRead'
    <2>1. during' = during /\ edits' = edits /\ reader'.unread = reader.unread
      BY <1>2, <1>11
    <2>2. \A u \in reader'.unread : u.id < edits'.next /\ ReadFrom(u)'
      BY <1>14, <1>15, <2>1
    <2>3. \A u, w \in reader'.unread : u.id = w.id => u = w
      BY <1>15, <2>1
    <2>4. \A r \in RuleIds : (\A v \in during'[r] : Applies(v, Mail0')) => RowFound(r)'
      BY <1>14, <1>15, <1>20, <2>1, Zenon
    <2>5. \A v : Applies(v, Mail0)' <=> Applies(v, Mail0')
      BY DEF Applies
    <2>6. \A i \in DOMAIN reader'.loaded : RowRead(i)'
      BY <1>9, <1>11, <1>19
    <2> QED
      BY <2>2, <2>3, <2>4, <2>5, <2>6, Zenon DEF RulesRead
  <1>22. during' \in [RuleIds -> SUBSET (Contents \cup {Absent})]
    BY <1>1, <1>2 DEF RulesTyped
  <1> QED
    BY <1>11, <1>12, <1>13, <1>21, <1>22, ReadingKept
-----------------------------------------------------------------------------
(***************************************************************************)
(* The plan is made.                                                       *)
(***************************************************************************)
SameAs(row, rule) == /\ row.conditions = rule.conditions /\ row.match = rule.match
                     /\ row.actions = rule.actions /\ row.priority = rule.priority

Ready == On("read") /\ reader.unread = {}
Rows == 1 .. Len(reader.loaded)
Row(i) == reader.loaded[i]

LEMMA AllRead ==
  ASSUME RInv, Ready
  PROVE  /\ reader.loaded \in Seq(Loaded) /\ DOMAIN reader.loaded = Rows /\ Len(reader.loaded) \in Nat
         /\ \A i \in Rows : Row(i) \in Loaded /\ ReadFrom(Row(i)) /\ FilledFrom(Row(i))
         /\ \A i, j \in Rows : i < j => Before(Row(i), Row(j))
         /\ \A r \in RuleIds : (\A v \in during[r] : Applies(v, Mail0)) => \E i \in Rows : Row(i).id = r
  <1>1. RulesTyped /\ RulesRead /\ reader.pc = "read" /\ reader.unread = {}
    BY DEF RInv, Ready, On
  <1>2. reader.loaded \in Seq(Loaded) /\ DOMAIN reader.loaded = Rows /\ Len(reader.loaded) \in Nat
    BY <1>1 DEF RulesTyped, Rows
  <1>3. \A i \in Rows : Row(i) \in Loaded
    BY <1>2 DEF Row, Rows
  <1>4. \A i \in Rows : RowRead(i) /\ ~ ToFill(i)
    BY <1>1, <1>2 DEF RulesRead, ToFill, On
  <1>5. \A i \in Rows : ReadFrom(Row(i)) /\ FilledFrom(Row(i))
    BY <1>4, Zenon DEF RowRead, Row
  <1>6. \A i, j \in Rows : i < j => Before(Row(i), Row(j))
    BY <1>2, <1>4, Zenon DEF RowRead, Row
  <1>7. \A r \in RuleIds : (\A v \in during[r] : Applies(v, Mail0)) => \E i \in Rows : Row(i).id = r
    <2>1. \A r \in RuleIds : (\A v \in during[r] : Applies(v, Mail0)) => RowFound(r)
      BY <1>1 DEF RulesRead
    <2> QED
      BY <1>1, <1>2, <2>1 DEF RowFound, Row
  <1> QED
    BY <1>2, <1>3, <1>5, <1>6, <1>7

LEMMA RowUnedited ==
  ASSUME RInv, Ready, NEW i \in Rows, NEW r, r = Row(i).id, r \in DOMAIN rules, Unedited(r)
  PROVE  SameAs(Row(i), rules[r]) /\ Applies(rules[r], Mail0)
  <1>1. ReadFrom(Row(i)) /\ FilledFrom(Row(i))
    BY AllRead
  <1>2. Versions(r) \subseteq {rules[r]}
    BY DEF Versions, Unedited
  <1>3. ~ Emptied(Row(i))
    BY DEF Emptied
  <1> QED
    BY <1>1, <1>2, <1>3 DEF ReadFrom, FilledFrom, SameAs

LEMMA SameOutcome ==
  ASSUME NEW x, NEW y, SameAs(x, y), NEW m
  PROVE  /\ Matches(x, m) <=> Matches(y, m)
         /\ Halts(x, m) <=> Halts(y, m)
         /\ Acts(x, m) <=> Acts(y, m)
         /\ Stops(x) <=> Stops(y)
         /\ ActionsOf(x) = ActionsOf(y)
  BY SameRule DEF SameAs

LEMMA UneditedRow ==
  ASSUME RInv, Ready, NEW r \in DOMAIN rules, Unedited(r), Applies(rules[r], Mail0)
  PROVE  \E i \in Rows : Row(i).id = r /\ SameAs(Row(i), rules[r])
  <1>1. r \in RuleIds
    BY DEF RInv, RulesTyped
  <1>2. \A v \in during[r] : Applies(v, Mail0)
    BY DEF Unedited
  <1>3. PICK i \in Rows : Row(i).id = r
    BY <1>1, <1>2, AllRead
  <1> QED
    BY <1>3, RowUnedited

\* The order of two rules not edited is the order of their rows.
LEMMA RowOrder ==
  ASSUME RInv, Ready, NEW i \in Rows, NEW j \in Rows, NEW a \in DOMAIN rules, NEW b \in DOMAIN rules,
         Row(i).id = a, Row(j).id = b, Unedited(a), Unedited(b)
  PROVE  /\ i < j => Precedes(a, b)
         /\ Precedes(a, b) => i < j
  <1>1. /\ a \in Int /\ b \in Int /\ rules[a].priority \in Int /\ rules[b].priority \in Int /\ i \in Int /\ j \in Int
    <2>1. /\ a \in RuleIds /\ b \in RuleIds /\ rules[a] \in Contents /\ rules[b] \in Contents
      BY DEF RInv, RulesTyped
    <2>2. RuleIds \subseteq Int
      BY RulesAssumption, FS_CardinalityType
    <2>3. Rows \subseteq Int
      BY AllRead DEF Rows
    <2> QED
      BY <2>1, <2>2, <2>3 DEF Contents
  <1>2. Row(i).priority = rules[a].priority /\ Row(j).priority = rules[b].priority
    BY RowUnedited DEF SameAs
  <1>3. /\ i < j => Before(Row(i), Row(j))
        /\ j < i => Before(Row(j), Row(i))
    BY AllRead
  <1>4. i = j => a = b
    OBVIOUS
  <1>5. i < j => Precedes(a, b)
    BY <1>2, <1>3 DEF Precedes, Before
  <1>6. j < i => Precedes(b, a)
    BY <1>2, <1>3 DEF Precedes, Before
  <1>7. ~ (Precedes(a, b) /\ Precedes(b, a)) /\ ~ Precedes(a, a)
    BY <1>1 DEF Precedes, Before
  <1> QED
    BY <1>1, <1>4, <1>5, <1>6, <1>7

\* An action is planned where the row of its rule acts and no row before it ends the evaluation.
Acted(s, j) ==
  /\ s.rule = Row(j).id /\ s.action \in ToSet(ActionsOf(Row(j)))
  /\ Acts(Row(j), Mail0)
  /\ \A i \in Rows : i < j => ~ Halts(Row(i), Mail0)

LEMMA PlanMade ==
  ASSUME RInv, Ready, NEW todo, todo = Plan(Mail0, reader.loaded)
  PROVE  /\ todo \in Seq(StepType)
         /\ \A s : Benign(s) => (s \in ToSet(todo) <=> \E j \in Rows : Acted(s, j))
  <1>1. /\ reader.loaded \in Seq(Loaded) /\ Len(reader.loaded) \in Nat
        /\ \A i \in Rows : Row(i) \in Loaded
    BY AllRead
  <1>2. /\ todo \in Seq(StepType)
        /\ \A s : Benign(s) => (s \in ToSet(todo) <=> \E j \in Rows : ActedOn(reader.loaded, Mail0, j, s))
    BY <1>1, PlanRight, Zenon DEF Rows
  <1>3. ASSUME NEW j \in Rows
        PROVE  InTurn(reader.loaded, Mail0, j) <=> \A i \in Rows : i < j => ~ Halts(Row(i), Mail0)
    <2>1. \A i : i \in 1 .. (j - 1) <=> i \in Rows /\ i < j
      BY <1>1 DEF Rows
    <2> QED
      BY <2>1, Zenon DEF InTurn, Row
  <1>4. ASSUME NEW s, NEW j \in Rows, Benign(s)
        PROVE  s \in ToSet(Steps(Row(j))) <=> s.rule = Row(j).id /\ s.action \in ToSet(ActionsOf(Row(j)))
    <2>1. s \in StepType
      BY <1>4 DEF Benign
    <2> QED
      BY <1>1, <2>1, StepsRight, Zenon
  <1>5. \A s, j : ActedOn(reader.loaded, Mail0, j, s) <=>
          InTurn(reader.loaded, Mail0, j) /\ Acts(Row(j), Mail0) /\ s \in ToSet(Steps(Row(j)))
    BY Zenon DEF ActedOn, Row
  <1>6. ASSUME NEW s, NEW j \in Rows, Benign(s)
        PROVE  ActedOn(reader.loaded, Mail0, j, s) <=> Acted(s, j)
    BY <1>3, <1>4, <1>5, <1>6, Zenon DEF Acted
  <1> QED
    BY <1>2, <1>6, Zenon

\* With the plan made, what was said of the plan holds.
Evaluating ==
  /\ Ready /\ reader' = [reader EXCEPT !.pc = "act", !.todo = Plan(Mail0, reader.loaded)]
  /\ UNCHANGED <<rules, mailbox, uidValidity, events, needsReplies, settled, told, ruleRegime, edits, during>>

LEMMA Evaluates ==
  ASSUME RInv, Evaluating
  PROVE  /\ reader' \in ReaderType /\ reader'.pc = "act" /\ reader'.items = reader.items
         /\ Mail0' = Mail0
         /\ \A s : s \in Planned' <=> Benign(s) /\ \E j \in Rows : Acted(s, j)
         /\ \A r, type : AheadOf(r, type)' <=> \E s \in ToSet(reader'.todo) : s.rule = r /\ s.action.type = type
  <1> DEFINE todo == Plan(Mail0, reader.loaded)
             x == [reader EXCEPT !.pc = "act"]
             y == [x EXCEPT !.todo = todo]
  <1>1. reader \in ReaderType /\ "act" \in ScanStages
    BY DEF RInv, RulesTyped, ReaderType, ScanStages
  <1>2. reader' = y
    BY DEF Evaluating
  <1>3. /\ todo \in Seq(StepType)
        /\ \A s : Benign(s) => (s \in ToSet(todo) <=> \E j \in Rows : Acted(s, j))
    BY PlanMade DEF Evaluating
  <1> HIDE DEF todo
  <1>4. x \in ReaderType /\ x.pc = "act" /\ x.items = reader.items
    BY <1>1, ReaderSet, Zenon
  <1> HIDE DEF x
  <1>5. reader' \in ReaderType /\ reader'.pc = "act" /\ reader'.items = reader.items /\ reader'.todo = todo
    BY <1>2, <1>3, <1>4, ReaderSet, Zenon
  <1> HIDE DEF y
  <1>6. Mail0' = Mail0
    BY <1>5, SameItem
  <1>7. \A s \in ToSet(todo) : s \in StepType
    BY <1>3 DEF ToSet
  <1>8. \A s : s \in Planned' <=> Benign(s) /\ \E j \in Rows : Acted(s, j)
    <2>1. Planned' = {s \in ToSet(todo) : s.action.type # "raise"}
      BY <1>5 DEF Planned, ToSet
    <2> QED
      BY <1>3, <1>7, <2>1 DEF Benign
  <1>9. \A r, type : AheadOf(r, type)' <=> \E s \in ToSet(reader'.todo) : s.rule = r /\ s.action.type = type
    BY Zenon DEF AheadOf, ToSet
  <1> QED
    BY <1>5, <1>6, <1>8, <1>9

LEMMA EvaluatedSaved ==
  ASSUME RInv, Evaluating
  PROVE  ActionsWereSaved'
  <1>1. during' = during /\ Mail0' = Mail0 /\ Ready
    BY Evaluates DEF Evaluating
  <1>2. ASSUME NEW step \in Planned'
        PROVE  /\ \E v \in during[step.rule] : v.enabled /\ v.account \in {Everyone, AccountOf[Mail0]}
               /\ \E v, w \in during[step.rule] :
                    /\ v.conditions = {} \/ \E c \in v.conditions : Holds(c, Mail0)
                    /\ w.match = "ALL" => \A c \in v.conditions : Holds(c, Mail0)
               /\ \E v \in during[step.rule] : step.action \in ToSet(v.actions) \cup {Stop}
    <2>1. PICK j \in Rows : Acted(step, j)
      BY <1>2, Evaluates
    <2> DEFINE row == Row(j)
    <2>2. row \in Loaded /\ ReadFrom(row) /\ FilledFrom(row)
      BY <1>1, AllRead
    <2>3. step.rule = row.id /\ step.action \in ToSet(ActionsOf(row)) /\ Acts(row, Mail0)
      BY <2>1 DEF Acted
    <2> HIDE DEF row
    <2>4. row.actions \in Seq(Action)
      BY <2>2 DEF Loaded
    <2>5. ToSet(ActionsOf(row)) \subseteq ToSet(row.actions) \cup {Stop} /\ row.actions # <<>>
      BY <2>3, <2>4, ActionsRight
    <2>6. ~ Emptied(row)
      BY <2>5 DEF Emptied
    <2>7. PICK u \in Versions(row.id) : Applies(u, Mail0) /\ u.match = row.match
      BY <2>2 DEF ReadFrom
    <2>8. PICK v \in Versions(row.id) : v.conditions = row.conditions
      BY <2>2, <2>6 DEF FilledFrom
    <2>9. PICK w \in Versions(row.id) : w.actions = row.actions
      BY <2>2, <2>6 DEF FilledFrom
    <2>10. u \in during[step.rule] /\ v \in during[step.rule] /\ w \in during[step.rule]
      BY <2>3 DEF Versions
    <2>11. Matches(row, Mail0) /\ row.match \in {"ALL", "ANY"}
      BY <2>2, <2>3 DEF Acts, Loaded
    <2>12. u.enabled /\ u.account \in {Everyone, AccountOf[Mail0]}
      BY <2>7, Zenon DEF Applies
    <2>13. /\ v.conditions = {} \/ \E c \in v.conditions : Holds(c, Mail0)
           /\ u.match = "ALL" => \A c \in v.conditions : Holds(c, Mail0)
      BY <2>7, <2>8, <2>11 DEF Matches
    <2>14. step.action \in ToSet(w.actions) \cup {Stop}
      BY <2>3, <2>5, <2>9
    <2> QED
      BY <2>10, <2>12, <2>13, <2>14, Zenon
  <1> QED
    BY <1>1, <1>2, Zenon DEF ActionsWereSaved

LEMMA EvaluatedFinal ==
  ASSUME RInv, Evaluating
  PROVE  StopsAreFinal'
  <1>1. /\ during' = during /\ rules' = rules /\ Mail0' = Mail0 /\ Ready
    BY Evaluates DEF Evaluating
  <1>2. /\ \A a, b : Precedes(a, b)' <=> Precedes(a, b)
        /\ \A r : Unedited(r)' <=> Unedited(r)
    BY <1>1 DEF Precedes, Unedited
  <1>3. ASSUME NEW step \in Planned', NEW a \in DOMAIN rules,
               Unedited(a), Applies(rules[a], Mail0), Matches(rules[a], Mail0), Stops(rules[a]),
               step.rule # a, step.rule \in DOMAIN rules, Unedited(step.rule)
        PROVE  ~ Precedes(a, step.rule)
    <2>1. PICK k \in Rows : Row(k).id = a /\ SameAs(Row(k), rules[a])
      BY <1>1, <1>3, UneditedRow
    <2>2. Halts(Row(k), Mail0)
      <3>1. Halts(rules[a], Mail0)
        BY <1>3, Zenon DEF Halts
      <3> QED
        BY <2>1, <3>1, SameOutcome
    <2>3. PICK j \in Rows : Acted(step, j)
      BY <1>3, Evaluates
    <2>4. step.rule = Row(j).id /\ ~ (k < j)
      BY <2>2, <2>3 DEF Acted
    <2>5. Precedes(a, step.rule) => k < j
      BY <1>1, <1>3, <2>1, <2>4, RowOrder
    <2> QED
      BY <2>4, <2>5
  <1>4. \A rule : (\E i \in DOMAIN rule.actions : rule.actions[i].stop \/ rule.actions[i].type = "stop_processing")
                    => Stops(rule)
    BY Zenon DEF Stops
  <1> QED
    BY <1>1, <1>2, <1>3, <1>4, Zenon DEF StopsAreFinal

LEMMA NothingEdited ==
  ASSUME RInv, Ready, edits.made = 0
  PROVE  /\ \A r \in DOMAIN rules : Unedited(r)
         /\ \A i \in Rows : Row(i).id \in DOMAIN rules
  <1>1. VersionsKept /\ Active /\ \A r \in DOMAIN rules : r \in RuleIds
    BY DEF RInv, Ready, On, Active, RulesTyped
  <1>2. \A r \in RuleIds : during[r] = {IF r \in DOMAIN rules THEN rules[r] ELSE Absent}
    BY <1>1 DEF VersionsKept
  <1>3. \A r \in DOMAIN rules : Unedited(r)
    BY <1>1, <1>2 DEF Unedited
  <1>4. ASSUME NEW i \in Rows, Row(i).id \notin DOMAIN rules
        PROVE  FALSE
    <2>1. Row(i).id \in RuleIds /\ ReadFrom(Row(i))
      BY AllRead DEF Loaded
    <2>2. Versions(Row(i).id) = {}
      BY <1>2, <1>4, <2>1 DEF Versions
    <2> QED
      BY <2>1, <2>2 DEF ReadFrom
  <1> QED
    BY <1>3, <1>4

LEMMA EvaluatedDue ==
  ASSUME RInv, Evaluating, edits.made = 0
  PROVE  /\ \A step \in Planned' : Due(Mail0, step.rule, step.action.type)
         /\ \A r \in RuleIds, type \in MutationTypes : Due(Mail0, r, type) => AheadOf(r, type)'
  <1>1. /\ Ready
        /\ \A r \in DOMAIN rules : Unedited(r)
        /\ \A i \in Rows : Row(i).id \in DOMAIN rules
    BY NothingEdited DEF Evaluating
  <1>2. ASSUME NEW i \in Rows
        PROVE  SameAs(Row(i), rules[Row(i).id]) /\ Applies(rules[Row(i).id], Mail0)
    <2>1. \A r : r = Row(i).id /\ r \in DOMAIN rules /\ Unedited(r) => SameAs(Row(i), rules[r]) /\ Applies(rules[r], Mail0)
      BY <1>1, RowUnedited
    <2> QED
      BY <1>1, <2>1
  <1>3. \A r \in DOMAIN rules : Applies(rules[r], Mail0) => \E i \in Rows : Row(i).id = r
    BY <1>1, UneditedRow
  <1>4. ASSUME NEW i \in Rows, NEW j \in Rows
        PROVE  i < j <=> Precedes(Row(i).id, Row(j).id)
    <2>1. \A a, b \in DOMAIN rules : Row(i).id = a /\ Row(j).id = b /\ Unedited(a) /\ Unedited(b) =>
            (i < j => Precedes(a, b)) /\ (Precedes(a, b) => i < j)
      BY <1>1, RowOrder
    <2> QED
      BY <1>1, <2>1
  <1>5. ASSUME NEW i \in Rows
        PROVE  /\ Halts(Row(i), Mail0) <=> Halts(rules[Row(i).id], Mail0)
               /\ Acts(Row(i), Mail0) <=> Acts(rules[Row(i).id], Mail0)
               /\ ActionsOf(Row(i)) = ActionsOf(rules[Row(i).id])
    BY <1>2, SameOutcome
  <1>6. ASSUME NEW step \in Planned'
        PROVE  Due(Mail0, step.rule, step.action.type)
    <2>1. PICK j \in Rows : Acted(step, j)
      BY <1>6, Evaluates
    <2>2. /\ step.rule = Row(j).id /\ step.action \in ToSet(ActionsOf(Row(j))) /\ Acts(Row(j), Mail0)
          /\ \A i \in Rows : i < j => ~ Halts(Row(i), Mail0)
      BY <2>1 DEF Acted
    <2>3. ASSUME NEW a \in DOMAIN rules, Precedes(a, Row(j).id), Applies(rules[a], Mail0)
          PROVE  ~ Halts(rules[a], Mail0)
      <3>1. PICK i \in Rows : Row(i).id = a
        BY <1>3, <2>3
      <3> QED
        BY <1>4, <1>5, <2>2, <2>3, <3>1
    <2>4. step.rule \in DOMAIN rules /\ Applies(rules[step.rule], Mail0) /\ Acts(rules[step.rule], Mail0)
      BY <1>1, <1>2, <1>5, <2>2
    <2>5. \E a \in ToSet(ActionsOf(rules[step.rule])) : a.type = step.action.type
      BY <1>5, <2>2
    <2> QED
      BY <2>2, <2>3, <2>4, <2>5 DEF Due
  <1>7. ASSUME NEW r \in RuleIds, NEW type \in MutationTypes, Due(Mail0, r, type)
        PROVE  AheadOf(r, type)'
    <2>1. /\ r \in DOMAIN rules /\ Applies(rules[r], Mail0) /\ Acts(rules[r], Mail0)
          /\ \A a \in DOMAIN rules : Precedes(a, r) /\ Applies(rules[a], Mail0) => ~ Halts(rules[a], Mail0)
      BY <1>7 DEF Due
    <2>2. PICK act \in ToSet(ActionsOf(rules[r])) : act.type = type
      BY <1>7 DEF Due
    <2>3. PICK j \in Rows : Row(j).id = r
      BY <1>3, <2>1
    <2> DEFINE step == [rule |-> r, action |-> act]
    <2>4. act \in ToSet(ActionsOf(Row(j))) /\ Acts(Row(j), Mail0)
      BY <1>5, <2>1, <2>2, <2>3
    <2>5. \A i \in Rows : i < j => ~ Halts(Row(i), Mail0)
      BY <1>1, <1>2, <1>4, <1>5, <2>1, <2>3
    <2>6. act \in Action
      <3>1. Row(j).actions \in Seq(Action)
        BY <1>1, AllRead DEF Loaded
      <3>2. ActionsOf(Row(j)) \in Seq(Action)
        BY <3>1, ActionsRight
      <3> QED
        BY <2>4, <3>2 DEF ToSet
    <2>7. step.rule = r /\ step.action = act /\ Benign(step)
      <3>1. act.type # "raise"
        BY <2>2 DEF MutationTypes, AllowGated
      <3> QED
        BY <2>6, <3>1 DEF Benign, StepType
    <2> HIDE DEF step
    <2>8. Acted(step, j)
      BY <2>3, <2>4, <2>5, <2>7 DEF Acted
    <2>9. step \in Planned'
      BY <2>7, <2>8, Evaluates
    <2>10. step \in ToSet(reader'.todo)
      BY <2>9 DEF Planned, ToSet
    <2> QED
      BY <2>2, <2>7, <2>10, Evaluates
  <1> QED
    BY <1>6, <1>7

LEMMA EvaluatedKept ==
  ASSUME RInv, EvaluateMessage
  PROVE  RInv'
  <1>1. RulesTyped /\ Placed0 /\ ItemsInHand /\ CopiesFirst /\ Answered /\ VersionsKept /\ DuesPaid
    BY DEF RInv
  <1>2. Evaluating
    BY DEF EvaluateMessage, Evaluating, Ready, ReadOn, OnlyReader, Elsewhere
  <1>3. /\ reader.pc = "read"
        /\ UNCHANGED <<rules, mailbox, uidValidity, events, needsReplies, settled, told, ruleRegime, edits, during>>
    BY <1>2 DEF Evaluating, Ready, On
  <1>4. reader' \in ReaderType /\ reader'.pc = "act" /\ reader'.items = reader.items /\ Mail0' = Mail0
    BY <1>2, Evaluates
  <1>5. ActionsWereSaved' /\ StopsAreFinal'
    BY <1>2, EvaluatedSaved, EvaluatedFinal
  <1>6. RulesTyped'
    BY <1>1, <1>3, <1>4 DEF RulesTyped, ReaderType
  <1>7. Placed0'
    BY <1>1, <1>3, <1>4 DEF Placed0, On, Changing
  <1>8. ItemsInHand' /\ CopiesFirst' /\ Answered'
    BY <1>1, <1>3, <1>4 DEF ItemsInHand, CopiesFirst, NoMailIsLost, On, Answered
  <1>9. VersionsKept' /\ RulesRead'
    BY <1>1, <1>3, <1>4 DEF VersionsKept, Active, RulesRead
  <1>10. DuesPaid'
    <2>1. /\ \A m, r, type : Due(m, r, type)' <=> Due(m, r, type)
          /\ \A m, r, type : Over(m, r, type)' <=> Over(m, r, type)
      BY <1>3 DEF Due, Over, Precedes
    <2>2. /\ edits' = edits /\ events' = events /\ settled' = settled /\ ruleRegime' = ruleRegime
      BY <1>3
    <2>3. /\ \A m \in RuleMails \ ruleRegime'.fresh : \A e \in events' : e.mail # m
          /\ \A e \in events' : e.outcome = "planned" => e.type \in MutationTypes
          /\ edits'.made = 0 => \A e \in events' : e.outcome = "planned" => Due(e.mail, e.rule, e.type)'
          /\ edits'.made = 0 => \A r \in RuleIds, type \in MutationTypes, m \in settled' \cap ruleRegime'.fresh :
               Due(m, r, type)' => Over(m, r, type)'
      BY <1>1, <2>1, <2>2, Zenon DEF DuesPaid
    <2>4. edits'.made = 0 =>
            /\ \A step \in Planned' : Due(Mail0, step.rule, step.action.type)'
            /\ \A r \in RuleIds, type \in MutationTypes : Due(Mail0, r, type)' => AheadOf(r, type)'
      BY <1>2, <1>4, <2>1, <2>2, EvaluatedDue, Zenon
    <2> QED
      BY <2>3, <2>4, Zenon DEF DuesPaid
  <1> QED
    BY <1>5, <1>6, <1>7, <1>8, <1>9, <1>10 DEF RInv
-----------------------------------------------------------------------------
(***************************************************************************)
(* The operator edits the rules meanwhile. An id is never given again, so  *)
(* a rule whose only version is the saved one was not created either.      *)
(***************************************************************************)
Editing ==
  /\ edits' \in [made : Nat, next : Nat] /\ edits'.made # 0 /\ edits.next <= edits'.next
  /\ DOMAIN rules' \subseteq {r \in RuleIds : r < edits'.next} /\ \A r \in DOMAIN rules' : rules'[r] \in Contents
  /\ \A r \in DOMAIN rules' : r \in DOMAIN rules \/ r >= edits.next
  /\ during' = [r \in RuleIds |-> IF r \in DOMAIN rules' THEN during[r] \cup {rules'[r]} ELSE during[r]]
  /\ UNCHANGED <<mailbox, uidValidity, events, needsReplies, settled, reader, told, ruleRegime>>

LEMMA EditsSeen ==
  ASSUME RInv, Editing
  PROVE  /\ RuleIds \subseteq Int /\ edits.next \in Nat /\ edits'.next \in Nat
         /\ \A r \in RuleIds : during[r] \subseteq during'[r] /\ Versions(r) \subseteq Versions(r)'
         /\ \A r \in DOMAIN rules' : rules'[r] \in during'[r] /\ r \in RuleIds /\ rules'[r] \in Contents
         /\ Item0' = Item0 /\ Mail0' = Mail0 /\ Step0' = Step0 /\ Type0' = Type0 /\ Planned' = Planned
         /\ Active => \A r \in DOMAIN rules' : Unedited(r)' =>
              r \in DOMAIN rules /\ Unedited(r) /\ rules[r] = rules'[r]
  <1>1. /\ RuleIds \subseteq Int /\ edits.next \in Nat /\ edits'.next \in Nat
    BY RulesAssumption, FS_CardinalityType DEF RInv, RulesTyped, Editing
  <1>2. \A r \in DOMAIN rules' : r \in RuleIds /\ rules'[r] \in Contents
    BY DEF Editing
  <1>3. \A r \in RuleIds : during'[r] = IF r \in DOMAIN rules' THEN during[r] \cup {rules'[r]} ELSE during[r]
    BY Zenon DEF Editing
  <1>4. \A r \in RuleIds : during[r] \subseteq during'[r] /\ Versions(r) \subseteq Versions(r)'
    BY <1>3 DEF Versions
  <1>5. \A r \in DOMAIN rules' : rules'[r] \in during'[r]
    BY <1>2, <1>3
  <1>6. Item0' = Item0 /\ Mail0' = Mail0 /\ Step0' = Step0 /\ Type0' = Type0 /\ Planned' = Planned
    BY SameItem, SameStep DEF Editing, Planned
  <1>7. ASSUME Active, NEW r \in DOMAIN rules', Unedited(r)'
        PROVE  r \in DOMAIN rules /\ Unedited(r) /\ rules[r] = rules'[r]
    <2>1. during'[r] = {rules'[r]} /\ r \in RuleIds
      BY <1>2, <1>7 DEF Unedited
    <2>2. during[r] \subseteq {rules'[r]}
      BY <1>4, <2>1
    <2>3. CASE r \in DOMAIN rules
      <3>1. rules[r] \in during[r]
        BY <1>7, <2>3 DEF RInv, VersionsKept
      <3> QED
        BY <2>2, <2>3, <3>1 DEF Unedited
    <2>4. CASE r \notin DOMAIN rules
      <3>1. r >= edits.next
        BY <1>7, <2>4 DEF Editing
      <3>2. Absent \in during[r]
        BY <1>7, <2>1, <3>1 DEF RInv, VersionsKept
      <3> QED
        BY <1>2, <1>7, <2>2, <3>2, AbsentApart
    <2> QED
      BY <2>3, <2>4
  <1> QED
    BY <1>1, <1>2, <1>4, <1>5, <1>6, <1>7

LEMMA EditingReads ==
  ASSUME RInv, Editing
  PROVE  RulesRead'
  <1>1. RulesRead /\ RulesTyped /\ reader' = reader
    BY DEF RInv, Editing
  <1> SUFFICES ASSUME reader.pc \in {"read", "actions"} PROVE RulesRead'
    BY <1>1 DEF RulesRead
  <1>2. /\ \A u \in reader.unread : u.id < edits.next /\ ReadFrom(u)
        /\ \A u, w \in reader.unread : u.id = w.id => u = w
        /\ \A i \in DOMAIN reader.loaded : RowRead(i)
        /\ \A r \in RuleIds : (\A v \in during[r] : Applies(v, Mail0)) => RowFound(r)
    BY <1>1, Zenon DEF RulesRead
  <1>3. /\ \A r \in RuleIds : r < edits.next => r < edits'.next
        /\ \A r \in RuleIds : Versions(r) \subseteq Versions(r)' /\ during[r] \subseteq during'[r]
        /\ Mail0' = Mail0
    BY EditsSeen DEF Editing
  <1>4. /\ reader.unread \subseteq Listing /\ \A i \in DOMAIN reader.loaded : reader.loaded[i] \in Loaded
    BY <1>1 DEF RulesTyped
  <1>5. ASSUME NEW row, row.id \in RuleIds
        PROVE  /\ ReadFrom(row) => ReadFrom(row)'
               /\ row.id < edits.next => (FilledFrom(row) => FilledFrom(row)') /\ (HalfFilled(row) => HalfFilled(row)')
    <2>1. Versions(row.id) \subseteq Versions(row.id)'
      BY <1>3, <1>5
    <2>2. ReadFrom(row) => ReadFrom(row)'
      BY <1>3, <2>1, Zenon DEF ReadFrom
    <2>3. row.id < edits.next /\ row.id \notin DOMAIN rules => row.id \notin DOMAIN rules'
      BY <1>5, EditsSeen DEF Editing
    <2> QED
      BY <2>1, <2>2, <2>3, Zenon DEF FilledFrom, HalfFilled, Emptied
  <1>6. \A i : ToFill(i)' <=> ToFill(i)
    BY <1>1 DEF ToFill, On
  <1>7. ASSUME NEW i \in DOMAIN reader.loaded
        PROVE  RowRead(i)'
    <2>1. RowRead(i) /\ reader.loaded[i].id \in RuleIds
      BY <1>2, <1>4 DEF Loaded
    <2>2. /\ reader.loaded[i].id < edits.next /\ ReadFrom(reader.loaded[i])
          /\ IF ToFill(i) THEN HalfFilled(reader.loaded[i]) ELSE FilledFrom(reader.loaded[i])
          /\ \A j \in DOMAIN reader.loaded : i < j => Before(reader.loaded[i], reader.loaded[j])
          /\ \A u \in reader.unread : Before(reader.loaded[i], u)
      BY <2>1, Zenon DEF RowRead
    <2>3. /\ reader.loaded[i].id < edits'.next /\ ReadFrom(reader.loaded[i])'
          /\ IF ToFill(i) THEN HalfFilled(reader.loaded[i])' ELSE FilledFrom(reader.loaded[i])'
      BY <1>1, <1>3, <1>5, <2>1, <2>2, Zenon
    <2> QED
      BY <1>1, <1>6, <2>2, <2>3, Zenon DEF RowRead
  <1>8. \A r : RowFound(r)' <=> RowFound(r)
    BY <1>1 DEF RowFound
  <1>9. \A u \in reader.unread : u.id < edits'.next /\ ReadFrom(u)'
    BY <1>2, <1>3, <1>4, <1>5 DEF Listing
  <1>10. \A r \in RuleIds : (\A v \in during'[r] : Applies(v, Mail0)') => RowFound(r)'
    <2>1. \A v : Applies(v, Mail0)' <=> Applies(v, Mail0)
      BY <1>3, Zenon DEF Applies
    <2> QED
      BY <1>2, <1>3, <1>8, <2>1
  <1> QED
    BY <1>1, <1>2, <1>7, <1>9, <1>10, Zenon DEF RulesRead

LEMMA EditingKept ==
  ASSUME RInv, Editing
  PROVE  RInv'
  <1>1. RulesTyped /\ Placed0 /\ ItemsInHand /\ CopiesFirst /\ Answered /\ VersionsKept /\ ActionsWereSaved
          /\ StopsAreFinal /\ DuesPaid
    BY DEF RInv
  <1>2. /\ UNCHANGED <<mailbox, uidValidity, events, needsReplies, settled, reader, told, ruleRegime>>
        /\ edits'.made # 0
    BY DEF Editing
  <1>3. /\ RuleIds \subseteq Int /\ edits.next \in Nat /\ edits'.next \in Nat
        /\ \A r \in RuleIds : during[r] \subseteq during'[r] /\ Versions(r) \subseteq Versions(r)'
        /\ \A r \in DOMAIN rules' : rules'[r] \in during'[r] /\ r \in RuleIds /\ rules'[r] \in Contents
        /\ Item0' = Item0 /\ Mail0' = Mail0 /\ Step0' = Step0 /\ Type0' = Type0 /\ Planned' = Planned
        /\ Active => \A r \in DOMAIN rules' : Unedited(r)' =>
             r \in DOMAIN rules /\ Unedited(r) /\ rules[r] = rules'[r]
    BY EditsSeen
  <1>4. during' \in [RuleIds -> SUBSET (Contents \cup {Absent})]
    <2>1. during' = [r \in RuleIds |-> IF r \in DOMAIN rules' THEN during[r] \cup {rules'[r]} ELSE during[r]]
      BY DEF Editing
    <2>2. during \in [RuleIds -> SUBSET (Contents \cup {Absent})]
      BY <1>1 DEF RulesTyped
    <2> QED
      BY <1>3, <2>1, <2>2
  <1>5. RulesTyped'
    BY <1>1, <1>2, <1>4 DEF RulesTyped, Editing
  <1>6. Placed0'
    <2>1. Event("planned")' = Event("planned") /\ GateOf(Type0)' = GateOf(Type0)
      BY <1>2, <1>3, Zenon DEF Event, GateOf
    <2> QED
      BY <1>1, <1>2, <1>3, <2>1 DEF Placed0, On, Changing
  <1>7. ItemsInHand' /\ Answered'
    BY <1>1, <1>2 DEF ItemsInHand, Answered
  <1>8. CopiesFirst'
    <2>1. Addressed' = Addressed
      BY <1>2, <1>3 DEF Addressed
    <2> QED
      BY <1>1, <1>2, <2>1 DEF CopiesFirst, NoMailIsLost, On
  <1>9. VersionsKept'
    <2> SUFFICES ASSUME Active' PROVE VersionsKept'
      BY DEF VersionsKept
    <2>1. Active
      BY <1>2 DEF Active
    <2>2. \A r \in RuleIds : r >= edits'.next => Absent \in during'[r]
      <3>1. \A r \in RuleIds : r >= edits'.next => r >= edits.next
        BY <1>3 DEF Editing
      <3> QED
        BY <1>1, <1>3, <2>1, <3>1 DEF VersionsKept
    <2> QED
      BY <1>2, <1>3, <2>2 DEF VersionsKept
  <1>10. RulesRead'
    BY EditingReads
  <1>11. ActionsWereSaved'
    <2> SUFFICES ASSUME Evaluated, NEW step \in Planned
                 PROVE  (/\ \E v \in during'[step.rule] : v.enabled /\ v.account \in {Everyone, AccountOf[Mail0]}
                         /\ \E v, w \in during'[step.rule] :
                              /\ v.conditions = {} \/ \E c \in v.conditions : Holds(c, Mail0)
                              /\ w.match = "ALL" => \A c \in v.conditions : Holds(c, Mail0)
                         /\ \E v \in during'[step.rule] : step.action \in ToSet(v.actions) \cup {Stop})
      <3>1. Evaluated' <=> Evaluated
        BY <1>2 DEF Evaluated
      <3> QED
        BY <1>3, <3>1, Zenon DEF ActionsWereSaved
    <2>1. step.rule \in RuleIds
      <3>1. step \in ToSet(reader.todo) /\ reader.todo \in Seq(StepType)
        BY <1>1, TodoTyped
      <3>2. step \in StepType
        BY <3>1 DEF ToSet
      <3> QED
        BY <3>2 DEF StepType
    <2>2. during[step.rule] \subseteq during'[step.rule]
      BY <1>3, <2>1
    <2> QED
      BY <1>1, <2>2, Zenon DEF ActionsWereSaved
  <1>12. StopsAreFinal'
    <2> SUFFICES ASSUME Evaluated, NEW step \in Planned, NEW a \in DOMAIN rules',
                        Unedited(a)', Applies(rules'[a], Mail0), Matches(rules'[a], Mail0),
                        \E i \in DOMAIN rules'[a].actions :
                          rules'[a].actions[i].stop \/ rules'[a].actions[i].type = "stop_processing",
                        step.rule # a, step.rule \in DOMAIN rules', Unedited(step.rule)'
                 PROVE  ~ Precedes(a, step.rule)'
      <3>1. Evaluated' <=> Evaluated
        BY <1>2 DEF Evaluated
      <3> QED
        BY <1>3, <3>1, Zenon DEF StopsAreFinal
    <2>1. Active
      BY DEF Active, Evaluated
    <2>2. /\ a \in DOMAIN rules /\ Unedited(a) /\ rules[a] = rules'[a]
          /\ step.rule \in DOMAIN rules /\ Unedited(step.rule) /\ rules[step.rule] = rules'[step.rule]
      BY <1>3, <2>1
    <2>3. ~ Precedes(a, step.rule)
      BY <1>1, <2>2, Zenon DEF StopsAreFinal
    <2> QED
      BY <2>2, <2>3 DEF Precedes
  <1>13. DuesPaid'
    BY <1>1, <1>2 DEF DuesPaid
  <1> QED
    BY <1>5, <1>6, <1>7, <1>8, <1>9, <1>10, <1>11, <1>12, <1>13 DEF RInv

LEMMA EditsKept ==
  ASSUME RInv, EditRules
  PROVE  RInv'
  <1>1. RulesTyped
    BY DEF RInv
  <1>2. /\ edits.made \in Nat /\ edits.next \in Nat
        /\ DOMAIN rules \subseteq {r \in RuleIds : r < edits.next} /\ \A r \in DOMAIN rules : rules[r] \in Contents
        /\ RuleIds \subseteq Int /\ ruleRegime.drafts \subseteq Contents
    BY <1>1, RulesAssumption, FS_CardinalityType DEF RulesTyped
  <1>3. ASSUME NEW new, Put(new), NEW next \in Nat, edits.next <= next,
               edits' = [made |-> edits.made + 1, next |-> next],
               \A r \in DOMAIN new : new[r] \in Contents /\ r \in RuleIds /\ r < next
                                      /\ (r \in DOMAIN rules \/ r >= edits.next)
        PROVE  RInv'
    <2>1. /\ rules' = new
          /\ during' = [r \in RuleIds |-> IF r \in DOMAIN rules' THEN during[r] \cup {rules'[r]} ELSE during[r]]
          /\ UNCHANGED <<mailbox, uidValidity, events, needsReplies, settled, reader, told, ruleRegime>>
      BY <1>3, Zenon DEF Put, RulesStay
    <2>2. edits'.made # 0 /\ edits'.next = next /\ edits' \in [made : Nat, next : Nat]
      BY <1>2, <1>3
    <2>3. Editing
      BY <1>3, <2>1, <2>2 DEF Editing
    <2> QED
      BY <2>3, EditingKept
  <1>4. Edited => edits' = [made |-> edits.made + 1, next |-> edits.next]
    <2>1. edits \in [made : Nat, next : Nat]
      BY <1>1 DEF RulesTyped
    <2> QED
      BY <2>1 DEF Edited
  <1>5. ASSUME NEW content \in ruleRegime.drafts, CreateRule(content)
        PROVE  RInv'
    <2> DEFINE new == [r \in DOMAIN rules \cup {edits.next} |-> IF r = edits.next THEN content ELSE rules[r]]
    <2>1. /\ edits.next \in RuleIds /\ Put(new)
          /\ edits' = [made |-> edits.made + 1, next |-> edits.next + 1]
      BY <1>5 DEF CreateRule
    <2>2. content \in Contents
      BY <1>2
    <2>3. \A r \in DOMAIN new : new[r] \in Contents /\ r \in RuleIds /\ r < edits.next + 1
                                /\ (r \in DOMAIN rules \/ r >= edits.next)
      <3> SUFFICES ASSUME NEW r \in DOMAIN rules \cup {edits.next}
                   PROVE  /\ new[r] \in Contents /\ r \in RuleIds /\ r < edits.next + 1
                          /\ (r \in DOMAIN rules \/ r >= edits.next)
        OBVIOUS
      <3>1. CASE r = edits.next
        BY <1>2, <2>1, <2>2, <3>1
      <3>2. CASE r # edits.next
        <4>1. r \in DOMAIN rules /\ new[r] = rules[r]
          BY <3>2
        <4>2. r \in RuleIds /\ r < edits.next /\ r \in Int
          BY <1>2, <4>1
        <4> QED
          BY <1>2, <4>1, <4>2
      <3> QED
        BY <3>1, <3>2
    <2>4. edits.next + 1 \in Nat /\ edits.next <= edits.next + 1
      BY <1>2
    <2> HIDE DEF new
    <2> QED
      BY <1>3, <2>1, <2>3, <2>4
  <1>6. ASSUME NEW content \in ruleRegime.drafts, NEW r \in DOMAIN rules, PatchRule(r, content)
        PROVE  RInv'
    <2> DEFINE new == [rules EXCEPT ![r] = content]
    <2>1. Put(new) /\ edits' = [made |-> edits.made + 1, next |-> edits.next]
      BY <1>4, <1>6 DEF PatchRule
    <2>2. \A q \in DOMAIN new : q \in DOMAIN rules /\ new[q] \in Contents
      BY <1>2
    <2> HIDE DEF new
    <2> QED
      BY <1>2, <1>3, <2>1, <2>2
  <1>7. ASSUME NEW r \in DOMAIN rules, DeleteRule(r)
        PROVE  RInv'
    <2> DEFINE new == [a \in DOMAIN rules \ {r} |-> rules[a]]
    <2>1. Put(new) /\ edits' = [made |-> edits.made + 1, next |-> edits.next]
      BY <1>4, <1>7 DEF DeleteRule
    <2>2. \A q \in DOMAIN new : q \in DOMAIN rules /\ new[q] \in Contents
      BY <1>2
    <2> HIDE DEF new
    <2> QED
      BY <1>2, <1>3, <2>1, <2>2
  <1>8. ASSUME NEW a \in DOMAIN rules, NEW b \in DOMAIN rules, a < b, ReorderRules(a, b)
        PROVE  RInv'
    <2> DEFINE ra == [rules[a] EXCEPT !.priority = rules[b].priority]
               rb == [rules[b] EXCEPT !.priority = rules[a].priority]
               new == [rules EXCEPT ![a].priority = rules[b].priority, ![b].priority = rules[a].priority]
    <2>1. Put(new) /\ edits' = [made |-> edits.made + 1, next |-> edits.next]
      BY <1>4, <1>8, Zenon DEF ReorderRules
    <2>2. ra \in Contents /\ rb \in Contents
      <3>1. ASSUME NEW c \in Contents, NEW priority \in Int
            PROVE  [c EXCEPT !.priority = priority] \in Contents
        BY DEF Contents
      <3>2. rules[a] \in Contents /\ rules[b] \in Contents
        BY <1>2
      <3>3. rules[a].priority \in Int /\ rules[b].priority \in Int
        BY <3>2 DEF Contents
      <3> QED
        BY <3>1, <3>2, <3>3
    <2>3. a # b
      <3>1. a \in Int /\ b \in Int
        BY <1>2
      <3> QED
        BY <1>8, <3>1
    <2>4. \A q \in DOMAIN new : q \in DOMAIN rules /\ new[q] \in Contents
      BY <1>2, <2>2, <2>3
    <2> HIDE DEF new
    <2> QED
      BY <1>2, <1>3, <2>1, <2>4
  <1> QED
    BY <1>5, <1>6, <1>7, <1>8 DEF EditRules
-----------------------------------------------------------------------------
(***************************************************************************)
(* The invariant and what follows from it.                                 *)
(***************************************************************************)
LEMMA RulesStepKept == RInv /\ [RulesNext]_ruleVars => RInv'
  <1> SUFFICES ASSUME RInv, [RulesNext]_ruleVars PROVE RInv'
    OBVIOUS
  <1>1. CASE RuleSteps
    <2>1. CASE PollFolder(uidValidity)
      BY <2>1, PolledKept
    <2>2. CASE SelectRules \/ SelectConditions \/ SelectActions \/ EvaluateMessage
      BY <2>2, RowsKept, ConditionsKept, FilledKept, EvaluatedKept
    <2>3. CASE Abort \/ ActLocally \/ Announce \/ TurnAway \/ Conclude \/ SaveResult
      BY <2>3, EndedKept, ConcludedKept, AnnouncedKept, SavedKept
    <2>4. CASE CheckValidity(uidValidity) \/ StoreFlags \/ Move \/ Copy \/ MarkDeleted \/ CannotMove
      BY <2>4, CheckKept, FlagsKept, MovedKept, CopiedKept, MarkedKept, AnsweredKept
    <2> QED
      BY <1>1, <2>1, <2>2, <2>3, <2>4 DEF RuleSteps
  <1>2. CASE RuleFaults
    <2>1. CASE PollFolder(Unknown)
      BY <2>1, PolledKept
    <2>2. CASE CheckValidity(Unknown) \/ CannotReach \/ ServerRefuses
      BY <2>2, CheckKept, AnsweredKept
    <2>3. CASE ScanFails \/ Stopped
      BY <2>3, EndedKept
    <2> QED
      BY <1>2, <2>1, <2>2, <2>3 DEF RuleFaults
  <1>3. CASE EditRules
    BY <1>3, EditsKept
  <1>4. CASE RenumberFolder
    BY <1>4, RenumberedKept
  <1>5. CASE \E q \in Questions : ShowApproval(q)
    BY <1>5, ToldKept
  <1>6. CASE UNCHANGED ruleVars
    <2>1. UNCHANGED <<rules, mailbox, uidValidity, events, needsReplies, settled, reader, during, told, ruleRegime, edits>>
      BY <1>6 DEF ruleVars
    <2>2. VersionsKept' /\ RulesRead' /\ ActionsWereSaved' /\ StopsAreFinal' /\ DuesPaid'
      BY <2>1, ReadStays
    <2>3. RulesTyped /\ Placed0 /\ ItemsInHand /\ CopiesFirst /\ Answered
      BY DEF RInv
    <2>4. Item0' = Item0 /\ Mail0' = Mail0 /\ Step0' = Step0 /\ Type0' = Type0
      BY <2>1, SameItem, SameStep
    <2>5. Placed0'
      <3>1. Event("planned")' = Event("planned") /\ GateOf(Type0)' = GateOf(Type0)
        BY <2>1, <2>4, Zenon DEF Event, GateOf
      <3> QED
        BY <2>1, <2>3, <2>4, <3>1 DEF Placed0, On, Changing
    <2>6. CopiesFirst'
      <3>1. Addressed' = Addressed
        BY <2>1, <2>4 DEF Addressed
      <3> QED
        BY <2>1, <2>3, <3>1 DEF CopiesFirst, NoMailIsLost, On
    <2>7. RulesTyped' /\ ItemsInHand' /\ Answered'
      BY <2>1, <2>3 DEF RulesTyped, ItemsInHand, Answered
    <2> QED
      BY <2>2, <2>5, <2>6, <2>7 DEF RInv
  <1> QED
    BY <1>1, <1>2, <1>3, <1>4, <1>5, <1>6 DEF RulesNext

LEMMA RulesInvariant == RulesSpec => []RInv
  <1>1. RulesInit => RInv
    BY RulesInitInductive
  <1>2. RInv /\ [RulesNext]_ruleVars => RInv'
    BY RulesStepKept
  <1> QED
    BY <1>1, <1>2, PTL DEF RulesSpec

\* Wherever rules, crashes, refusals and a new numbering leave the mails, none
\* has vanished from both folders, and a settled mail has a terminal event for
\* every change announced for it (app/rules.py, imap_source.py).
THEOREM MailsAlwaysAccounted == RulesSpec => []MailsAreAccounted
  <1>1. RInv => MailsAreAccounted
    <2> SUFFICES ASSUME RInv PROVE MailsAreAccounted
      OBVIOUS
    <2>1. RulesTyped /\ CopiesFirst /\ DuesPaid
      BY DEF RInv
    <2>2. RulesTypeOK
      <3>1. \A i \in DOMAIN reader.todo : reader.todo[i].rule \in RuleIds
        <4> SUFFICES ASSUME NEW i \in DOMAIN reader.todo PROVE reader.todo[i].rule \in RuleIds
          OBVIOUS
        <4>1. reader.todo \in Seq(StepType)
          BY <2>1 DEF RulesTyped
        <4>2. reader.todo[i] \in StepType
          BY <4>1
        <4> QED
          BY <4>2 DEF StepType
      <3>2. DOMAIN rules \subseteq RuleIds /\ mailbox \in [RuleMails -> Letter] /\ events \subseteq EventType
              /\ needsReplies \subseteq RuleMails /\ settled \subseteq RuleMails
              /\ reader.pc \in ScanStages /\ reader.outcome \in Outcomes \cup {"none"}
        BY <2>1 DEF RulesTyped
      <3> QED
        <4>1. mailbox \in [RuleMails -> [uid : 0 .. Cardinality(RuleMails), seen : BOOLEAN, flagged : BOOLEAN,
                                       deleted : BOOLEAN, filed : 0 .. 2]]
          BY <3>2, Zenon DEF Letter
        <4>2. events \subseteq [mail : RuleMails, rule : RuleIds, outcome : Outcomes \cup {"planned"},
                               type : MutationTypes \cup LocalTypes]
          BY <3>2, Zenon DEF EventType
        <4>3. reader.pc \in {"idle", "rows", "read", "actions", "act", "gate", "do", "mark", "record"}
          BY <3>2 DEF ScanStages
        <4> QED
          BY <3>1, <3>2, <4>1, <4>2, <4>3, Zenon DEF RulesTypeOK
    <2>3. SettledIsAccounted
      <3> SUFFICES ASSUME NEW m \in settled, NEW e \in events, e.mail = m, e.outcome = "planned", ~ (edits.made > 0)
                   PROVE  \E f \in events : f.mail = m /\ f.rule = e.rule /\ f.type = e.type /\ f.outcome # "planned"
        BY DEF SettledIsAccounted
      <3>1. edits.made = 0 /\ e \in EventType
        BY <2>1 DEF RulesTyped
      <3>2. e.rule \in RuleIds /\ e.type \in MutationTypes /\ m \in RuleMails
        BY <2>1, <3>1 DEF EventType, DuesPaid
      <3>3. m \in ruleRegime.fresh
        BY <2>1, <3>2 DEF DuesPaid
      <3>4. Due(m, e.rule, e.type)
        BY <2>1, <3>1, Zenon DEF DuesPaid
      <3>5. Over(m, e.rule, e.type)
        BY <2>1, <3>1, <3>2, <3>3, <3>4, Zenon DEF DuesPaid
      <3> QED
        BY <3>5 DEF Over
    <2> QED
      BY <2>1, <2>2, <2>3 DEF MailsAreAccounted, CopiesFirst
  <1> QED
    BY <1>1, RulesInvariant, PTL

\* What is done for a mail was saved for it while it was evaluated, by a rule
\* that applies to its account and whose saved conditions it meets, and nothing
\* of a later rule after the first that ends the evaluation (evaluate_message).
THEOREM RulesAlwaysObeyed == RulesSpec => []RulesAreObeyed
  <1>1. RInv => RulesAreObeyed
    BY DEF RInv, RulesAreObeyed
  <1> QED
    BY <1>1, RulesInvariant, PTL

\* An approval the page calls ready meets open gates in the executor, for the
\* UIDVALIDITY last seen (_approval_current_gate_preview).
THEOREM ReadyAlwaysExecutable == RulesSpec => []ReadyIsExecutable
  <1>1. RInv => ReadyIsExecutable
    <2> SUFFICES ASSUME RInv, told.gate = "ready", told.of.approval.type \in MutationTypes
                 PROVE  LET a == told.of.approval s == told.of.settings IN
                        /\ ExecutionGate(s, a.type, a.parts \cup {"validity"})
                             = IF a.type = "add_label" THEN "unsupported" ELSE "open"
                        /\ a.status \in {"pending", "approved"} /\ a.started = "no"
                        /\ told.of.store.account = "enabled"
                        /\ s.matchValidity => a.validity = told.of.store.folderValidity
      BY Zenon DEF ReadyIsExecutable
    <2>1. told # [gate |-> "none"]
      OBVIOUS
    <2>2. /\ told.of \in Questions
          /\ told.gate = ApprovalGate(told.of.settings, told.of.approval, told.of.store)
      BY <2>1 DEF RInv, Answered
    <2>3. told.of \in [settings : Settings, approval : Approvals, store : Stores]
      BY <2>2, RulesAssumption
    <2>4. told.of.settings \in Settings /\ told.of.approval \in Approvals /\ told.of.store \in Stores
      BY <2>3
    <2> QED
      BY <2>2, <2>4, ReadyMeans
  <1> QED
    BY <1>1, RulesInvariant, PTL

\* Whoever changes a mailbox, the numbering standing, is the executor at a mail it addresses.
LEMMA TouchedByExecutor ==
  ASSUME RInv, RulesNext, NEW m \in RuleMails, Touched(m), uidValidity' = uidValidity
  PROVE  reader.pc \in {"do", "mark"} /\ mailbox[m].uid = Item0.uid
  <1>1. mailbox' # mailbox
    BY DEF Touched
  <1>2. \/ StoreFlags \/ Move \/ Copy \/ MarkDeleted
    <2>1. ~ RenumberFolder
      <3>1. uidValidity \in Nat
        BY DEF RInv, RulesTyped
      <3> QED
        BY <3>1 DEF RenumberFolder
    <2>2. ~ EditRules /\ ~ (\E q \in Questions : ShowApproval(q))
      BY <1>1 DEF EditRules, CreateRule, PatchRule, DeleteRule, ReorderRules, Put, RulesStay, ShowApproval
    <2>3. ~ RuleFaults
      BY <1>1 DEF RuleFaults, PollFolder, CheckValidity, CannotReach, ServerRefuses, ScanFails, Stopped, ReadOn, OnlyReader
    <2>4. RuleSteps
      BY <2>1, <2>2, <2>3 DEF RulesNext
    <2> QED
      BY <1>1, <2>4 DEF RuleSteps, PollFolder, SelectRules, SelectConditions, SelectActions, EvaluateMessage,
                        Abort, ActLocally, Announce, TurnAway, Conclude, SaveResult, CheckValidity, CannotMove,
                        ReadOn, OnlyReader
  <1>3. reader.pc \in {"do", "mark"}
    BY <1>2 DEF StoreFlags, Move, Copy, MarkDeleted, Moving, Doing, On
  <1>4. m \in Addressed
    <2>1. CASE StoreFlags
      BY <2>1, Zenon DEF StoreFlags, Change, Touched
    <2>2. CASE Move
      BY <2>2, Zenon DEF Move, Change, Touched
    <2>3. CASE Copy
      BY <2>3, Zenon DEF Copy, Change, Touched
    <2>4. CASE MarkDeleted
      BY <2>4, Zenon DEF MarkDeleted, Change, Touched
    <2> QED
      BY <1>2, <2>1, <2>2, <2>3, <2>4
  <1> QED
    BY <1>3, <1>4 DEF Addressed

\* A change of the mailbox was announced before, reaches only the mail it was
\* planned for, and is none that one of the three previews calls blocked
\* (_execute_mutation_action and imap_source).
THEOREM EffectsAlwaysTold == RulesSpec => EffectsWereTold
  <1> DEFINE announced == \A m \in RuleMails :
                 Touched(m) /\ uidValidity' = uidValidity /\ Item0.validity # Unknown =>
                   m = Mail0 /\ Event("planned") \in events
             previewed == (\E m \in RuleMails : Touched(m)) /\ uidValidity' = uidValidity =>
                 LET s == ruleRegime.settings IN
                 /\ PreviewGate(s, Identity) = "ready" /\ MessagePreviewGate(s) = "planned"
                 /\ FirstClosed(PlanGates(s, Type0), "open") = "open"
  <1>1. RInv /\ RulesNext => announced /\ previewed
    <2> SUFFICES ASSUME RInv, RulesNext, NEW m \in RuleMails, Touched(m), uidValidity' = uidValidity
                 PROVE  /\ Item0.validity # Unknown => m = Mail0 /\ Event("planned") \in events
                        /\ LET s == ruleRegime.settings IN
                           /\ PreviewGate(s, Identity) = "ready" /\ MessagePreviewGate(s) = "planned"
                           /\ FirstClosed(PlanGates(s, Type0), "open") = "open"
      BY Zenon
    <2>1. reader.pc \in {"do", "mark"} /\ mailbox[m].uid = Item0.uid
      BY TouchedByExecutor
    <2>2. RulesTyped /\ Placed0 /\ ItemsInHand
      BY DEF RInv
    <2>3. /\ reader.items # {} /\ Event("planned") \in events
          /\ GateOf(Type0) = "open" /\ Item0.validity \in {Unknown, uidValidity}
      BY <2>1, <2>2 DEF Placed0, Changing, On
    <2>4. Item0 \in reader.items
      BY <2>2, <2>3, InHand
    <2>5. Item0.validity # Unknown => m = Mail0
      BY <2>1, <2>2, <2>3, <2>4 DEF ItemsInHand, Mail0
    <2> DEFINE s == ruleRegime.settings
    <2>6. s \in Settings /\ ShutStatic(s) = {} /\ Allowed(s, Type0)
      BY <2>2, <2>3, GateTells
    <2> HIDE DEF s
    <2>7. PreviewGate(s, Identity) = "ready" /\ MessagePreviewGate(s) = "planned"
      BY <2>6, PreviewShut
    <2>8. PlanGates(s, Type0) \in Chains /\ Shut(PlanGates(s, Type0)) = {}
      BY <2>6, PlanShut DEF ShutIf
    <2>9. FirstClosed(PlanGates(s, Type0), "open") = "open"
      BY <2>8, ShutFound
    <2> QED
      BY <2>3, <2>5, <2>7, <2>9 DEF s
  <1>2. RInv /\ [RulesNext]_ruleVars => [announced]_ruleVars /\ [previewed]_ruleVars
    BY <1>1
  <1>3. RulesSpec => [][announced]_ruleVars /\ [][previewed]_ruleVars
    <2> HIDE DEF announced, previewed
    <2> QED
      BY <1>2, RulesInvariant, PTL DEF RulesSpec
  <1> QED
    BY <1>3 DEF EffectsWereTold, TouchedAsAnnounced, EffectsWerePreviewed

-----------------------------------------------------------------------------

(***************************************************************************)
(* The scan (ImapIntake), for every mailbox, every set of circumstances    *)
(* and every bound: what the checkpoint has passed is saved, and a saved   *)
(* mail is not announced again.                                            *)
(***************************************************************************)
USE MessagesAssumption, BoundsAssumption, RegimesAssumption
    DEF Uids, Validities, Unreadable, At, server

PCs == {"idle", "next", "alert", "save", "checkpoint"}

Typed ==
  /\ box \in Seq(Messages) /\ Len(box) <= MaxUid
  /\ validity \in Validities
  /\ checkpoint \in [uid : 0 .. MaxUid, validity : Validities \cup {Unreadable, None}]
  /\ processed \subseteq Processed
  /\ alerts \in [Messages -> 0 .. MaxAlerts]
  /\ scan \in [pc : PCs, items : Seq(Item)]
  /\ At("idle") <=> scan.items = <<>>
  /\ faults \in 0 .. MaxFaults /\ regime \in Regimes

\* Until its result is saved, a message that is being processed is new.
BeingNew ==
  /\ scan.pc \in {"alert", "save"} => ~ Seen(Current)
  /\ At("alert") => Current.message \notin Oversized

Saved(m) == \E row \in processed : row.key = MessageKey(m)
Ordinary(m) == m \in WithId \ Oversized

(***************************************************************************)
(* While UIDVALIDITY stays, a UID names the same message for good, so that *)
(* the row of a UID is the row of its message ...                          *)
(***************************************************************************)
UidsKept ==
  "renumber" \notin regime.may =>
    /\ validity = 1
    /\ \A k \in 1 .. Len(scan.items) :
         /\ scan.items[k].uid <= Len(box)
         /\ scan.items[k].message = box[scan.items[k].uid]
    /\ \A row \in processed :
         /\ row.bridge <= Len(box)
         /\ Ordinary(box[row.bridge]) => row.key = MessageKey(box[row.bridge])

\* ... and an alert is paid for by the row that follows it or by a fault.
AlertsCounted ==
  "renumber" \notin regime.may =>
    \A m \in WithId :
      /\ m \in Oversized => alerts[m] = 0
      /\ \/ alerts[m] <= faults
         \/ /\ alerts[m] <= faults + 1
            /\ Saved(m) \/ (At("save") /\ Current.message = m)

(***************************************************************************)
(* In the undisturbed regime the items are what follows the checkpoint,    *)
(* without a gap, and the one about to be passed is saved.                 *)
(***************************************************************************)
NoGap ==
  regime.may = {} =>
    /\ checkpoint.validity \in {None, 1}
    /\ checkpoint.uid <= Len(box)
    /\ \A k \in 1 .. Len(scan.items) :
         /\ scan.items[k].validity = 1
         /\ checkpoint.uid < scan.items[k].uid
    /\ \A j, k \in 1 .. Len(scan.items) : j < k => scan.items[j].uid < scan.items[k].uid
    /\ \A u \in 1 .. Len(box) : checkpoint.uid < u =>
         \/ \E k \in 1 .. Len(scan.items) : scan.items[k].uid = u
         \/ \A k \in 1 .. Len(scan.items) : scan.items[k].uid < u
    /\ \A row \in processed : row.key = RowKey(Filed(row.bridge))
    /\ At("checkpoint") => Seen(Current)
    /\ \A u \in 1 .. Len(box) : u <= checkpoint.uid => Seen(Filed(u))

IInv == Typed /\ BeingNew /\ UidsKept /\ AlertsCounted /\ NoGap
-----------------------------------------------------------------------------
LEMMA FirstAndRest ==
  ASSUME NEW S, NEW s \in Seq(S), s # <<>>
  PROVE  /\ Len(s) \in Nat \ {0} /\ Head(s) = s[1] /\ s[1] \in S
         /\ Tail(s) \in Seq(S) /\ Len(Tail(s)) = Len(s) - 1
         /\ \A k \in 1 .. Len(Tail(s)) : Tail(s)[k] = s[k + 1]
  OBVIOUS

LEMMA SeqOfFunction ==
  ASSUME NEW S, NEW n \in Nat, NEW f \in [1 .. n -> S]
  PROVE  f \in Seq(S) /\ Len(f) = n
  OBVIOUS

LEMMA NothingLeft ==
  ASSUME NEW S, NEW s \in Seq(S)
  PROVE  s = <<>> <=> Len(s) = 0
  OBVIOUS

LEMMA DoneTyped == Done \in [pc : PCs, items : Seq(Item)] /\ Done.pc = "idle" /\ Done.items = <<>>
  BY DEF Done, PCs

\* The message being processed.
LEMMA CurrentIsFirst ==
  ASSUME Typed, ~ At("idle")
  PROVE  /\ Len(scan.items) \in Nat \ {0} /\ scan.items \in Seq(Item)
         /\ Current = scan.items[1] /\ Current \in Item
  BY FirstAndRest DEF Typed, Current

LEMMA GotoKeepsItems ==
  ASSUME Typed, NEW pc \in PCs, Goto(pc)
  PROVE  scan'.pc = pc /\ scan'.items = scan.items /\ scan' \in [pc : PCs, items : Seq(Item)]
  BY DEF Typed, Goto

LEMMA KeysTyped ==
  ASSUME NEW e \in Item
  PROVE  RowKey(e) \in Key /\ RowKey(e) \in Keys(e)
  BY DEF Item, RowKey, Keys, Key, MessageKey, FallbackKey, HasMessageKey

\* A batch is a sequence of items of the folder, beyond the checkpoint.
LEMMA PollResult ==
  ASSUME Typed, Poll
  PROVE  /\ scan' \in [pc : PCs, items : Seq(Item)]
         /\ scan'.pc \in {"idle", "next"} /\ (scan'.pc = "idle" <=> scan'.items = <<>>)
         /\ \A k \in 1 .. Len(scan'.items) :
              /\ scan'.items[k].uid <= Len(box)
              /\ scan'.items[k].message = box[scan'.items[k].uid]
         /\ regime.may = {} =>
              /\ \A k \in 1 .. Len(scan'.items) :
                   /\ scan'.items[k].validity = validity
                   /\ Start(validity) < scan'.items[k].uid
              /\ \A j, k \in 1 .. Len(scan'.items) :
                   j < k => scan'.items[j].uid < scan'.items[k].uid
              /\ \A u \in 1 .. Len(box) : Start(validity) < u =>
                   \/ \E k \in 1 .. Len(scan'.items) : scan'.items[k].uid = u
                   \/ \A k \in 1 .. Len(scan'.items) : scan'.items[k].uid < u
  <1>0. PICK v \in {validity} \cup (IF "fetch" \in regime.may THEN {Unreadable} ELSE {}),
             lost \in IF "fetch" \in regime.may THEN SUBSET Uids ELSE {{}} :
          \E n \in 0 .. Len(box) : \E uids \in [1 .. n -> Wanted(v, lost)] :
            /\ Fetch(uids, v, lost)
            /\ scan' = IF n = 0 THEN Done
                       ELSE [pc |-> "next",
                             items |-> [k \in 1 .. n |-> [uid |-> uids[k],
                                                         message |-> box[uids[k]],
                                                         validity |-> v]]]
    BY DEF Poll
  <1>1. PICK n \in 0 .. Len(box) : \E uids \in [1 .. n -> Wanted(v, lost)] :
            /\ Fetch(uids, v, lost)
            /\ scan' = IF n = 0 THEN Done
                       ELSE [pc |-> "next",
                             items |-> [k \in 1 .. n |-> [uid |-> uids[k],
                                                         message |-> box[uids[k]],
                                                         validity |-> v]]]
    BY <1>0
  <1>a. PICK uids \in [1 .. n -> Wanted(v, lost)] :
            /\ Fetch(uids, v, lost)
            /\ scan' = IF n = 0 THEN Done
                       ELSE [pc |-> "next",
                             items |-> [k \in 1 .. n |-> [uid |-> uids[k],
                                                         message |-> box[uids[k]],
                                                         validity |-> v]]]
    BY <1>1
  <1> DEFINE items == [k \in 1 .. n |-> [uid |-> uids[k], message |-> box[uids[k]],
                                        validity |-> v]]
  <1>2. n \in Nat /\ Len(box) \in Nat /\ v \in Validities \cup {Unreadable}
    BY <1>0 DEF Typed
  <1>3. \A k \in 1 .. n : uids[k] \in 1 .. Len(box) /\ Beyond(uids[k], v)
    BY <1>a DEF Wanted
  <1>4. \A k \in 1 .. n : [uid |-> uids[k], message |-> box[uids[k]], validity |-> v] \in Item
    BY <1>2, <1>3 DEF Item, Typed
  <1>5. items \in [1 .. n -> Item]
    BY <1>4
  <1>6. items \in Seq(Item) /\ Len(items) = n
    BY <1>2, <1>5, SeqOfFunction
  <1>7. \A k \in 1 .. n : /\ items[k].uid = uids[k] /\ items[k].message = box[uids[k]]
                          /\ items[k].validity = v
    OBVIOUS
  <1>8. regime.may = {} => v = validity /\ lost = {}
    BY <1>0
  <1>9. Len(uids) = n
    BY <1>2, SeqOfFunction
  <1>10. /\ \A j, k \in 1 .. n : j < k => uids[j] < uids[k]
         /\ \A u \in Wanted(v, lost) : \/ \E k \in 1 .. n : uids[k] = u
                                       \/ \A k \in 1 .. n : uids[k] < u
    BY <1>9, <1>a DEF Fetch
  <1>11. regime.may = {} => \A u \in 1 .. Len(box) : Start(validity) < u => u \in Wanted(v, lost)
    BY <1>8 DEF Wanted, Beyond, Start, Typed
  <1>12. CASE n = 0
    <2>1. scan' = Done
      BY <1>12, <1>a
    <2> QED
      BY <2>1, DoneTyped
  <1>13. CASE n # 0
    <2>1. scan'.pc = "next" /\ scan'.items = items /\ scan' \in [pc : PCs, items : Seq(Item)]
      BY <1>6, <1>13, <1>a DEF PCs
    <2>2. items # <<>>
      BY <1>6, <1>13
    <2> HIDE DEF items
    <2>3. \A k \in 1 .. Len(scan'.items) :
              /\ scan'.items[k].uid <= Len(box)
              /\ scan'.items[k].message = box[scan'.items[k].uid]
      BY <1>2, <1>3, <1>6, <1>7, <2>1
    <2>4. ASSUME regime.may = {}
          PROVE  /\ \A k \in 1 .. Len(scan'.items) :
                   /\ scan'.items[k].validity = validity
                   /\ Start(validity) < scan'.items[k].uid
                 /\ \A j, k \in 1 .. Len(scan'.items) :
                   j < k => scan'.items[j].uid < scan'.items[k].uid
                 /\ \A u \in 1 .. Len(box) : Start(validity) < u =>
                   \/ \E k \in 1 .. Len(scan'.items) : scan'.items[k].uid = u
                   \/ \A k \in 1 .. Len(scan'.items) : scan'.items[k].uid < u
      <3>1. \A k \in 1 .. n : /\ items[k].validity = validity
                              /\ Start(validity) < items[k].uid
        BY <1>2, <1>3, <1>7, <1>8, <2>4 DEF Beyond, Start, Typed
      <3>2. \A j, k \in 1 .. n : j < k => items[j].uid < items[k].uid
        BY <1>7, <1>10
      <3>3. \A u \in 1 .. Len(box) : Start(validity) < u =>
              \/ \E k \in 1 .. n : items[k].uid = u
              \/ \A k \in 1 .. n : items[k].uid < u
        <4> SUFFICES ASSUME NEW u \in 1 .. Len(box), Start(validity) < u
                     PROVE  \/ \E k \in 1 .. n : items[k].uid = u
                            \/ \A k \in 1 .. n : items[k].uid < u
          OBVIOUS
        <4>1. \/ \E k \in 1 .. n : uids[k] = u
              \/ \A k \in 1 .. n : uids[k] < u
          BY <1>10, <1>11, <2>4
        <4> QED
          BY <1>7, <4>1
      <3> QED
        BY <1>6, <2>1, <3>1, <3>2, <3>3
    <2> QED
      BY <2>1, <2>2, <2>3, <2>4
  <1> QED
    BY <1>12, <1>13

LEMMA InitTyped == Init => Typed
  BY DoneTyped DEF Init, Typed

LEMMA NextTyped == Typed /\ [Next]_vars => Typed'
  <1> SUFFICES ASSUME Typed, [Next]_vars PROVE Typed'
    OBVIOUS
  <1>0. /\ Len(box) \in Nat
        /\ \A b : b \in Seq(Messages) => Len(b) \in Nat
    BY DEF Typed
  <1>1. ASSUME NEW m \in Messages, Arrive(m) PROVE Typed'
    BY <1>1 DEF Arrive, Typed
  <1>2. CASE Renumber
    <2>1. PICK n \in 0 .. Len(box) : \E old \in [1 .. n -> 1 .. Len(box)] :
            box' = [u \in 1 .. n |-> box[old[u]]]
      BY <1>2 DEF Renumber
    <2>2. box' \in [1 .. n -> Messages]
      BY <2>1 DEF Typed
    <2>3. box' \in Seq(Messages) /\ Len(box') = n /\ n <= MaxUid
      BY <1>0, <2>2, SeqOfFunction DEF Typed
    <2> QED
      BY <1>2, <2>3 DEF Renumber, Typed
  <1>3. CASE Poll
    BY <1>3, PollResult DEF Poll, Typed
  <1>4. CASE Duplicate \/ Oversize \/ Classify \/ Save \/ SaveFails \/ Alert
    <2>1. PICK pc \in PCs \ {"idle"} : Goto(pc)
      BY <1>4 DEF Duplicate, Oversize, Classify, Save, SaveFails, Alert, PCs
    <2>2. ~ At("idle")
      BY <1>4 DEF Duplicate, Oversize, Classify, Save, SaveFails, Alert
    <2>3. scan' \in [pc : PCs, items : Seq(Item)] /\ (At("idle") <=> scan.items = <<>>)'
      BY <2>1, <2>2, GotoKeepsItems DEF Typed
    <2>4. processed' \subseteq Processed
      <3>1. CASE Save
        <4>1. Current.uid \in Uids /\ RowKey(Current) \in Key
          BY <2>2, CurrentIsFirst, KeysTyped DEF Item
        <4> QED
          BY <3>1, <4>1 DEF Save, Typed, Processed
      <3> QED
        BY <1>4, <3>1 DEF Duplicate, Oversize, Classify, SaveFails, Alert, Typed, Untouched
    <2>5. alerts' \in [Messages -> 0 .. MaxAlerts] /\ faults' \in 0 .. MaxFaults
      BY <1>4 DEF Duplicate, Oversize, Classify, Save, SaveFails, Alert, Untouched, Fault, Typed
    <2>6. UNCHANGED <<box, validity, checkpoint, regime>>
      BY <1>4 DEF Duplicate, Oversize, Classify, Save, SaveFails, Alert, Untouched
    <2> QED
      BY <2>3, <2>4, <2>5, <2>6 DEF Typed
  <1>5. CASE Checkpoint
    <2>1. /\ Current \in Item /\ scan.items # <<>> /\ scan.items \in Seq(Item)
      BY <1>5, CurrentIsFirst DEF Checkpoint, Typed
    <2>2. checkpoint' \in [uid : 0 .. MaxUid, validity : Validities \cup {Unreadable, None}]
      BY <1>5, <2>1 DEF Checkpoint, Item
    <2>3. scan' \in [pc : PCs, items : Seq(Item)] /\ (At("idle") <=> scan.items = <<>>)'
      <3>1. CASE Len(scan.items) = 1
        BY <1>5, <3>1, DoneTyped DEF Checkpoint
      <3>2. CASE Len(scan.items) # 1
        <4>1. scan'.pc = "next" /\ scan'.items = Tail(scan.items)
              /\ scan' = [pc |-> "next", items |-> Tail(scan.items)]
          BY <1>5, <3>2 DEF Checkpoint
        <4>2. Tail(scan.items) \in Seq(Item) /\ Tail(scan.items) # <<>>
          <5>1. /\ Tail(scan.items) \in Seq(Item) /\ Len(scan.items) \in Nat \ {0}
                /\ Len(Tail(scan.items)) = Len(scan.items) - 1
            BY <2>1, FirstAndRest
          <5> DEFINE rest == Tail(scan.items)
          <5>2. rest \in Seq(Item) /\ Len(rest) # 0
            BY <3>2, <5>1
          <5> HIDE DEF rest
          <5>3. rest # <<>>
            BY <5>2
          <5> QED
            BY <5>2, <5>3 DEF rest
        <4> QED
          BY <4>1, <4>2 DEF PCs
      <3> QED
        BY <3>1, <3>2
    <2> QED
      BY <1>5, <2>2, <2>3 DEF Checkpoint, Typed
  <1>6. CASE ClassifyRaises \/ Interrupt
    BY <1>6, DoneTyped DEF ClassifyRaises, Interrupt, Fault, Typed
  <1>7. CASE UNCHANGED vars
    BY <1>7 DEF vars, Typed
  <1> QED
    BY <1>1, <1>2, <1>3, <1>4, <1>5, <1>6, <1>7 DEF Next, Scanning
-----------------------------------------------------------------------------
LEMMA DoneEmpty == Len(Done.items) = 0
  BY DEF Done

\* The step at one message: it changes pc, and the items stay.
AtCurrent == Duplicate \/ Oversize \/ Classify \/ Alert \/ Save \/ SaveFails

LEMMA AtCurrentStep ==
  ASSUME Typed, AtCurrent
  PROVE  /\ ~ At("idle") /\ UNCHANGED <<box, validity, checkpoint, regime>>
         /\ scan'.items = scan.items /\ Current' = Current
         /\ scan'.pc \in {"alert", "save", "checkpoint"}
         /\ processed \subseteq processed'
  <1>1. ~ At("idle")
    BY DEF AtCurrent, Duplicate, Oversize, Classify, Save, SaveFails, Alert
  <1>2. PICK pc \in {"alert", "save", "checkpoint"} : Goto(pc)
    BY DEF AtCurrent, Duplicate, Oversize, Classify, Save, SaveFails, Alert
  <1>3. scan'.pc = pc /\ scan'.items = scan.items
    BY <1>2, GotoKeepsItems DEF PCs
  <1>4. UNCHANGED <<box, validity, checkpoint, regime>> /\ processed \subseteq processed'
    BY DEF AtCurrent, Duplicate, Oversize, Classify, Save, SaveFails, Alert, Untouched
  <1> QED
    BY <1>1, <1>3, <1>4 DEF Current

\* The items of a scan are worked off from the front.
LEMMA ItemsStep ==
  ASSUME Typed, [Next]_vars, ~ Poll
  PROVE  \E d \in {0, 1} : \A k \in 1 .. Len(scan'.items) :
            k + d \in 1 .. Len(scan.items) /\ scan'.items[k] = scan.items[k + d]
  <1>0. scan.items \in Seq(Item) /\ Len(scan.items) \in Nat
    BY DEF Typed
  <1>1. CASE scan'.items = scan.items
    BY <1>0, <1>1
  <1>2. CASE scan' = Done
    BY <1>2, DoneEmpty
  <1>3. CASE Checkpoint /\ scan' # Done
    <2>1. scan'.items = Tail(scan.items)
      BY <1>3 DEF Checkpoint
    <2>2. scan.items # <<>>
      BY <1>3 DEF Checkpoint, Typed
    <2>3. \A k \in 1 .. Len(scan'.items) :
            k + 1 \in 1 .. Len(scan.items) /\ scan'.items[k] = scan.items[k + 1]
      BY <1>0, <2>1, <2>2, FirstAndRest
    <2> QED
      BY <2>3
  <1>4. CASE AtCurrent
    BY <1>1, <1>4, AtCurrentStep
  <1> QED
    BY <1>1, <1>2, <1>3, <1>4
    DEF Next, Scanning, Arrive, Renumber, ClassifyRaises, Interrupt, vars, AtCurrent

LEMMA SeenStands ==
  ASSUME processed \subseteq processed', NEW e, Seen(e)
  PROVE  Seen(e)'
  BY DEF Seen, Keys

\* Saved, or found saved: the row of the message is there.
LEMMA SavedIsSeen ==
  ASSUME IInv, AtCurrent, scan'.pc = "checkpoint", regime.may = {}
  PROVE  Seen(Current)'
  <1>0. Typed /\ Current' = Current /\ processed \subseteq processed' /\ ~ At("idle")
    BY AtCurrentStep DEF IInv
  <1>1. Duplicate \/ Save
    <2>1. ~ SaveFails
      BY DEF SaveFails
    <2>2. ASSUME NEW pc \in PCs \ {"checkpoint"} PROVE ~ Goto(pc)
      BY <1>0, <2>2, GotoKeepsItems
    <2> QED
      BY <2>1, <2>2 DEF AtCurrent, Oversize, Classify, Alert, PCs
  <1>2. CASE Duplicate
    <2>1. Seen(Current)
      BY <1>2 DEF Duplicate
    <2> QED
      BY <1>0, <2>1 DEF Seen, Keys
  <1>3. CASE Save
    <2>1. PICK e \in Item : e = Current
      BY <1>0, CurrentIsFirst
    <2>2. RowKey(e) \in Keys(e)
      BY KeysTyped
    <2>3. \E row \in processed' : row.key \in Keys(e)
      <3>1. CASE \E row \in processed : row.bridge = e.uid
        <4>1. PICK row \in processed : row.bridge = e.uid
          BY <3>1
        <4>2. /\ "renumber" \notin regime.may /\ validity = 1 /\ e.validity = 1
              /\ e.message = box[e.uid] /\ row.key = RowKey(Filed(e.uid))
          BY <1>0, <2>1, <4>1, CurrentIsFirst DEF IInv, UidsKept, NoGap
        <4>3. /\ Filed(e.uid).uid = e.uid /\ Filed(e.uid).message = e.message
              /\ Filed(e.uid).validity = e.validity
          BY <4>2 DEF Filed
        <4>4. RowKey(Filed(e.uid)) = RowKey(e)
          BY <4>3, Zenon DEF RowKey, HasMessageKey
        <4> QED
          BY <1>0, <2>2, <4>1, <4>2, <4>4
      <3>2. CASE \E row \in processed : row.key = RowKey(e)
        BY <1>0, <2>2, <3>2
      <3>3. CASE processed' = processed \cup {[bridge |-> e.uid, key |-> RowKey(e)]}
        <4> DEFINE row == [bridge |-> e.uid, key |-> RowKey(e)]
        <4>1. row \in processed' /\ row.key = RowKey(e)
          BY <3>3
        <4> HIDE DEF row
        <4> QED
          BY <2>2, <4>1
      <3> QED
        BY <1>3, <2>1, <3>1, <3>2, <3>3 DEF Save
    <2> QED
      BY <1>0, <2>1, <2>3 DEF Seen, Keys
  <1> QED
    BY <1>1, <1>2, <1>3

LEMMA BeingNewNext == IInv /\ [Next]_vars => BeingNew'
  <1> SUFFICES ASSUME IInv, [Next]_vars PROVE BeingNew'
    OBVIOUS
  <1>0. Typed /\ BeingNew
    BY DEF IInv
  <1>1. CASE AtCurrent
    <2>1. Current' = Current /\ scan'.pc \in {"alert", "save", "checkpoint"}
      BY <1>0, <1>1, AtCurrentStep
    <2>2. scan'.pc \in {"alert", "save"} => UNCHANGED processed /\ ~ Seen(Current)
      <3>1. CASE Save \/ SaveFails \/ Duplicate
        BY <1>0, <3>1, GotoKeepsItems DEF Save, SaveFails, Duplicate, PCs
      <3> QED
        BY <1>0, <1>1, <3>1 DEF AtCurrent, Oversize, Classify, Alert, BeingNew, Untouched
    <2>3. At("alert")' => Current.message \notin Oversized
      <3>1. CASE Classify
        BY <3>1 DEF Classify
      <3> QED
        BY <1>0, <1>1, <3>1, GotoKeepsItems
        DEF AtCurrent, Oversize, Alert, Save, SaveFails, Duplicate, PCs
    <2>4. ASSUME scan'.pc \in {"alert", "save"} PROVE ~ Seen(Current)'
      BY <2>1, <2>2, <2>4 DEF Seen
    <2> QED
      BY <2>1, <2>3, <2>4 DEF BeingNew
  <1>2. CASE scan'.pc \in {"idle", "next"}
    BY <1>2 DEF BeingNew
  <1>3. CASE UNCHANGED <<scan, processed>>
    BY <1>0, <1>3 DEF BeingNew, Current, Seen
  <1>4. Checkpoint \/ ClassifyRaises \/ Interrupt => scan'.pc \in {"idle", "next"}
    BY DoneTyped DEF Checkpoint, ClassifyRaises, Interrupt
  <1>5. Poll => scan'.pc \in {"idle", "next"}
    BY <1>0, PollResult
  <1> QED
    BY <1>1, <1>2, <1>3, <1>4, <1>5 DEF Next, Scanning, AtCurrent, Arrive, Renumber, vars

\* The row a step adds is that of the message at hand.
LEMMA RowsStep ==
  ASSUME Typed, [Next]_vars, NEW row \in processed', row \notin processed
  PROVE  /\ Save /\ ~ At("idle")
         /\ row.bridge = Current.uid /\ row.key = RowKey(Current)
  <1>1. Save
    BY DEF Next, Scanning, Arrive, Renumber, Poll, Duplicate, Oversize, Classify, Alert,
           Checkpoint, ClassifyRaises, SaveFails, Interrupt, Untouched, vars
  <1>2. row = [bridge |-> Current.uid, key |-> RowKey(Current)]
    BY <1>1 DEF Save
  <1> QED
    BY <1>1, <1>2 DEF Save

LEMMA BoxStep ==
  ASSUME Typed, [Next]_vars, ~ Renumber
  PROVE  /\ UNCHANGED validity /\ Len(box) \in Nat /\ Len(box') \in Nat
         /\ Len(box) <= Len(box') /\ \A u \in 1 .. Len(box) : box'[u] = box[u]
  <1>1. CASE UNCHANGED <<box, validity>>
    BY <1>1 DEF Typed
  <1>2. ASSUME NEW m \in Messages, Arrive(m) PROVE /\ UNCHANGED validity /\ Len(box) \in Nat
           /\ Len(box') \in Nat
           /\ Len(box) <= Len(box') /\ \A u \in 1 .. Len(box) : box'[u] = box[u]
    BY <1>2 DEF Arrive, Typed
  <1> QED
    BY <1>1, <1>2 DEF Next, Scanning, Poll, Duplicate, Oversize, Classify, Alert, Save,
           Checkpoint, ClassifyRaises, SaveFails, Interrupt, Untouched, vars

LEMMA RegimeStands == [Next]_vars => regime' = regime
  BY DEF Next, Scanning, Arrive, Renumber, Poll, Duplicate, Oversize, Classify, Alert, Save,
         Checkpoint, ClassifyRaises, SaveFails, Interrupt, Untouched, vars

LEMMA UidsKeptNext == IInv /\ [Next]_vars => UidsKept'
  <1> SUFFICES ASSUME IInv, [Next]_vars, "renumber" \notin regime.may
               PROVE  /\ validity' = 1
                      /\ \A k \in 1 .. Len(scan'.items) :
                           /\ scan'.items[k].uid <= Len(box')
                           /\ scan'.items[k].message = box'[scan'.items[k].uid]
                      /\ \A row \in processed' :
                           /\ row.bridge <= Len(box')
                           /\ Ordinary(box'[row.bridge])
                                => row.key = MessageKey(box'[row.bridge])
    BY RegimeStands DEF UidsKept, Ordinary, MessageKey
  <1>0. Typed /\ UidsKept /\ Typed'
    BY NextTyped DEF IInv
  <1>1. /\ UNCHANGED validity /\ Len(box) \in Nat /\ Len(box') \in Nat
        /\ Len(box) <= Len(box') /\ \A u \in 1 .. Len(box) : box'[u] = box[u]
    BY <1>0, BoxStep DEF Renumber
  <1>2. ASSUME NEW k \in 1 .. Len(scan'.items)
        PROVE  /\ scan'.items[k].uid <= Len(box)
               /\ scan'.items[k].message = box[scan'.items[k].uid]
               /\ scan'.items[k].uid \in Uids
    <2>1. scan'.items[k] \in Item
      BY <1>0 DEF Typed
    <2>2. CASE Poll
      BY <1>0, <2>1, <2>2, PollResult DEF Item
    <2>3. CASE ~ Poll
      <3>1. PICK j \in 1 .. Len(scan.items) : scan'.items[k] = scan.items[j]
        BY <1>0, <2>3, ItemsStep
      <3> QED
        BY <1>0, <2>1, <3>1 DEF UidsKept, Item
    <2> QED
      BY <2>2, <2>3
  <1>3. ASSUME NEW row \in processed'
        PROVE  /\ row.bridge <= Len(box) /\ row.bridge \in Uids
               /\ Ordinary(box[row.bridge]) => row.key = MessageKey(box[row.bridge])
    <2>1. row.bridge \in Uids
      BY <1>0 DEF Typed, Processed
    <2>2. CASE row \in processed
      BY <1>0, <2>1, <2>2 DEF UidsKept
    <2>3. CASE row \notin processed
      <3>1. ~ At("idle") /\ row.bridge = Current.uid /\ row.key = RowKey(Current)
        BY <1>0, <2>3, RowsStep
      <3>2. Current.uid <= Len(box) /\ Current.message = box[Current.uid]
        BY <1>0, <3>1, CurrentIsFirst DEF UidsKept
      <3> QED
        BY <2>1, <3>1, <3>2 DEF Ordinary, RowKey, HasMessageKey
    <2> QED
      BY <2>2, <2>3
  <1> QED
    BY <1>0, <1>1, <1>2, <1>3 DEF UidsKept

LEMMA AlertsCountedNext == IInv /\ [Next]_vars => AlertsCounted'
  <1> SUFFICES ASSUME IInv, [Next]_vars, "renumber" \notin regime.may, NEW m \in WithId
               PROVE  /\ m \in Oversized => alerts'[m] = 0
                      /\ \/ alerts'[m] <= faults'
                         \/ /\ alerts'[m] <= faults' + 1
                            /\ Saved(m)' \/ (At("save") /\ Current.message = m)'
    BY RegimeStands DEF AlertsCounted, Saved, MessageKey
  <1>0. /\ Typed /\ UidsKept /\ BeingNew
        /\ alerts[m] \in Nat /\ faults \in Nat
        /\ m \in Oversized => alerts[m] = 0
        /\ \/ alerts[m] <= faults
           \/ /\ alerts[m] <= faults + 1
              /\ Saved(m) \/ (At("save") /\ Current.message = m)
    BY DEF IInv, AlertsCounted, Typed
  <1>1. Saved(m) /\ processed \subseteq processed' => Saved(m)'
    BY DEF Saved, MessageKey
  \* The alert of m is followed by its row.
  <1>2. ASSUME At("save") \/ At("alert"), Current.message = m
        PROVE  ~ At("idle") /\ (m \notin Oversized => ~ Saved(m))
    <2>1. ~ Seen(Current)
      BY <1>0, <1>2 DEF BeingNew
    <2>2. m \notin Oversized => MessageKey(m) \in Keys(Current)
      BY <1>2 DEF Keys, HasMessageKey
    <2> QED
      BY <1>2, <2>1, <2>2 DEF Seen, Saved
  <1>3. CASE Alert
    <2>1. /\ At("alert") /\ scan'.pc = "save" /\ Current' = Current
          /\ UNCHANGED <<processed, faults>>
      BY <1>0, <1>3, AtCurrentStep, GotoKeepsItems DEF AtCurrent, Alert, PCs
    <2>2. CASE Current.message = m
      <3>1. m \notin Oversized
        BY <1>0, <2>1, <2>2 DEF BeingNew
      <3>2. alerts[m] <= faults
        BY <1>0, <1>2, <2>1, <2>2, <3>1
      <3>3. alerts'[m] \in {alerts[m], alerts[m] + 1}
        BY <1>0, <1>3 DEF Alert, Typed
      <3> QED
        BY <1>0, <2>1, <2>2, <3>1, <3>2, <3>3
    <2>3. CASE Current.message # m
      <3>1. alerts'[m] = alerts[m]
        BY <1>0, <1>3, <2>3 DEF Alert, Typed
      <3> QED
        BY <1>0, <1>1, <2>1, <2>3, <3>1
    <2> QED
      BY <2>2, <2>3
  <1>4. CASE Save
    <2>1. /\ At("save") /\ UNCHANGED <<alerts, faults>> /\ processed \subseteq processed'
      BY <1>4 DEF Save
    <2>2. ASSUME Current.message = m, m \notin Oversized PROVE Saved(m)'
      <3>1. Current \in Item /\ Current.uid <= Len(box) /\ m = box[Current.uid]
        BY <1>0, <1>2, <2>1, <2>2, CurrentIsFirst DEF UidsKept
      <3>2. RowKey(Current) = MessageKey(m)
        BY <2>2 DEF RowKey, HasMessageKey
      <3>3. CASE \E row \in processed : row.bridge = Current.uid
        BY <1>0, <1>1, <2>1, <2>2, <3>1, <3>3 DEF UidsKept, Ordinary, Saved
      <3>4. CASE \E row \in processed : row.key = RowKey(Current)
        BY <1>1, <2>1, <3>2, <3>4 DEF Saved
      <3>5. CASE processed' = processed \cup {[bridge |-> Current.uid, key |-> RowKey(Current)]}
        <4> DEFINE row == [bridge |-> Current.uid, key |-> RowKey(Current)]
        <4>1. row \in processed' /\ row.key = MessageKey(m)
          BY <3>2, <3>5
        <4> HIDE DEF row
        <4> QED
          BY <4>1 DEF Saved, MessageKey
      <3> QED
        BY <1>4, <3>3, <3>4, <3>5 DEF Save
    <2> QED
      BY <1>0, <1>1, <2>1, <2>2
  <1>5. CASE ClassifyRaises \/ Interrupt \/ SaveFails
    <2>1. /\ faults' = faults + 1 /\ UNCHANGED <<alerts, processed>>
      BY <1>5 DEF ClassifyRaises, Interrupt, SaveFails, Fault
    <2> QED
      BY <1>0, <2>1
  <1>6. ASSUME UNCHANGED <<alerts, faults, processed>>, ~ At("save") \/ UNCHANGED scan
        PROVE  /\ m \in Oversized => alerts'[m] = 0
               /\ \/ alerts'[m] <= faults'
                  \/ /\ alerts'[m] <= faults' + 1
                     /\ Saved(m)' \/ (At("save") /\ Current.message = m)'
    BY <1>0, <1>1, <1>6 DEF Current
  <1> QED
    BY <1>3, <1>4, <1>5, <1>6 DEF Next, Scanning, Arrive, Renumber, Poll, Duplicate,
       Oversize, Classify, Checkpoint, Untouched, vars

\* The batch that is left: beyond the checkpoint, ascending, without a gap.
Ahead ==
  /\ checkpoint.validity \in {None, 1}
  /\ checkpoint.uid <= Len(box)
  /\ \A k \in 1 .. Len(scan.items) :
       scan.items[k].validity = 1 /\ checkpoint.uid < scan.items[k].uid
  /\ \A j, k \in 1 .. Len(scan.items) : j < k => scan.items[j].uid < scan.items[k].uid
  /\ \A u \in 1 .. Len(box) : checkpoint.uid < u =>
       \/ \E k \in 1 .. Len(scan.items) : scan.items[k].uid = u
       \/ \A k \in 1 .. Len(scan.items) : scan.items[k].uid < u

LEMMA ItemsTyped ==
  ASSUME Typed
  PROVE  \A k \in 1 .. Len(scan.items) :
           scan.items[k] \in Item /\ scan.items[k].uid \in Nat /\ scan.items[k].uid > 0
  <1>1. scan.items \in Seq(Item)
    BY DEF Typed
  <1>2. \A e \in Item : e.uid \in Nat /\ e.uid > 0
    BY DEF Item
  <1> QED
    BY <1>1, <1>2

LEMMA AheadNext ==
  ASSUME IInv, [Next]_vars, regime.may = {}
  PROVE  Ahead'
  <1>0. /\ Typed /\ UidsKept /\ Ahead /\ Typed' /\ validity = 1
        /\ "renumber" \notin regime.may
        /\ scan.items \in Seq(Item) /\ Len(scan.items) \in Nat
        /\ checkpoint.uid \in Nat
    BY NextTyped DEF IInv, NoGap, UidsKept, Ahead, Typed
  <1>1. /\ Len(box) \in Nat /\ Len(box') \in Nat /\ Len(box) <= Len(box')
    BY <1>0, BoxStep DEF Renumber
  <1>2. \A k \in 1 .. Len(scan.items) :
          scan.items[k].uid \in Nat /\ scan.items[k].uid <= Len(box)
    BY <1>0, ItemsTyped DEF UidsKept
  <1>3. CASE Poll
    <2>1. UNCHANGED <<box, checkpoint>> /\ Start(validity) = checkpoint.uid
      BY <1>0, <1>3 DEF Poll, Start, Ahead
    <2> QED
      BY <1>0, <1>3, <2>1, PollResult DEF Ahead
  <1>4. CASE scan'.items = scan.items /\ UNCHANGED checkpoint
    <2>1. ASSUME NEW u \in 1 .. Len(box'), u \notin 1 .. Len(box)
          PROVE  \A k \in 1 .. Len(scan.items) : scan.items[k].uid < u
      BY <1>1, <1>2, <2>1
    <2>2. checkpoint.uid <= Len(box')
      BY <1>0, <1>1 DEF Ahead
    <2> QED
      BY <1>0, <1>4, <2>1, <2>2 DEF Ahead
  <1>5. CASE Len(scan'.items) = 0 /\ UNCHANGED <<checkpoint, box>>
    BY <1>0, <1>5 DEF Ahead
  <1>6. CASE Checkpoint
    <2>1. /\ scan.items # <<>> /\ Current = scan.items[1] /\ Len(scan.items) \in Nat \ {0}
          /\ UNCHANGED box /\ checkpoint' = [uid |-> Current.uid, validity |-> Current.validity]
      BY <1>0, <1>6, CurrentIsFirst DEF Checkpoint, Typed
    <2>2. /\ checkpoint'.uid = scan.items[1].uid /\ checkpoint'.validity = 1
          /\ checkpoint'.uid \in Nat /\ checkpoint.uid < checkpoint'.uid
          /\ checkpoint'.uid <= Len(box)
      BY <1>0, <1>2, <2>1 DEF Ahead
    <2>3. /\ Len(scan'.items) = Len(scan.items) - 1
          /\ \A k \in 1 .. Len(scan'.items) : scan'.items[k] = scan.items[k + 1]
      <3>1. CASE Len(scan.items) = 1
        BY <1>6, <3>1, DoneEmpty DEF Checkpoint
      <3>2. CASE Len(scan.items) # 1
        <4>1. scan'.items = Tail(scan.items)
          BY <1>6, <3>2 DEF Checkpoint
        <4> QED
          BY <1>0, <2>1, <4>1, FirstAndRest
      <3> QED
        BY <3>1, <3>2
    <2>4. \A k \in 1 .. Len(scan'.items) :
            /\ k + 1 \in 1 .. Len(scan.items)
            /\ scan'.items[k].validity = 1 /\ checkpoint'.uid < scan'.items[k].uid
      <3> SUFFICES ASSUME NEW k \in 1 .. Len(scan'.items)
                   PROVE  /\ k + 1 \in 1 .. Len(scan.items)
                          /\ scan'.items[k].validity = 1
                          /\ checkpoint'.uid < scan'.items[k].uid
        OBVIOUS
      <3>1. k + 1 \in 1 .. Len(scan.items) /\ 1 \in 1 .. Len(scan.items) /\ 1 < k + 1
        BY <2>1, <2>3
      <3>2. scan.items[1].uid < scan.items[k + 1].uid /\ scan.items[k + 1].validity = 1
        BY <1>0, <3>1 DEF Ahead
      <3> QED
        BY <2>2, <2>3, <3>1, <3>2
    <2>5. \A j, k \in 1 .. Len(scan'.items) : j < k => scan'.items[j].uid < scan'.items[k].uid
      <3> SUFFICES ASSUME NEW j \in 1 .. Len(scan'.items), NEW k \in 1 .. Len(scan'.items),
                          j < k
                   PROVE  scan'.items[j].uid < scan'.items[k].uid
        OBVIOUS
      <3>1. j + 1 < k + 1 /\ j + 1 \in 1 .. Len(scan.items) /\ k + 1 \in 1 .. Len(scan.items)
        BY <2>1, <2>3
      <3>2. scan.items[j + 1].uid < scan.items[k + 1].uid
        BY <1>0, <3>1 DEF Ahead
      <3> QED
        BY <2>3, <3>2
    <2>6. ASSUME NEW u \in 1 .. Len(box), checkpoint'.uid < u
          PROVE  \/ \E k \in 1 .. Len(scan'.items) : scan'.items[k].uid = u
                 \/ \A k \in 1 .. Len(scan'.items) : scan'.items[k].uid < u
      <3>1. checkpoint.uid < u
        BY <1>0, <1>1, <2>2, <2>6
      <3>2. CASE \E k \in 1 .. Len(scan.items) : scan.items[k].uid = u
        <4>1. PICK k \in 1 .. Len(scan.items) : scan.items[k].uid = u
          BY <3>2
        <4>2. k # 1
          BY <1>1, <2>2, <2>6, <4>1
        <4>3. k - 1 \in 1 .. Len(scan'.items) /\ k = (k - 1) + 1
          BY <2>1, <2>3, <4>2
        <4> QED
          BY <2>3, <4>1, <4>3
      <3>3. CASE \A k \in 1 .. Len(scan.items) : scan.items[k].uid < u
        BY <2>3, <2>4, <3>3
      <3> QED
        BY <1>0, <3>1, <3>2, <3>3 DEF Ahead
    <2> QED
      BY <2>1, <2>2, <2>4, <2>5, <2>6 DEF Ahead
  <1> QED
    <2>1. AtCurrent => scan'.items = scan.items /\ UNCHANGED checkpoint
      BY <1>0, AtCurrentStep
    <2>2. ClassifyRaises \/ Interrupt => Len(scan'.items) = 0 /\ UNCHANGED <<checkpoint, box>>
      BY DoneEmpty DEF ClassifyRaises, Interrupt
    <2>3. ~ Renumber
      BY <1>0 DEF Renumber
    <2> QED
      BY <1>3, <1>4, <1>5, <1>6, <2>1, <2>2, <2>3 DEF Next, Scanning, Arrive, AtCurrent, vars

\* What the checkpoint has passed, and what it is about to pass, is saved.
LEMMA PassedNext ==
  ASSUME IInv, [Next]_vars, regime.may = {}
  PROVE  /\ \A row \in processed' : row.key = RowKey(Filed(row.bridge))'
         /\ At("checkpoint")' => Seen(Current)'
         /\ \A u \in 1 .. Len(box') : u <= checkpoint'.uid => Seen(Filed(u))'
  <1>a. Typed /\ UidsKept /\ Typed' /\ "renumber" \notin regime.may
    BY NextTyped DEF IInv
  <1>b. /\ Ahead
        /\ At("checkpoint") => Seen(Current)
        /\ \A u \in 1 .. Len(box) : u <= checkpoint.uid => Seen(Filed(u))
        /\ \A row \in processed : row.key = RowKey(Filed(row.bridge))
    BY DEF IInv, NoGap, Ahead
  <1>c. validity = 1 /\ checkpoint.uid \in Nat
    BY <1>a DEF Typed, UidsKept
  <1>0. /\ Typed /\ UidsKept /\ Ahead /\ Typed' /\ validity = 1
        /\ "renumber" \notin regime.may /\ checkpoint.uid \in Nat
        /\ At("checkpoint") => Seen(Current)
        /\ \A u \in 1 .. Len(box) : u <= checkpoint.uid => Seen(Filed(u))
        /\ \A row \in processed : row.key = RowKey(Filed(row.bridge))
    BY <1>a, <1>b, <1>c
  <1>1. /\ UNCHANGED validity /\ Len(box) \in Nat /\ Len(box') \in Nat
        /\ Len(box) <= Len(box') /\ \A u \in 1 .. Len(box) : box'[u] = box[u]
    BY <1>0, BoxStep DEF Renumber
  <1>2. \A u \in 1 .. Len(box) : Filed(u)' = Filed(u)
    BY <1>1 DEF Filed
  <1>3. processed \subseteq processed'
    BY DEF Next, Scanning, Arrive, Renumber, Poll, Duplicate, Oversize, Classify, Alert, Save,
           Checkpoint, ClassifyRaises, SaveFails, Interrupt, Untouched, vars
  <1>4. ~ At("idle") => /\ Current.uid \in 1 .. Len(box) /\ Current.validity = 1
                        /\ Current.message = box[Current.uid] /\ Current \in Item
                        /\ Current = scan.items[1] /\ Len(scan.items) \in Nat \ {0}
    <2> SUFFICES ASSUME ~ At("idle")
                 PROVE  /\ Current.uid \in 1 .. Len(box) /\ Current.validity = 1
                        /\ Current.message = box[Current.uid] /\ Current \in Item
                        /\ Current = scan.items[1] /\ Len(scan.items) \in Nat \ {0}
      OBVIOUS
    <2>1. Current = scan.items[1] /\ Len(scan.items) \in Nat \ {0} /\ Current \in Item
      BY <1>0, CurrentIsFirst
    <2>2. 1 \in 1 .. Len(scan.items)
      BY <2>1
    <2>3. Current.uid \in Nat /\ Current.uid > 0
      BY <1>0, <2>1, <2>2, ItemsTyped
    <2>4. /\ Current.uid <= Len(box) /\ Current.message = box[Current.uid]
          /\ Current.validity = 1
      BY <1>0, <2>1, <2>2 DEF UidsKept, Ahead
    <2> QED
      BY <1>1, <2>1, <2>3, <2>4
  <1>5. ~ At("idle") => Current = Filed(Current.uid)
    BY <1>0, <1>4 DEF Filed, Item
  <1>6. ASSUME NEW row \in processed' PROVE row.key = RowKey(Filed(row.bridge))'
    <2>1. row.bridge \in 1 .. Len(box) /\ row.key = RowKey(Filed(row.bridge))
      <3>1. CASE row \in processed
        BY <1>0, <1>1, <3>1 DEF Typed, Processed, UidsKept
      <3>2. CASE row \notin processed
        BY <1>0, <1>4, <1>5, <3>2, RowsStep
      <3> QED
        BY <3>1, <3>2
    <2>2. Filed(row.bridge)' = Filed(row.bridge)
      BY <1>2, <2>1
    <2>3. RowKey(Filed(row.bridge))' = RowKey(Filed(row.bridge))
      BY <2>2 DEF RowKey, HasMessageKey, MessageKey, FallbackKey
    <2> QED
      BY <2>1, <2>3
  <1>7. ASSUME At("checkpoint")' PROVE Seen(Current)'
    <2>1. CASE AtCurrent
      BY <1>7, <2>1, SavedIsSeen
    <2>2. CASE UNCHANGED scan
      <3>1. Seen(Current) /\ Current' = Current
        BY <1>0, <1>7, <2>2 DEF Current
      <3> QED
        BY <1>3, <3>1 DEF Seen, Keys
    <2>3. Checkpoint \/ ClassifyRaises \/ Interrupt => scan'.pc \in {"idle", "next"}
      BY DoneTyped DEF Checkpoint, ClassifyRaises, Interrupt
    <2>4. Poll => scan'.pc \in {"idle", "next"}
      BY <1>0, PollResult
    <2> QED
      BY <1>7, <2>1, <2>2, <2>3, <2>4 DEF Next, Scanning, Arrive, Renumber, AtCurrent, vars
  <1>8. ASSUME NEW u \in 1 .. Len(box'), u <= checkpoint'.uid PROVE Seen(Filed(u))'
    <2>1. u \in 1 .. Len(box) /\ Seen(Filed(u))
      <3>1. CASE UNCHANGED checkpoint
        BY <1>0, <1>1, <1>8, <3>1 DEF Ahead
      <3>2. CASE Checkpoint
        <4>1. /\ ~ At("idle") /\ Seen(Current) /\ UNCHANGED box
              /\ checkpoint'.uid = Current.uid
          BY <1>0, <3>2 DEF Checkpoint
        <4>2. CASE u = Current.uid
          BY <1>4, <1>5, <4>1, <4>2
        <4>3. CASE u <= checkpoint.uid
          BY <1>0, <4>1, <4>3
        <4>4. CASE u # Current.uid /\ checkpoint.uid < u
          <5>1. u < scan.items[1].uid /\ scan.items[1].uid \in 1 .. Len(box)
            BY <1>4, <1>8, <4>1, <4>4
          <5>2. PICK k \in 1 .. Len(scan.items) : scan.items[k].uid = u
            BY <1>0, <1>4, <4>1, <4>4, <5>1 DEF Ahead
          <5>3. k # 1 => scan.items[1].uid < scan.items[k].uid
            BY <1>0, <1>4, <4>1 DEF Ahead
          <5> QED
            BY <5>1, <5>2, <5>3
        <4> QED
          BY <1>0, <4>1, <4>2, <4>3, <4>4
      <3> QED
        BY <3>1, <3>2 DEF Next, Scanning, Arrive, Renumber, Poll, Duplicate, Oversize,
           Classify, Alert, Save, ClassifyRaises, SaveFails, Interrupt, Untouched, vars
    <2>2. Filed(u)' = Filed(u)
      BY <1>2, <2>1
    <2> QED
      BY <1>3, <2>1, <2>2 DEF Seen, Keys
  <1> QED
    BY <1>6, <1>7, <1>8

LEMMA NoGapNext == IInv /\ [Next]_vars => NoGap'
  <1> SUFFICES ASSUME IInv, [Next]_vars, regime.may = {} PROVE NoGap'
    BY RegimeStands DEF NoGap
  <1> QED
    BY AheadNext, PassedNext DEF Ahead, NoGap

LEMMA InitInductive == Init => IInv
  <1> SUFFICES ASSUME Init PROVE IInv
    OBVIOUS
  <1>1. /\ scan.pc = "idle" /\ Len(scan.items) = 0 /\ Len(box) = 0
        /\ scan.items = <<>> /\ box = <<>>
    BY DoneTyped, DoneEmpty DEF Init
  <1> QED
    BY <1>1, InitTyped DEF Init, IInv, BeingNew, UidsKept, AlertsCounted, NoGap

LEMMA NextInductive == IInv /\ [Next]_vars => IInv'
  BY NextTyped, BeingNewNext, UidsKeptNext, AlertsCountedNext, NoGapNext DEF IInv

LEMMA Inductive == Spec => []IInv
  BY InitInductive, NextInductive, PTL DEF Spec

(***************************************************************************)
(* In the regime without refused writes, failing FETCHes and renumbering,  *)
(* what the checkpoint of a folder has passed has a row, whatever crashes  *)
(* and exceptions cut a scan short (_scan_imap_once); in every regime      *)
(* without renumbering an alert is repeated only when a fault came between *)
(* it and its row.                                                         *)
(***************************************************************************)
THEOREM IntakeSound == Spec => []IntakeIsSound
  <1>1. IInv => TypeOK
    BY DEF IInv, Typed, TypeOK, PCs
  <1>2. IInv => NothingIsLost
    BY DEF IInv, NothingIsLost, CheckpointIsDurable, NoGap
  <1>3. IInv => AlertsArePaid
    BY DEF IInv, Typed, AlertsArePaid, AlertsCounted
  <1> QED
    BY <1>1, <1>2, <1>3, Inductive, PTL DEF IntakeIsSound

(***************************************************************************)
(* Once the result of a mail with a Message-ID is saved, no copy of it, no *)
(* re-scan after a change of UIDVALIDITY and no restart announces it.      *)
(***************************************************************************)
THEOREM SavedStaysQuiet == Spec => SavedIsQuiet
  <1>1. ASSUME IInv, [Next]_vars, NEW m \in WithId, Saved(m)
        PROVE  alerts'[m] = alerts[m]
    <2>1. CASE Alert
      <3>1. ~ Seen(Current) /\ Current.message \notin Oversized
        BY <1>1, <2>1 DEF IInv, BeingNew, Alert
      <3>2. Current.message # m
        BY <1>1, <3>1 DEF Seen, Saved, Keys, HasMessageKey
      <3> QED
        BY <1>1, <2>1, <3>2 DEF IInv, Typed, Alert
    <2> QED
      BY <1>1, <2>1 DEF Next, Scanning, Arrive, Renumber, Poll, Duplicate, Oversize,
         Classify, Save, Checkpoint, ClassifyRaises, SaveFails, Interrupt, Untouched, vars
  <1>2. IInv /\ [Next]_vars
          => [\A m \in WithId : (\E row \in processed : row.key = MessageKey(m))
                                  => alerts'[m] = alerts[m]]_vars
    BY <1>1 DEF Saved
  <1> QED
    BY <1>2, Inductive, PTL DEF Spec, SavedIsQuiet
=============================================================================
