---------------------------- MODULE CoreTaxLedger ----------------------------
(***************************************************************************)
(* The tax-version ledger (finance/coretax) of one tax year: rows imported *)
(* from the prior year's workbook or entered by hand, learned mappings     *)
(* from PWM items (accounts, holdings, liabilities) to rows, and the three *)
(* long requests that rewrite them: reconcile, reset from rules, commit of *)
(* a staged import.                                                        *)
(*                                                                         *)
(* Endpoints run in a thread pool, and a long request reads the tables     *)
(* once, then writes row by row, committing as it goes.  Each action below *)
(* is one committed transaction, or one read that later steps rely on.     *)
(*                                                                         *)
(* An amount is represented by where it comes from: the workbook, the      *)
(* operator, or the PWM item that was written.                             *)
(***************************************************************************)
EXTENDS Integers, FiniteSets, Functions

CONSTANTS Items,      \* PWM items, one fingerprint each
          Rank,       \* their order in pwm_universe.snapshot
          Holdings,   \* items with a market value as well
          Lines,      \* lines of the prior year's workbook
          Names,      \* the item whose ISIN or account number a line shows
          Rules,      \* default_carry_forward of a line's code
          Keys,       \* stable keys
          Inputs,     \* what the operator can say of a row: [names, rule]
          Earlier,    \* mappings learned for earlier years: their targets
          Requests,   \* long requests that can be in flight at once
          Regimes,    \* may requests overlap; bounds on edits and requests
          MaxScore,   \* confidence 1.0, in steps of 0.05
          None

Sticky == "sticky"            \* carried forward
Refreshable == "refreshable"  \* left to reconcile
Unknown == "unknown"          \* a code without a rule

ASSUME ItemsAssumption ==
  /\ IsFiniteSet(Items) /\ Rank \in Injection(Items, Nat) /\ Holdings \subseteq Items
ASSUME LinesAssumption ==
  Names \in [Lines -> Items \cup {None}] /\ Rules \in [Lines -> {Sticky, Refreshable, Unknown}]
ASSUME InputsAssumption ==
  Inputs \subseteq [names : Items \cup {None}, rule : {Sticky, Refreshable, Unknown}]
ASSUME RegimesAssumption ==
  Regimes \subseteq [overlap : BOOLEAN, edits : Nat, starts : Nat]
ASSUME ScoreAssumption == MaxScore \in Nat

VARIABLES
  rows,        \* coretax_rows by stable key
  nextRow,     \* its AUTOINCREMENT
  minted,      \* stable keys handed out (they end in a UUID)
  staging,     \* coretax_import_staging: per line its key and the override
  mappings,    \* coretax_mappings by fingerprint
  nextId,      \* its AUTOINCREMENT
  components,  \* coretax_row_components with is_current = 1
  runs,        \* number of coretax_reconcile_runs
  requests,    \* long requests in flight: their local variables
  guarded,     \* history: cells locked while no long request was in flight
  settled,     \* history: {items of the last run}, if nothing happened since
  regime,      \* of this behaviour, fixed
  edits, starts  \* counters for the bounds

ledger == <<rows, nextRow, minted, staging>>
learned == <<mappings, nextId>>
history == <<guarded, settled>>
vars == <<ledger, learned, components, runs, requests, history, regime, edits, starts>>
-----------------------------------------------------------------------------
Fields == {"amount", "market"}
FieldsOf(i) == IF i \in Holdings THEN Fields ELSE {"amount"}

Template == "template"
Operator == "operator"
Values == Items \cup {Template, Operator, None}
Sources == {"imported", "carried_forward", "auto_reconciled", "manual", "unset"}

Cell == [value : Values, source : Sources, locked : BOOLEAN]
Row == [id : Nat, names : Items \cup {None}, rule : {Sticky, Refreshable, Unknown},
        prior : {Template, Operator, None}, cell : [Fields -> Cell]]

\* The fingerprint of an item, and its key in the format used before.
Fingerprints == {"new", "old"} \X Items
Mapping == [id : Nat, target : Keys, score : 0 .. MaxScore]

Staged == [key : Keys, override : BOOLEAN \cup {None}]

ASSUME EarlierAssumption == Earlier \subseteq [Fingerprints -> Keys \cup {None}]
ASSUME NoneAssumption ==
  None \notin Items \cup Keys \cup Row \cup Mapping \cup {Template, Operator}

NoRows == [k \in Keys |-> None]
NoMappings == [fp \in Fingerprints |-> None]

Idle == [pc |-> "idle", rows |-> NoRows, chosen |-> {}, staged |-> None,
         items |-> {}, todo |-> {}, lookup |-> NoMappings, before |-> {},
         used |-> {}, at |-> None, filled |-> {}, run |-> 0]

AllIdle == \A r \in Requests : requests[r] = Idle
overlap == regime.overlap

\* Mappings are not bound to a tax year; their targets are.
Number == CHOOSE n \in [Fingerprints -> 1 .. Cardinality(Fingerprints)] :
            \A fp, gp \in Fingerprints : n[fp] = n[gp] => fp = gp
Known(targets) ==
  [fp \in Fingerprints |-> IF targets[fp] = None THEN None
     ELSE [id |-> Number[fp], target |-> targets[fp], score |-> MaxScore]]

Init ==
  /\ rows = NoRows /\ nextRow = 1 /\ staging = None
  /\ \E targets \in Earlier :
       /\ mappings = Known(targets)
       /\ minted = {targets[fp] : fp \in Fingerprints} \ {None}
  /\ nextId = Cardinality(Fingerprints) + 1
  /\ components = {} /\ runs = 0
  /\ requests = [r \in Requests |-> Idle]
  /\ guarded = {} /\ settled = {}
  /\ regime \in Regimes
  /\ edits = 0 /\ starts = 0
-----------------------------------------------------------------------------
(***************************************************************************)
(* The operator: short requests, one transaction each.                     *)
(***************************************************************************)
Edited == /\ overlap \/ AllIdle
          /\ edits < regime.edits
          /\ edits' = edits + 1
          /\ settled' = {}
          /\ UNCHANGED <<requests, runs, components, regime, starts>>

Guard(k, fs) == guarded' = IF AllIdle THEN guarded \cup ({k} \X fs) ELSE guarded

\* parse_prior_year_xlsx: earlier staging of the year is wiped, every line
\* gets a key of its own.
Parse ==
  /\ Edited
  /\ Injection(Lines, Keys \ minted) # {}
  /\ LET key == CHOOSE g \in Injection(Lines, Keys \ minted) : TRUE
     IN  /\ staging' = [l \in Lines |-> [key |-> key[l], override |-> None]]
         /\ minted' = minted \cup {key[l] : l \in Lines}
  /\ UNCHANGED <<rows, nextRow, learned, guarded>>

Override(l, carry) ==
  /\ Edited /\ staging # None
  /\ staging' = [staging EXCEPT ![l].override = carry]
  /\ UNCHANGED <<rows, nextRow, minted, learned, guarded>>

Discard == /\ Edited /\ staging # None
           /\ staging' = None
           /\ UNCHANGED <<rows, nextRow, minted, learned, guarded>>

ByHand(fs) == [f \in Fields |-> IF f \in fs
                 THEN [value |-> Operator, source |-> "manual", locked |-> FALSE]
                 ELSE [value |-> None, source |-> "unset", locked |-> FALSE]]

Create(in, fs) ==
  /\ Edited /\ minted # Keys
  /\ LET k == CHOOSE k \in Keys \ minted : TRUE
     IN  /\ rows' = [rows EXCEPT ![k] =
                        [id |-> nextRow, names |-> in.names, rule |-> in.rule,
                         prior |-> None, cell |-> ByHand(fs)]]
         /\ nextRow' = nextRow + 1
         /\ minted' = minted \cup {k}
  /\ UNCHANGED <<staging, learned, guarded>>

\* PATCH of amounts: the touched cells are locked, their source stays.
Edit(k, fs) ==
  /\ Edited /\ rows[k] # None
  /\ LET old == rows[k].cell IN
       rows' = [rows EXCEPT ![k].cell = [f \in Fields |->
         IF f \in fs THEN [old[f] EXCEPT !.value = Operator, !.locked = TRUE] ELSE old[f]]]
  /\ Guard(k, fs)
  /\ UNCHANGED <<nextRow, minted, staging, learned>>

\* PATCH of the other fields.
EditPrior(k) ==
  /\ Edited /\ rows[k] # None
  /\ rows' = [rows EXCEPT ![k].prior = Operator]
  /\ UNCHANGED <<nextRow, minted, staging, learned, guarded>>

Describe(k, in) ==
  /\ Edited /\ rows[k] # None
  /\ rows' = [rows EXCEPT ![k].names = in.names, ![k].rule = in.rule]
  /\ UNCHANGED <<nextRow, minted, staging, learned, guarded>>

Lock(k, f) ==
  /\ Edited /\ rows[k] # None
  /\ rows' = [rows EXCEPT ![k].cell[f].locked = TRUE]
  /\ Guard(k, {f})
  /\ UNCHANGED <<nextRow, minted, staging, learned>>

Unlock(k, f) ==
  /\ Edited /\ rows[k] # None
  /\ rows' = [rows EXCEPT ![k].cell[f].locked = FALSE]
  /\ guarded' = guarded \ {<<k, f>>}
  /\ UNCHANGED <<nextRow, minted, staging, learned>>

Delete(k) ==
  /\ Edited /\ rows[k] # None
  /\ rows' = [rows EXCEPT ![k] = None]
  /\ guarded' = guarded \ ({k} \X Fields)
  /\ UNCHANGED <<nextRow, minted, staging, learned>>
-----------------------------------------------------------------------------
(***************************************************************************)
(* Mappings.  Nothing asks whether the row of a target still exists.       *)
(***************************************************************************)
\* assign_mapping without raise_on_conflict.
Assign(fp, k, score) ==
  /\ mappings' = [mappings EXCEPT ![fp] =
                    [id |-> IF @ = None THEN nextId ELSE @.id, target |-> k, score |-> score]]
  /\ nextId' = IF mappings[fp] = None THEN nextId + 1 ELSE nextId

\* POST /mappings/assign answers 409 if the fingerprint has another target.
AssignMapping(fp, k) ==
  /\ Edited /\ k \in minted
  /\ mappings[fp] # None => mappings[fp].target = k
  /\ Assign(fp, k, MaxScore)
  /\ UNCHANGED <<ledger, guarded>>

\* POST /mappings, PATCH /mappings/{id}: the target changes, the score stays.
Retarget(fp, k) ==
  /\ Edited /\ k \in minted
  /\ Assign(fp, k, IF mappings[fp] = None THEN MaxScore ELSE mappings[fp].score)
  /\ UNCHANGED <<ledger, guarded>>

DeleteMapping(fp) ==
  /\ Edited /\ mappings[fp] # None
  /\ mappings' = [mappings EXCEPT ![fp] = None]
  /\ UNCHANGED <<ledger, nextId, guarded>>

Confirmed(score) == IF score < MaxScore - 1 THEN MaxScore - 1 ELSE score
Boosted(score) == IF score < MaxScore THEN score + 1 ELSE MaxScore
Decayed(score) == IF score < 2 THEN 0 ELSE score - 2

ConfirmMapping(fp) ==
  /\ Edited /\ mappings[fp] # None
  /\ mappings' = [mappings EXCEPT ![fp].score = Confirmed(@)]
  /\ UNCHANGED <<ledger, nextId, guarded>>
-----------------------------------------------------------------------------
(***************************************************************************)
(* run_reconcile.                                                          *)
(***************************************************************************)
At(r, pc) == requests[r].pc = pc
Become(r, q) == requests' = [requests EXCEPT ![r] = q]

Started(r) == /\ requests[r] = Idle
              /\ overlap \/ AllIdle
              /\ starts < regime.starts
              /\ starts' = starts + 1
              /\ UNCHANGED <<ledger, learned, components, runs, guarded, regime, edits>>

Stepped == UNCHANGED <<guarded, settled, regime, edits, starts>>

\* The snapshot of any date; then the rows ...
StartReconcile(r) ==
  /\ Started(r)
  /\ \E present \in SUBSET Items :
       /\ Become(r, [Idle EXCEPT !.pc = "mappings", !.rows = rows,
                                 !.items = present, !.todo = present])
       /\ settled' = settled \cap {present}

\* ... then the mappings.
ReadMappings(r) ==
  /\ At(r, "mappings")
  /\ Become(r, [requests[r] EXCEPT !.pc = "item", !.lookup = mappings,
       !.before = {p \in Fingerprints \X Keys :
                     mappings[p[1]] # None /\ mappings[p[1]].target = p[2]}])
  /\ UNCHANGED <<ledger, learned, components, runs>> /\ Stepped

Current(q) == CHOOSE i \in q.todo : \A j \in q.todo : Rank[i] <= Rank[j]

\* The mapping leads to a row of this year.
Leads(q, fp) == q.lookup[fp] # None /\ q.rows[q.lookup[fp].target] # None

TierOne(q) == Leads(q, <<"new", Current(q)>>)
Legacy(q) == Leads(q, <<"old", Current(q)>>)

Candidates(q) == {k \in Keys : q.rows[k] # None /\ q.rows[k].names = Current(q)}
Unique(q) == \E k \in Keys : Candidates(q) = {k}

LearnableAlways(q, k) == TRUE  \* a mutation: mappings are not looked at
Learnable(q, k) ==
  /\ q.lookup[<<"new", Current(q)>>] = None
  /\ \A other \in Keys \ {k} : <<<<"new", Current(q)>>, other>> \notin q.before

Working(r) == At(r, "item") /\ requests[r].todo # {}

UseMapping(r) ==
  LET q == requests[r]
      found == q.lookup[<<"new", Current(q)>>] IN
  /\ Working(r) /\ TierOne(q)
  /\ Become(r, [q EXCEPT !.pc = "apply", !.at = found.target, !.used = @ \cup {found.id}])
  /\ UNCHANGED <<ledger, learned, components, runs>> /\ Stepped

\* _auto_migrate_mapping deletes the old mapping by id, and commits ...
DropLegacy(r) ==
  LET q == requests[r]
      fp == <<"old", Current(q)>>
      found == q.lookup[fp] IN
  /\ Working(r) /\ ~ TierOne(q) /\ Legacy(q)
  /\ mappings' = IF mappings[fp] # None /\ mappings[fp].id = found.id
                 THEN [mappings EXCEPT ![fp] = None] ELSE mappings
  /\ Become(r, [q EXCEPT !.pc = "migrate", !.at = found.target])
  /\ UNCHANGED <<ledger, nextId, components, runs>> /\ Stepped

\* An assignment by the run is in its list of mappings, and used.
Learned(q) == [q EXCEPT !.pc = "apply", !.lookup = mappings',
                        !.used = @ \cup {mappings'[<<"new", Current(q)>>].id}]

\* ... and then creates the new one.
Migrate(r) ==
  LET q == requests[r] IN
  /\ At(r, "migrate")
  /\ Assign(<<"new", Current(q)>>, q.at, q.lookup[<<"old", Current(q)>>].score)
  /\ Become(r, Learned(q))
  /\ UNCHANGED <<ledger, components, runs>> /\ Stepped

\* A safe heuristic, learned if nothing speaks against it.
Heuristic(r) == Working(r) /\ ~ TierOne(requests[r]) /\ ~ Legacy(requests[r])

LearnFirst(r) ==  \* a mutation: the new mapping leads to the wrong row
  LET q == requests[r]
      first == CHOOSE k \in Keys : q.rows[k] # None IN
  /\ Heuristic(r) /\ Unique(q)
  /\ \E k \in Candidates(q) :
       /\ Learnable(q, k)
       /\ Assign(<<"new", Current(q)>>, first, MaxScore)
       /\ Become(r, [Learned(q) EXCEPT !.at = k])
  /\ UNCHANGED <<ledger, components, runs>> /\ Stepped

Learn(r) ==
  LET q == requests[r] IN
  /\ Heuristic(r) /\ Unique(q)
  /\ \E k \in Candidates(q) :
       /\ Learnable(q, k)
       /\ Assign(<<"new", Current(q)>>, k, MaxScore)
       /\ Become(r, [Learned(q) EXCEPT !.at = k])
  /\ UNCHANGED <<ledger, components, runs>> /\ Stepped

Guess(r) ==
  LET q == requests[r] IN
  /\ Heuristic(r) /\ Unique(q)
  /\ \E k \in Candidates(q) : ~ Learnable(q, k) /\ Become(r, [q EXCEPT !.pc = "apply", !.at = k])
  /\ UNCHANGED <<ledger, learned, components, runs>> /\ Stepped

Unmatched(r) ==
  LET q == requests[r] IN
  /\ Heuristic(r) /\ ~ Unique(q)
  /\ Become(r, [q EXCEPT !.todo = @ \ {Current(q)}])
  /\ UNCHANGED <<ledger, learned, components, runs>> /\ Stepped

\* The row of a request's snapshot is still there; updates go by row id.
SameRow(q, k) == rows[k] # None /\ rows[k].id = q.rows[k].id

OpenAnyway(q) == FieldsOf(Current(q))  \* a mutation: locks are not looked at

\* _apply_match goes by the locks it has read.
Open(q) == {f \in FieldsOf(Current(q)) : ~ q.rows[q.at].cell[f].locked}

Apply(r) ==
  LET q == requests[r]
      i == Current(q)
      old == rows[q.at].cell IN
  /\ At(r, "apply")
  /\ rows' = IF ~ SameRow(q, q.at) THEN rows
             ELSE [rows EXCEPT ![q.at].cell = [f \in Fields |->
                     IF f \in Open(q)
                     THEN [old[f] EXCEPT !.value = i, !.source = "auto_reconciled"]
                     ELSE old[f]]]
  /\ Become(r, [q EXCEPT !.pc = "item", !.todo = @ \ {i}, !.at = None,
                         !.filled = @ \cup {<<q.at, i>>}])
  /\ UNCHANGED <<nextRow, minted, staging, learned, components, runs>> /\ Stepped

InsertRun(r) ==
  LET q == requests[r] IN
  /\ At(r, "item") /\ q.todo = {}
  /\ runs' = runs + 1
  /\ Become(r, [q EXCEPT !.pc = IF q.filled = {} THEN "score" ELSE "components",
                         !.run = runs + 1])
  /\ UNCHANGED <<ledger, learned, components>> /\ Stepped

\* replace_row_components_for_targets: one transaction.
ReplaceComponents(r) ==
  LET q == requests[r] IN
  /\ At(r, "components")
  /\ components' =
       {c \in components : \A f \in q.filled : f[1] # c.key}
         \cup {[key |-> f[1], item |-> f[2], run |-> q.run] : f \in q.filled}
  /\ Become(r, [q EXCEPT !.pc = "score"])
  /\ UNCHANGED <<ledger, learned, runs>> /\ Stepped

\* _update_mapping_confidence_dynamics computes from the mappings it has
\* read, and updates by id.
Rescored(q, fp) ==
  LET seen == q.lookup[fp] IN
  CASE seen.id \in q.used -> Boosted(seen.score)
    [] seen.id \notin q.used /\ fp[1] = "new" /\ fp[2] \in q.items -> Decayed(seen.score)
    [] OTHER -> seen.score

Score(r) ==
  LET q == requests[r] IN
  /\ At(r, "score")
  /\ mappings' = [fp \in Fingerprints |->
       IF mappings[fp] # None /\ q.lookup[fp] # None /\ mappings[fp].id = q.lookup[fp].id
       THEN [mappings[fp] EXCEPT !.score = Rescored(q, fp)]
       ELSE mappings[fp]]
  /\ Become(r, Idle)
  /\ settled' = IF overlap THEN {} ELSE {q.items}
  /\ UNCHANGED <<ledger, nextId, components, runs, guarded, regime, edits, starts>>
-----------------------------------------------------------------------------
(***************************************************************************)
(* reset_from_rules: a SELECT of the unlocked rows, then the UPDATEs by id *)
(* and one commit.                                                         *)
(***************************************************************************)
StartReset(r) ==
  /\ Started(r)
  /\ \E rules \in {{Sticky}, {Refreshable}, {Sticky, Refreshable}} :
       Become(r, [Idle EXCEPT !.pc = "reset", !.rows = rows,
         !.chosen = {k \in Keys : /\ rows[k] # None /\ rows[k].rule \in rules
                                  /\ ~ rows[k].cell["amount"].locked}])
  /\ settled' = {}

ResetCell(q, k) ==
  IF q.rows[k].rule = Sticky
  THEN [rows[k].cell["amount"] EXCEPT !.value = rows[k].prior, !.source = "carried_forward"]
  ELSE [rows[k].cell["amount"] EXCEPT !.value = None, !.source = "unset"]

ApplyReset(r) ==
  LET q == requests[r] IN
  /\ At(r, "reset")
  /\ rows' = [k \in Keys |-> IF k \in q.chosen /\ SameRow(q, k)
                             THEN [rows[k] EXCEPT !.cell["amount"] = ResetCell(q, k)]
                             ELSE rows[k]]
  /\ Become(r, Idle)
  /\ UNCHANGED <<nextRow, minted, staging, learned, components, runs>> /\ Stepped
-----------------------------------------------------------------------------
(***************************************************************************)
(* commit_staging_batch: a SELECT of the batch, then one transaction.      *)
(***************************************************************************)
StartCommit(r) ==
  /\ Started(r) /\ staging # None
  /\ Become(r, [Idle EXCEPT !.pc = "commit", !.staged = staging])
  /\ settled' = {}

Carries(line, staged) == IF staged.override = None THEN Rules[line] = Sticky ELSE staged.override

\* A row is inserted; a concurrent commit of the same batch may have been first.
CommittedAmount(line, staged) ==
  IF Carries(line, staged)
  THEN [value |-> Template, source |-> "carried_forward", locked |-> FALSE]
  ELSE [value |-> None, source |-> "unset", locked |-> FALSE]

Committed(line, staged) ==
  [id |-> nextRow, names |-> Names[line], rule |-> Rules[line], prior |-> Template,
   cell |-> [f \in Fields |->
     IF f = "amount" THEN CommittedAmount(line, staged)
     ELSE [value |-> Template, source |-> "imported", locked |-> FALSE]]]

\* COALESCE keeps what is there; locks are not looked at.
Merged(old, new) ==
  [new EXCEPT !.id = old.id, !.cell = [f \in Fields |->
     [value |-> IF old.cell[f].value = None THEN new.cell[f].value ELSE old.cell[f].value,
      source |-> IF old.cell[f].source = "unset" THEN new.cell[f].source
                 ELSE old.cell[f].source,
      locked |-> old.cell[f].locked]]]

ApplyCommit(r) ==
  LET batch == requests[r].staged
      LinesOf(k) == {l \in Lines : batch[l].key = k} IN
  /\ At(r, "commit")
  /\ \E skipped \in SUBSET Lines :  \* their INSERT raised
       rows' = [k \in Keys |->
         IF LinesOf(k) \subseteq skipped THEN rows[k]
         ELSE LET line == CHOOSE l \in LinesOf(k) : TRUE
                  new == Committed(line, batch[line])
              IN  IF rows[k] = None THEN new ELSE Merged(rows[k], new)]
  /\ nextRow' = nextRow + 1  \* more, for more rows: ids are compared per key
  /\ staging' = IF staging # None /\ \A l \in Lines : staging[l].key = batch[l].key
                THEN None ELSE staging
  /\ Become(r, Idle)
  /\ UNCHANGED <<minted, learned, components, runs>> /\ Stepped

\* An exception or a restart: the transaction at hand is rolled back.
Abort(r) ==
  /\ requests[r] # Idle
  /\ Become(r, Idle)
  /\ settled' = {}
  /\ UNCHANGED <<ledger, learned, components, runs, guarded, regime, edits, starts>>
-----------------------------------------------------------------------------
OperatorNext ==
  \/ Parse \/ Discard
  \/ \E l \in Lines, carry \in BOOLEAN : Override(l, carry)
  \/ \E k \in Keys :
       \/ EditPrior(k) \/ Delete(k)
       \/ \E fs \in (SUBSET Fields) \ {{}} : Edit(k, fs)
       \/ \E f \in Fields : Lock(k, f) \/ Unlock(k, f)
       \/ \E fp \in Fingerprints : AssignMapping(fp, k) \/ Retarget(fp, k)
  \/ \E in \in Inputs :
       \/ \E k \in Keys : Describe(k, in)
       \/ \E fs \in SUBSET Fields : Create(in, fs)
  \/ \E fp \in Fingerprints : DeleteMapping(fp) \/ ConfirmMapping(fp)

Reconcile(r) ==
  \/ StartReconcile(r) \/ ReadMappings(r)
  \/ UseMapping(r) \/ DropLegacy(r) \/ Migrate(r)
  \/ Learn(r) \/ Guess(r) \/ Unmatched(r)
  \/ Apply(r) \/ InsertRun(r) \/ ReplaceComponents(r) \/ Score(r)

Next == \/ OperatorNext
        \/ \E r \in Requests :
             \/ Reconcile(r)
             \/ StartReset(r) \/ ApplyReset(r)
             \/ StartCommit(r) \/ ApplyCommit(r)
             \/ Abort(r)

Spec == Init /\ [][Next]_vars
-----------------------------------------------------------------------------
Request == [pc : {"idle", "mappings", "item", "migrate", "apply", "components",
                  "score", "reset", "commit"},
            rows : [Keys -> Row \cup {None}], chosen : SUBSET Keys,
            staged : [Lines -> Staged] \cup {None},
            items : SUBSET Items, todo : SUBSET Items,
            lookup : [Fingerprints -> Mapping \cup {None}],
            before : SUBSET (Fingerprints \X Keys), used : SUBSET Nat,
            at : Keys \cup {None}, filled : SUBSET (Keys \X Items), run : Nat]

TypeOK ==
  /\ rows \in [Keys -> Row \cup {None}] /\ nextRow \in Nat
  /\ minted \subseteq Keys
  /\ staging \in [Lines -> Staged] \cup {None}
  /\ mappings \in [Fingerprints -> Mapping \cup {None}] /\ nextId \in Nat
  /\ components \subseteq [key : Keys, item : Items, run : Nat] /\ runs \in Nat
  /\ requests \in [Requests -> Request]
  /\ guarded \subseteq Keys \X Fields
  /\ settled \subseteq SUBSET Items
  /\ regime \in Regimes
  /\ edits \in 0 .. regime.edits /\ starts \in 0 .. regime.starts

SameOrOperator(k, f) ==
  rows'[k].cell[f].value \in {rows[k].cell[f].value, Operator}

(***************************************************************************)
(* docs/SYSTEM_DESIGN.md: "reviewed tax values must not be silently        *)
(* overwritten".  A lock placed while no long request was in flight holds, *)
(* whatever runs later, at once, or breaks off: the value stays until the  *)
(* operator edits or unlocks it.                                           *)
(***************************************************************************)
LocksStand ==
  [][\A c \in guarded : c \in guarded' => SameOrOperator(c[1], c[2])]_vars

(***************************************************************************)
(* "Mapping is the human decision layer": requests that run alone never    *)
(* redirect a mapping, except one whose row is gone, when a mapping in the *)
(* old format takes its place.                                             *)
(***************************************************************************)
MappingsStand ==
  [][~ overlap /\ requests' # requests =>
       \A i \in Items :
         LET old == mappings[<<"new", i>>]
             new == mappings'[<<"new", i>>] IN
         old # None =>
           /\ new # None
           /\ new.target # old.target =>
                rows[old.target] = None /\ \E r \in Requests : At(r, "migrate")]_vars

(***************************************************************************)
(* "Reconcile is a deterministic execution layer": running it again on the *)
(* same data, with nothing done in between, changes no row, although the   *)
(* first run may have learned and migrated mappings.                       *)
(***************************************************************************)
RerunChangesNothing ==
  \A r \in Requests :
    At(r, "score") /\ requests[r].items \in settled => rows = requests[r].rows

(***************************************************************************)
(* A mapping is not punished by a run that filled its row through it or    *)
(* learned it, nor one whose item is missing from the snapshot: "missing   *)
(* PWM fingerprints are orphaned instead of confidence-decayed".           *)
(***************************************************************************)
OnlyIdleMappingsDecay ==
  [][~ overlap => \A r \in Requests, i \in Items :
       LET q == requests[r]
           old == mappings[<<"new", i>>]
           new == mappings'[<<"new", i>>] IN
       /\ At(r, "score") /\ old # None
       /\ i \notin q.items \/ <<old.target, i>> \in q.filled
       => new.score >= old.score]_vars

(***************************************************************************)
(* The breakdown of a row never mixes two runs.                            *)
(***************************************************************************)
OneRunPerRow == \A c, d \in components : c.key = d.key => c.run = d.run

(***************************************************************************)
(* A repeated run changes nothing, and no breakdown mixes two runs.        *)
(***************************************************************************)
RunsAreRepeatable ==
  /\ TypeOK
  /\ RerunChangesNothing
  /\ OneRunPerRow

(***************************************************************************)
(* A run neither redirects a mapping nor punishes one that it used or that *)
(* its snapshot says nothing of.                                           *)
(***************************************************************************)
MappingsAreKept == MappingsStand /\ OnlyIdleMappingsDecay
=============================================================================
