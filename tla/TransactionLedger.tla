--------------------------- MODULE TransactionLedger ---------------------------
(***************************************************************************)
(* Bank transactions in finance.db: the import of ALL_TRANSACTIONS.xlsx    *)
(* (finance/importer.py), the layered categorisation of a description      *)
(* (finance/categorizer.py), and the endpoints of finance/api.py that      *)
(* categorise rows and keep the aliases they are categorised by.           *)
(*                                                                         *)
(* The endpoints run in a thread pool.  Three of them read the tables,     *)
(* think (a language model may be asked), and write later; their reads are *)
(* kept in a request, and other endpoints act in between.                  *)
(*                                                                         *)
(* A line of the workbook stands for the fields its hash is made of; its   *)
(* identity is the same without the description.  Merchants and notes go   *)
(* wherever the category goes and are left out.                            *)
(***************************************************************************)
EXTENDS Integers, Sequences, SequencesExt

CONSTANTS Lines,       \* lines a workbook may have; also their hashes
          TextOf,      \* the description of a line
          IdentityOf,  \* date, amount, institution, account and owner
          OwnerOf,     \* the owner of a line
          Automatic,   \* lines of a settlement account: ignored on sight
          Variants,    \* pairs of texts that two parser versions make of one
          Transfers,   \* [debit, credit]: two sides of an internal transfer
          Sheets,      \* workbooks: sequences of lines
          Hits,        \* texts an alias matches, by [type, pattern]
          TokensOf,    \* the number of tokens of a pattern
          LikeHits,    \* texts the LIKE of /api/alias finds for a pattern
          Names,       \* names of categories
          Known,       \* those in the table at first
          Reserved,    \* the names the code itself assigns
          Seeded,      \* aliases installed by scripts
          Teachable,   \* [type, pattern] an operator may confirm
          Requests,    \* long requests in flight at once
          Regimes,     \* what a behaviour may contain, and its bounds
          None

Texts == {TextOf[l] : l \in Lines}
Layer == [exact |-> 1, contains |-> 2, regex |-> 3]
ReservedNames == {Reserved[f] : f \in DOMAIN Reserved}

ASSUME LinesAssumption ==
  /\ DOMAIN TextOf = Lines /\ DOMAIN IdentityOf = Lines /\ DOMAIN OwnerOf = Lines
  /\ Automatic \subseteq Lines /\ Sheets \subseteq Seq(Lines)
  /\ \A t \in Transfers : {t.debit, t.credit} \subseteq Lines
ASSUME VariantsAssumption ==
  /\ Variants \subseteq Texts \X Texts
  /\ \A v \in Variants : <<v[2], v[1]>> \in Variants
ASSUME NamesAssumption ==
  /\ Known \subseteq Names /\ None \notin Names \cup Lines
  /\ DOMAIN Reserved = {"ignored", "transfer", "other"} /\ ReservedNames \subseteq Names
ASSUME RegimesAssumption ==
  Regimes \subseteq [overlap : BOOLEAN, assisted : BOOLEAN, offline : BOOLEAN,
                     imports : Nat, edits : Nat]

VARIABLES
  rows,        \* transactions, by hash
  overrides,   \* category_overrides, by hash
  aliases,     \* merchant_aliases, in the order of their ids
  categories,  \* names in the table categories
  requests,    \* what the long requests have read, and where they stand
  decided,     \* history: the operator's last word on a row
  imported,    \* history: lines of the workbooks imported
  regime, imports, edits  \* fixed; counters for the bounds

tables == <<rows, overrides, aliases, categories>>
history == <<decided, imported>>
counters == <<imports, edits>>
tvars == <<tables, requests, history, regime, counters>>
-----------------------------------------------------------------------------
Row == [text : Texts, category : Names \cup {None}, suggestion : Names \cup {None}]
Rule == [type : DOMAIN Layer, pattern : DOMAIN TokensOf,
         owner : {OwnerOf[l] : l \in Lines} \cup {None}, category : Names]

\* UNIQUE(alias, owner_filter, account_filter).
Distinct(rs) ==
  \A i, j \in DOMAIN rs :
    (rs[i].pattern = rs[j].pattern /\ rs[i].owner = rs[j].owner) => i = j

ASSUME RulesAssumption ==
  /\ None \notin Row
  /\ TokensOf \in [DOMAIN TokensOf -> Nat] /\ Texts \subseteq DOMAIN TokensOf
  /\ Teachable \subseteq (DOMAIN Layer) \X (DOMAIN TokensOf)
  /\ \A rs \in Seeded : /\ rs \in Seq(Rule) /\ Distinct(rs)
                         /\ \A a \in ToSet(rs) : a.category \in Known \cup ReservedNames

\* CREATE VIEW transactions_resolved.
Resolved(h) == IF overrides[h] # None THEN overrides[h] ELSE rows[h].category
Present == {h \in Lines : rows[h] # None}
Uncategorised == {h \in Present : Resolved(h) = None}

Idle == [pc |-> "idle"]
AllIdle == \A r \in Requests : requests[r] = Idle

\* A step of the operator, or the first of a long request.
Free == regime.overlap \/ AllIdle
Edited == Free /\ edits < regime.edits /\ edits' = edits + 1

TInit ==
  /\ rows = [h \in Lines |-> None] /\ overrides = [h \in Lines |-> None]
  /\ aliases \in Seeded /\ categories = Known
  /\ requests = [r \in Requests |-> Idle]
  /\ decided = [h \in Lines |-> None] /\ imported = {}
  /\ regime \in Regimes /\ imports = 0 /\ edits = 0
-----------------------------------------------------------------------------
(***************************************************************************)
(* Categorizer.                                                            *)
(***************************************************************************)
Specific(a) == a.owner # None

Applies(a, text, owner) ==
  text \in Hits[<<a.type, a.pattern>>] /\ a.owner \in {None, owner}

\* The order in which aliases are tried: by layer; in each, _load_aliases
\* sorts rules with a filter first, and contains-rules of more tokens before
\* others; the rest is the table's order.
Length(a) == IF a.type = "contains" THEN TokensOf[a.pattern] ELSE 0
Ahead(rs, i, j) ==
  \/ Layer[rs[i].type] < Layer[rs[j].type]
  \/ /\ rs[i].type = rs[j].type
     /\ \/ Specific(rs[i]) /\ ~Specific(rs[j])
        \/ /\ Specific(rs[i]) <=> Specific(rs[j])
           /\ \/ Length(rs[i]) > Length(rs[j])
              \/ Length(rs[i]) = Length(rs[j]) /\ i < j

\* _categorize_legacy: exact, then contains, then regex; then a model, whose
\* answer, if any, is a known category or "Other".
ByAlias(rs, text, owner) ==
  LET hits == {i \in DOMAIN rs : Applies(rs[i], text, owner)}
      first == CHOOSE i \in hits : \A j \in hits \ {i} : Ahead(rs, i, j)
  IN  IF hits = {} THEN None ELSE rs[first].category

Answers(known) ==
  IF regime.assisted THEN known \cup {Reserved.other, None} ELSE {None}

\* match_internal_transfers, over the lines about to be written.
Paired(batch) == UNION {{t.debit, t.credit} :
                   t \in {u \in Transfers : {u.debit, u.credit} \subseteq batch}}
-----------------------------------------------------------------------------
(***************************************************************************)
(* direct_import.                                                          *)
(***************************************************************************)
StartImport(r, sheet, overwrite) ==
  /\ requests[r] = Idle /\ Free /\ imports < regime.imports
  /\ imports' = imports + 1
  /\ requests' = [requests EXCEPT ![r] =
       [pc |-> "import", sheet |-> sheet, overwrite |-> overwrite,
        rows |-> rows, resolved |-> [h \in Lines |-> IF rows[h] = None THEN None ELSE Resolved(h)],
        aliases |-> aliases, categories |-> categories]]
  /\ UNCHANGED <<tables, history, regime, edits>>

\* Whether a line is another version of a text (guarded reconciliation).
\* Mutant: any line of the same identity is.
SameLine(text, l) == TRUE
Merges(text, l) == <<text, TextOf[l]>> \in Variants

\* One round of the loop over the lines: whether to insert a line, to merge
\* it into a row (whose text later lines are compared with), or to overwrite.
Twins(q, l) == {h \in Lines : q.rows[h] # None /\ IdentityOf[h] = IdentityOf[l]}
Place(q, plan, l) ==
  IF q.rows[l] # None
  THEN IF q.overwrite THEN [plan EXCEPT !.over = @ \cup {l}] ELSE plan
  ELSE IF ~q.overwrite /\ \E h \in Twins(q, l) : Twins(q, l) = {h} /\ Merges(plan.text[h], l)
  THEN LET h == CHOOSE g \in Twins(q, l) : TRUE
       IN  [plan EXCEPT !.merged[h] = l, !.text[h] = TextOf[l]]
  ELSE [plan EXCEPT !.new = @ \cup {l}]

Nothing(q) == [new |-> {}, over |-> {}, merged |-> [h \in Lines |-> None],
               text |-> [h \in Lines |-> IF q.rows[h] = None THEN None ELSE q.rows[h].text]]

Planned(q) ==
  LET plan[i \in 0..Len(q.sheet)] ==
        IF i = 0 THEN Nothing(q) ELSE Place(q, plan[i - 1], q.sheet[i])
  IN  plan[Len(q.sheet)]

\* The category a line gets; an overwritten row keeps the one it shows if
\* there is no better.
Sorted(q, l, answer) ==
  LET found == ByAlias(q.aliases, TextOf[l], OwnerOf[l])
  IN  IF l \in Automatic THEN Reserved.ignored
      ELSE IF found # None THEN found ELSE answer[l]

\* Mutant: an overwrite forgets the category a row shows.
Forgotten(q, l, answer) == Sorted(q, l, answer)

Kept(q, l, answer) == LET c == Sorted(q, l, answer)
                      IN  IF c = None THEN q.resolved[l] ELSE c

Imported(q, answer) ==
  LET plan == Planned(q)
      twosided == Paired(plan.new \cup plan.over)
      Final(l, c) == IF l \in twosided THEN Reserved.transfer ELSE c
  IN  [h \in Lines |->
        IF h \in plan.new /\ rows[h] = None
        THEN [text |-> TextOf[h], category |-> Final(h, Sorted(q, h, answer)),
              suggestion |-> None]
        ELSE IF plan.merged[h] # None
        THEN [rows[h] EXCEPT !.text = TextOf[plan.merged[h]],
                             !.category = Sorted(q, plan.merged[h], answer)]
        ELSE IF h \in plan.over
        THEN [rows[h] EXCEPT !.text = TextOf[h],
                             !.category = Final(h, Kept(q, h, answer))]
        ELSE rows[h]]

FinishImport(r) ==
  /\ requests[r].pc = "import"
  /\ \E answer \in [Lines -> Answers(requests[r].categories)] :
       rows' = Imported(requests[r], answer)
  /\ imported' = imported \cup ToSet(requests[r].sheet)
  /\ requests' = [requests EXCEPT ![r] = Idle]
  /\ UNCHANGED <<overrides, aliases, categories, decided, regime, counters>>
-----------------------------------------------------------------------------
(***************************************************************************)
(* The operator's edits.                                                   *)
(***************************************************************************)
\* Mutant: the row alone is changed, as before there was an override layer.
RowOnly(hs, c) ==
  /\ rows' = [h \in Lines |-> IF h \in hs THEN [rows[h] EXCEPT !.category = c] ELSE rows[h]]
  /\ decided' = [h \in Lines |-> IF h \in hs THEN c ELSE decided[h]]
  /\ UNCHANGED overrides

\* Both the override and the row itself take the category; an operator's
\* word on one row may be extended to others by the same request.
Relabel(hs, c) ==
  /\ overrides' = [h \in Lines |-> IF h \in hs THEN c ELSE overrides[h]]
  /\ rows' = [h \in Lines |-> IF h \in hs THEN [rows[h] EXCEPT !.category = c] ELSE rows[h]]
  /\ decided' = [h \in Lines |-> IF h \in hs THEN c ELSE decided[h]]

Alias(key, owner, c) == [type |-> key[1], pattern |-> key[2], owner |-> owner, category |-> c]


\* INSERT OR IGNORE: an alias of the same text is left as it is.
Taught(rs, key, c) ==
  IF \E a \in ToSet(rs) : a.pattern = key[2] /\ a.owner = None
  THEN rs ELSE Append(rs, Alias(key, None, c))

Alike(h, key) ==
  CASE key[1] = "exact" -> {g \in Present : rows[g].text = rows[h].text}
    [] key[1] = "contains" -> {g \in Present : rows[g].text \in LikeHits[key[2]]}
    [] OTHER -> {g \in Present : rows[g].text \in Hits[key]}

PostAlias(h, c, key, similar) ==
  /\ Edited /\ h \in Present /\ c \in categories
  /\ aliases' = Taught(aliases, key, c)
  /\ Relabel({h} \cup IF similar THEN Alike(h, key) \cap Uncategorised ELSE {}, c)
  /\ UNCHANGED <<categories, requests, imported, regime, imports>>

\* The request checks the category and reads the row, then writes.
StartPatch(r, h, c, learn) ==
  /\ requests[r] = Idle /\ Edited /\ h \in Present
  /\ c \in categories \cup {Reserved.ignored}
  /\ requests' = [requests EXCEPT ![r] =
       [pc |-> "patch", hash |-> h, category |-> c, learn |-> learn, text |-> rows[h].text]]
  /\ UNCHANGED <<tables, history, regime, imports>>

Corrected(rs, text, c) ==
  LET same == {i \in DOMAIN rs : rs[i].pattern = text}
  IN  IF same = {} THEN Append(rs, Alias(<<"exact", text>>, None, c))
      ELSE IF rs[Min(same)].category = c THEN rs
      ELSE [i \in DOMAIN rs |-> IF rs[i].pattern = text THEN [rs[i] EXCEPT !.category = c]
                                ELSE rs[i]]

FinishPatch(r) ==
  /\ requests[r].pc = "patch"
  /\ LET q == requests[r]
         similar == {g \in Present : rows[g].text = q.text}
     IN  /\ aliases' = IF q.learn THEN Corrected(aliases, q.text, q.category) ELSE aliases
         /\ Relabel({q.hash} \cup IF q.learn THEN similar ELSE {}, q.category)
  /\ requests' = [requests EXCEPT ![r] = Idle]
  /\ UNCHANGED <<categories, imported, regime, counters>>

\* POST /api/categories: a new name, or a rename of one in use.
AddCategory(c) ==
  /\ Edited /\ c \notin categories /\ categories' = categories \cup {c}
  /\ UNCHANGED <<rows, overrides, aliases, requests, history, regime, imports>>

RenameCategory(old, new) ==
  LET Renamed(c) == IF c = old THEN new ELSE c
  IN  /\ Edited /\ old \in categories /\ new \notin categories
      /\ categories' = (categories \ {old}) \cup {new}
      /\ rows' = [h \in Lines |-> IF h \in Present
                                  THEN [rows[h] EXCEPT !.category = Renamed(rows[h].category)]
                                  ELSE None]
      /\ overrides' = [h \in Lines |-> Renamed(overrides[h])]
      /\ aliases' = [i \in DOMAIN aliases |->
                       [aliases[i] EXCEPT !.category = Renamed(aliases[i].category)]]
      /\ decided' = [h \in Lines |-> Renamed(decided[h])]
      /\ UNCHANGED <<requests, imported, regime, imports>>
-----------------------------------------------------------------------------
(***************************************************************************)
(* backfill_aliases and suggest_review_queue: the aliases are read, then  *)
(* the rows without a category, then some of these rows are written.       *)
(***************************************************************************)
StartSweep(r, kind) ==
  /\ requests[r] = Idle /\ Edited
  /\ requests' = [requests EXCEPT ![r] = [pc |-> kind, aliases |-> aliases, rows |-> {}, read |-> FALSE]]
  /\ UNCHANGED <<tables, history, regime, imports>>

ReadSweep(r) ==
  /\ requests[r].pc \in {"backfill", "suggest"} /\ ~requests[r].read
  /\ LET found == IF requests[r].pc = "backfill" THEN Uncategorised
                  ELSE {h \in Uncategorised : rows[h].suggestion = None}
     IN  requests' = [requests EXCEPT ![r].read = TRUE,
                        ![r].rows = {<<h, rows[h].text>> : h \in found}]
  /\ UNCHANGED <<tables, history, regime, counters>>

\* The backfill looks at neither the owner, the filter nor the length.
ByAnyAlias(rs, text) ==
  LET hits == {i \in DOMAIN rs : text \in Hits[<<rs[i].type, rs[i].pattern>>]}
      Tried(i, j) == \/ Layer[rs[i].type] < Layer[rs[j].type]
                     \/ rs[i].type = rs[j].type /\ i < j
      first == CHOOSE i \in hits : \A j \in hits \ {i} : Tried(i, j)
  IN  IF hits = {} THEN None ELSE rs[first].category

WriteBackfill(r) ==
  /\ requests[r].pc = "backfill" /\ requests[r].read
  /\ LET q == requests[r]
         found == {x \in q.rows : ByAnyAlias(q.aliases, x[2]) # None}
     IN  rows' = [h \in Lines |->
           IF \E x \in found : x[1] = h
           THEN [rows[h] EXCEPT !.category =
                  ByAnyAlias(q.aliases, (CHOOSE x \in found : x[1] = h)[2])]
           ELSE rows[h]]
  /\ requests' = [requests EXCEPT ![r] = Idle]
  /\ UNCHANGED <<overrides, aliases, categories, history, regime, counters>>

\* What an alias says is applied; what the model says is only suggested.
WriteSuggest(r) ==
  /\ requests[r].pc = "suggest" /\ requests[r].read
  /\ \E answer \in [{x[1] : x \in requests[r].rows} -> Answers(Known)] :
       LET q == requests[r]
           Found(x) == ByAlias(q.aliases, x[2], OwnerOf[x[1]])
           Marked(x) == IF Found(x) # None
                        THEN [rows[x[1]] EXCEPT !.category = Found(x)]
                        ELSE [rows[x[1]] EXCEPT !.suggestion = answer[x[1]]]
       IN  rows' = [h \in Lines |-> IF \E x \in q.rows : x[1] = h
                                   THEN Marked(CHOOSE x \in q.rows : x[1] = h) ELSE rows[h]]
  /\ requests' = [requests EXCEPT ![r] = Idle]
  /\ UNCHANGED <<overrides, aliases, categories, history, regime, counters>>
-----------------------------------------------------------------------------
Imports == \E r \in Requests :
  \/ \E sheet \in Sheets, overwrite \in BOOLEAN : StartImport(r, sheet, overwrite)
  \/ FinishImport(r)

Sweeps == \E r \in Requests :
  \/ \E kind \in {"backfill", "suggest"} : StartSweep(r, kind)
  \/ ReadSweep(r)
  \/ WriteBackfill(r)
  \/ WriteSuggest(r)

Edits ==
  \/ \E h \in Lines, c \in Names, key \in Teachable, similar \in BOOLEAN :
       PostAlias(h, c, key, similar)
  \/ \E r \in Requests, h \in Lines, c \in Names, learn \in BOOLEAN :
       StartPatch(r, h, c, learn)
  \/ \E r \in Requests : FinishPatch(r)
  \/ \E c \in Names : AddCategory(c)
  \/ \E old, new \in Names : RenameCategory(old, new)

TNext == Imports \/ Sweeps \/ Edits
TSpec == TInit /\ [][TNext]_tvars
-----------------------------------------------------------------------------
TypeOK ==
  /\ rows \in [Lines -> Row \cup {None}]
  /\ overrides \in [Lines -> Names \cup {None}]
  /\ aliases \in Seq(Rule) /\ Distinct(aliases)
  /\ categories \subseteq Names
  /\ \A r \in Requests : requests[r].pc \in {"idle", "import", "patch", "backfill", "suggest"}
  /\ decided \in [Lines -> Names \cup {None}] /\ imported \subseteq Lines
  /\ imports <= regime.imports /\ edits <= regime.edits

\* What the operator decided about a row is what the application shows, in
\* whatever order imports, sweeps, renames and other edits come, also when
\* they overlap (the documented purpose of category_overrides).
OperatorWordStands ==
  \A h \in Present : decided[h] # None => Resolved(h) = decided[h]

\* Texts that the parsers' variants lead from one to the other, in one or
\* several steps: what merges row after row may make of a text.
Related(s, t) ==
  \A S \in SUBSET Texts :
    (s \in S /\ \A v \in Variants : v[1] \in S => v[2] \in S) => t \in S

\* A line of an imported workbook is in the ledger, under its own text or
\* one that merges with its row have led to: merging loses no line, also
\* when imports overlap.
ImportKeepsEveryLine ==
  \A l \in imported : \E h \in Present :
    IdentityOf[h] = IdentityOf[l] /\ Related(rows[h].text, TextOf[l])

\* Requests that do not overlap leave no name behind that a rename has
\* replaced: every category in use is in the table or one the code assigns.
KnownCategories ==
  (~regime.overlap /\ AllIdle) =>
    LET known == categories \cup ReservedNames
    IN  /\ \A h \in Present : Resolved(h) \in known \cup {None}
        /\ \A a \in ToSet(aliases) : a.category \in known

\* A row that shows a category goes on showing one, but for two imports: one
\* that merges another version of its text into it and, where requests
\* overlap, one that overwrites it and that read it before it was categorised.
\* A row that an import read with its category keeps one when it is overwritten.
CategorisedStays ==
  [][\A h \in Present : Resolved(h) # None =>
       \/ Resolved(h)' # None
       \/ \E r \in Requests :
            LET q == requests[r]
            IN  /\ FinishImport(r)
                /\ \/ Planned(q).merged[h] # None
                   \/ regime.overlap /\ h \in Planned(q).over /\ q.resolved[h] = None]_tvars

(***************************************************************************)
(* Every imported line is in the ledger, and every category in it exists.  *)
(***************************************************************************)
LedgerIsWhole ==
  /\ TypeOK
  /\ ImportKeepsEveryLine
  /\ KnownCategories
=============================================================================
