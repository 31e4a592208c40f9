------------------------------ MODULE MailRules ------------------------------
(***************************************************************************)
(* The mail rules: evaluate_message of app/rules.py as the IMAP scan calls *)
(* it for every new mail, the mailbox changes it makes through             *)
(* imap_source, and the handlers of /rules with which the operator edits   *)
(* the rules meanwhile.                                                    *)
(*                                                                         *)
(* The rules of a mail are read in separate SELECTs, all before the first  *)
(* is acted on; an action and its event are one transaction, a mailbox     *)
(* change and its events are not. When anything raises, the scan ends and  *)
(* the mail comes back in the next one, unless it left the folder.         *)
(*                                                                         *)
(* The fetch, the deduplication and the checkpoint are those of ImapIntake;*)
(* what AI, alerts and attachments make of the mail are AiQueue, MailScan  *)
(* and PdfRouter. One folder; the IMAP server is external.                 *)
(***************************************************************************)
EXTENDS MutationGates, FiniteSets, FiniteSetsExt, SequencesExt

CONSTANTS RuleMails,     \* the mails in the folder
          TextOf,        \* TextOf[m][field], a sequence of letters
          AccountOf,     \* the account a mail came to
          Lower,         \* the lower case of every letter
          AtSign, Broken, \* the letter @, and one no pattern may hold
          RuleIds,       \* 1 .. the number of rules ever created
          Questions,     \* what the approvals page is asked about
          RuleRegimes    \* the circumstances to consider

Everyone == "everyone"   \* account_id NULL
Nowhere == 0

\* What the handlers of /rules accept. An action may also have the flag that
\* ends the evaluation.
LocalTypes == {"mark_pending_alert", "skip_ai_inference", "add_to_needs_reply",
               "route_to_pdf_pipeline", "notify_dashboard", "stop_processing"}
Operators == {"equals", "contains", "starts_with", "ends_with", "regex", "exists", "domain_equals", "in"}
Text == Seq(DOMAIN Lower)
Condition == [field : STRING, operator : Operators, value : Text, values : SUBSET Text, cased : BOOLEAN]
Action == [type : MutationTypes \cup LocalTypes, stop : BOOLEAN]
Contents == [account : STRING, priority : Int, enabled : BOOLEAN, match : {"ALL", "ANY"},
             conditions : SUBSET Condition, actions : Seq(Action)]

ASSUME RulesAssumption ==
  /\ AtSign # Broken /\ {AtSign, Broken} \subseteq DOMAIN Lower
  /\ IsFiniteSet(RuleMails) /\ IsFiniteSet(RuleIds) /\ RuleIds = 1 .. Cardinality(RuleIds)
  /\ DOMAIN TextOf = RuleMails /\ DOMAIN AccountOf = RuleMails
  /\ Questions \subseteq [settings : Settings, approval : Approvals, store : Stores]
  /\ \A r \in RuleRegimes :
       /\ r.settings \in Settings /\ r.ruleFaults \in Nat /\ r.edits \in Nat /\ r.renumbers \in Nat
       /\ r.saved \in Seq(Contents) /\ DOMAIN r.saved \subseteq RuleIds
       /\ r.drafts \subseteq Contents /\ r.fresh \subseteq RuleMails
       /\ r.server \in {"moves", "copies", "neither"} /\ r.folder \in {"there", "creatable", "missing"}
       /\ {r.create, r.fallback, r.asks} \subseteq BOOLEAN

VARIABLES rules,         \* mail_rules with their conditions and actions
          mailbox,       \* of each mail: its UID, its flags, its copies in the target folder
          uidValidity,   \* of the folder
          events,        \* mail_processing_events of the latest evaluation of each mail
          needsReplies,  \* mail_needs_reply
          settled,       \* the mails with a saved result
          reader,        \* where the scan stands
          during,        \* history: the versions of each rule since the evaluation began
          told,          \* what the approvals page told of an approval
          ruleRegime,    \* the circumstances
          ruleFaults, edits

ruleVars == <<rules, mailbox, uidValidity, events, needsReplies, settled, reader, during, told,
              ruleRegime, ruleFaults, edits>>
-----------------------------------------------------------------------------
(***************************************************************************)
(* Conditions. A mail without the field has the empty text.                *)
(***************************************************************************)
AfterAt(text) ==
  LET at == {i \in DOMAIN text : text[i] = AtSign}
  IN IF at = {} THEN <<>> ELSE SubSeq(text, Max(at) + 1, Len(text))

FieldValue(m, field) ==
  IF field = "sender_domain" THEN AfterAt(TextOf[m]["sender_email"])
  ELSE IF field \in DOMAIN TextOf[m] THEN TextOf[m][field] ELSE <<>>

Fold(c, text) == IF c.cased THEN text ELSE [i \in DOMAIN text |-> Lower[text[i]]]

Within(text, part) == \E i \in 0 .. Len(text) : IsPrefix(part, SubSeq(text, i + 1, Len(text)))
Bare(text) == LET ats == {i \in DOMAIN text : \A j \in 1 .. i : text[j] = AtSign}
              IN SubSeq(text, Cardinality(ats) + 1, Len(text))

\* _condition_matches; a pattern is plain letters, or broken
Holds(c, m) ==
  LET actual == Fold(c, FieldValue(m, c.field))
      expected == Fold(c, c.value)
  IN CASE c.operator = "exists"        -> actual # <<>>
       [] c.operator = "equals"        -> actual = expected
       [] c.operator = "contains"      -> Within(actual, expected)
       [] c.operator = "regex"         -> Within(actual, expected)
       [] c.operator = "starts_with"   -> IsPrefix(expected, actual)
       [] c.operator = "ends_with"     -> IsSuffix(expected, actual)
       [] c.operator = "domain_equals" -> (IF AtSign \in ToSet(actual) THEN AfterAt(actual) ELSE actual) = Bare(expected)
       [] c.operator = "in"            -> \E value \in c.values : actual = Fold(c, value)

Raises(c) == c.operator = "regex" /\ Broken \in ToSet(c.value)

\* No conditions at all hold for every mail.
Matches(rule, m) ==
  \/ rule.conditions = {}
  \/ rule.match = "ALL" /\ \A c \in rule.conditions : Holds(c, m)
  \/ rule.match = "ANY" /\ \E c \in rule.conditions : Holds(c, m)

\* The flag of any action, or an action of that name, ends the evaluation.
StopsByNameOnly(rule) == \E i \in DOMAIN rule.actions : rule.actions[i].type = "stop_processing"  \* a mutation
Stops(rule) == \E i \in DOMAIN rule.actions : rule.actions[i].type = "stop_processing" \/ rule.actions[i].stop

Stop == [type |-> "stop_processing", stop |-> TRUE]
Named(rule) == {rule.actions[i].type : i \in DOMAIN rule.actions}

\* The flag adds an action of that name at the end.
ActionsOf(rule) ==
  IF Stops(rule) /\ "stop_processing" \notin Named(rule) THEN Append(rule.actions, Stop) ELSE rule.actions

Steps(rule) == [i \in DOMAIN ActionsOf(rule) |-> [rule |-> rule.id, action |-> ActionsOf(rule)[i]]]
RaiseStep(rule) == <<[rule |-> rule.id, action |-> [type |-> "raise", stop |-> FALSE]]>>

\* The rules in order, each acting before the conditions of the next are tried.
Consider(m, plan, rule) ==
  IF plan.over THEN plan
  ELSE IF \E c \in rule.conditions : Raises(c)
       THEN [todo |-> plan.todo \o RaiseStep(rule), over |-> TRUE]
  ELSE IF Matches(rule, m) THEN [todo |-> plan.todo \o Steps(rule), over |-> Stops(rule)]
  ELSE plan

Plan(m, loaded) ==
  LET plan[i \in 0 .. Len(loaded)] ==
        IF i = 0 THEN [todo |-> <<>>, over |-> FALSE] ELSE Consider(m, plan[i - 1], loaded[i])
  IN plan[Len(loaded)].todo
-----------------------------------------------------------------------------
(***************************************************************************)
(* The scan. An item keeps the UID and the UIDVALIDITY it was fetched with,*)
(* Unknown when STATUS failed.                                             *)
(***************************************************************************)
Unknown == 0

Asleep == [pc |-> "idle", items |-> {}, unread |-> {}, loaded |-> <<>>, todo |-> <<>>, outcome |-> "none"]

Outcomes == {"completed", "failed", "unsupported", "uidvalidity_mismatch", "mode_blocked",
             "mutation_disabled", "dry_run", "action_not_allowed", "identity_incomplete"}

RulesInit ==
  /\ ruleRegime \in RuleRegimes
  /\ rules = ruleRegime.saved
  /\ LET order == SetToSeq(RuleMails) IN
     mailbox = [m \in RuleMails |-> [uid |-> CHOOSE i \in DOMAIN order : order[i] = m,
                                    seen |-> FALSE, flagged |-> FALSE, deleted |-> FALSE, filed |-> 0]]
  /\ uidValidity = 1 /\ events = {} /\ needsReplies = {} /\ settled = RuleMails \ ruleRegime.fresh
  /\ reader = Asleep /\ during = [r \in RuleIds |-> {}]
  /\ told = [gate |-> "none"]
  /\ ruleFaults = 0
  /\ edits = [made |-> 0, next |-> Len(ruleRegime.saved) + 1]

RuleFault == /\ ruleFaults < ruleRegime.ruleFaults
             /\ ruleFaults' = ruleFaults + 1
NoRuleFault == UNCHANGED ruleFaults

On(pc) == reader.pc = pc
\* The items in hand are taken by their UIDs.
Item0 == CHOOSE i \in reader.items : \A j \in reader.items : i.uid <= j.uid
Mail0 == Item0.mail
Step0 == Head(reader.todo)
Type0 == Step0.action.type

Elsewhere == UNCHANGED <<rules, uidValidity, told, ruleRegime, edits>>
OnlyReader == UNCHANGED <<mailbox, events, needsReplies, settled>> /\ Elsewhere
ReadOn(update) == reader' = update /\ OnlyReader

\* An exception ends the scan; what follows in it comes back in the next.
GiveUpHolding == [reader EXCEPT !.pc = "act"]  \* a mutation: it tries again with the rules it has
GiveUp == Asleep

Waiting == {m \in RuleMails \ settled : mailbox[m].uid # Nowhere}

PollFolder(v) ==
  /\ On("idle") /\ Waiting # {}
  /\ ReadOn([Asleep EXCEPT !.pc = "rows",
                !.items = {[mail |-> m, uid |-> mailbox[m].uid, validity |-> v] : m \in Waiting}])
  /\ UNCHANGED during
  /\ IF v = uidValidity THEN NoRuleFault ELSE RuleFault

Applies(rule, m) == rule.enabled /\ rule.account \in {Everyone, AccountOf[m]}

\* What during tells of a rule that was not there.
Absent == [enabled |-> FALSE]

\* _load_rules: first the rows,
SelectRules ==
  /\ On("rows")
  /\ ReadOn([reader EXCEPT !.pc = "read", !.loaded = <<>>,
       !.unread = {[id |-> r, priority |-> rules[r].priority, match |-> rules[r].match] :
                     r \in {a \in DOMAIN rules : Applies(rules[a], Mail0)}}])
  /\ during' = [r \in RuleIds |-> IF r \in DOMAIN rules THEN {rules[r]} ELSE {Absent}]
  /\ NoRuleFault

\* in the order they are to be tried,
Before(a, b) == a.priority < b.priority \/ (a.priority = b.priority /\ a.id < b.id)
NextRow == CHOOSE a \in reader.unread : \A b \in reader.unread \ {a} : Before(a, b)

\* then of each the conditions, and then the actions; both go with a deleted rule.
SelectConditions ==
  LET row == NextRow
      conditions == IF row.id \in DOMAIN rules THEN rules[row.id].conditions ELSE {}
  IN /\ On("read") /\ reader.unread # {}
     /\ ReadOn([reader EXCEPT !.pc = "actions", !.unread = @ \ {row},
                   !.loaded = Append(@, [id |-> row.id, priority |-> row.priority, match |-> row.match,
                                         conditions |-> conditions, actions |-> <<>>])])
     /\ UNCHANGED during /\ NoRuleFault

SelectActions ==
  LET last == Len(reader.loaded)
      r == reader.loaded[last].id
      actions == IF r \in DOMAIN rules THEN rules[r].actions ELSE <<>>
  IN /\ On("actions")
     /\ ReadOn([reader EXCEPT !.pc = "read", !.loaded[last].actions = actions])
     /\ UNCHANGED during /\ NoRuleFault

EvaluateMessage ==
  /\ On("read") /\ reader.unread = {}
  /\ ReadOn([reader EXCEPT !.pc = "act", !.todo = Plan(Mail0, reader.loaded)])
  /\ UNCHANGED during /\ NoRuleFault
-----------------------------------------------------------------------------
\* An event refers to its rule: once the rule is deleted SQLite refuses it, and the scan ends.
Known == Step0.rule \in DOMAIN rules
Acting == On("act") /\ reader.todo # <<>> /\ Known
Quiet == UNCHANGED during /\ NoRuleFault

Event(outcome) == [mail |-> Mail0, rule |-> Step0.rule, type |-> Type0, outcome |-> outcome]
Log(outcome) == events' = events \cup {Event(outcome)}

NextStep == [reader EXCEPT !.pc = "act", !.todo = Tail(@), !.outcome = "none"]

GateOf(type) == ExecutionGate(ruleRegime.settings, type, Identity)

Abort ==
  /\ \/ On("act") /\ reader.todo # <<>> /\ (Type0 = "raise" \/ ~ Known)
     \/ On("gate") /\ ~ Known /\ GateOf(Type0) # "open"
     \/ On("record") /\ ~ Known
  /\ ReadOn(GiveUp) /\ Quiet

\* _execute_action: the entry and its event are one transaction.
ActLocally ==
  /\ Acting /\ Type0 \notin MutationTypes \cup {"raise"}
  /\ Log("completed") /\ reader' = NextStep
  /\ needsReplies' = IF Type0 = "add_to_needs_reply" THEN needsReplies \cup {Mail0} ELSE needsReplies
  /\ UNCHANGED <<mailbox, settled>> /\ Elsewhere /\ Quiet

\* _execute_mutation_action: the intent is on record before the gates are tried,
Announce ==
  /\ Acting /\ Type0 \in MutationTypes
  /\ Log("planned") /\ reader' = [reader EXCEPT !.pc = "gate"]
  /\ UNCHANGED <<mailbox, needsReplies, settled>> /\ Elsewhere /\ Quiet

TurnAway ==
  /\ On("gate") /\ Known /\ GateOf(Type0) # "open"
  /\ Log(GateOf(Type0)) /\ reader' = NextStep
  /\ UNCHANGED <<mailbox, needsReplies, settled>> /\ Elsewhere /\ Quiet

\* the executor, whose every answer ends in one event.
Answer(outcome) == [reader EXCEPT !.pc = "record", !.outcome = outcome]
CallExecutor == On("gate") /\ GateOf(Type0) = "open"

\* No connection, no login, or SELECT refused.
CannotReach ==
  /\ CallExecutor
  /\ ReadOn(Answer("failed")) /\ UNCHANGED during /\ RuleFault

\* The UIDVALIDITY of the opened folder, where STATUS answers.
SameFolderAnyway(read) == TRUE  \* a mutation
SameFolder(read) == read = Item0.validity

CheckValidity(read) ==
  /\ CallExecutor
  /\ ReadOn(IF SameFolder(read) THEN [reader EXCEPT !.pc = "do"] ELSE Answer("uidvalidity_mismatch"))
  /\ UNCHANGED during
  /\ IF read = uidValidity THEN NoRuleFault ELSE RuleFault

\* A UID that is no longer in the folder is no error to IMAP.
Addressed == {m \in RuleMails : mailbox[m].uid = Item0.uid}

Change(F(_), next) ==
  /\ mailbox' = [m \in RuleMails |-> IF m \in Addressed THEN F(mailbox[m]) ELSE mailbox[m]]
  /\ reader' = next
  /\ UNCHANGED <<events, needsReplies, settled>> /\ Elsewhere /\ Quiet

Doing == On("do")

\* store_flags_by_uid
StoreFlags ==
  /\ Doing /\ Type0 # "move_to_folder"
  /\ LET Flags(letter) == CASE Type0 = "mark_read"      -> [letter EXCEPT !.seen = TRUE]
                         [] Type0 = "mark_unread"    -> [letter EXCEPT !.seen = FALSE]
                         [] Type0 = "mark_flagged"   -> [letter EXCEPT !.flagged = TRUE]
                         [] Type0 = "unmark_flagged" -> [letter EXCEPT !.flagged = FALSE]
     IN Change(Flags, Answer("completed"))

\* move_message_by_uid: what the probe found decides
Target ==
  CASE ruleRegime.folder = "there" -> "there"
    [] ruleRegime.folder = "creatable" -> IF ruleRegime.create THEN "there" ELSE "unsupported"
    [] ruleRegime.folder = "missing" -> IF ruleRegime.create THEN "refused" ELSE "unsupported"

Way ==
  CASE Target = "unsupported"        -> "unsupported"
    [] Target # "unsupported" /\ ruleRegime.server = "moves" -> IF Target = "there" THEN "move" ELSE "failed"
    [] Target # "unsupported" /\ ruleRegime.server = "neither" -> "unsupported"
    [] Target # "unsupported" /\ ruleRegime.server = "copies" ->
         IF ~ ruleRegime.fallback THEN "unsupported" ELSE IF Target = "there" THEN "copy" ELSE "failed"

\* Two copies stand for any number above one.
FileCopy(letter) == [letter EXCEPT !.filed = IF @ = 2 THEN 2 ELSE @ + 1]

Moving == Doing /\ Type0 = "move_to_folder"

Move == /\ Moving /\ Way = "move"
        /\ LET Gone(letter) == [FileCopy(letter) EXCEPT !.uid = Nowhere] IN Change(Gone, Answer("completed"))

\* Without MOVE: a copy, and the flag \Deleted on the original, which is not expunged.
CopyMarking ==  \* a mutation: the original is marked first
  /\ Moving /\ Way = "copy"
  /\ LET Marked(letter) == [letter EXCEPT !.deleted = TRUE] IN Change(Marked, [reader EXCEPT !.pc = "mark"])
Copy == /\ Moving /\ Way = "copy"
        /\ Change(FileCopy, [reader EXCEPT !.pc = "mark"])
MarkDeleted ==
  /\ On("mark")
  /\ LET Marked(letter) == [letter EXCEPT !.deleted = TRUE] IN Change(Marked, Answer("completed"))

CannotMove == /\ Moving /\ Way \in {"unsupported", "failed"}
              /\ ReadOn(Answer(Way)) /\ Quiet

\* The server refuses a command or hangs up, or the probe of its capabilities, a second
\* connection, fails.
ServerRefuses ==
  /\ Doing \/ On("mark")
  /\ \E outcome \in {"failed"} \cup (IF Moving THEN {"unsupported"} ELSE {}) : ReadOn(Answer(outcome))
  /\ UNCHANGED during /\ RuleFault

Conclude ==
  /\ On("record") /\ Known
  /\ Log(reader.outcome) /\ reader' = NextStep
  /\ UNCHANGED <<mailbox, needsReplies, settled>> /\ Elsewhere /\ Quiet

\* Then the mail is classified; its saved result keeps later scans from reading it again.
Finished == On("act") /\ reader.todo = <<>>
Onward == LET rest == reader.items \ {Item0}
          IN IF rest # {} THEN [Asleep EXCEPT !.pc = "rows", !.items = rest] ELSE Asleep

SaveResult ==
  /\ Finished
  /\ settled' = settled \cup {Mail0} /\ reader' = Onward
  /\ UNCHANGED <<mailbox, events, needsReplies>> /\ Elsewhere /\ Quiet

ScanFails ==
  /\ Finished
  /\ ReadOn(GiveUp) /\ UNCHANGED during /\ RuleFault

Stopped == /\ ~ On("idle")
           /\ ReadOn(Asleep) /\ UNCHANGED during /\ RuleFault
-----------------------------------------------------------------------------
(***************************************************************************)
(* The handlers of /rules, each one transaction. The index on account and  *)
(* priority refuses a second rule of the same rank, answered with 409.     *)
(***************************************************************************)
RulesStay == UNCHANGED <<mailbox, uidValidity, events, needsReplies, settled, reader, told, ruleRegime>> /\ NoRuleFault

Put(new) ==
  /\ edits.made < ruleRegime.edits
  /\ \A a, b \in DOMAIN new : a # b => <<new[a].account, new[a].priority>> # <<new[b].account, new[b].priority>>
  /\ rules' = new
  /\ during' = [r \in RuleIds |-> IF r \in DOMAIN new THEN during[r] \cup {new[r]} ELSE during[r]]
  /\ RulesStay

Edited == edits' = [edits EXCEPT !.made = @ + 1]

CreateRule(content) ==
  /\ edits.next \in RuleIds
  /\ Put([r \in DOMAIN rules \cup {edits.next} |-> IF r = edits.next THEN content ELSE rules[r]])
  /\ edits' = [made |-> edits.made + 1, next |-> edits.next + 1]

PatchRule(r, content) == Put([rules EXCEPT ![r] = content]) /\ Edited

DeleteRule(r) == Put([a \in DOMAIN rules \ {r} |-> rules[a]]) /\ Edited

\* Every rule of the list is first moved out of the way, so two may change places.
ReorderRules(a, b) ==
  /\ Put([rules EXCEPT ![a].priority = rules[b].priority, ![b].priority = rules[a].priority])
  /\ Edited

EditRules ==
  \/ \E content \in ruleRegime.drafts : CreateRule(content) \/ \E r \in DOMAIN rules : PatchRule(r, content)
  \/ \E r \in DOMAIN rules : DeleteRule(r)
  \/ \E a, b \in DOMAIN rules : a < b /\ ReorderRules(a, b)

\* The server gives the folder a new UIDVALIDITY and its mails other UIDs, though never
\* while a session has it open.
RenumberFolder ==
  /\ reader.pc \notin {"do", "mark"}
  /\ uidValidity \leq ruleRegime.renumbers
  /\ uidValidity' = uidValidity + 1
  /\ mailbox' = [m \in RuleMails |->
       IF mailbox[m].uid = Nowhere THEN mailbox[m]
       ELSE [mailbox[m] EXCEPT !.uid = Cardinality(RuleMails) + 1 - @]]
  /\ UNCHANGED <<rules, events, needsReplies, settled, reader, told, ruleRegime, edits>> /\ Quiet

\* GET of an approval tells the gate it would meet.
ShowApproval(q) ==
  /\ told = [gate |-> "none"] /\ ruleRegime.asks
  /\ told' = [gate |-> ApprovalGate(q.settings, q.approval, q.store), of |-> q]
  /\ UNCHANGED <<rules, uidValidity, ruleRegime, edits, mailbox, events, needsReplies, settled, reader>> /\ Quiet
-----------------------------------------------------------------------------
RuleSteps ==
  \/ PollFolder(uidValidity) \/ SelectRules \/ SelectConditions \/ SelectActions \/ EvaluateMessage
  \/ Abort \/ ActLocally \/ Announce \/ TurnAway \/ Conclude \/ SaveResult
  \/ CheckValidity(uidValidity) \/ StoreFlags \/ Move \/ Copy \/ MarkDeleted \/ CannotMove

RuleFaults == \/ PollFolder(Unknown) \/ CheckValidity(Unknown) \/ CannotReach \/ ServerRefuses \/ ScanFails \/ Stopped

RulesNext ==
  \/ RuleSteps \/ RuleFaults \/ EditRules \/ RenumberFolder
  \/ \E q \in Questions : ShowApproval(q)

RulesSpec == RulesInit /\ [][RulesNext]_ruleVars /\ WF_ruleVars(RuleSteps)
-----------------------------------------------------------------------------
RulesTypeOK ==
  /\ DOMAIN rules \subseteq RuleIds
  /\ mailbox \in [RuleMails -> [uid : 0 .. Cardinality(RuleMails), seen : BOOLEAN, flagged : BOOLEAN,
                               deleted : BOOLEAN, filed : 0 .. 2]]
  /\ events \subseteq [mail : RuleMails, rule : RuleIds, outcome : Outcomes \cup {"planned"},
                       type : MutationTypes \cup LocalTypes]
  /\ needsReplies \subseteq RuleMails /\ settled \subseteq RuleMails
  /\ reader.pc \in {"idle", "rows", "read", "actions", "act", "gate", "do", "mark", "record"}
  /\ reader.outcome \in Outcomes \cup {"none"}
  /\ \A i \in DOMAIN reader.todo : reader.todo[i].rule \in RuleIds

Evaluated == reader.pc \in {"act", "gate", "do", "mark", "record"}
Planned == {reader.todo[i] : i \in {j \in DOMAIN reader.todo : reader.todo[j].action.type # "raise"}}

\* What a rule does to a mail was saved in that rule while the mail was being
\* evaluated, and so were conditions that the mail meets: never a rule of an
\* earlier evaluation, of another account, or one that was off all the while.
\* (The two need not have been saved together: see the README.)
ActionsWereSaved ==
  Evaluated => \A step \in Planned :
    /\ \E v \in during[step.rule] : v.enabled /\ v.account \in {Everyone, AccountOf[Mail0]}
    /\ \E v, w \in during[step.rule] :
         /\ v.conditions = {} \/ \E c \in v.conditions : Holds(c, Mail0)
         /\ w.match = "ALL" => \A c \in v.conditions : Holds(c, Mail0)
    /\ \E v \in during[step.rule] : step.action \in ToSet(v.actions) \cup {Stop}

Precedes(a, b) == Before([priority |-> rules[a].priority, id |-> a], [priority |-> rules[b].priority, id |-> b])
Unedited(r) == during[r] = {rules[r]}

\* Once a rule that ends the evaluation has matched, no rule after it acts on
\* the mail, however the stop was asked for, if neither of the two was edited
\* or created during the evaluation.
StopsAreFinal ==
  Evaluated => \A step \in Planned, a \in DOMAIN rules :
    /\ Unedited(a) /\ Applies(rules[a], Mail0) /\ Matches(rules[a], Mail0)
    /\ \E i \in DOMAIN rules[a].actions : rules[a].actions[i].stop \/ rules[a].actions[i].type = "stop_processing"
    => step.rule = a \/ (step.rule \in DOMAIN rules /\ Unedited(step.rule) => ~ Precedes(a, step.rule))

Touched(m) == mailbox'[m] # mailbox[m]

\* A change of the mailbox reaches only the mail under evaluation, although the
\* server may have numbered the folder anew since the mail was fetched, and only
\* after the intent was put on record; unless its UIDVALIDITY was never known.
TouchedAsAnnounced ==
  [][\A m \in RuleMails : Touched(m) /\ uidValidity' = uidValidity /\ Item0.validity # Unknown =>
       m = Mail0 /\ Event("planned") \in events]_ruleVars

\* No mailbox is changed that one of the three previews would have called blocked.
EffectsWerePreviewed ==
  [][(\E m \in RuleMails : Touched(m)) /\ uidValidity' = uidValidity =>
       LET s == ruleRegime.settings IN
       /\ PreviewGate(s, Identity) = "ready" /\ MessagePreviewGate(s) = "planned"
       /\ FirstClosed(PlanGates(s, Type0), "open") = "open"]_ruleVars

\* A mail that was settled left no announced change without its outcome.
SettledIsAccounted ==
  \A m \in settled : \A e \in events :
    e.mail = m /\ e.outcome = "planned" =>
      \/ \E f \in events : f.mail = m /\ f.rule = e.rule /\ f.type = e.type /\ f.outcome # "planned"
      \/ edits.made > 0

\* No sequence of changes, refusals and repetitions loses a mail: it is in the
\* folder, not marked for deletion, or a copy of it is in the target folder.
NoMailIsLost ==
  \A m \in RuleMails : mailbox[m].uid = Nowhere \/ mailbox[m].deleted => mailbox[m].filed > 0

\* When the approvals page calls a mailbox change ready, the executor's own gates
\* are open, for the UIDVALIDITY last seen in the folder.
ReadyIsExecutable ==
  told.gate = "ready" /\ told.of.approval.type \in MutationTypes =>
    LET a == told.of.approval s == told.of.settings IN
    /\ ExecutionGate(s, a.type, a.parts \cup {"validity"}) = IF a.type = "add_label" THEN "unsupported" ELSE "open"
    /\ a.status \in {"pending", "approved"} /\ a.started = "no" /\ told.of.store.account = "enabled"
    /\ s.matchValidity => a.validity = told.of.store.folderValidity

\* A rule with a broken pattern stops every scan at the first mail it is tried
\* on. Once no such rule is left, every mail that stayed in the folder is settled.
Poisoned == \E r \in DOMAIN rules : rules[r].enabled /\ \E c \in rules[r].conditions : Raises(c)
RepairedRulesDrain == <>[](~ Poisoned) => <>(Waiting = {})

(***************************************************************************)
(* What is done for a mail was saved for it, by a rule that applies to its *)
(* account and matched, and nothing after the first stop.                  *)
(***************************************************************************)
RulesAreObeyed == ActionsWereSaved /\ StopsAreFinal

(***************************************************************************)
(* Wherever rules, crashes and refusals leave the mails: none has vanished *)
(* from both folders, and a settled one has a terminal event for every     *)
(* change announced.                                                       *)
(***************************************************************************)
MailsAreAccounted ==
  /\ RulesTypeOK
  /\ SettledIsAccounted
  /\ NoMailIsLost

(***************************************************************************)
(* An effect on the mailbox was on record before, hits the mail it was     *)
(* planned for, and lies within what the previews tell.                    *)
(***************************************************************************)
EffectsWereTold == TouchedAsAnnounced /\ EffectsWerePreviewed
=============================================================================
