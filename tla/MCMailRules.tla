----------------------------- MODULE MCMailRules -----------------------------
(* Small instances of MailRules.                                             *)
EXTENDS MailRules
CONSTANTS ra, rb
MCText == [m \in {ra, rb} |-> IF m = ra THEN [sender_email |-> <<"a", "@", "B">>, subject |-> <<"A", "b">>]
                              ELSE [sender_email |-> <<"b">>, subject |-> <<>>]]
MCAccount == [m \in {ra, rb} |-> "home"]
MCLower == [a |-> "a", A |-> "a", b |-> "b", B |-> "b"] @@ ("@" :> "@") @@ ("(" :> "(")
MCRuleIds == 1 .. 3

Cond(field_, operator_, value_, cased_) ==
  [field |-> field_, operator |-> operator_, value |-> value_, values |-> {}, cased |-> cased_]
Do(type_) == [type |-> type_, stop |-> FALSE]
Rule(priority_, match_, conditions_, actions_) ==
  [account |-> Everyone, priority |-> priority_, enabled |-> TRUE, match |-> match_,
   conditions |-> conditions_, actions |-> actions_]
Subject == Cond("subject", "contains", <<"B">>, FALSE)
Capital == Cond("subject", "starts_with", <<"a">>, TRUE)
Domain == Cond("sender_domain", "equals", <<"b">>, FALSE)
Sender == Cond("sender_email", "domain_equals", <<"@", "b">>, FALSE)
Listed == [Cond("subject", "in", <<>>, FALSE) EXCEPT !.values = {<<"a", "B">>}]
There == Cond("subject", "exists", <<>>, FALSE)
Ends == Cond("subject", "ends_with", <<"b">>, TRUE)
Pattern == Cond("subject", "regex", <<"b">>, FALSE)
Bad == Cond("subject", "regex", <<"(">>, FALSE)

Live == [mode |-> "live", enabled |-> TRUE, dryRun |-> FALSE, allowed |-> AllowGated,
         matchValidity |-> TRUE, needCache |-> TRUE]
Base == [settings |-> Live, fresh |-> {ra, rb}, saved |-> <<>>, drafts |-> {}, server |-> "moves", folder |-> "there",
         create |-> FALSE, fallback |-> FALSE, ruleFaults |-> 0, edits |-> 0, renumbers |-> 0,
         asks |-> FALSE]

Reading == Rule(1, "ALL", {Subject}, <<Do("mark_read")>>)
Replying == Rule(2, "ALL", {}, << [type |-> "add_to_needs_reply", stop |-> TRUE] >>)
Flagging == Rule(3, "ANY", {Capital, Sender}, <<Do("mark_flagged")>>)
Edits == [Base EXCEPT !.saved = <<Reading, Replying>>, !.edits = 2,
           !.drafts = {[Reading EXCEPT !.enabled = FALSE], Rule(1, "ANY", {Capital, Domain}, <<Do("mark_flagged"), Do("stop_processing")>>),
                       [Flagging EXCEPT !.account = "work"]}]
Stopping == [Base EXCEPT !.saved = <<Flagging, [Replying EXCEPT !.priority = 1],
                                     Rule(4, "ALL", {Listed, There, Ends, Pattern}, <<Do("mark_unread"), Do("unmark_flagged")>>)>>]
Chained == [Base EXCEPT !.saved = <<Rule(1, "ALL", {Subject}, <<Do("move_to_folder"), Do("mark_read")>>),
                                    Rule(2, "ALL", {Listed, There, Ends, Pattern}, <<Do("unmark_flagged"), Do("mark_unread")>>)>>,
                        !.ruleFaults = 2, !.renumbers = 1]
Copying == [Chained EXCEPT !.server = "copies", !.fallback = TRUE, !.renumbers = 0]
Moving_ == {[Chained EXCEPT !.server = v, !.fallback = f, !.folder = h, !.create = c, !.ruleFaults = 0, !.renumbers = 0] :
              v \in {"moves", "copies", "neither"}, f \in BOOLEAN, h \in {"there", "creatable", "missing"}, c \in BOOLEAN}
Gated == {[Base EXCEPT !.saved = <<Rule(1, "ALL", {}, <<Do("mark_read"), Do("mark_flagged"), Do("add_label")>>)>>,
             !.settings = [Live EXCEPT !.mode = m, !.enabled = e, !.dryRun = d, !.allowed = w]] :
            m \in {"live", "draft_only"}, e \in BOOLEAN, d \in BOOLEAN, w \in {{}, AllowGated}}
Poison == [Base EXCEPT !.saved = <<Reading, Rule(2, "ALL", {Bad}, <<Do("notify_dashboard")>>)>>, !.edits = 1, !.ruleFaults = 1,
             !.drafts = {[Reading EXCEPT !.priority = 2], Rule(3, "ALL", {Bad}, <<>>)}]

Good == [type |-> "mark_read", status |-> "approved", started |-> "no", overdue |-> FALSE,
         parts |-> Identity \ {"validity"}, validity |-> 1]
Asks == [Base EXCEPT !.asks = TRUE, !.fresh = {}]
MCQuestions ==
 [settings : {Live, [Live EXCEPT !.matchValidity = FALSE, !.needCache = FALSE, !.allowed = {"mark_read"}]},
  approval : {[Good EXCEPT !.type = t, !.status = st, !.validity = v] :
                t \in {"mark_read", "add_label", "mark_flagged", "add_to_needs_reply", "skip_ai_inference", "notify_dashboard"},
                st \in {"pending", "approved"}, v \in 0 .. 2}
             \cup {[Good EXCEPT !.status = st, !.started = x, !.overdue = o] :
                     st \in {"pending", "rejected", "expired", "executed"}, x \in {"no", "fresh", "stale"}, o \in BOOLEAN}
             \cup {[Good EXCEPT !.parts = p] : p \in SUBSET (Identity \ {"validity"})},
  store : {[enabled |-> TRUE, account |-> "enabled", folderValidity |-> f, cache |-> c] :
             f \in 0 .. 2, c \in {NoCache} \cup [status : {"ok"}, supports : {"yes", "no", "unknown"}, validity : 0 .. 1]}
          \cup {[enabled |-> n, account |-> k, folderValidity |-> 1, cache |-> NoCache] :
                  n \in BOOLEAN, k \in {"unknown", "disabled"}}]
MCRuleRegimes == {Edits, Stopping, Chained, Copying, Poison, Asks} \cup Moving_ \cup Gated
=============================================================================
