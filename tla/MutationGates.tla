---------------------------- MODULE MutationGates ----------------------------
(***************************************************************************)
(* The safety gates before the agent changes a mailbox. The code holds     *)
(* four chains of them: the one the rule evaluator goes through before it  *)
(* calls IMAP, and three that only tell what would happen: the preview of  *)
(* the rules, the preview of one message, and the gate the approvals page  *)
(* shows. A chain names the first of its gates that is closed.             *)
(***************************************************************************)
EXTENDS Integers, Sequences

AllowGated == {"mark_read", "mark_unread", "add_label", "move_to_folder"}
MutationTypes == AllowGated \cup {"mark_flagged", "unmark_flagged"}

\* Where a mail lies: the parts that are known of it.
Identity == {"account", "folder", "uid", "validity"}

\* mode of [agent], and [mail.imap_mutations].
Settings == [mode : {"observe", "draft_only", "live"}, enabled : BOOLEAN, dryRun : BOOLEAN,
             allowed : SUBSET AllowGated, matchValidity : BOOLEAN, needCache : BOOLEAN]

Allowed(s, type) == type \in AllowGated => type \in s.allowed

\* A chain is a sequence of <<open, the name given when it is closed>>.
FirstClosed(chain, otherwise) ==
  LET closed == {i \in DOMAIN chain : ~ chain[i][1]}
      first == CHOOSE i \in closed : \A j \in closed : i <= j
  IN IF closed = {} THEN otherwise ELSE chain[first][2]

Static(s) == << <<s.mode = "live", "mode_blocked">>,
                <<s.enabled, "mutation_disabled">>,
                <<~ s.dryRun, "dry_run">> >>

\* _execute_mutation_action, before it calls the executor
ExecutionGate(s, type, parts) ==
  FirstClosed(Static(s) \o
    << <<Allowed(s, type), "action_not_allowed">>, <<Identity \subseteq parts, "identity_incomplete">>,
       <<type # "add_label", "unsupported">> >>, "open")

\* _mutation_preview_metadata: it does not look at what is allowed
PreviewGate(s, parts) ==
  FirstClosed(Static(s) \o << <<Identity \subseteq parts, "unsupported">> >>, "ready")

\* mutation_preview
MessagePreviewGate(s) == FirstClosed(Static(s), "planned")

\* build_dry_run_mutation_plan: the gates every plan and audit entry carries
PlanGates(s, type) == Static(s) \o << <<Allowed(s, type), "action_not_allowed">> >>
-----------------------------------------------------------------------------
(***************************************************************************)
(* What the approvals page tells of an approval a, with what the agent has *)
(* stored about its account and folder. 0 stands for no UIDVALIDITY.       *)
(***************************************************************************)
NoCache == [status |-> "absent", supports |-> "unknown", validity |-> 0]
Caches == {NoCache} \cup [status : {"ok", "failed"}, supports : {"yes", "no", "unknown"}, validity : 0 .. 2]

Approvals == [type : MutationTypes \cup {"add_to_needs_reply", "skip_ai_inference", "notify_dashboard"},
              status : {"pending", "approved", "rejected", "expired", "executed", "blocked", "failed"},
              started : {"no", "fresh", "stale"}, overdue : BOOLEAN,
              parts : SUBSET (Identity \ {"validity"}), validity : 0 .. 2]
Stores == [enabled : BOOLEAN, account : {"unknown", "disabled", "enabled"},
           folderValidity : 0 .. 2, cache : Caches]

CapabilityStatus(type, cache) ==
  CASE cache = NoCache                              -> "missing"
    [] cache # NoCache /\ cache.status # "ok"       -> "unknown"
    [] cache.status = "ok" /\ type \notin AllowGated -> "not_applicable"
    [] cache.status = "ok" /\ type \in AllowGated    ->
         [yes |-> "known", no |-> "unsupported", unknown |-> "unknown"][cache.supports]

AgreeNever(s, stored, asked) == TRUE  \* a mutation
\* Values compare only where both are there and the comparison is asked for.
Agree(s, stored, asked) == s.matchValidity /\ stored # 0 /\ asked # 0 => stored = asked

\* The folder state and the cache are looked up only for a known place.
Placed(a) == {"account", "folder"} \subseteq a.parts
FolderValidity(a, store) == IF Placed(a) THEN store.folderValidity ELSE 0
CacheOf(a, store) == IF Placed(a) THEN store.cache ELSE NoCache

\* _mutation_readiness: an unknown capability only warns
Readiness(s, a, store) ==
  LET cache == CacheOf(a, store)
      capability == CapabilityStatus(a.type, cache)
  IN PlanGates(s, a.type) \o
     << <<"account" \in a.parts, "identity_incomplete">>, <<"folder" \in a.parts, "identity_incomplete">>,
        <<"uid" \in a.parts, "identity_incomplete">>, <<a.validity # 0, "identity_incomplete">>,
        <<"account" \in a.parts /\ store.account = "enabled", "account_disabled">>,
        <<FolderValidity(a, store) # 0, "folder_state_unavailable">>,
        <<Agree(s, FolderValidity(a, store), a.validity), "uidvalidity_mismatch">>,
        <<s.needCache => cache # NoCache, "capability_cache_missing">>,
        <<Agree(s, cache.validity, a.validity), "uidvalidity_mismatch">>,
        <<cache # NoCache => capability \in {"known", "unknown"}, "capability_unknown">>,
        <<Allowed(s, a.type), "action_not_allowed">> >>

Closed == {"executed", "blocked", "failed"}

\* _approval_current_gate_preview
ApprovalGate(s, a, store) ==
  LET open == a.status \in {"pending", "approved"}
      before == FirstClosed(
        << <<store.enabled, "approval_disabled">>,
           <<~ (open /\ a.started = "stale"), "manual_review_required">>,
           <<a.started = "no", "execution_started">>,
           <<a.status # "rejected", "rejected">>,
           <<~ (a.status = "expired" \/ (a.status = "pending" /\ a.overdue)), "expired">>,
           <<a.status \notin Closed, "terminal">>,
           <<a.type # "notify_dashboard", "unsupported">>,
           <<a.type \in MutationTypes \cup {"add_to_needs_reply"}, "unsupported">> >>, "open")
  IN IF before # "open" THEN before
     ELSE IF a.type \in MutationTypes THEN FirstClosed(Readiness(s, a, store), "ready")
     ELSE "ready"
=============================================================================
