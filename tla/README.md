# A TLA+ verification of Personal-Wealth-Management

This directory holds TLA+ models of the parts of the repository whose
correctness depends on what happens *between* steps: transactions of several
processes on one SQLite file, requests cut short by a restart, retries,
expiry and clean-up sweeps, and failures inside failure handlers. TLC checks
the models on small instances; TLAPS proves the most important results for
every size.

`PROJECT.json` lists the components, the runs, a mutation for every property
(a plausible bug that the property catches), the source lines behind every
definition, the hazards and the theorems.

## 1. The system

Separate programs share data through SQLite files and HTTP.

| Part | Process | State it keeps | Operations that change it |
|---|---|---|---|
| Bridge (`bridge/`) | host, HTTP :9100 | cursor and acknowledgements of the mail feed, PDF job table, rate limits, Keychain secrets | mail/iMessage feeds and `ack`, `send_alert`, PDF jobs, the monthly pipeline |
| Mail agent (`agent/app/`) | container, one process: main loop, AI worker thread, health server thread | `data/agent.db` (WAL): processed messages, commands, IMAP folder checkpoints, rules, AI queue, approvals, executions, events | mail scan, command scan, classification, trigger evaluation, PDF routing |
| Finance API (`finance/`) | container, one uvicorn process | `data/finance.db`; also mounts `agent/app/api_mail.py` and so writes `agent.db` | imports, categorisation, overrides, CoreTax ledger, matching, backups, and every operator action on mail |
| PWA (`pwa/`) | browser | cached answers and a queue of offline writes | edits, replay after a reconnect |
| Household expense (`household-expense/`) | own FastAPI process | `household.db`: transactions, cash pools, categories | expense entry, pool top-ups, export |
| Mail dashboard (`mail-dashboard/`) | Electron | none | calls the mail API |
| Batch scripts, parsers, exporters | on demand | files | PDF to XLS, file moves |
| NAS replica | read-only finance API | a copy of `finance.db` | none |

How they interact:

* The agent polls the bridge over HTTP (`mail_pending`, `mail_ack`,
  `send_alert`) or IMAP directly, and writes its results to `agent.db`.
* The AI worker thread of the agent takes rows from `mail_ai_queue`, which the
  scan (agent process) and the operator (API process) fill, and proposes
  actions as rows of `mail_action_approvals`.
* The API process decides, executes, expires, archives and cleans up those
  rows. Agent and API meet only in SQLite: every method of `AgentState` opens
  its own connection and commits before it returns.
* The API tells the agent to reload its configuration with a flag row
  (`config_reload_pending`), and to scan with `POST /trigger`.
* The bridge's pipeline parses PDFs into `ALL_TRANSACTIONS.xlsx`, the importer
  reads that file into `finance.db`, categorisation and matching refine the
  rows, CoreTax reconciliation derives the tax ledger from them, and operators
  edit the same rows through the API and the PWA (also offline).

Where it is hard:

* *Interleaving*: agent and API processes on `agent.db`; threadpool endpoints of
  the finance API on `finance.db`; main loop against health-server thread.
  The handlers in `api_mail.py` never await, so within one API process they do
  not interleave with each other; they do with the agent.
* *Atomicity*: a row change and its audit event are two transactions; a claim,
  a model call and a completion are three; a batch is classified, alerted,
  saved and acknowledged in that order.
* *Crashes*: both containers restart on failure; what is persisted between two
  steps decides whether work is lost, repeated or stuck.
* *Time*: expiry, clean-up, stale attempts, retry delays, poll intervals.
* *Failing failure handlers*: an exception inside an `except` clause reaches
  the next one, which undoes or repeats what was already committed.

## 2. Components and what makes them correct

**Operator approvals.** A proposed action is decided once, attempted at most
once and only after approval, closed once, with a status that tells the truth
about its effect; the audit trail reports only what happened; the archive hides
only closed rows.

**AI enrichment queue.** Every queued message is classified or given up after a
bounded number of attempts; nothing is suggested without a saved classification
that matched; every match is answered.

**IMAP intake.** A UID is skipped only if its result was saved; a changed
UIDVALIDITY restarts the folder; a saved mail is not announced again.

**Agent main loop and commands.** A command the bridge will not offer again was
answered; a replay never overrides a later command; requested scans and reloads
are carried out.

**Mail scan through the bridge, classifier.** An acknowledged mail was
processed; copies and retries announce nothing twice without a fault; the
hourly limit of alerts holds; every mail fetched is processed in the end.

**PDF router.** A row says *routed* only if the file is on the share, whole and
once; no attachment is forgotten by a recorded mail, and none holds its mail up.

**Mail rules.** What is done to a mail was saved for it, by a rule that applied,
in order and up to the first stop; it stays within the safety gates and what the
previews tell; it hits that mail and no other, and loses none.

**PDF jobs, pipeline and batch script.** What the registry calls done was
exported and imported; every file in the inbox is read in the end; jobs end; a
complete month is announced once.

**Bank statement parsers.** A statement is read as it was printed, whatever is
wrapped, interrupted by a page or strays into the table, and by its own parser.

**Transactions, categories, importer.** Every imported line is in the ledger;
the operator's decision on a row stands; no row bears a category that does not
exist.

**PWA offline queue.** No edit vanishes unseen, and the last one wins.

**Wealth.** A snapshot is the sum of its month; entered values and statements
are not overwritten by copies; an account counts once.

**CoreTax ledger.** Locked values survive reconciliation, resets and commits; a
run repeated on the same data changes nothing; no run redirects a mapping; the
breakdown of a row is that of one run.

Not modelled, and why (section 7 has the details within the modelled parts):
Keychain access and Apple's databases (pure I/O); account configuration (one
writer, one file); the matching engine (off unless an environment variable
switches it on); the household application (its own database, nothing else reads
it); rotation of backups and the replica; the user interfaces, reports and
layouts.

## 3. Plan

Done: the approval queue with its proofs, then the agent (`AiQueue`,
`ImapIntake`, `AgentLoop`, `MailScan`, `PdfRouter`, `MailRules`), the finance
side (`TransactionLedger`, `OfflineEdits`, `WealthLedger`, `CoreTaxLedger`), and
what feeds it (`PdfPipeline` and the statement parsers).

Composition: `OfflineEdits` extends `TransactionLedger`, so the app's queue acts
on the ledger; `MailRules` extends `MutationGates`; the parsers share
`StatementReading` and meet in `Statements`, whose behaviours are one statement of
one bank each. Where parts of the agent share nothing but the process, an
instance explores one or the other in a behaviour: `MCMailScan` (the two ways to
read mail, the second with its attachments) and `MCAiQueue` (what follows the
scan of a mail, and its rules before).

Done in the proofs: the approval queue, and with one API process its refinement
of `ApprovalLedger`; the AI queue; the IMAP intake; the loop; the mail scan; the
PDF router; the mail rules and the agreement of their gates; the transaction
ledger, the operator's decisions and offline edits; the CoreTax ledger; the
pipeline; the wealth ledger with its sums; the way to the parser, and what each
parser reads. So every safety property of the runs is proved; what is left to TLC
alone is liveness. No module declares a recursive operator.

## 4. The modules

### ApprovalLedger, ActionApprovals, MCActionApprovals

`ApprovalLedger` is what the approval queue promises: per approval a phase
(absent, pending, approved, rejected, expired, running, executed, blocked,
failed) and whether its action has been carried out. An approval is decided
once, attempted at most once, and closed as *executed* only with and *blocked*
only without its effect. *failed* promises neither, because a crash may fall
between the effect and the finish.

`ActionApprovals` is the code. Correspondence of the state:

| Variable | Code |
|---|---|
| `approvals` | `mail_action_approvals` (`agent/app/state.py`): status, requested/decided/started times, `execution_status`, `archived_at` |
| `executions` | `mail_action_executions`, unique by idempotency key, i.e. by (approval, plan hash) |
| `needsReply` | the `mail_needs_reply` upsert of `rules._execute_action` |
| `audit` | approval events of `mail_processing_events` |
| `proposer` | the AI worker between its insert and its `approval_created` event |
| `sessions` | for each API process, the request it is serving and what it remembers: local variables of the endpoint |
| `clock` | wall clock in units of the configured thresholds |

One action is one committed transaction or one read. `Approve`, `Reject`,
`Expire`, `StartExecution`, `Archive`, ... are the first transaction of an
endpoint; `WriteEvent` is the event it writes afterwards; `Crash` drops the
rest of a request. An execution is `StartExecution`, then by the class of the
action `UnsupportedAction`, `AddToNeedsReply`, or `GateBlocks | GatePasses`,
`VerificationBlocks | VerificationPasses`, `Attest`, and finally
`FinishExecution`; `ExecutionRaises` is the exception handler of
`execute_approval`. What the gate and the read-only verification decide is a
nondeterministic choice: the properties hold whatever they answer. Listing
(`List`) and deciding start with `expire_pending_approvals`, a SELECT
(`SelectExpired`) and an UPDATE with events (`ApplyExpiry`); the clean-up has
the same shape.

`Servers` is the set of API processes. The deployment has one; the runs with two
show what the `WHERE` clauses guarantee without that assumption.

### AiQueue, MCAiQueue

| Variable | Code |
|---|---|
| `queue` | `mail_ai_queue`: status, message key, manual nonce, attempts, whether `next_attempt_at` has passed |
| `classifications` | how many `mail_ai_classifications` rows a queue row has |
| `matches` | `ai_trigger_matched` events |
| `unevaluated` | `ai_trigger_evaluation_failed` events |
| `pending`, `suggested` | open approvals proposed for (message, action); all proposals so far |
| `worker` | where `AiQueueWorker.run_forever` stands and which row it holds |
| `enabled` | `[mail.ai].enabled` of `orch.settings`, replaced by `reload_config` |

`Enqueue` is the scan (`INSERT OR IGNORE` on the message key), `Reprocess` the
operator. The worker goes `Claim`, `Classify` (Ollama answers, or raises a
retryable or a validation error), `Save`, `Evaluate` (any set of planned actions
may match), `Suggest` once per action, and back to idle. `EvaluationRaises`,
`Audit` are the `except` clause of `complete_ai_item`; `Fail` is
`fail_ai_item`. `faulty` is the regime of a behaviour, chosen in `Init` and never
changed: when it is TRUE, SQLite may fail in `Save`, in the audit write and in
`fail_ai_item`, and the process may stop anywhere.

### ImapIntake, MCImapIntake

| Variable | Code |
|---|---|
| `box`, `validity` | the server's folder (external): the mail at each UID, and UIDVALIDITY |
| `checkpoint` | `imap_folder_state`: last UID and UIDVALIDITY |
| `processed` | `processed_messages`: bridge id and dedup key |
| `alerts` | history: alerts sent per mail |
| `scan` | the items `_poll_folder` returned and where `_scan_imap_once` stands in them |
| `regime` | fixed: what may go wrong in this behaviour, and `MAX_PER_CYCLE` |

A mail is a member of `Messages`; `WithId` have a Message-ID, `Oversized` exceed
the size limit. Two UIDs may hold the same mail (a copy). `Arrive` and
`Renumber` are the server; `Poll` is `_poll_folder` as a whole, because only this
process writes what it reads; then per item `Duplicate`, `Oversize` or
`Classify`, `Alert`, `Save` (the `INSERT OR IGNORE` against two unique columns)
and `Checkpoint`. What a poll fetches is any increasing list of the UIDs behind
the checkpoint that the limit and the failures leave (`Wanted`, `Fetch`). `ClassifyRaises`, `SaveFails` and `Interrupt` are the
failures. A regime may add failing FETCH and STATUS commands (`fetch`), refused
writes (`write`) and renumbering (`renumber`).

### AgentLoop, MCAgentLoop

| Variable | Code |
|---|---|
| `chat`, `ack`, `lateAcks` | `chat.db` by ROWID, the bridge's checkpoint of the command stream, acknowledgements that timed out and may still be served |
| `results`, `hourly` | `processed_commands`, and the rows of `command_log` within the last hour |
| `flags` | `agent_flags`: paused, quiet, reload pending |
| `memory` | attributes of `CommandHandler`: paused, quiet, `scan_requested`, `force_scan` |
| `config`, `settings` | version of the configuration, and the version loaded |
| `loop` | where `main` and `scan_commands_once` stand, with the rest of the batch |
| `trigger` | the health server's thread between its two assignments |

`NoReload`, `Load`, `ClearReload`, then `NoScan`, `StartScan`, `ScanPaused`,
`FinishScan`, `ResetRequest`, `ResetForce`, then `FetchCommands` (the bridge
takes the first `FetchLimit` pending rows and *then* keeps the commands) and per command `Skip`,
`Limit`, or `Record`, `Act`, `Save`, and at the end of a batch `Ack`. `AbortScan`,
`RecordFails`, `ActFails`, `SaveRaises`, `AckRaises`, `Raise` and `Restart` are
the failures; what a scan does inside is `ImapIntake`.

### CoreTaxLedger, MCCoreTaxLedger

| Variable | Code |
|---|---|
| `rows` | `coretax_rows` of one tax year by stable key: id, which item its text names, whether its code carries forward, prior amount, and per amount (cost, market value) value, source and lock |
| `minted` | stable keys made so far (they end in a random part, so no two are equal) |
| `staging` | `coretax_import_staging`: per line of the workbook its key and the operator's override |
| `mappings` | `coretax_mappings`: per fingerprint of an item, in the new and the old format, id, target and score |
| `components` | `coretax_row_components` with `is_current = 1` |
| `runs` | number of `coretax_reconcile_runs` |
| `requests` | the long requests in flight: what `run_reconcile`, `reset_from_rules` and `commit_staging_batch` have read, and where they stand |
| `guarded` | history: amounts locked while no long request was in flight |
| `settled` | history: the items of the last run, if nothing has happened since |
| `regime` | fixed: may requests overlap, and the bounds |

An amount is represented by its origin: the workbook (`template`), the
operator, or the PWM item that was written. The endpoints are plain functions in
a thread pool, so they interleave at their transactions: the short ones are one
action each (`Parse`, `Override`, `Discard`, `Create`, `Edit`, `EditPrior`,
`Describe`, `Lock`, `Unlock`, `Delete`, `AssignMapping`, `Retarget`,
`DeleteMapping`, `ConfirmMapping`). A run is `StartReconcile`, `ReadMappings`,
then for each item of the snapshot `UseMapping`, or `DropLegacy` and `Migrate`, or
`Learn`, `Guess` or `Unmatched`, followed by `Apply`; then `InsertRun`,
`ReplaceComponents` and `Score`. `StartReset` and `StartCommit` are reads,
`ApplyReset` and `ApplyCommit` the transactions that follow. `Abort` is an
exception or a restart between two transactions.

Mappings do not belong to a year: `Earlier` are mappings whose targets were rows
of another one. The items of a snapshot are finitely many and are taken in the
order of `Rank`, the position in the list the code builds, so no two have the
same; an item is guessed if exactly one row has its name (`Unique`).

### MailScan, PdfRouter, MCMailScan

`MailScan` is `_scan_bridge_once` with the bridge behind it.

| Variable | Code |
|---|---|
| `box` | the mails of each account, by ROWID of Mail's database or by UID (external) |
| `ack`, `lateAcks` | the bridge's position in the mail stream, and acknowledgements the agent gave up that may still be served |
| `sending`, `hour` | the alert the bridge is sending; the rows of `request_log` of the last hour |
| `phone`, `blind` | history: alerts per Message-ID that arrived, and those the agent has no record of |
| `results` | `processed_messages` |
| `breaker`, `online` | circuit breaker per provider; the network guard |
| `scan` | where the scan stands, with the set of rows fetched and still to be looked at, in the order of `Before`, and the last row to acknowledge |

One action is one request or one transaction: fetch a batch, skip what is known
(`Known`) or record a copy (`Copy`), `Classify` or `ClassifyRaises`, alert
(allowed, refused with 429, answer lost), `Save`, and at the end `Ack`, which may
be lost or arrive late. The bridge's side of an alert is three steps: the limit
is asked, Messages sends, the request is logged.

`PdfRouter` is what the agent's own intake does with the attachments of a mail.

| Variable | Code |
|---|---|
| `rows` | `pdf_attachments`: status and path by attachment key |
| `nas`, `mounted` | the files on the share; is it there |
| `routing` | the mail and the attachment at hand, what was unlocked, name and path |
| `handled` | mails whose result is recorded |
| `cut`, `astray` | history: files whose writing broke off, or went into the folder under the absent share |

A name taken by other contents gets the document's hash as a suffix;
`NamesAssumption` says that no proposed name is itself a suffixed one.

Per attachment: `TooLarge` or `Skip`, or `Begin`, `UnlockVia` or `UnlockFails`,
`ProposeName`, `ProbeMount`, then `Reuse` a file of the same bytes, `OpenFile` and
`WriteFile`, `WriteFails`, or `WriteBeside` when the name is taken, and `Record`;
`SaveMail` when all are settled. `Restart`, `Mount` and `Unmount` may come between
any two steps.

### MutationGates, MailRules, MCMailRules, MCAiQueue

`MutationGates` has no state: it writes down the four chains of gates (before an
effect, in the rule preview, in the message preview, on the approvals page) as
sequences of conditions with the name each reports, in the order of the code.

| Variable of `MailRules` | Code |
|---|---|
| `rules` | `mail_rules`, `mail_rule_conditions`, `mail_rule_actions` |
| `mailbox`, `uidValidity` | the server (external): UID, flags and copies of each mail |
| `events`, `needsReplies` | `mail_processing_events` of the latest evaluation, `mail_needs_reply` |
| `settled` | mails with a saved result |
| `reader` | where the scan stands: the mails in hand (a set, taken by their UIDs), the rows of rules not looked at yet (a set, taken by priority and id), rules read so far, plan and outcome |
| `edits` | edits so far (bounded), and the id the next rule gets |
| `during`, `told` | history: versions of each rule since the evaluation began, with `Absent` for *no such rule*; what an approval's page said |

`SelectRules`, `SelectConditions` and `SelectActions` are separate reads, the last
two once per rule. `Consider` is the evaluation of all conditions, after which
the planned actions are taken one by one: a local one with its event in one
transaction (`ActLocally`), a mailbox change as `Announce` (the event *planned*),
`TurnAway` at a closed gate, or `CheckValidity`, `Target`, `StoreFlags`, `Move`,
or `Copy` and `MarkDeleted`, and `Conclude` with the terminal event. `Abort` is
what the evaluator catches, `GiveUp` what it does not. The operator's handlers
are `CreateRule`, `PatchRule`, `DeleteRule`, `ReorderRules`. Texts are sequences
of a few letters, so that *contains*, *starts with*, case and domains mean what
they mean in the code; a pattern is a letter or does not compile.

### TransactionLedger, OfflineEdits, MCOfflineEdits

| Variable | Code |
|---|---|
| `rows`, `overrides` | `transactions` and `category_overrides` by hash; the view `transactions_resolved` is `Resolved` |
| `aliases`, `categories` | `merchant_aliases` in the order of ids, names in `categories` |
| `requests` | imports, sweeps and edits with a model call in flight: what they read and where they stand |
| `decided`, `imported` | history: the operator's last word on a row; lines imported |
| `online`, `queue`, `drains` | the app's belief, `syncQueue`, and the items each drain has yet to send |
| `latest`, `made`, `served`, `refused`, `troubled` | history of the edits |

A drain sends a copy of the queue item by item, and an item that was served is
deleted by its id (`Delivered`), wherever it stands by then. A line of the
workbook stands for its hash; its text, identity (the hash without the
description) and owner are constants. `StartImport` reads, `FinishImport` is the
one transaction of the import; in between, with `overlap`, other requests write.
`Planned` is the loop over the lines of the workbook, a function over its rounds:
each line goes to the rows to insert, to overwrite or to merge (`Place`), and is
compared with the text the rows have by then. `Sorted` is the order of the
layers: override, settlement account, alias, model, none; `Ahead` is the order of
aliases (exact, contains, regex; those of an owner first; of contains-rules those
of more tokens first; then by id). `Merges` is `_should_reconcile_parser_variant`.
It is not transitive: merges one after the other may lead a row from a text to one
that is no variant of the first, so what a row shows of a line is a text that is
`Related` to it.

### WealthLedger, MCWealthLedger

| Variable | Code |
|---|---|
| `balances`, `holdings`, `debts`, `snapshots` | `account_balances`, `holdings`, `liabilities`, `net_worth_snapshots` by month |
| `handlers` | endpoints between the commit of their row, the sums they read, the snapshot they write, and the copy into later months |
| (`SumFails`, `CascadeFails`, `ApiStops`) | `_auto_snapshot` and `_auto_snapshot_conn` swallow what the sum raises; the process ends with sums and cascades still to do |
| `filling` | `_upsert_investment_holdings` between the statement and its gap-filling |
| `mapped` | does the configuration name the account's owner |
| `paid`, `syncing` | transfers for the synced property, and `sync_grogol_2_from_transactions` between its reads and its writes |
| `stated`, `stale` | history: last statement per month; months written by programs that do not sum, or whose sum was lost |

### PdfPipeline, MCPdfPipeline

| Variable | Code |
|---|---|
| `inbox`, `zip`, `unlocked` | the folders |
| `book`, `db` | statements in `ALL_TRANSACTIONS.xlsx`, and in `finance.db` |
| `registry`, `jobs`, `queue` | `processed_files`, `pdf_jobs`, the worker's queue in memory |
| `reading` | where each actor (worker, pipeline, batch script) stands in a file, with its copy of the workbook |
| `cycle`, `timer`, `month` | the pipeline's cycle with its lock, the timer, the month announced |
| `latest`, `last` | which record the PWA takes; history: how the last attempt ended |

Saving the workbook is two steps (load, save), so two actors may overlap in it.

### StatementReading, CardStatements, AccountStatements, PortfolioStatements, StatementFronts, Statements, MCStatements

In these modules a bank prints a statement line by line, and the parser reads
each line in the same step (the brokers' parsers search the complete text, so
they read at the end). `Statements` puts the four kinds side by side: a behaviour is
one statement of one bank. `sheet` is what the bank knows, `read` the variables of
the parser; the properties compare the two when the statement closes. The bank's
actions are external and as free as its layouts: rows of this month and, in
January, of the last year; wrapped rows, page breaks, strays, notes on foreign
amounts, several cards and accounts. A line is a record of what the parser's
patterns tell apart. `StatementFronts` holds the cascade of `router.py`
(`ParserOrder`), with what each `can_parse` looks for, and the summary tables of
Permata and Maybank. Bookings on the first two pages may mention other banks;
`MentionsAssumption` says how far: not all that some parser looks for, and none of
the nine marks in `Confusing`, each of which would by itself send the statement of
some layout to an earlier parser. With less than this the router is wrong, with
this much it is proved right.

## 5. The runs

| Run | Instance | Shows |
|---|---|---|
| `approvals_one_server` | one approval, three kinds of action, two plan hashes, one API process | `AuditIsSound`: the audit trail reports only what happened; `ImplementsLedger`: the tables implement `ApprovalLedger` |
| `approvals_two_servers` | one approval, two API processes (symmetric) | attempts are exclusive (`AttemptsConsistent`) and single (`AttemptedOnce`), one execution record per approval, verdicts are true, closed rows stay closed |
| `ai_queue` | two rows and two messages; or two mails and up to three rules, two orders, two crashes or refusals | `QueueIsSound`: retries bounded, model calls paid for, suggestions grounded; every row settles unless a fault stranded it, and without faults every match is answered. `RulesAreObeyed`, `MailsAreAccounted`, `EffectsWereTold`: what rules do to a mail was saved for it, announced before, within the gates, to no other mail, and loses none; `ReadyIsExecutable`: what the approvals page calls ready the gates let through (but for `add_label`, which is unsupported); `RepairedRulesDrain`: once no rule has a broken pattern, every mail is settled |
| `imap_intake` | two UIDs, three mails (ordinary, without Message-ID, oversized), four regimes | `IntakeIsSound`: nothing behind the checkpoint is lost, if writes and FETCHes work, and repeated alerts are paid for by faults; `EveryMessageIsSaved` in the end; a saved mail is quiet in every regime |
| `agent_loop` | three messages of pause, resume and chatter, two failures, restarts; or two requests (scan, reload) and one failure | `RepliesStand`: an acknowledged command was answered, a replay never overrides a later command; a command within the bridge's window is answered; `RequestsAreCarriedOut`: what the loop has come across is carried out, whatever fails in between |
| `coretax` | two rows, an account and a holding, one workbook line; requests one at a time, an edit within a request, two requests at once | `LocksStand`: locks placed before a request stand, whatever runs; `RunsAreRepeatable`: a repeated run changes nothing, breakdowns do not mix runs; `MappingsAreKept`: no run redirects a mapping, only idle ones decay |
| `finance_ledger` | six lines in three workbooks (three of them variants in a chain), two imports or two edits, one at a time, overlapping, with a language model, or edits made offline | `LedgerIsWhole`: every imported line is there, merged at most with variants, with a category that exists; `OperatorWordStands`; `CategorisedStays`: nothing takes a row's category away but a merge and, where requests overlap, an overwrite that read the row before it was categorised; `EditsArrive`: no offline edit vanishes or is overtaken |
| `wealth` | three months, six assets, one account and one card, nine regimes, in two of which sums raise and the API stops | `SnapshotCurrent`: a snapshot is the sum of its month, when requests do not overlap, but for months that are not summed and those whose own sum was lost; `CopiesYield`: copies never replace what was entered; `HoldingsStand`: positions are those of the month's statement, an account counts once, the synced asset is worth what was paid |
| `pdf` | four files (locked, issued again, in a ZIP, empty), worker, pipeline and batch script alone and in pairs, two jobs, two failures | `RecordsAreTrue`: recorded statements were exported and imported, the PWA is shown the last attempt, a month is announced once; `EveryFileIsRead`; `JobsEnd` |
| `mail_scan` | three mails with copies, two accounts, a provider that fails, one fault; or two documents in three mails, up to two faults | `ScanIsSound`: what is acknowledged was processed, no alert twice without a fault, the hour's limit; `RouterIsSound`: what is recorded as routed is on the share, whole and once; `MailIsProcessed`, `MailsAreHandled`: every fetched mail is, in the end |
| `statements` | two rows, two pages, one stray line, a January statement | `ReadAsPrinted`: each parser reads the statement the bank printed; `RoutedToItsParser` |
| `ipot_booked` | violation, the same instance | an IPOT debit printed as a negative amount that leaves a positive balance becomes a credit of that balance, against the comment in `parsers/ipot_statement.py` |

Several properties are conjunctions, named for the question they answer; their
parts are stated and commented one by one in the modules. The mutation of such
a property breaks one of its parts.

*Regimes.* Some properties hold only as long as certain faults stay away. Such a
module has a variable that is chosen in `Init` and never changes, so one run
explores every regime and each property says in which ones it is claimed. It
also keeps instances small: the MC modules list combinations of inputs and
faults, each just large enough for one kind of trouble.

*Bounds.*

* Approvals: one is enough, because no statement of the code relates two rows
  except the unique index on pending intents; the proofs below remove the bound.
  `MaxTime` 2 or 3 lets every threshold (stale 1, expiry 1 or 2, archive 1 or 2)
  pass both before and after each decision. Two plan hashes are the least that
  separates "same key" from "settings changed between two attempts". Three
  classes of action are all the branches of `_execute_approved_action`.
* AI queue: two rows are the least with competition for the worker and with a
  reprocess of a message that is already queued; `MaxAttempts` 2 is the least
  with a retry.
* Mail rules: two rules are the least with an order and a stop, a third is the
  one the operator adds; two mails, because a move may hit a neighbour after a
  renumbering. The regimes are edits, stops, chains after a move, the COPY
  fallback, each server and target folder, each combination of the gates, a
  broken pattern, and the questions of the approvals page.
* IMAP: `MaxUid` 2 and `perCycle` 1 or 2 give a checkpoint with something behind
  and something before it, in one scan or in two; `MaxValidity` 2 is one
  renumbering; `MaxFaults` 1; `MaxAlerts` 3 is above what `AlertsArePaid` allows.
* Loop: `FetchLimit` 2 against three messages, so that the window is shorter than
  the stream; `MaxPerHour` 2 is reached; two failures let one hit the retry of
  another; version 2 of the configuration is one change of the file; two
  requests let one meet another still in progress.
* Mail scan: three mails against `MaxBatch` 2 and `MaxPerCycle` 3 make a second
  batch; `MaxAlerts` 2 is reached; `MaxFailures` 2 opens a circuit breaker. Two
  documents of one proposed name are the least that collide on the share.
* CoreTax: two keys are the least with a wrong row to choose; with a mapping of
  an earlier year one of them belongs to a row that is gone. Three edits and two
  long requests one at a time (`Serial`) reach a second run after a learned or a
  migrated mapping; `Overlapping` puts two edits around and into one request,
  `TwoAtOnce` runs two requests with one edit. `MaxScore` 20 counts the score in
  steps of 0.05, the size of the code's increment.
* Ledger: the five lines are the least with two readings of one line, two owners
  of one text, the sides of a transfer and a card settlement. Two imports let a
  line come back; two edits of a row, one overtake the other.
* Wealth: three months let a copy into the next one be followed by another, and
  leave a later snapshot to be summed again. The regimes with failures have two
  operations: one whose sum is lost and one that meets what it left.
* Pipeline: two files let a failure hit one and spare the other; two jobs, one
  be submitted while another is read; two failures, a retry fail.
* Statements: two rows let one be wrapped or cut by a page while the parser
  still holds the other; January is the month in which the year turns.

*Deadlock.* The loop and the IMAP intake keep the check. In the other runs the
model may stop, because bounded inputs (ids, edits, requests, mails, files) are
spent and everything is settled; that nothing is left half-done when it stops
is what the liveness properties of those runs say.

*Fairness.*

* `AiQueue`: weak fairness of the worker's steps as one action, because
  `run_forever` is a thread that waits a bounded time, asks with an HTTP timeout
  and holds no lock another thread can keep; and of `BecomeDue`, because time
  passes. Nothing is assumed of the operator or of the scan.
* `ImapIntake`, `MailRules`, `PdfRouter`: weak fairness of the scan's own steps,
  because `main` comes back to the scan after every outcome, also after
  exceptions and restarts. Nothing is assumed of the server, the share or the
  operator.
* `MailScan`: weak fairness of the agent's steps, for the same reason; of the
  bridge's, which serves one request after the other; and of the network coming
  back, without which the guard rightly lets nothing pass.
* `AgentLoop`: weak fairness of the loop's steps, for the same reason, and strong
  fairness of `Polls`, the command poll: the model lets a round pass without one
  (the 30 s timer), but the timer expires again and again.
* `PdfPipeline`: weak fairness of the worker thread, of the pipeline's cycle once
  it runs, and of the timer that starts it. Nothing is assumed of the batch
  script, which a person starts.

## 6. The proofs

Each `...Proofs` module extends the component it is about. TLC has checked every
inductive invariant on the instance of the component's run. Nothing is assumed
beyond the named `ASSUME`s of the components. Most say what kind of values the
constants are (bounds are numbers, `None` is none of the other values, a file
has a scope and an account). Those that say more are `NamesAssumption` and
`MentionsAssumption` (section 4), and of the statements: the rows of a statement are
of the last twelve months, because they are printed without a year
(`ReadingAssumption`); the accounts in one statement have different numbers
(`AccountAssumption`); a position is worth more than the tolerance in rupiah with
which the old BNI layout compares its assets (`PortfolioAssumption`); rates of
exchange are positive, and one rupiah is one rupiah (`RateAssumption`).

`CoreTaxLedgerProofs` has three parts, the tax ledger, the wealth ledger and the
pipeline, all of which work on the finance database. No part uses a fact of another.

| Module | Theorem | States, for every instance |
|---|---|---|
| `ActionApprovalsProofs` | `TypeCorrect`, `Inductive` | types, and the invariant `IInv` below |
| | `AuthorisedExecution`, `ExecutedOnce`, `VerdictsTellTheTruth`, `AttemptsExclusive` | an execution was approved and happens once; the final status tells whether it happened; attempts exclude each other |
| | `ArchiveHidesOnlyHistory`, `ClosedStaysClosed`, `StartedOnce` | the archive holds closed rows; closed rows stay so; an approval is started once |
| | `AuditTellsTheTruth`, `LedgerImplemented` | with one API process: the events tell what happened; the tables implement `ApprovalLedger` |
| `AiQueueProofs` | `QueueSound` | `QueueIsSound` |
| `ImapIntakeProofs` | `IntakeSound`, `SavedStaysQuiet` | `IntakeIsSound`, `SavedIsQuiet` |
| | `MailsAlwaysAccounted`, `RulesAlwaysObeyed` | `MailsAreAccounted`, `RulesAreObeyed` |
| | `ReadyAlwaysExecutable`, `EffectsAlwaysTold` | `ReadyIsExecutable`, `EffectsWereTold` |
| `AgentLoopProofs` | `RepliesAlwaysStand` | `RepliesStand` |
| `MailScanProofs` | `ScanSound` | `ScanIsSound` |
| | `RouterSound` | `RouterIsSound` |
| `OfflineEditsProofs` | `OperatorWordAlwaysStands`, `EditsAlwaysArrive` | `OperatorWordStands`, `EditsArrive` |
| | `LedgerAlwaysWhole`, `CategorisedAlwaysStays` | `LedgerIsWhole`, `CategorisedStays` |
| `CoreTaxLedgerProofs` | `LocksAlwaysStand`, `RunsAlwaysRepeatable`, `MappingsAlwaysKept` | `LocksStand`, `RunsAreRepeatable`, `MappingsAreKept` |
| | `HoldingsAlwaysStand` | `HoldingsStand` |
| | `SnapshotsAlwaysCurrent`, `CopiesAlwaysYield` | `SnapshotCurrent`, `CopiesYield` |
| | `RecordsAlwaysTrue` | `RecordsAreTrue` |
| `StatementsProofs` | `StatementsAlwaysRead` | `ReadAsPrinted` |
| | `StatementsAlwaysRouted` | `RoutedToItsParser` |

**Approvals.** "At most one execution record per approval" is not inductive: a
request that has passed the gate is about to write a record, and nothing in the
tables says that no other request is. `IInv` therefore adds
`AttemptsConsistent`: two requests never own an attempt on the same row, and the
step a request has reached determines the effect its row has had so far (no
record before `verify`, a performed effect at `attest`, the verdict's effect at
`finish`). Ownership is gained only in `StartExecution`, whose `WHERE` clause
requires `execution_status IS NULL`; `RowsConsistent` says that this is so only
for a row that was never started, and no step resets it. Each action leaves rows
and attempts alone (`QuietServer`), moves an attempt forward
(`ExecutingInductive`), or starts or finishes one.

The last two theorems have the hypothesis `OneServer`, one API process, as the
compose file deploys it; with two, TLC refutes both. Then nobody but the AI worker and
the clock moves between two steps of a request, so that what a request selected
or started still stands when it writes its events: `SInv` adds this
(`Undisturbed`) and that each event already written agrees with its row
(`EventsTold`). The refinement maps each committed transaction to the step of the
ledger it carries out and everything else to a stutter.

**AI queue.** A row is failed only after its last attempt because the row that
the worker holds has an attempt left (`AttemptIsLeft`: `Claim` looked, and nobody
else counts), and a completed row has a classification because completion follows
the save (`RowsConsistent`).

**IMAP intake.** That nothing behind the checkpoint is lost needs what the items
in hand are: they follow the checkpoint in increasing order and without a gap,
and the one about to be passed is saved (`NoGap`). That alerts are paid for needs
that a UID names one mail as long as UIDVALIDITY stays (`UidsKept`) and that each
alert beyond the faults is followed by a row or still holds the scan at `save`
(`AlertsCounted`).

**Mail rules.** The proofs stand before those of the intake, whose scan runs the
rules; they use nothing of it. The invariant is `RInv`. Three chains of reasons meet in it.
*The mailbox:* a mail in hand is not settled, and as long as the folder keeps the
UIDVALIDITY it was listed under, its UID names no other mail (`ItemsInHand`);
where a command is about to be sent, the announcement is recorded and the gates
were open (`Placed0`); where the original is about to be marked deleted, a copy
lies in the target folder (`CopiesFirst`). *The rules:* while a mail is evaluated
`during` holds what each rule has been since (`VersionsKept`), and a row that was
read, its conditions and its actions each were a version of it then
(`RulesRead`), though three reads need not see the same one, and a rule deleted
between them is read without actions. Rows lie in their order, and a rule that
has applied all the while has been found, from which it follows that no rule
after a stop acts. *The dues:* with no rule edited, what the conditions
and the order of the rules make due for a mail is either still ahead in the plan
or over, with a terminal event, and a settled mail has nothing due that is not
over (`DuesPaid`). `Plan` is a recursive function over the rules read; what
it returns is followed round by round, from the least round that fails
(`LeastNumber`). The readiness theorem compares the executor's gates
with those of the approvals page: each chain is reduced to the set of gates
that are shut in it (`Shut`), since a chain reports "open" exactly when that
set is empty (`ShutFound`).

**Loop.** The answered commands are a prefix of the stream and every
acknowledgement, a late one too, lies within it (`AnsweredInOrder`), because a
batch starts at the first unanswered command and skips none (`BatchInOrder`). A
switch never falls back behind the last answered command, because a replay
starts after it or repeats all that follow (`SwitchesTold`).

**Mail scan.** Every row up to one that is acknowledged, or may be by a late
request, was processed because the rows of a batch are taken in their order and
each row before one of the batch was processed or is in the batch too
(`AcksSound`); a fetch establishes this since it returns the first of the rows
wanted (`NoneLeftOut`). A mail is announced twice only after a fault because the
phone has had one alert more than were lost at most for a recorded mail and the
mail at hand, and none for others (`AlertsSound`). The limit of the hour holds
because one alert at a time is out and not yet logged, and it is the last of the
hour (`HourSound`).

**Router.** A routed file is whole because the file being written is the
router's own: under the bare name nothing of another document is there, under
the suffixed name only this document can be (`FilesKept`, from
`NamesAssumption`). No attachment is forgotten because each one of the mail in hand
has come to an end or is still ahead (`NothingForgotten`).

**Ledger and offline edits.** `decided = overrides` makes the operator's word
stand. For edits, every row's last one is behind all others of the row in the
queue, or none waits and the row shows it (`LastOrShown`), because the only drain
under way has yet to send a prefix of the queue (`OneDrain`).

**The ledger is whole.** Two pieces of data are followed through recursive
definitions. The aliases in their order have a first one among those that match
(`FirstPlace`), because the order is transitive and the aliases are finite
(`WellFoundedInduction`); so a category found is the category of an alias in the
table (`AliasFound`). The rounds of an import keep `PlanRight`: every line looked
at so far has its row, is to be inserted, or was merged into a row whose text leads
to the line's (`PlannedRight`). Induction over the rounds is the argument of the
least round that fails: a nonempty set of numbers has a least one (`LeastNumber`),
and `PlaceRight` shows that the round before makes it hold. `LInv` adds what requests have
read (`RequestTyped`: rows read are still there, since nothing deletes one), and,
for requests one at a time, that the names they hold are in use and that what an
import read is what is there (`Alone`): from this `CategorisedAlwaysStays` follows,
for an overwrite puts back the category that the row showed when it was read. Where
requests overlap it may have been read without one; that overwrite is the exception
the property names. The
proof showed that `ImportKeepsEveryLine` was false as first stated: it asked that
the row's text be the line's or a variant of it, and a chain of two merges leads to
a variant of a variant. The statement now follows the chain, holds for requests that
overlap too, and an instance reaches such a chain.

**CoreTax, locks.** Keys and row ids are never handed out twice (`RowsMinted`), so
a row with the id that a request has read is the row it has read; then a lock
older than the request was read as a lock (`LocksRead`), and a batch being
committed is either the staged one or shares no key with it (`BatchApart`).

**CoreTax, runs.** A run learns and migrates mappings while it matches, and still
fills what the next run fills. The argument: which rows an item matches depends
on the mappings and on the names of rows only (`Match`), and does not change
during a run that is alone, since a learned mapping leads to the row that was
guessed and a migrated one to where the old one led (`Progress`, `Linked`). A run
therefore leaves every open cell with its last match in the order of `Rank`
(`Fixed`), and on such rows another run over the same items writes what is there
(`OneRunStep`). `RunsInv` follows a run from step to step: what it has written so
far (`Brought`), what it has read and how rows differ from that (`Agree`), and
which mappings it has used (`Backed`), from which `MappingsAlwaysKept` follows:
scores are lowered for mappings that led to no filled row.

**Pipeline.** `Sound` says what an actor relies on at each step of reading a
statement, that the worker's queue holds pending jobs in increasing order, and who
is at work. An attempt that ended *done* has been exported before it is recorded
(`ExportSound`); the worker imports after each export, the pipeline reads no
recorded file again and imports at the end of a cycle with a success
(`ImportSound`); a job that is newer than the record of its file waits in the queue
or is being run (`ShownSound`); an alert was sent for the record, or for one that a
restart prevented (`MonthSound`). The proof showed an error in
`RecordedAreImported` that the first instances could not reach: rows replaced
before the import come back with another PDF of the same name. The property now
leaves such files out, and an instance reaches them.

**Wealth.** Without overlaps one program is at work at a time (`Exclusive`). A snapshot is then
current, or its month was written by a program that does not sum or lost its sum
(`stale`), or it is among the months that the request at work has yet to sum
(`Unsummed`), and sums that were read and not yet written are still right
(`Correct`). A sum that raises loses its own month and passes on to the others
(`PassedOn`); an API that stops loses those of its request (`StopsCurrent`). A request that begins names
the one month that it changes, a cascade exactly the later months that it changes, and what
is summed is dropped from the list only when it is written. A sum over assets is a
natural number since some finite sum is defined for every finite set (`SumExists`,
by the least size that fails), and it depends on the rows of its month alone
(`SumsOfRows`). The synced asset is worth `PaidBy`, the payments up to a month: if a
row is carried forward from an earlier month, nothing was paid in between, because
a month with a payment has rows up to it (`Valued`, `PaidBetween`); the importer's
values cover every month with a row or a payment while it is between its reads and
its writes (`PaidFor`). An account counts once because the named row appears only
when the owner is known and the row under "Unknown" goes with it (`OneOwner`).

**The way to the parser.** `Rank` gives each mark the last parser, in the order they are asked, that it can
tell of. A parser looks only for marks of its own rank or a later one
(`MarksRanked`), at least one of its own rank that no booking mentions
(`MarksNotMentioned`, the only use of `MentionsAssumption`), and a layout prints
only marks of its parser's rank or later (`LayoutsRanked`). So no earlier parser
says yes, and the layout's own does (`FirstToRecognise`). The order matters: with
`maybank_cc` asked before `maybank_consol` the lemma is false.

**What the parsers read.** A parser sees one line at a time, so that `ReadAsPrinted`
says nothing until the last line. `StatementsInv` says what holds before: it is one
of `CardInv`, `AccountInv`, `PortfolioInv` and `FrontInv`, and since no bank is of two
kinds (`BanksApart`) only steps of its own kind are possible and keep its part
(`KindKept`).

* *Cards.* The parser's rows are those of the sheet at every line (`CardFollowed`); a
  row that is not whole is the last one and only Maybank's may be open
  (`CardFinished`); CIMB's opening and closing amounts are those of the card at hand
  (`CardBalanced`). The state of the parser (is a table open, may a line continue)
  follows from the line that the bank printed last, across page breaks.
* *Accounts.* One invariant for each bank (`MaybankInv`, `CimbInv`, `UsdInv`,
  `SavingsInv`, `BcaInv`). A wrapped BCA row has its amount on a later line, so
  there the rows read are those printed but for that amount (`AsRead`), and as long
  as the bank may still print it the parser is still looking for it.
* *Portfolios.* A broker's parser searches the complete text, so the invariant is
  about the text (`Printing`): which line may follow which, anywhere and right below
  (`TextRight`); what has been printed by when (`Progress`); that totals add up
  (`MoneyRight`); and that the holdings and bookings of the sheet are the rows of the
  text (`ListsKept`). From these the sections that a parser cuts out are found to hold
  exactly the rows of their kind. The old BNI layout tells a row by its loss or its
  gain; what it overlooks it finds by the total of the assets, if what is missing
  is worth more than the tolerance (`AssetsKnown`).
* *Summary tables.* The same for the first pages of Permata and Maybank (`FrontRight`,
  `FrontProgress`); two accounts of one product in different currencies get different
  identities, whether or not their numbers are printed (`NumbersUnlike`).

Sums of holdings and the positions of a kind of line are recursive functions. Where
an induction would be used, the least number that fails is taken (`LeastNumber`,
`UpFromZero`), as for the import and the snapshots.

## 7. What is only model-checked, and what is left out

* Model-checked only: the liveness properties, which are out of the prover's reach
  (fairness needs ENABLED): `EveryRowSettles`, `EveryMatchIsAnswered`,
  `RepairedRulesDrain`, `EveryMessageIsSaved`, `CommandsInReachAreAnswered`,
  `RequestsAreCarriedOut`, `EveryFileIsRead`, `JobsEnd`, `MailIsProcessed` and
  `MailsAreHandled`. No installed prover can apply the induction theorems to a
  definition; what a recursive function or a sum keeps is proved by the least round,
  number or set that fails.
* `AuditIsSound` and `ImplementsLedger` hold for one API process only (see the
  comments of the run with two).
* Left out of `ActionApprovals`: event payloads, the texts of reasons, and the
  details of the gate and of the verification (they decide only *whether* a
  plan passes, which is a free choice there; `MutationGates` has the gates).
* Left out of `AiQueue`: the prompt, the JSON schema, the conditions of trigger
  rules (any subset may match), `cooldown_seconds` (stored, never read).
* Left out of `ImapIntake`: the lookback window, several folders (each has its
  own checkpoint), mails expunged from the folder, the reconnect back-off, the
  reload of classifier rules. Rules and attachments have modules of their own.
* Left out of `AgentLoop`: the texts of replies and summaries, the sleep between
  rounds, the scan itself.
* Left out of `MailScan`: bodies and parsing of mails, prompts and answers of the
  providers (an answer is a category), the layout of Apple's databases. The mails of
  several IMAP accounts are sorted by date before they are returned; the model
  keeps them account by account, and an acknowledged number means nothing there.
* Left out of `PdfRouter`: PDF contents, the rules for a legal file name, the
  prompt that proposes one; `detect_bank` (the proposal is a free choice).
* Left out of `MailRules`: the drafting of rules by a language model
  (`rule_ai_builder.py`, which returns a proposal and stores nothing), fields
  other than subject and sender, folder names.
* Left out of `CoreTaxLedger`: numbers, taxpayer data, kinds and codes except
  whether they carry forward, raw fingerprints (a second check of a mapping),
  scores the operator sets by hand, suggestions and their rejection, lines of
  the workbook with missing amounts, the layout of the export.
* Left out of `TransactionLedger`: amounts and dates (in the identity of a line),
  currencies, the look-up of merchants on the net, reports.
* Left out of `WealthLedger`: a stop of the bridge or the importer between two of
  its steps (after the next complete import the same holds again); a sum that the
  operator asks for and that raises (`create_snapshot`) counts as a lost one;
  currencies, quantities and prices of a position (a
  value stands for them), accounts and cards beyond one, asset classes.
* Left out of `PdfPipeline`: what is in a statement (see the parsers), the
  sheets' layout, moving and archiving of files, logs; failures of two writes, the
  record that a cycle is complete with its message (`pipeline.py`, line 282) and the
  status of a job (`_upsert_job`, `pdf_handler.py`, line 662). Should the latter
  fail, the job stays *running*, so `JobsEnd` is claimed for a working job table.
* Left out of `MutationGates`: the flag with which a request for the preview of one
  message asks for a dry run although the settings do not (`api_mail.py`, line 2175).
* Left out of the statement modules: the extraction of text from a PDF, the
  patterns' spelling, names of merchants, number formats, the account numbers that
  Maybank's parser falls back on (`maybank_consol.py`, line 97); of IPOT's cash
  bookings those that show a price and a volume, days and interest of a booking.
* Not modelled at all: `bridge/secret_manager.py` and Apple's databases, which are
  I/O; account configuration; the matching engine, which
  `DEDUP_USE_ENGINE` and `PARSER_USE_ENGINE` leave off by default; the household
  application, where two adjustments of a cash pool at once may count one (a
  hazard without a property); backups and the replica; user interfaces.

Deviations from the documents and other weaknesses met while modelling. The
models show the code's behaviour, and the properties are stated so as to leave
these cases out; where a regime or a premise does so, its comment says which.

*Approvals and AI queue*

* a second approval of the same intent is executed again, though the design
  document of phase 4E calls for a block: the idempotency key includes the
  approval id;
* `GET /api/mail/approvals` expires old rows, though `docs/DECISIONS.md` says it
  "can be called repeatedly without changing approval state";
* the row of an approval and its audit event are two transactions (`state.py`,
  line 1555): a failure between them leaves a change without an event;
* if trigger evaluation and the write of its audit event both fail, a completed
  row of the AI queue goes back to pending, or to failed, against
  `docs/MAIL_AGENT.md` ("must not mark the AI classification as failed");
* a claimed row stays *running* after a restart, or when `fail_ai_item` itself
  fails (`state.py`, line 987), against `docs/OPERATIONS.md`, line 479.

*Reading mail*

* after a change of UIDVALIDITY a new mail at an old UID has the bridge id of the
  old one (`imap_source.py`, line 905): `INSERT OR IGNORE` drops its result and
  the checkpoint passes it, against `docs/MAIL_AGENT.md`, line 249. A FETCH that
  loses a message, and a write that is refused and swallowed, also pass it;
* a scan queued while another one runs is forgotten when that one ends, and so is
  a reload requested between the read of the configuration and the reset of the
  flag, though `POST /trigger` answers that the scan is queued;
* twenty messages that are no commands fill the window of the command feed and
  block every later command (`messages_source.py`, line 120);
* the bridge's IMAP source expects a JSON map as its token, the agent
  acknowledges a number; the rate limit of `mail_pending` never applies; an
  unreadable `chat.db` answers the token "0";
* `INSERT OR REPLACE` with the unique Message-ID deletes the original's row when a
  copy is recorded; an alert refused with 429 is lost for good; one whose answer
  was lost is sent twice; the pipeline's notifications bypass the limit; mails
  classified while no rules could be loaded stay "not_financial".

*Attachments*

* an unencrypted PDF always ends *failed* when passwords are configured
  (`server.py`, line 439, answers "null", `pdf_router.py`, line 177, calls `int`);
* a crash just after *unlocked* leaves the attachment skipped for good
  (`pdf_router.py`, line 318), and `retry_pending` does nothing;
* files are compared with the original's bytes, so an encrypted attachment that is
  routed again makes a second file; rewriting such a file may be cut off by a
  crash and spoil the one an earlier row names; a share lost between the probe
  and the write sends the file into the empty mount folder.

*Mail rules*

* rules, conditions and actions are read by separate statements
  (`rules.py`, lines 216-237): an edit in between combines old conditions with new
  actions, and a rule deleted half-way has no conditions, so it matches;
* a pattern that does not compile stops every scan at the first mail it is tried
  on, after earlier rules have acted, until it is repaired;
* a mail that was moved and then met a crash or a failed classification is not
  seen again; actions after `move_to_folder` address the old UID, touch nothing and
  are logged *completed*; a COPY repeated after a crash files a second copy;
* a rule deleted between its event *planned* and the effect: the effect takes
  place, the foreign key refuses the terminal event;
* if STATUS fails both at fetch and at the change, 0 equals 0 and the UIDVALIDITY
  guard says nothing;
* the previews say *ready* although an `allow_*` setting is off; `mark_flagged` and
  `unmark_flagged` have no such setting in the executor; the approvals page may
  say *ready* for `add_label`, which the executor does not support;
* `PATCH` with an empty list of conditions makes a rule match every mail.

*Ledger and the app's queue*

* `backfill_aliases` looks neither at owner and account filters nor at the order
  of specificity; a rename leaves `ollama_suggestion`; an alias taught again keeps
  its old category;
* a line that was merged with another parser's version of it is imported as a
  second row by a later import (`importer.py`, line 305, against line 15), and
  overlapping imports can merge two lines into one row;
* an import with overwrite writes back the category that it read at its start: a
  row that a sweep, an edit of an alias or another import categorised meanwhile is
  empty again (an operator's override stands); a rename during an import or a sweep
  may leave rows of the old name;
* an offline edit that failed waits for the next change from offline to online, a
  page loaded online never drains, and drains overlap: a failed older edit may
  then overwrite a newer one.

*Wealth*

* stable assets are not carried into a month that has a synced row (`api.py`, line
  2864, against line 2615); deleting the last one brings them back on the next
  view;
* an edit of a liability, and what the bridge writes, leave later snapshots as they
  were; overlapping sums may leave a stale one; so does a sum that raises, which
  `_auto_snapshot` logs and forgets (`api.py`, lines 3005 and 3294), and a stop of
  the API after the row's commit: nothing repeats the sum or the cascade;
* a card paid off writes no row, so the old debt is carried on; positions sold
  since remain in a month that was gap-filled before its statement arrived
  (`pdf_handler.py`, line 1356); rows of an unresolved owner stay.

*CoreTax*

* `reset_from_rules` and `run_reconcile` overwrite an amount that was edited, and so
  locked, after they read it (`carry_forward.py`, line 191, `reconcile.py`, line 493,
  against `docs/SYSTEM_DESIGN.md`, line 330);
* an amount entered over a carried-forward one is not exported (`exporter.py`, line
  198, against `docs/DECISIONS.md`, line 191);
* an old mapping is deleted in one transaction and the new one made in the next
  (`reconcile.py`, line 124); scores are written from mappings read before, so that
  a confirmation in between is lost (line 594);
* `docs/CHANGELOG.md`: "Re-runs mark older components `is_current=0`" holds for the
  rows a run fills: an item whose mapping was moved stays in the breakdown of its
  old row as well;
* `reset_from_rules` also rewrites unlocked amounts that were entered by hand or
  reconciled, though its docstring speaks of carried-forward ones; and a row created
  with an amount is not locked;
* a workbook imported twice is committed as a second set of rows: every import
  makes new stable keys, so the guard of `_commit_single_staging_row` never applies.

*Pipeline and statements*

* an error between taking the pipeline's lock and its `try` leaves the lock taken
  (`pipeline.py`, lines 89-92); two PDFs of one file name share an unlocked copy;
  when a new PDF of an old name is read as *partial*, rows of the old one that
  were replaced meanwhile come back to the workbook and are not imported; worker,
  pipeline and batch script may each lose the other's rows in the workbook; the
  batch script records *ok* without an import, so the pipeline skips the file; a
  failed import is repeated only after another file was read; jobs stay *running*
  after a restart;
* an empty statement deletes the rows of the bank's other accounts (`xls_writer.py`,
  line 341, against line 322);
* Maybank and BCA card statements are read from page 1 only, and a Maybank row is
  dropped if a continuation follows a complete line; the note on a foreign amount
  is lost at a page break (CIMB); a page of the CIMB consolidated statement belongs
  to the first section it names; a BCA row whose amount is on the next page is
  dropped; BCA savings books SALDO AWAL as a credit; RDN stops at a TANGGAL line;
* the texts that parsers look for overlap: a Permata savings statement that
  mentions RDN, or a CIMB one that mentions Maybank and a credit card, is sent to
  another parser; two Permata accounts of one product share its rupiah total;
  Maybank's and Permata's cache of closing balances keeps what a reissued
  statement has replaced; an old BNI portfolio counts stocks only with a loss and
  funds only with a gain; a page's footer may become the name of a BNI fund;
* negative amounts of the brokers' cash: an IPOT row that prints one has its columns
  shifted, so that the cash column beside the balance is read as the balance; a BNI
  row that leaves the account overdrawn is not recognised and hides the row below
  it, an IPOT row whose total is below zero is dropped; a negative end balance is
  read as 0, with an error in the result (`ipot_statement.py`, lines 96-99 and
  224-257, `bni_sekuritas.py`, lines 72-76 and 407). `CashReadAsPrinted` and
  `ReadAsPrinted` claim the bookings of statements none of whose bookings leaves
  less than nothing (`Solvent`), and the end balance unless it is negative.
