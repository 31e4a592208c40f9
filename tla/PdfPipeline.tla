----------------------------- MODULE PdfPipeline -----------------------------
(***************************************************************************)
(* From a PDF in the inbox to rows in finance.db.  Three actors read       *)
(* statements: the bridge's job worker (a PDF chosen in the PWA), the      *)
(* bridge's pipeline (a thread that a timer or the PWA starts), and the    *)
(* batch script, a process of its own.  They share the folder of unlocked  *)
(* copies, ALL_TRANSACTIONS.xlsx and the registry of processed files.      *)
(*                                                                         *)
(* What a statement does to balances and holdings is WealthLedger, what    *)
(* the import does with a row is TransactionLedger; here an import copies  *)
(* the workbook's statements into the database.                            *)
(***************************************************************************)
EXTENDS Integers, Sequences, FiniteSets, FiniteSetsExt

CONSTANTS Files,     \* PDFs, told apart by their content
          Stem,      \* the file name of each
          Locked,    \* the encrypted ones
          Scope,     \* owner, month, bank and type of each
          Account,   \* the account each is about
          Empty,     \* those without a transaction
          Expected,  \* PDFs of a scope the manifest expects
          Members,   \* the PDFs that arrive in a ZIP
          NoFile,
          PdfRegimes, \* the circumstances to consider
          MaxJobs, MaxFaults

Faults == {"read", "warn", "import", "record", "extract", "restart", "lock"}
Actors == {"worker", "pipeline", "batch"}
Final == {"done", "partial", "error"}

ASSUME FilesAssumption ==
  /\ IsFiniteSet(Files) /\ NoFile \notin Files
  /\ {Locked, Empty, Members} \subseteq SUBSET Files
  /\ \A f \in {Stem, Scope, Account} : DOMAIN f = Files
  /\ \A f \in Files : Scope[f] \in DOMAIN Expected /\ Expected[Scope[f]] \in Nat
ASSUME PdfRegimesAssumption ==
  PdfRegimes \subseteq [files : SUBSET Files, actors : SUBSET Actors, may : SUBSET Faults]
ASSUME PdfBoundsAssumption == MaxJobs \in Nat /\ MaxFaults \in Nat

VARIABLES
  inbox,     \* the PDFs in the inbox, completely written
  zip,       \* the ZIP in the inbox: its status in the registry, "none" at first
  unlocked,  \* whose pages each unlocked copy holds
  book,      \* the statements whose rows are in ALL_TRANSACTIONS.xlsx
  db,        \* the statements whose rows were imported
  registry,  \* processed_files: the status by content
  jobs,      \* pdf_jobs, in the order of their creation
  queue,     \* the worker's queue, in memory
  reading,   \* what each actor is doing to which file
  cycle,     \* the pipeline's cycle
  timer,     \* a threading.Timer is running
  month,     \* was the complete month recorded as notified; alerts sent
  latest,    \* by file: is the registry's record newer than the newest job
  last,      \* history: how the last attempt at each file ended
  faults, pdfRegime

files == <<inbox, zip>>
bridge == <<jobs, queue>>
pvars == <<files, unlocked, book, db, registry, bridge, reading, cycle, timer,
           month, latest, last, faults, pdfRegime>>
-----------------------------------------------------------------------------
May(fault) == fault \in pdfRegime.may /\ faults.n < MaxFaults
Count(fault) == faults' = [n |-> faults.n + 1, seen |-> faults.seen \cup {fault}]

AtRest == [pc |-> "idle", file |-> NoFile, pages |-> NoFile, copy |-> {}, outcome |-> "none", job |-> 0]
Off == [pc |-> "off", unseen |-> {}, todo |-> {}, ok |-> FALSE]
Reads(a) == reading[a].pc
Of(a) == reading[a].file
LockHeld == cycle.pc # "off"

PInit ==
  /\ pdfRegime \in PdfRegimes
  /\ inbox = {} /\ zip = "none"
  /\ unlocked = [s \in {Stem[f] : f \in Files} |-> NoFile]
  /\ book = {} /\ db = {}
  /\ registry = [f \in Files |-> "none"]
  /\ jobs = <<>> /\ queue = <<>>
  /\ reading = [a \in Actors |-> AtRest]
  /\ cycle = Off
  /\ timer = ("pipeline" \in pdfRegime.actors)
  /\ month = [notified |-> FALSE, alerts |-> 0]
  /\ latest = [f \in Files |-> FALSE]
  /\ last = [f \in Files |-> "none"]
  /\ faults = [n |-> 0, seen |-> {}]

Arrive(f) ==
  /\ f \in pdfRegime.files \ inbox
  /\ inbox' = inbox \cup {f}
  /\ UNCHANGED <<zip, unlocked, book, db, registry, bridge, reading, cycle, timer,
                 month, latest, last, faults, pdfRegime>>
-----------------------------------------------------------------------------
(***************************************************************************)
(* One statement: run_pdf_pipeline_file, and process_pdf in the script.    *)
(***************************************************************************)
Step(a, pc) == reading' = [reading EXCEPT ![a].pc = pc]
Begun(f) == [AtRest EXCEPT !.pc = "unlock", !.file = f]

\* A copy under this name is taken for the unlocked form of this file.
UnlockPdf(a) ==
  /\ Reads(a) = "unlock"
  /\ LET f == Of(a)
         held == unlocked[Stem[f]]
         pages == IF f \in Locked /\ held # NoFile THEN held ELSE f
     IN  /\ reading' = [reading EXCEPT ![a].pc = "parse", ![a].pages = pages]
         /\ unlocked' = IF f \in Locked THEN [unlocked EXCEPT ![Stem[f]] = pages]
                                        ELSE unlocked
  /\ UNCHANGED <<files, book, db, registry, bridge, cycle, timer, month, latest, last,
                 faults, pdfRegime>>

\* No password, an unknown layout, a statement the verifier blocks, a workbook
\* that cannot be opened: whatever was written stays.
Outcome(a, outcome) ==
  reading' = [reading EXCEPT ![a].pc = "ended", ![a].outcome = outcome]

CannotRead(a) ==
  /\ Reads(a) \in {"unlock", "parse", "load", "save"}
  /\ May("read") /\ Count("read")
  /\ Outcome(a, "error")
  /\ UNCHANGED <<files, unlocked, book, db, registry, bridge, cycle, timer, month, latest,
                 last, pdfRegime>>

\* The bridge's actors write balances and holdings; a warning makes the
\* attempt partial.  The script only exports.
ParsePdf(a) ==
  /\ Reads(a) = "parse"
  /\ \/ /\ reading' = [reading EXCEPT ![a].pc = "load", ![a].outcome = "done"]
        /\ UNCHANGED faults
     \/ /\ a # "batch" /\ May("warn") /\ Count("warn")
        /\ reading' = [reading EXCEPT ![a].pc = "load", ![a].outcome = "partial"]
  /\ UNCHANGED <<files, unlocked, book, db, registry, bridge, cycle, timer, month, latest,
                 last, pdfRegime>>

Load(a) ==
  /\ Reads(a) = "load"
  /\ reading' = [reading EXCEPT ![a].pc = "save", ![a].copy = book]
  /\ UNCHANGED <<files, unlocked, book, db, registry, bridge, cycle, timer, month, latest,
                 last, faults, pdfRegime>>

\* The rows of the same owner, month, bank and type are replaced: those of the
\* statement's accounts, or all if it has no transaction that names one.
Replaced(f) ==
  {g \in Files : Scope[g] = Scope[f] /\ (f \in Empty \/ Account[g] = Account[f])}

Save(a) ==
  /\ Reads(a) = "save"
  /\ LET f == reading[a].pages
     IN  book' = (reading[a].copy \ Replaced(f)) \cup ({f} \ Empty)
  /\ Step(a, "ended")
  /\ UNCHANGED <<files, unlocked, db, registry, bridge, cycle, timer, month, latest, last,
                 faults, pdfRegime>>

ReadSteps(a) == UnlockPdf(a) \/ ParsePdf(a) \/ Load(a) \/ Save(a)

\* Registry.record: one row per content; first_seen, name and path stay.
Record(f, status) ==
  /\ registry' = [registry EXCEPT ![f] = status]
  /\ latest' = [latest EXCEPT ![f] = TRUE]

-----------------------------------------------------------------------------
(***************************************************************************)
(* The job worker: one thread, one job at a time, in the order of the      *)
(* requests.                                                               *)
(***************************************************************************)
ProcessFile(f) ==
  /\ "worker" \in pdfRegime.actors /\ f \in inbox /\ Len(jobs) < MaxJobs
  /\ jobs' = Append(jobs, [file |-> f, status |-> "pending"])
  /\ queue' = Append(queue, Len(jobs'))
  /\ latest' = [latest EXCEPT ![f] = FALSE]
  /\ UNCHANGED <<files, unlocked, book, db, registry, reading, cycle, timer, month,
                 last, faults, pdfRegime>>

RunJob ==
  /\ Reads("worker") = "idle" /\ queue # <<>>
  /\ LET j == Head(queue)
     IN  /\ jobs' = [jobs EXCEPT ![j].status = "running"]
         /\ reading' = [reading EXCEPT !["worker"] = [Begun(jobs[j].file) EXCEPT !.job = j]]
  /\ queue' = Tail(queue)
  /\ UNCHANGED <<files, unlocked, book, db, registry, cycle, timer, month, latest, last,
                 faults, pdfRegime>>

ImportJob ==
  /\ Reads("worker") = "ended"
  /\ \/ /\ reading["worker"].outcome = "error"
        /\ Step("worker", "imported")
        /\ UNCHANGED <<db, faults>>
     \/ /\ reading["worker"].outcome # "error"
        /\ db' = db \cup book
        /\ Step("worker", "imported")
        /\ UNCHANGED faults
     \/ /\ reading["worker"].outcome # "error" /\ May("import") /\ Count("import")
        /\ reading' = [reading EXCEPT !["worker"].pc = "imported", !["worker"].outcome = "error"]
        /\ UNCHANGED db
  /\ UNCHANGED <<files, unlocked, book, registry, bridge, cycle, timer, month, latest,
                 last, pdfRegime>>

StatusOf(outcome) == IF outcome = "done" THEN "ok" ELSE outcome

\* A registry that cannot be written is only logged.
RecordJob ==
  /\ Reads("worker") = "imported"
  /\ LET f == Of("worker")
         outcome == reading["worker"].outcome
     IN  /\ \/ Record(f, StatusOf(outcome)) /\ UNCHANGED faults
            \/ May("record") /\ Count("record") /\ UNCHANGED <<registry, latest>>
         /\ last' = [last EXCEPT ![f] = outcome]
  /\ Step("worker", "recorded")
  /\ UNCHANGED <<files, unlocked, book, db, bridge, cycle, timer, month, pdfRegime>>

EndJobUnread ==  \* a mutation: the row keeps the status it had
  /\ Reads("worker") = "recorded"
  /\ reading' = [reading EXCEPT !["worker"] = AtRest]
  /\ UNCHANGED <<files, unlocked, book, db, registry, bridge, cycle, timer, month, latest,
                 last, faults, pdfRegime>>

EndJob ==
  /\ Reads("worker") = "recorded"
  /\ jobs' = [jobs EXCEPT ![reading["worker"].job].status = reading["worker"].outcome]
  /\ reading' = [reading EXCEPT !["worker"] = AtRest]
  /\ UNCHANGED <<files, unlocked, book, db, registry, queue, cycle, timer, month, latest,
                 last, faults, pdfRegime>>
-----------------------------------------------------------------------------
(***************************************************************************)
(* The pipeline: a lock that is tried, not waited for, and a timer that    *)
(* the end of a cycle sets again.                                          *)
(***************************************************************************)
Acquire == cycle' = [Off EXCEPT !.pc = "start"]

Trigger ==
  /\ "pipeline" \in pdfRegime.actors /\ ~ LockHeld
  /\ Acquire
  /\ UNCHANGED <<files, unlocked, book, db, registry, bridge, reading, timer, month,
                 latest, last, faults, pdfRegime>>

\* A timer that finds the lock held is not set again here.
Scheduled ==
  /\ timer /\ timer' = FALSE
  /\ IF LockHeld THEN UNCHANGED cycle ELSE Acquire
  /\ UNCHANGED <<files, unlocked, book, db, registry, bridge, reading, month, latest,
                 last, faults, pdfRegime>>

\* The row of the run is inserted before the try block: an exception there
\* ends the thread with the lock held.
StartCycle ==
  /\ cycle.pc = "start"
  /\ \/ cycle' = [cycle EXCEPT !.pc = "scan", !.unseen = inbox] /\ UNCHANGED faults
     \/ /\ May("lock") /\ Count("lock")
        /\ cycle' = [cycle EXCEPT !.pc = "dead"]
  /\ UNCHANGED <<files, unlocked, book, db, registry, bridge, reading, timer, month,
                 latest, last, pdfRegime>>

Seen == {f \in Files : registry[f] = "ok"}

Look ==
  /\ cycle.pc = "scan"
  /\ IF cycle.unseen = {} THEN cycle' = [cycle EXCEPT !.pc = "work"]
     ELSE \E f \in cycle.unseen :
            cycle' = [cycle EXCEPT !.unseen = @ \ {f}, !.todo = @ \cup ({f} \ Seen)]
  /\ UNCHANGED <<files, unlocked, book, db, registry, bridge, reading, timer, month,
                 latest, last, faults, pdfRegime>>

Take ==
  /\ cycle.pc = "work" /\ Reads("pipeline") = "idle"
  /\ \E f \in cycle.todo :
       /\ reading' = [reading EXCEPT !["pipeline"] = Begun(f)]
       /\ cycle' = [cycle EXCEPT !.todo = @ \ {f}]
  /\ UNCHANGED <<files, unlocked, book, db, registry, bridge, timer, month, latest, last,
                 faults, pdfRegime>>

Verdict(outcome) == IF outcome = "done" THEN "ok" ELSE "error"

OkAfterLast(verdict) ==  \* a mutation: the last file decides
  verdict = "ok"

OkAfter(verdict) == cycle.ok \/ verdict = "ok"

\* An attempt that is partial is an error here, and tried again.
RecordFile ==
  /\ Reads("pipeline") = "ended"
  /\ LET f == Of("pipeline")
         verdict == Verdict(reading["pipeline"].outcome)
     IN  /\ \/ /\ Record(f, verdict)
               /\ cycle' = [cycle EXCEPT !.ok = OkAfter(verdict)]
               /\ UNCHANGED faults
            \/ /\ May("record") /\ Count("record")
               /\ cycle' = [cycle EXCEPT !.pc = "finish"]
               /\ UNCHANGED <<registry, latest>>
         /\ last' = [last EXCEPT ![f] = IF verdict = "ok" THEN "done" ELSE "error"]
  /\ reading' = [reading EXCEPT !["pipeline"] = AtRest]
  /\ UNCHANGED <<files, unlocked, book, db, bridge, timer, month, pdfRegime>>

ImportCycle ==
  /\ cycle.pc = "work" /\ cycle.todo = {} /\ Reads("pipeline") = "idle"
  /\ \/ /\ cycle' = [cycle EXCEPT !.pc = "months"]
        /\ db' = IF cycle.ok THEN db \cup book ELSE db
        /\ UNCHANGED faults
     \/ /\ cycle.ok /\ May("import") /\ Count("import")
        /\ cycle' = [cycle EXCEPT !.pc = "finish"]
        /\ UNCHANGED db
  /\ UNCHANGED <<files, unlocked, book, registry, bridge, reading, timer, month, latest,
                 last, pdfRegime>>

\* build_log_rows counts the records with status ok; a scope with more of them
\* than the manifest expects does not count.
Complete ==
  \A s \in DOMAIN Expected :
    Cardinality({f \in Seen : Scope[f] = s}) = Expected[s]

Notified == month.notified

FindCompleted ==
  /\ cycle.pc = "months"
  /\ cycle' = [cycle EXCEPT !.pc = IF Complete /\ ~ Notified THEN "alert" ELSE "finish"]
  /\ UNCHANGED <<files, unlocked, book, db, registry, bridge, reading, timer, month,
                 latest, last, faults, pdfRegime>>

SendCompleted ==
  /\ cycle.pc = "alert"
  /\ month' = [month EXCEPT !.alerts = @ + 1]
  /\ cycle' = [cycle EXCEPT !.pc = "record"]
  /\ UNCHANGED <<files, unlocked, book, db, registry, bridge, reading, timer, latest,
                 last, faults, pdfRegime>>

RecordCompleted ==
  /\ cycle.pc = "record"
  /\ month' = [month EXCEPT !.notified = TRUE]
  /\ cycle' = [cycle EXCEPT !.pc = "finish"]
  /\ UNCHANGED <<files, unlocked, book, db, registry, bridge, reading, timer, latest,
                 last, faults, pdfRegime>>

\* The finally clause: the lock is released and the timer set.
FinishUnscheduled ==  \* a mutation: the timer is not set again
  /\ cycle.pc = "finish"
  /\ cycle' = Off
  /\ UNCHANGED <<files, unlocked, book, db, registry, bridge, reading, timer, month,
                 latest, last, faults, pdfRegime>>

FinishCycle ==
  /\ cycle.pc = "finish"
  /\ cycle' = Off /\ timer' = TRUE
  /\ UNCHANGED <<files, unlocked, book, db, registry, bridge, reading, month, latest,
                 last, faults, pdfRegime>>
-----------------------------------------------------------------------------
(***************************************************************************)
(* The batch script.                                                       *)
(***************************************************************************)
\* A ZIP is done once one member was extracted.
Unzip ==
  /\ "batch" \in pdfRegime.actors /\ Reads("batch") = "idle"
  /\ Members # {} /\ zip # "ok"
  /\ \E extracted \in SUBSET Members :
       /\ \/ extracted = Members /\ UNCHANGED faults
          \/ extracted # Members /\ May("extract") /\ Count("extract")
       /\ inbox' = inbox \cup extracted
       /\ zip' = IF extracted = {} THEN "error" ELSE "ok"
  /\ UNCHANGED <<unlocked, book, db, registry, bridge, reading, cycle, timer, month,
                 latest, last, pdfRegime>>

ScanNext ==
  /\ "batch" \in pdfRegime.actors /\ Reads("batch") = "idle"
  /\ \E f \in inbox \ Seen : reading' = [reading EXCEPT !["batch"] = Begun(f)]
  /\ UNCHANGED <<files, unlocked, book, db, registry, bridge, cycle, timer, month, latest,
                 last, faults, pdfRegime>>

DryRun ==
  /\ Reads("batch") = "parse"
  /\ Outcome("batch", "dry-run")
  /\ UNCHANGED <<files, unlocked, book, db, registry, bridge, cycle, timer, month, latest,
                 last, faults, pdfRegime>>

RecordScan ==
  /\ Reads("batch") = "ended"
  /\ LET outcome == reading["batch"].outcome
     IN  /\ Record(Of("batch"), StatusOf(outcome))
         /\ last' = [last EXCEPT ![Of("batch")] = outcome]
  /\ reading' = [reading EXCEPT !["batch"] = AtRest]
  /\ UNCHANGED <<files, unlocked, book, db, bridge, cycle, timer, month, faults, pdfRegime>>
-----------------------------------------------------------------------------
\* The queue, the lock and the threads are the bridge's memory.
RestartBridge ==
  /\ May("restart") /\ Count("restart")
  /\ queue' = <<>>
  /\ reading' = [reading EXCEPT !["worker"] = AtRest, !["pipeline"] = AtRest]
  /\ cycle' = Off
  /\ timer' = ("pipeline" \in pdfRegime.actors)
  /\ UNCHANGED <<files, unlocked, book, db, registry, jobs, month, latest, last, pdfRegime>>

Worker == RunJob \/ ReadSteps("worker") \/ ImportJob \/ RecordJob \/ EndJob
Cycle == \/ StartCycle \/ Look \/ Take \/ ReadSteps("pipeline") \/ RecordFile
         \/ ImportCycle \/ FindCompleted \/ SendCompleted \/ RecordCompleted
         \/ FinishCycle
Script == Unzip \/ ScanNext \/ DryRun \/ ReadSteps("batch") \/ RecordScan

PNext == \/ \E f \in Files : Arrive(f) \/ ProcessFile(f)
         \/ Trigger \/ Scheduled
         \/ Worker \/ Cycle \/ Script
         \/ \E a \in Actors : CannotRead(a)
         \/ RestartBridge

\* The bridge's two threads run and its timer fires; nobody has to start the
\* script or a cycle by hand.
PSpec == /\ PInit /\ [][PNext]_pvars
         /\ WF_pvars(Worker) /\ WF_pvars(Cycle) /\ WF_pvars(Scheduled)
-----------------------------------------------------------------------------
PTypeOK ==
  /\ inbox \subseteq Files /\ zip \in {"none", "ok", "error"}
  /\ \A s \in DOMAIN unlocked : unlocked[s] \in Locked \cup {NoFile}
  /\ book \subseteq Files \ Empty /\ db \subseteq Files \ Empty
  /\ registry \in [Files -> {"none", "ok", "partial", "error", "dry-run"}]
  /\ \A j \in DOMAIN jobs : jobs[j].file \in inbox
                            /\ jobs[j].status \in Final \cup {"pending", "running"}
  /\ \A i \in DOMAIN queue : jobs[queue[i]].status = "pending"
  /\ \A a \in Actors :
       /\ Reads(a) \in {"idle", "unlock", "parse", "load", "save", "ended", "imported", "recorded"}
       /\ Reads(a) # "idle" => Of(a) \in inbox
       /\ Reads(a) \in {"parse", "load", "save"} => reading[a].pages \in Files
  /\ cycle.pc \in {"off", "start", "scan", "work", "months", "alert", "record", "finish", "dead"}
  /\ cycle.unseen \subseteq inbox /\ cycle.todo \subseteq inbox
  /\ timer \in BOOLEAN /\ month.alerts \in Nat

Alone == \E a \in Actors : pdfRegime.actors = {a}
Twins(f) == {g \in inbox \ {f} : {f, g} \subseteq Locked /\ Stem[f] = Stem[g]}
Calm == \A a \in Actors : Reads(a) = "idle"

(***************************************************************************)
(* A statement recorded as processed is not read again, so its rows must   *)
(* be in the workbook: unless another statement of the account and month   *)
(* has replaced them.  (One actor at a time: the workbook is read, changed *)
(* and written back, and two actors may lose each other's rows.)           *)
(***************************************************************************)
RecordedAreExported ==
  Alone =>
    \A f \in Seen \ Empty :
      \/ f \in book
      \/ Twins(f) # {}
      \/ \E g \in inbox \ {f} : f \in Replaced(g)

(***************************************************************************)
(* The bridge imports what it records: with no cycle or job under way, and *)
(* no import, record or bridge that failed, the rows of a statement in the *)
(* workbook are in the database.  (Another PDF of its name may bring back  *)
(* the rows of a statement that was replaced before the import.)           *)
(***************************************************************************)
RecordedAreImported ==
  Alone /\ "batch" \notin pdfRegime.actors /\ Calm /\ ~ LockHeld
    /\ faults.seen \cap {"import", "record", "restart"} = {}
    => \A f \in Seen \cap book : f \in db \/ Twins(f) # {}

(***************************************************************************)
(* pdf_local_workspace shows the registry's record or the newest job,      *)
(* whichever is later: with no attempt at a file under way that is how     *)
(* the last attempt ended, whichever actor made it.                        *)
(***************************************************************************)
Shown(f) ==
  LET of == {j \in DOMAIN jobs : jobs[j].file = f}
  IN  IF of = {} \/ latest[f]
      THEN CASE registry[f] = "ok" -> "done"
             [] registry[f] = "dry-run" -> "none"
             [] OTHER -> registry[f]
      ELSE jobs[Max(of)].status

ShownIsLast ==
  \A f \in Files :
    \/ \E a \in Actors : Of(a) = f
    \/ \E i \in DOMAIN queue : jobs[queue[i]].file = f
    \/ faults.seen \cap {"record", "restart"} # {}
    \/ Shown(f) = IF last[f] = "dry-run" THEN "none" ELSE last[f]

(***************************************************************************)
(* "<month> complete" is sent once, and once more for a bridge that        *)
(* restarts or fails between the message and its record.                   *)
(***************************************************************************)
MonthAlertedOnce == month.alerts <= IF "restart" \in faults.seen THEN 1 + faults.n ELSE 1

(***************************************************************************)
(* Whatever fails, a file in the inbox is tried again every cycle until it *)
(* is read, and the cycles go on: unless a run could not be recorded as    *)
(* started, which leaves the lock held.                                    *)
(***************************************************************************)
EveryFileIsRead ==
  \A f \in Files :
    f \in inbox /\ "pipeline" \in pdfRegime.actors
      ~> registry[f] = "ok" \/ "lock" \in faults.seen

(***************************************************************************)
(* A job the PWA polls ends, unless the bridge restarts meanwhile.         *)
(***************************************************************************)
JobsEnd ==
  \A j \in 1 .. MaxJobs :
    j \in DOMAIN jobs
      ~> (j \in DOMAIN jobs /\ jobs[j].status \in Final) \/ "restart" \in faults.seen

(***************************************************************************)
(* What the registry calls done was exported and imported, the PWA is      *)
(* shown the last attempt, and a complete month is announced once.         *)
(***************************************************************************)
RecordsAreTrue ==
  /\ PTypeOK
  /\ RecordedAreExported
  /\ RecordedAreImported
  /\ ShownIsLast
  /\ MonthAlertedOnce
=============================================================================
