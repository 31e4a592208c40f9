------------------------------ MODULE AgentLoop ------------------------------
(***************************************************************************)
(* The main loop of the mail agent: reload the configuration if asked to,  *)
(* scan mail when it is time or somebody asked, read the operator's        *)
(* iMessage commands through the bridge and obey them.                     *)
(*                                                                         *)
(* Around it: the health server's thread, which queues scans; the finance  *)
(* API, which writes the configuration and asks for a reload; the bridge,  *)
(* which reads chat.db and keeps the acknowledged row.  What a mail scan   *)
(* does inside is ImapIntake.                                              *)
(***************************************************************************)
EXTENDS Integers, Sequences, FiniteSetsExt

CONSTANTS FetchLimit,    \* rows of chat.db per request (20)
          MaxPerHour,    \* max_commands_per_hour
          Regimes        \* the circumstances to consider: what is written in
                         \* Messages, may the agent restart, and the bounds

Chatter == "chatter"   \* no prefix, or an unauthorised sender
Switches == {"pause", "resume", "quiet on", "quiet off"}
Commands == Switches \cup {"scan", "status"}

ASSUME RegimesAssumption ==
  Regimes \subseteq [texts : SUBSET (Commands \cup {Chatter}), restarts : BOOLEAN,
                    messages : Nat, config : Nat \ {0}, requests : Nat, faults : Nat]
ASSUME LimitsAssumption == FetchLimit \in Nat \ {0} /\ MaxPerHour \in Nat \ {0}

VARIABLES
  chat,      \* chat.db: the text of each ROWID; replies and alerts land here too
  ack,       \* the bridge's checkpoint of the command stream
  lateAcks,  \* acknowledgements that timed out and may still be served
  results,   \* processed_commands: outcome by ROWID
  hourly,    \* rows of command_log within the last hour
  flags,     \* agent_flags
  memory,    \* CommandHandler: paused, quiet, scan_requested, force_scan
  config,    \* version of the configuration file
  settings,  \* the version the agent has loaded
  loop,      \* where the main loop stands
  trigger,   \* the health thread, between its two assignments
  requests, faults,  \* counters for the bounds
  regime

channel == <<chat, ack, lateAcks>>
handler == <<results, hourly>>
files == <<config, settings>>
health == <<trigger, requests>>
vars == <<channel, handler, flags, memory, files, loop, health, faults, regime>>

Rows == 1 .. Max({r.messages : r \in Regimes})
Outcomes == {"done", "limited", "error"}
-----------------------------------------------------------------------------
FlagOf(text) == IF text \in {"pause", "resume"} THEN "paused" ELSE "quiet"
ValueOf(text) == text \in {"pause", "quiet on"}

At(pc) == loop.pc = pc
LoopAt(pc) == [pc |-> pc, batch |-> <<>>, last |-> 0, outcome |-> "done"]
Current == Head(loop.batch)

Init ==
  /\ chat = <<>> /\ ack = 0 /\ lateAcks = {}
  /\ results = <<>> /\ hourly = 0
  /\ flags = [paused |-> FALSE, quiet |-> FALSE, reload |-> FALSE]
  /\ memory = [paused |-> FALSE, quiet |-> FALSE, scan |-> FALSE, force |-> FALSE]
  /\ config = 1 /\ settings = 1
  /\ loop = LoopAt("top")
  /\ trigger = "idle"
  /\ requests = 0 /\ faults = 0
  /\ regime \in Regimes
-----------------------------------------------------------------------------
(***************************************************************************)
(* The others.                                                             *)
(***************************************************************************)
Receive(text) ==
  /\ Len(chat) < regime.messages
  /\ chat' = Append(chat, text)
  /\ UNCHANGED <<ack, lateAcks, handler, flags, memory, files, loop, health, faults>>

WriteConfig ==
  /\ config < regime.config
  /\ config' = config + 1
  /\ UNCHANGED <<channel, handler, flags, memory, settings, loop, health, faults>>

RequestReload ==
  /\ requests < regime.requests
  /\ requests' = requests + 1
  /\ flags' = [flags EXCEPT !.reload = TRUE]
  /\ UNCHANGED <<channel, handler, memory, files, loop, trigger, faults>>

QueueScan(force) ==
  /\ trigger = "idle" /\ requests < regime.requests
  /\ requests' = requests + 1
  /\ memory' = [memory EXCEPT !.scan = TRUE]
  /\ trigger' = IF force THEN "forcing" ELSE "idle"
  /\ UNCHANGED <<channel, handler, flags, files, loop, faults>>

QueueForce ==
  /\ trigger = "forcing" /\ trigger' = "idle"
  /\ memory' = [memory EXCEPT !.force = TRUE]
  /\ UNCHANGED <<channel, handler, flags, files, loop, requests, faults>>

\* command_log is counted over a sliding hour.
Age ==
  /\ hourly > 0
  /\ hourly' = hourly - 1
  /\ UNCHANGED <<channel, results, flags, memory, files, loop, health, faults>>

LateAck ==
  /\ \E row \in lateAcks : ack' = row /\ lateAcks' = lateAcks \ {row}
  /\ UNCHANGED <<chat, handler, flags, memory, files, loop, health, faults>>
-----------------------------------------------------------------------------
(***************************************************************************)
(* Configuration and mail scan.                                            *)
(***************************************************************************)
NoReload ==
  /\ At("top") /\ ~ flags.reload
  /\ loop' = LoopAt("mail")
  /\ UNCHANGED <<channel, handler, flags, memory, files, health, faults>>

Load ==
  /\ At("top") /\ flags.reload
  /\ settings' = config
  /\ loop' = LoopAt("loaded")
  /\ UNCHANGED <<channel, handler, flags, memory, config, health, faults>>

ClearReload ==
  /\ At("loaded")
  /\ flags' = [flags EXCEPT !.reload = FALSE]
  /\ loop' = LoopAt("mail")
  /\ UNCHANGED <<channel, handler, memory, files, health, faults>>

Requested == memory.scan \/ memory.force

\* poll_interval_seconds have not passed.
NoScan ==
  /\ At("mail") /\ ~ Requested
  /\ loop' = LoopAt("commands")
  /\ UNCHANGED <<channel, handler, flags, memory, files, health, faults>>

StartScan ==
  /\ At("mail") /\ ~ memory.paused
  /\ loop' = LoopAt("scanning")
  /\ UNCHANGED <<channel, handler, flags, memory, files, health, faults>>

ScanPaused ==
  /\ At("mail") /\ memory.paused
  /\ loop' = LoopAt("scanned")
  /\ UNCHANGED <<channel, handler, flags, memory, files, health, faults>>

FinishScan ==
  /\ At("scanning")
  /\ loop' = LoopAt("scanned")
  /\ UNCHANGED <<channel, handler, flags, memory, files, health, faults>>

Fault == /\ faults < regime.faults
         /\ faults' = faults + 1

\* No network, bridge or mailbox: the flags stay set.
AbortScanForgetting ==  \* a mutation
  /\ (At("mail") /\ ~ memory.paused) \/ At("scanning")
  /\ Fault
  /\ loop' = LoopAt("scanned")
  /\ UNCHANGED <<channel, handler, flags, memory, files, health>>

AbortScan ==
  /\ (At("mail") /\ ~ memory.paused) \/ At("scanning")
  /\ Fault
  /\ loop' = LoopAt("commands")
  /\ UNCHANGED <<channel, handler, flags, memory, files, health>>

ResetRequest ==
  /\ At("scanned")
  /\ memory' = [memory EXCEPT !.scan = FALSE]
  /\ loop' = LoopAt("reset")
  /\ UNCHANGED <<channel, handler, flags, files, health, faults>>

ResetForce ==
  /\ At("reset")
  /\ memory' = [memory EXCEPT !.force = FALSE]
  /\ loop' = LoopAt("commands")
  /\ UNCHANGED <<channel, handler, flags, files, health, faults>>
-----------------------------------------------------------------------------
(***************************************************************************)
(* Commands.  The bridge takes FetchLimit rows and then keeps commands.    *)
(***************************************************************************)
Window == ack + 1 .. (IF ack + FetchLimit < Len(chat) THEN ack + FetchLimit ELSE Len(chat))

PendingSkippingOne ==  \* a mutation
  {row \in Window : chat[row] \in Commands /\ row > ack + 1}
Pending == {row \in Window : chat[row] \in Commands}

\* command_poll_interval_seconds have not passed.
NoCommands ==
  /\ At("commands")
  /\ loop' = LoopAt("top")
  /\ UNCHANGED <<channel, handler, flags, memory, files, health, faults>>

FetchCommands ==
  /\ At("commands")
  /\ \E n \in 0 .. FetchLimit : \E batch \in [1 .. n -> Pending] :
       /\ \A i, j \in 1 .. n : i < j => batch[i] < batch[j]
       /\ \A row \in Pending : \E i \in 1 .. n : batch[i] = row
       /\ loop' = IF n = 0 THEN LoopAt("top")
                  ELSE [LoopAt("next") EXCEPT !.batch = batch]
  /\ UNCHANGED <<channel, handler, flags, memory, files, health, faults>>

\* The item is done with; the batch ends with an acknowledgement.
Passed(item) ==
  [loop EXCEPT !.pc = IF Len(loop.batch) = 1 THEN "ack" ELSE "next",
               !.batch = Tail(loop.batch), !.last = item, !.outcome = "done"]

Skip ==
  /\ At("next") /\ Current \in DOMAIN results
  /\ loop' = Passed(Current)
  /\ UNCHANGED <<channel, handler, flags, memory, files, health, faults>>

To(pc, outcome) == loop' = [loop EXCEPT !.pc = pc, !.outcome = outcome]

\* The reply may fail to be sent; the outcome is then recorded as an error.
Limit ==
  /\ At("next") /\ Current \notin DOMAIN results
  /\ hourly >= MaxPerHour
  /\ To("save", "limited") \/ To("save", "error")
  /\ UNCHANGED <<channel, handler, flags, memory, files, health, faults>>

Record ==
  /\ At("next") /\ Current \notin DOMAIN results
  /\ hourly < MaxPerHour
  /\ hourly' = hourly + 1
  /\ To("act", "done")
  /\ UNCHANGED <<channel, results, flags, memory, files, health, faults>>

RecordFails ==
  /\ At("next") /\ Current \notin DOMAIN results
  /\ Fault
  /\ To("save", "error")
  /\ UNCHANGED <<channel, handler, flags, memory, files, health>>

MemoryAfter(text) ==
  CASE text = "scan" -> [memory EXCEPT !.scan = TRUE]
    [] text \in Switches -> [memory EXCEPT ![FlagOf(text)] = ValueOf(text)]
    [] OTHER -> memory

FlagsAfter(text) ==
  IF text \in Switches THEN [flags EXCEPT ![FlagOf(text)] = ValueOf(text)] ELSE flags

Act ==
  /\ At("act")
  /\ memory' = MemoryAfter(chat[Current])
  /\ flags' = FlagsAfter(chat[Current])
  /\ To("save", "done") \/ To("save", "error")
  /\ UNCHANGED <<channel, handler, files, health, faults>>

\* The attribute is set before set_bool_flag raises.
ActFails ==
  /\ At("act")
  /\ Fault
  /\ memory' = MemoryAfter(chat[Current])
  /\ To("save", "error")
  /\ UNCHANGED <<channel, handler, flags, files, health>>

Save ==
  /\ At("save")
  /\ results' = [row \in DOMAIN results \cup {Current} |->
                   IF row = Current THEN loop.outcome ELSE results[row]]
  /\ loop' = Passed(Current)
  /\ UNCHANGED <<channel, hourly, flags, memory, files, health, faults>>

SaveSwallowed ==  \* a mutation: the scan goes on
  /\ At("save")
  /\ Fault
  /\ loop' = Passed(Current)
  /\ UNCHANGED <<channel, handler, flags, memory, files, health>>

SaveRaises ==
  /\ At("save")
  /\ Fault
  /\ loop' = LoopAt("top")
  /\ UNCHANGED <<channel, handler, flags, memory, files, health>>

Ack ==
  /\ At("ack")
  /\ ack' = loop.last
  /\ loop' = LoopAt("top")
  /\ UNCHANGED <<chat, lateAcks, handler, flags, memory, files, health, faults>>

\* Every attempt timed out: the bridge serves the request late, or never.
AckRaises ==
  /\ At("ack")
  /\ Fault
  /\ lateAcks' = lateAcks \cup {loop.last} \/ lateAcks' = lateAcks
  /\ loop' = LoopAt("top")
  /\ UNCHANGED <<chat, ack, handler, flags, memory, files, health>>

\* Any other exception reaches the handler of the loop.
Raise ==
  /\ loop.pc \in {"top", "loaded", "mail", "scanning", "commands", "next"}
  /\ Fault
  /\ loop' = LoopAt("top")
  /\ UNCHANGED <<channel, handler, flags, memory, files, health>>

Restart ==
  /\ regime.restarts
  /\ Fault
  /\ memory' = [paused |-> flags.paused, quiet |-> flags.quiet,
                scan |-> FALSE, force |-> FALSE]
  /\ settings' = config
  /\ loop' = LoopAt("top")
  /\ trigger' = "idle"
  /\ UNCHANGED <<channel, handler, flags, config, requests>>
-----------------------------------------------------------------------------
MailSteps == /\ \/ NoReload \/ Load \/ ClearReload
                \/ NoScan \/ StartScan \/ ScanPaused \/ FinishScan
                \/ ResetRequest \/ ResetForce
             /\ UNCHANGED regime
Polls == FetchCommands /\ UNCHANGED regime
CommandSteps == \/ Polls
                \/ /\ \/ NoCommands \/ Skip \/ Limit \/ Record
                      \/ Act \/ Save \/ Ack
                   /\ UNCHANGED regime
Failures == /\ \/ AbortScan \/ RecordFails \/ ActFails \/ SaveRaises \/ AckRaises
               \/ Raise \/ Restart
            /\ UNCHANGED regime
Others == /\ \/ \E text \in regime.texts : Receive(text)
             \/ WriteConfig \/ RequestReload
             \/ \E force \in BOOLEAN : QueueScan(force)
             \/ QueueForce \/ Age \/ LateAck
          /\ UNCHANGED regime

Next == MailSteps \/ CommandSteps \/ Failures \/ Others

Spec == Init /\ [][Next]_vars

\* The loop never stops, and its command poll is due again and again.
FairSpec == /\ Spec
            /\ WF_vars(MailSteps \/ CommandSteps)
            /\ SF_vars(Polls)
-----------------------------------------------------------------------------
TypeOK ==
  /\ Len(chat) <= regime.messages /\ \A row \in 1 .. Len(chat) : chat[row] \in regime.texts
  /\ ack \in 0 .. Len(chat) /\ lateAcks \subseteq 1 .. Len(chat)
  /\ \A row \in DOMAIN results : chat[row] \in Commands /\ results[row] \in Outcomes
  /\ hourly \in 0 .. MaxPerHour
  /\ flags \in [{"paused", "quiet", "reload"} -> BOOLEAN]
  /\ memory \in [{"paused", "quiet", "scan", "force"} -> BOOLEAN]
  /\ config \in 1 .. regime.config /\ settings \in 1 .. config
  /\ loop.pc \in {"top", "loaded", "mail", "scanning", "scanned", "reset",
                  "commands", "next", "act", "save", "ack"}
  /\ loop.pc \in {"next", "act", "save"} <=> loop.batch # <<>>
  /\ \A i, j \in DOMAIN loop.batch : i < j => loop.batch[i] < loop.batch[j]
  /\ trigger \in {"idle", "forcing"}
  /\ requests \in 0 .. regime.requests /\ faults \in 0 .. regime.faults
  /\ regime \in Regimes

(***************************************************************************)
(* A command the bridge will not offer again has been answered, also when  *)
(* acknowledgements are lost or served late.                               *)
(***************************************************************************)
AckedAreAnswered ==
  \A row \in 1 .. ack : chat[row] \in Commands => row \in DOMAIN results

(***************************************************************************)
(* A command may be obeyed again after a crash, but never after a later    *)
(* command was recorded: the switches, in memory and in agent_flags, are   *)
(* what the last recorded command says, or one after it.                   *)
(***************************************************************************)
LastWordWins ==
  \A flag \in {"paused", "quiet"} :
    LET Turns(row) == chat[row] \in Switches /\ FlagOf(chat[row]) = flag
        said == {row \in DOMAIN results : Turns(row) /\ results[row] # "limited"}
    IN  \A last \in said :
          (\A row \in said : row <= last) /\ results[last] = "done" =>
          /\ \E row \in last .. Len(chat) : Turns(row) /\ flags[flag] = ValueOf(chat[row])
          /\ \E row \in last .. Len(chat) : Turns(row) /\ memory[flag] = ValueOf(chat[row])

(***************************************************************************)
(* reload_config: the flag is set "for the orchestrator to pick up".  A    *)
(* request that stands when the loop looks leads to the configuration of   *)
(* that moment or a later one, whatever fails on the way.                  *)
(***************************************************************************)
ReloadIsPickedUp ==
  \A version \in 1 .. Max({r.config : r \in Regimes}) :
    At("top") /\ flags.reload /\ config = version ~> settings >= version

(***************************************************************************)
(* main.py: after an aborted scan "flags stay set so next loop retries".   *)
(* A request the loop has come across leads to a scan, unless the operator *)
(* pauses the agent.                                                       *)
(***************************************************************************)
RequestedScanStarts == At("mail") /\ Requested ~> At("scanning") \/ memory.paused

(***************************************************************************)
(* A command within FetchLimit messages of the acknowledgement is answered.*)
(***************************************************************************)
CommandsInReachAreAnswered ==
  \A row \in Rows :
    row <= Len(chat) /\ row <= ack + FetchLimit /\ chat[row] \in Commands
      ~> row \in DOMAIN results

(***************************************************************************)
(* Crashes, replays and lost acknowledgements notwithstanding: an          *)
(* acknowledged command was answered, and the switches stand as the last   *)
(* answered command says.                                                  *)
(***************************************************************************)
RepliesStand ==
  /\ TypeOK
  /\ AckedAreAnswered
  /\ LastWordWins

(***************************************************************************)
(* A scan or a reload that the loop has come across is carried out,        *)
(* whatever fails in between.                                              *)
(***************************************************************************)
RequestsAreCarriedOut == RequestedScanStarts /\ ReloadIsPickedUp
=============================================================================
