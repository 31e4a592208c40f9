--------------------------- MODULE AgentLoopProofs ---------------------------
(***************************************************************************)
(* Proofs about AgentLoop, for every window, limit and circumstance: a     *)
(* command the bridge will not offer again was answered, and the switches  *)
(* never fall back behind the last answered command.                       *)
(***************************************************************************)
EXTENDS AgentLoop, TLAPS

USE DEF At, channel, handler, files, health

PCs == {"top", "loaded", "mail", "scanning", "scanned", "reset", "commands", "next",
        "act", "save", "ack"}
Busy == {"next", "act", "save"}

Typed ==
  /\ chat \in Seq(regime.texts) /\ Len(chat) <= regime.messages
  /\ ack \in 0 .. Len(chat) /\ lateAcks \subseteq 1 .. Len(chat)
  /\ \A row \in DOMAIN results : row \in 1 .. Len(chat) /\ results[row] \in Outcomes
  /\ hourly \in 0 .. MaxPerHour
  /\ flags \in [{"paused", "quiet", "reload"} -> BOOLEAN]
  /\ memory \in [{"paused", "quiet", "scan", "force"} -> BOOLEAN]
  /\ config \in 1 .. regime.config /\ settings \in 1 .. config
  /\ loop \in [pc : PCs, batch : Seq(Nat), last : Nat, outcome : Outcomes]
  /\ loop.pc \in Busy <=> loop.batch # <<>>
  /\ trigger \in {"idle", "forcing"}
  /\ requests \in 0 .. regime.requests /\ faults \in 0 .. regime.faults
  /\ regime \in Regimes

IsCommand(row) == row \in 1 .. Len(chat) /\ chat[row] \in Commands
Answered(row) == row \in DOMAIN results

\* Every command before this row, or up to it, has an outcome.
AnsweredBefore(row) == \A r \in 1 .. Len(chat) : r < row /\ IsCommand(r) => Answered(r)
AnsweredUpTo(row) == \A r \in 1 .. Len(chat) : r <= row /\ IsCommand(r) => Answered(r)

(***************************************************************************)
(* Commands are answered in the order of chat.db: the answered ones are a  *)
(* prefix, and every checkpoint - acknowledged, about to be, or late -     *)
(* lies within it.                                                         *)
(***************************************************************************)
AnsweredInOrder ==
  /\ \A row \in DOMAIN results : IsCommand(row) /\ AnsweredUpTo(row)
  /\ AnsweredUpTo(ack)
  /\ \A row \in lateAcks : AnsweredUpTo(row)
  /\ At("ack") => loop.last \in 1 .. Len(chat) /\ AnsweredUpTo(loop.last)

\* The batch: the commands from the first unanswered one on, without a gap.
BatchInOrder ==
  /\ \A i \in 1 .. Len(loop.batch) : IsCommand(loop.batch[i])
  /\ \A i, j \in 1 .. Len(loop.batch) : i < j => loop.batch[i] < loop.batch[j]
  /\ loop.batch # <<>> => AnsweredBefore(loop.batch[1])
  /\ \A i, j \in 1 .. Len(loop.batch) : j = i + 1 =>
       \A r \in 1 .. Len(chat) :
         loop.batch[i] < r /\ r < loop.batch[j] => ~ IsCommand(r)
  /\ loop.pc \in {"act", "save"} => ~ Answered(loop.batch[1])

Turns(row, flag) == chat[row] \in Switches /\ FlagOf(chat[row]) = flag

\* From row on, some command has the switch say what it says now.
SaysFrom(row, flag, value) ==
  \E r \in 1 .. Len(chat) : row <= r /\ Turns(r, flag) /\ value = ValueOf(chat[r])

Told(row, flag) == SaysFrom(row, flag, flags[flag]) /\ SaysFrom(row, flag, memory[flag])

(***************************************************************************)
(* Nothing older than an answered command turns its switch afterwards; and *)
(* a command about to be recorded as done has turned it.                   *)
(***************************************************************************)
SwitchesTold ==
  \A flag \in {"paused", "quiet"} :
    /\ \A row \in DOMAIN results :
         /\ Turns(row, flag) /\ results[row] = "done"
         /\ \A r \in DOMAIN results : Turns(r, flag) /\ results[r] # "limited" => r <= row
         => Told(row, flag)
    /\ /\ At("save") /\ loop.outcome = "done" /\ Turns(loop.batch[1], flag)
       => flags[flag] = ValueOf(chat[loop.batch[1]]) /\ memory[flag] = ValueOf(chat[loop.batch[1]])

IInv == Typed /\ AnsweredInOrder /\ BatchInOrder /\ SwitchesTold
-----------------------------------------------------------------------------
LoopType == [pc : PCs, batch : Seq(Nat), last : Nat, outcome : Outcomes]

LEMMA FirstAndRest ==
  ASSUME NEW S, NEW s \in Seq(S), s # <<>>
  PROVE  /\ Len(s) \in Nat \ {0} /\ Head(s) = s[1] /\ s[1] \in S
         /\ Tail(s) \in Seq(S) /\ Len(Tail(s)) = Len(s) - 1
         /\ \A k \in 1 .. Len(Tail(s)) : Tail(s)[k] = s[k + 1]
  OBVIOUS

LEMMA LoopAtFields ==
  ASSUME NEW pc \in PCs
  PROVE  /\ LoopAt(pc) \in LoopType /\ LoopAt(pc).pc = pc /\ LoopAt(pc).batch = <<>>
         /\ Len(LoopAt(pc).batch) = 0
  BY DEF LoopAt, LoopType, Outcomes

LEMMA BusyBatch ==
  ASSUME Typed, loop.pc \in Busy
  PROVE  /\ loop.batch \in Seq(Nat) /\ loop.batch # <<>> /\ Len(loop.batch) \in Nat \ {0}
         /\ Current = loop.batch[1] /\ loop.batch[1] \in Nat
  BY FirstAndRest DEF Typed, Current

LEMMA PassedFields ==
  ASSUME Typed, loop.pc \in Busy, loop' = Passed(Current)
  PROVE  /\ loop' \in LoopType /\ (loop'.pc \in Busy <=> loop'.batch # <<>>)
         /\ loop'.pc \in {"next", "ack"} /\ loop'.last = loop.batch[1]
         /\ Len(loop'.batch) = Len(loop.batch) - 1 /\ Len(loop.batch) \in Nat
         /\ \A k \in 1 .. Len(loop'.batch) : loop'.batch[k] = loop.batch[k + 1]
  <1> DEFINE rest == Tail(loop.batch)
             pc == IF Len(loop.batch) = 1 THEN "ack" ELSE "next"
  <1>1. /\ loop.batch \in Seq(Nat) /\ loop.batch # <<>> /\ Len(loop.batch) \in Nat \ {0}
        /\ Current = loop.batch[1] /\ loop.batch[1] \in Nat /\ loop \in LoopType
    BY BusyBatch DEF Typed, LoopType
  <1>2. /\ rest \in Seq(Nat) /\ Len(rest) = Len(loop.batch) - 1
        /\ \A k \in 1 .. Len(rest) : rest[k] = loop.batch[k + 1]
    BY <1>1, FirstAndRest
  <1>3. loop' = [loop EXCEPT !.pc = pc, !.batch = rest, !.last = loop.batch[1],
                             !.outcome = "done"]
    BY <1>1 DEF Passed
  <1> HIDE DEF rest
  <1>4. rest = <<>> <=> Len(rest) = 0
    <2>1. \A s \in Seq(Nat) : s = <<>> <=> Len(s) = 0
      OBVIOUS
    <2> QED
      BY <1>2, <2>1
  <1>5. pc \in PCs
    BY DEF PCs
  <1> HIDE DEF pc
  <1>6. loop' \in LoopType /\ loop'.pc = pc /\ loop'.batch = rest /\ loop'.last = loop.batch[1]
    BY <1>1, <1>2, <1>3, <1>5 DEF LoopType, Outcomes
  <1>7. pc = IF Len(loop.batch) = 1 THEN "ack" ELSE "next"
    BY DEF pc
  <1>8. pc \in Busy <=> rest # <<>>
    BY <1>1, <1>2, <1>4, <1>7 DEF Busy
  <1> QED
    BY <1>1, <1>2, <1>6, <1>7, <1>8

LEMMA ToFields ==
  ASSUME Typed, loop.pc \in Busy, NEW pc \in Busy, NEW outcome \in Outcomes, To(pc, outcome)
  PROVE  /\ loop' \in LoopType /\ (loop'.pc \in Busy <=> loop'.batch # <<>>)
         /\ loop'.pc = pc /\ loop'.outcome = outcome /\ loop'.batch = loop.batch
  <1>1. loop' \in LoopType /\ loop'.pc = pc /\ loop'.outcome = outcome
        /\ loop'.batch = loop.batch
    BY DEF To, Typed, LoopType, PCs, Busy
  <1> QED
    BY <1>1 DEF Typed

\* A request for commands answers with all of the window, in order.
LEMMA FetchFields ==
  ASSUME Typed, FetchCommands
  PROVE  /\ loop' \in LoopType /\ (loop'.pc \in Busy <=> loop'.batch # <<>>)
         /\ loop'.pc \in {"top", "next"} /\ Len(loop'.batch) \in Nat
         /\ \A k \in 1 .. Len(loop'.batch) : loop'.batch[k] \in Pending
         /\ \A i, j \in 1 .. Len(loop'.batch) : i < j => loop'.batch[i] < loop'.batch[j]
         /\ \A row \in Pending : \E k \in 1 .. Len(loop'.batch) : loop'.batch[k] = row
  <1>1. PICK n \in 0 .. FetchLimit : \E batch \in [1 .. n -> Pending] :
          /\ \A i, j \in 1 .. n : i < j => batch[i] < batch[j]
          /\ \A row \in Pending : \E i \in 1 .. n : batch[i] = row
          /\ loop' = IF n = 0 THEN LoopAt("top")
                     ELSE [LoopAt("next") EXCEPT !.batch = batch]
    BY DEF FetchCommands
  <1>2. PICK batch \in [1 .. n -> Pending] :
          /\ \A i, j \in 1 .. n : i < j => batch[i] < batch[j]
          /\ \A row \in Pending : \E i \in 1 .. n : batch[i] = row
          /\ loop' = IF n = 0 THEN LoopAt("top")
                     ELSE [LoopAt("next") EXCEPT !.batch = batch]
    BY <1>1
  <1>3. \A row \in Pending : row \in Nat
    BY DEF Pending, Window, Typed
  <1>4. batch \in [1 .. n -> Nat] /\ n \in Nat
    BY <1>3
  <1>5. batch \in Seq(Nat) /\ Len(batch) = n
    BY <1>4
  <1>6. CASE n = 0
    <2>1. loop' = LoopAt("top")
      BY <1>2, <1>6
    <2> QED
      BY <1>2, <1>6, <2>1, LoopAtFields DEF PCs, Busy
  <1>7. CASE n # 0
    <2>1. loop' \in LoopType /\ loop'.pc = "next" /\ loop'.batch = batch
      BY <1>2, <1>5, <1>7, LoopAtFields DEF LoopType, PCs
    <2>2. batch # <<>>
      BY <1>5, <1>7
    <2> QED
      BY <1>2, <1>5, <2>1, <2>2 DEF Busy
  <1> QED
    BY <1>6, <1>7

\* The steps by kind of change to the loop.
Elsewhere == \/ \E text \in regime.texts : Receive(text)
             \/ WriteConfig \/ RequestReload \/ QueueForce \/ Age \/ LateAck
             \/ \E force \in BOOLEAN : QueueScan(force)

Between == \/ NoReload \/ Load \/ ClearReload \/ NoScan \/ StartScan \/ ScanPaused
           \/ FinishScan \/ ResetRequest \/ ResetForce \/ NoCommands \/ AbortScan
           \/ SaveRaises \/ Ack \/ AckRaises \/ Raise \/ Restart

Working == Limit \/ Record \/ RecordFails \/ Act \/ ActFails

LEMMA StepKinds ==
  ASSUME [Next]_vars
  PROVE  /\ regime' = regime
         /\ \/ UNCHANGED vars \/ Elsewhere \/ Between \/ FetchCommands \/ Working
            \/ Skip \/ Save
  BY DEF Next, MailSteps, CommandSteps, Polls, Failures, Others, Elsewhere, Between, Working,
         vars

LEMMA BetweenLoop ==
  ASSUME Between
  PROVE  /\ loop' \in LoopType /\ loop'.pc \in PCs \ (Busy \cup {"ack"})
         /\ loop'.batch = <<>> /\ Len(loop'.batch) = 0
         /\ UNCHANGED <<chat, results>>
  <1>1. PICK pc \in PCs \ (Busy \cup {"ack"}) : loop' = LoopAt(pc)
    BY DEF Between, NoReload, Load, ClearReload, NoScan, StartScan, ScanPaused, FinishScan,
           ResetRequest, ResetForce, NoCommands, AbortScan, SaveRaises, Ack, AckRaises, Raise,
           Restart, PCs, Busy
  <1>2. UNCHANGED <<chat, results>>
    BY DEF Between, NoReload, Load, ClearReload, NoScan, StartScan, ScanPaused, FinishScan,
           ResetRequest, ResetForce, NoCommands, AbortScan, SaveRaises, Ack, AckRaises, Raise,
           Restart
  <1> QED
    BY <1>1, <1>2, LoopAtFields

LEMMA WorkingLoop ==
  ASSUME Typed, Working
  PROVE  /\ loop.pc \in {"next", "act"} /\ loop'.pc \in {"act", "save"}
         /\ loop' \in LoopType /\ loop'.batch = loop.batch /\ loop.batch # <<>>
         /\ UNCHANGED <<channel, results>>
         /\ loop.pc = "next" => ~ Answered(loop.batch[1])
  <1>1. loop.pc \in {"next", "act"} /\ UNCHANGED <<channel, results>>
    BY DEF Working, Limit, Record, RecordFails, Act, ActFails
  <1>2. loop.pc \in Busy
    BY <1>1 DEF Busy
  <1>3. PICK pc \in {"act", "save"}, outcome \in Outcomes : To(pc, outcome)
    <2>1. \/ To("save", "limited") \/ To("save", "error") \/ To("save", "done")
          \/ To("act", "done")
      BY DEF Working, Limit, Record, RecordFails, Act, ActFails
    <2> QED
      BY <2>1 DEF Outcomes
  <1>4. loop' \in LoopType /\ loop'.pc = pc /\ loop'.batch = loop.batch
    BY <1>2, <1>3, ToFields DEF Busy
  <1>5. loop.pc = "next" => ~ Answered(Current)
    BY DEF Working, Limit, Record, RecordFails, Act, ActFails, Answered
  <1> QED
    BY <1>1, <1>2, <1>3, <1>4, <1>5, BusyBatch
-----------------------------------------------------------------------------
(***************************************************************************)
(* The types.                                                              *)
(***************************************************************************)
LEMMA RegimeFields ==
  ASSUME regime \in Regimes
  PROVE  /\ regime.texts \subseteq Commands \cup {Chatter} /\ regime.messages \in Nat
         /\ regime.config \in Nat \ {0} /\ regime.requests \in Nat
         /\ regime.faults \in Nat
         /\ regime.restarts \in BOOLEAN
  BY RegimesAssumption

\* chat.db only grows.
LEMMA ChatGrows ==
  ASSUME Typed, [Next]_vars
  PROVE  /\ chat' \in Seq(regime.texts) /\ Len(chat') <= regime.messages
         /\ Len(chat) \in Nat /\ Len(chat') \in Nat /\ Len(chat) <= Len(chat')
         /\ \A row \in 1 .. Len(chat) : chat'[row] = chat[row]
  <1>1. chat \in Seq(regime.texts) /\ Len(chat) \in Nat /\ regime.messages \in Nat
    BY RegimeFields DEF Typed
  <1>2. CASE \E text \in regime.texts : Receive(text)
    <2>1. PICK text \in regime.texts : Receive(text)
      BY <1>2
    <2>2. Len(chat) < regime.messages /\ chat' = Append(chat, text)
      BY <2>1 DEF Receive
    <2>3. /\ chat' \in Seq(regime.texts) /\ Len(chat') = Len(chat) + 1
          /\ \A row \in 1 .. Len(chat) : chat'[row] = chat[row]
      BY <1>1, <2>2
    <2> QED
      BY <1>1, <2>2, <2>3
  <1>3. CASE chat' = chat
    BY <1>1, <1>3 DEF Typed
  <1>4. (\E text \in regime.texts : Receive(text)) \/ chat' = chat
    BY StepKinds, BetweenLoop, WorkingLoop
    DEF vars, Elsewhere, WriteConfig, RequestReload, QueueForce, Age, LateAck, QueueScan,
        FetchCommands, Skip, Save
  <1> QED
    BY <1>2, <1>3, <1>4

LEMMA LoopStep ==
  ASSUME Typed, [Next]_vars
  PROVE  loop' \in LoopType /\ (loop'.pc \in Busy <=> loop'.batch # <<>>)
  <1>1. CASE UNCHANGED vars \/ Elsewhere
    <2>1. loop' = loop
      BY <1>1 DEF vars, Elsewhere, Receive, WriteConfig, RequestReload, QueueForce, Age,
                  LateAck, QueueScan
    <2> QED
      BY <2>1 DEF Typed, LoopType
  <1>2. CASE Between
    BY <1>2, BetweenLoop
  <1>3. CASE FetchCommands
    BY <1>3, FetchFields
  <1>4. CASE Working
    BY <1>4, WorkingLoop DEF Busy
  <1>5. CASE Skip \/ Save
    BY <1>5, PassedFields DEF Skip, Save, Busy
  <1> QED
    BY StepKinds, <1>1, <1>2, <1>3, <1>4, <1>5

LEMMA FlagFacts ==
  ASSUME NEW text \in Switches
  PROVE  FlagOf(text) \in {"paused", "quiet"} /\ ValueOf(text) \in BOOLEAN
  BY DEF FlagOf, ValueOf

LEMMA AfterTyped ==
  ASSUME Typed, NEW text
  PROVE  /\ MemoryAfter(text) \in [{"paused", "quiet", "scan", "force"} -> BOOLEAN]
         /\ FlagsAfter(text) \in [{"paused", "quiet", "reload"} -> BOOLEAN]
  <1>1. CASE text \in Switches
    <2>1. FlagOf(text) \in {"paused", "quiet"} /\ ValueOf(text) \in BOOLEAN /\ text # "scan"
      BY <1>1, FlagFacts DEF Switches
    <2>2. /\ MemoryAfter(text) = [memory EXCEPT ![FlagOf(text)] = ValueOf(text)]
          /\ FlagsAfter(text) = [flags EXCEPT ![FlagOf(text)] = ValueOf(text)]
      BY <1>1, <2>1 DEF MemoryAfter, FlagsAfter
    <2> QED
      BY <2>1, <2>2 DEF Typed
  <1>2. CASE text \notin Switches
    BY <1>2 DEF MemoryAfter, FlagsAfter, Typed
  <1> QED
    BY <1>1, <1>2

\* Which steps write what.
LEMMA WhoActs ==
  ASSUME Typed, [Next]_vars
  PROVE  /\ \/ Act
            \/ ActFails /\ UNCHANGED flags
            \/ Restart /\ UNCHANGED flags
            \/ UNCHANGED memory /\ UNCHANGED <<flags.paused, flags.quiet>>
               /\ flags' \in [{"paused", "quiet", "reload"} -> BOOLEAN]
            \/ UNCHANGED <<flags, memory.paused, memory.quiet>>
               /\ memory' \in [{"paused", "quiet", "scan", "force"} -> BOOLEAN]
  <1>1. CASE UNCHANGED vars \/ FetchCommands \/ Skip \/ Save
    BY <1>1 DEF vars, FetchCommands, Skip, Save, Typed
  <1>2. CASE Elsewhere
    BY <1>2 DEF Elsewhere, Receive, WriteConfig, RequestReload, QueueForce, Age, LateAck,
                QueueScan, Typed
  <1>3. CASE Between
    BY <1>3 DEF Between, NoReload, Load, ClearReload, NoScan, StartScan, ScanPaused, FinishScan,
           ResetRequest, ResetForce, NoCommands, AbortScan, SaveRaises, Ack, AckRaises, Raise,
           Restart, Typed
  <1>4. CASE Working
    BY <1>4 DEF Working, Limit, Record, RecordFails, ActFails, Typed
  <1> QED
    BY StepKinds, <1>1, <1>2, <1>3, <1>4

\* What becomes of an acknowledgement: sent, sent late, or lost.
LEMMA AckStep ==
  ASSUME Typed, [Next]_vars
  PROVE  \/ UNCHANGED <<ack, lateAcks>>
         \/ \E row \in lateAcks : ack' = row /\ lateAcks' = lateAcks \ {row}
         \/ At("ack") /\ ack' = loop.last /\ lateAcks' = lateAcks
         \/ At("ack") /\ ack' = ack
            /\ (lateAcks' = lateAcks \cup {loop.last} \/ lateAcks' = lateAcks)
  BY StepKinds, WorkingLoop DEF vars, FetchCommands, Skip, Save, Elsewhere, Receive,
     WriteConfig, RequestReload, QueueForce, Age, LateAck, QueueScan,
     Between, NoReload, Load, ClearReload, NoScan, StartScan, ScanPaused, FinishScan,
     ResetRequest, ResetForce, NoCommands, AbortScan, SaveRaises, Ack, AckRaises, Raise, Restart

LEMMA AcksTyped ==
  ASSUME IInv, [Next]_vars
  PROVE  ack' \in 0 .. Len(chat') /\ lateAcks' \subseteq 1 .. Len(chat')
  <1>1. /\ Len(chat) \in Nat /\ Len(chat') \in Nat /\ Len(chat) <= Len(chat')
        /\ ack \in 0 .. Len(chat) /\ lateAcks \subseteq 1 .. Len(chat)
    BY ChatGrows DEF IInv, Typed
  <1>3. At("ack") => loop.last \in 1 .. Len(chat)
    BY DEF IInv, AnsweredInOrder
  <1>4. ack' \in 0 .. Len(chat) /\ lateAcks' \subseteq 1 .. Len(chat)
    <2>1. CASE UNCHANGED <<ack, lateAcks>>
      BY <1>1, <2>1
    <2>2. CASE \E row \in lateAcks : ack' = row /\ lateAcks' = lateAcks \ {row}
      BY <1>1, <2>2
    <2>3. CASE At("ack") /\ ack' = loop.last /\ lateAcks' = lateAcks
      BY <1>1, <1>3, <2>3
    <2>4. CASE At("ack") /\ ack' = ack
               /\ (lateAcks' = lateAcks \cup {loop.last} \/ lateAcks' = lateAcks)
      BY <1>1, <1>3, <2>4
    <2> QED
      BY AckStep, <2>1, <2>2, <2>3, <2>4 DEF IInv
  <1>5. \A row \in Int : row \in 0 .. Len(chat) => row \in 0 .. Len(chat')
    BY <1>1
  <1> QED
    BY <1>1, <1>4, <1>5

\* Only Save answers, and only the command at the head of the batch.
LEMMA ResultsStep ==
  ASSUME IInv, [Next]_vars
  PROVE  \/ UNCHANGED results
         \/ /\ Save /\ loop.pc = "save" /\ IsCommand(loop.batch[1])
            /\ ~ Answered(loop.batch[1]) /\ AnsweredBefore(loop.batch[1])
            /\ DOMAIN results' = DOMAIN results \cup {loop.batch[1]}
            /\ results'[loop.batch[1]] = loop.outcome /\ loop.outcome \in Outcomes
            /\ \A row \in DOMAIN results : results'[row] = results[row]
            /\ UNCHANGED <<chat, ack, lateAcks, flags, memory>>
  <1>1. UNCHANGED results \/ Save
    BY StepKinds, BetweenLoop, WorkingLoop DEF IInv, vars, Elsewhere, Receive, WriteConfig,
       RequestReload, QueueForce, Age, LateAck, QueueScan, FetchCommands, Skip
  <1>2. CASE Save
    <2>1. loop.pc = "save" /\ loop.pc \in Busy
      BY <1>2 DEF Save, Busy
    <2>2. /\ Current = loop.batch[1] /\ Len(loop.batch) \in Nat \ {0} /\ loop.batch # <<>>
      BY <2>1, BusyBatch DEF IInv
    <2>3. /\ IsCommand(loop.batch[1]) /\ ~ Answered(loop.batch[1])
          /\ AnsweredBefore(loop.batch[1])
      BY <2>1, <2>2 DEF IInv, BatchInOrder
    <2>4. results' = [row \in DOMAIN results \cup {loop.batch[1]} |->
                        IF row = loop.batch[1] THEN loop.outcome ELSE results[row]]
      BY <1>2, <2>2 DEF Save
    <2>5. /\ DOMAIN results' = DOMAIN results \cup {loop.batch[1]}
          /\ results'[loop.batch[1]] = loop.outcome
          /\ \A row \in DOMAIN results : results'[row] = results[row]
      BY <2>3, <2>4 DEF Answered
    <2>6. loop.outcome \in Outcomes /\ UNCHANGED <<chat, ack, lateAcks, flags, memory>>
      BY <1>2 DEF IInv, Typed, LoopType, Save
    <2> QED
      BY <1>2, <2>1, <2>3, <2>5, <2>6
  <1> QED
    BY <1>1, <1>2

LEMMA NextTyped ==
  ASSUME IInv, [Next]_vars
  PROVE  Typed'
  <1>0. Typed /\ regime' = regime /\ regime \in Regimes
    BY StepKinds DEF IInv, Typed
  <1>1. /\ chat' \in Seq(regime.texts) /\ Len(chat') <= regime.messages
        /\ Len(chat) \in Nat /\ Len(chat') \in Nat /\ Len(chat) <= Len(chat')
    BY <1>0, ChatGrows
  <1>2. \A row \in DOMAIN results' : row \in 1 .. Len(chat') /\ results'[row] \in Outcomes
    <2>1. \A row \in DOMAIN results : row \in 1 .. Len(chat) /\ results[row] \in Outcomes
      BY <1>0 DEF Typed
    <2> QED
      BY <1>1, <2>1, ResultsStep DEF IsCommand
  <1>3. hourly' \in 0 .. MaxPerHour
    BY <1>0, StepKinds, LimitsAssumption DEF IInv, Typed, vars, FetchCommands, Skip, Save,
       Elsewhere, Receive, WriteConfig, RequestReload, QueueForce, Age, LateAck, QueueScan,
       Between, NoReload, Load, ClearReload, NoScan, StartScan, ScanPaused, FinishScan,
       ResetRequest, ResetForce, NoCommands, AbortScan, SaveRaises, Ack, AckRaises, Raise,
       Restart, Working, Limit, Record, RecordFails, Act, ActFails
  <1>4. /\ flags' \in [{"paused", "quiet", "reload"} -> BOOLEAN]
        /\ memory' \in [{"paused", "quiet", "scan", "force"} -> BOOLEAN]
    <2>1. /\ flags \in [{"paused", "quiet", "reload"} -> BOOLEAN]
          /\ memory \in [{"paused", "quiet", "scan", "force"} -> BOOLEAN]
      BY <1>0 DEF Typed
    <2>2. CASE Act
      BY <1>0, <2>2, AfterTyped DEF Act
    <2>3. CASE ActFails
      BY <1>0, <2>1, <2>3, AfterTyped DEF ActFails
    <2>4. CASE Restart
      <3>1. memory' \in [paused : BOOLEAN, quiet : BOOLEAN, scan : BOOLEAN, force : BOOLEAN]
        BY <2>1, <2>4 DEF Restart
      <3> QED
        BY <2>1, <2>4, <3>1 DEF Restart
    <2>5. \/ Act \/ ActFails \/ Restart
          \/ memory' = memory /\ flags' \in [{"paused", "quiet", "reload"} -> BOOLEAN]
          \/ flags' = flags /\ memory' \in [{"paused", "quiet", "scan", "force"} -> BOOLEAN]
      BY <1>0, WhoActs
    <2> QED
      BY <2>1, <2>2, <2>3, <2>4, <2>5
  <1>5. config' \in 1 .. regime.config /\ settings' \in 1 .. config'
    <2>1. config \in 1 .. regime.config /\ settings \in 1 .. config /\ regime.config \in Nat
      BY <1>0, RegimeFields DEF Typed
    <2>2. \/ UNCHANGED files
          \/ config < regime.config /\ config' = config + 1 /\ settings' = settings
          \/ config' = config /\ settings' = config
      BY StepKinds DEF vars, FetchCommands, Skip, Save,
       Elsewhere, Receive, WriteConfig, RequestReload, QueueForce, Age, LateAck, QueueScan,
       Between, NoReload, Load, ClearReload, NoScan, StartScan, ScanPaused, FinishScan,
       ResetRequest, ResetForce, NoCommands, AbortScan, SaveRaises, Ack, AckRaises, Raise,
       Restart, Working, Limit, Record, RecordFails, Act, ActFails
    <2> QED
      BY <2>1, <2>2
  <1>6. trigger' \in {"idle", "forcing"} /\ requests' \in 0 .. regime.requests
    <2>1. requests \in 0 .. regime.requests /\ regime.requests \in Nat
      BY <1>0, RegimeFields DEF Typed
    <2>2. /\ trigger' \in {trigger, "idle", "forcing"}
          /\ \/ requests' = requests
             \/ requests < regime.requests /\ requests' = requests + 1
      BY StepKinds DEF vars, FetchCommands, Skip, Save,
       Elsewhere, Receive, WriteConfig, RequestReload, QueueForce, Age, LateAck, QueueScan,
       Between, NoReload, Load, ClearReload, NoScan, StartScan, ScanPaused, FinishScan,
       ResetRequest, ResetForce, NoCommands, AbortScan, SaveRaises, Ack, AckRaises, Raise,
       Restart, Working, Limit, Record, RecordFails, Act, ActFails
    <2> QED
      BY <1>0, <2>1, <2>2 DEF Typed
  <1>7. faults' \in 0 .. regime.faults
    <2>1. faults \in 0 .. regime.faults /\ regime.faults \in Nat
      BY <1>0, RegimeFields DEF Typed
    <2>2. faults' = faults \/ Fault
      BY StepKinds DEF vars, FetchCommands, Skip, Save,
       Elsewhere, Receive, WriteConfig, RequestReload, QueueForce, Age, LateAck, QueueScan,
       Between, NoReload, Load, ClearReload, NoScan, StartScan, ScanPaused, FinishScan,
       ResetRequest, ResetForce, NoCommands, AbortScan, SaveRaises, Ack, AckRaises, Raise,
       Restart, Working, Limit, Record, RecordFails, Act, ActFails
    <2> QED
      BY <2>1, <2>2 DEF Fault
  <1> QED
    BY <1>0, <1>1, <1>2, <1>3, <1>4, <1>5, <1>6, <1>7, AcksTyped, LoopStep
    DEF Typed, LoopType
-----------------------------------------------------------------------------
(***************************************************************************)
(* Commands are answered in order.                                         *)
(***************************************************************************)
LEMMA Lasting ==
  ASSUME IInv, [Next]_vars, NEW row \in Nat, row <= Len(chat)
  PROVE  /\ IsCommand(row)' <=> IsCommand(row)
         /\ Answered(row) => Answered(row)'
         /\ AnsweredUpTo(row) => AnsweredUpTo(row)'
         /\ AnsweredBefore(row) => AnsweredBefore(row)'
  <1>1. /\ Len(chat) \in Nat /\ Len(chat') \in Nat /\ Len(chat) <= Len(chat')
        /\ \A r \in 1 .. Len(chat) : chat'[r] = chat[r]
    BY ChatGrows DEF IInv
  <1>2. DOMAIN results \subseteq DOMAIN results'
    BY ResultsStep
  <1> QED
    BY <1>1, <1>2 DEF IsCommand, Answered, AnsweredUpTo, AnsweredBefore

\* What is passed is answered.
LEMMA PassedIsAnswered ==
  ASSUME IInv, [Next]_vars, Skip \/ Save
  PROVE  /\ loop.pc \in Busy /\ IsCommand(loop.batch[1]) /\ loop' = Passed(Current)
         /\ \E first \in 1 .. Len(chat) : first = loop.batch[1] /\ AnsweredUpTo(first)'
         /\ loop.batch[1] \in DOMAIN results'
  <1>1. loop.pc \in Busy /\ loop' = Passed(Current)
    BY DEF Skip, Save, Busy
  <1>2. Current = loop.batch[1] /\ Len(loop.batch) \in Nat \ {0}
    BY <1>1, BusyBatch DEF IInv
  <1>3. IsCommand(loop.batch[1])
    BY <1>2 DEF IInv, BatchInOrder
  <1>4. PICK first \in 1 .. Len(chat) : first = loop.batch[1]
    BY <1>3 DEF IsCommand
  <1>5. first \in Nat /\ first <= Len(chat) /\ Len(chat) \in Nat
    BY ChatGrows DEF IInv
  <1>6. CASE Skip
    <2>1. first \in DOMAIN results
      BY <1>2, <1>4, <1>6 DEF Skip
    <2>2. AnsweredUpTo(first)
      BY <2>1 DEF IInv, AnsweredInOrder
    <2>3. AnsweredUpTo(first)' /\ first \in DOMAIN results'
      BY <1>5, <2>1, <2>2, Lasting DEF Answered
    <2> QED
      BY <1>1, <1>3, <1>4, <2>3
  <1>7. CASE Save
    <2>1. /\ AnsweredBefore(first) /\ chat' = chat
          /\ first \in DOMAIN results' /\ DOMAIN results \subseteq DOMAIN results'
      <3>1. Answered(first)'
        BY <1>2, <1>4, <1>7 DEF Save, Answered
      <3>2. AnsweredBefore(first)
        BY <1>2, <1>4 DEF IInv, BatchInOrder
      <3> QED
        BY <1>7, <3>1, <3>2, ResultsStep DEF Save, Answered
    <2>2. AnsweredUpTo(first)'
      BY <1>5, <2>1 DEF AnsweredBefore, AnsweredUpTo, Answered, IsCommand
    <2> QED
      BY <1>1, <1>3, <1>4, <2>1, <2>2
  <1> QED
    BY <1>6, <1>7

LEMMA NextInOrder ==
  ASSUME IInv, [Next]_vars
  PROVE  AnsweredInOrder'
  <1>0. /\ Len(chat) \in Nat /\ Len(chat') \in Nat /\ Len(chat) <= Len(chat')
        /\ ack \in 0 .. Len(chat) /\ lateAcks \subseteq 1 .. Len(chat)
    BY ChatGrows DEF IInv, Typed
  <1>1. ASSUME NEW row \in DOMAIN results'
        PROVE  IsCommand(row)' /\ AnsweredUpTo(row)'
    <2>1. CASE row \in DOMAIN results
      <3>1. IsCommand(row) /\ AnsweredUpTo(row)
        BY <2>1 DEF IInv, AnsweredInOrder
      <3>2. row \in Nat /\ row <= Len(chat)
        BY <1>0, <3>1 DEF IsCommand
      <3> QED
        BY <3>1, <3>2, Lasting
    <2>2. CASE row \notin DOMAIN results
      <3>1. Save /\ row = loop.batch[1]
        BY <1>1, <2>2, ResultsStep
      <3>2. PICK first \in 1 .. Len(chat) : first = loop.batch[1] /\ AnsweredUpTo(first)'
        BY <3>1, PassedIsAnswered
      <3>3. first = row /\ IsCommand(first)
        BY <3>1, <3>2, PassedIsAnswered
      <3>4. IsCommand(first)'
        BY <1>0, <3>3, Lasting
      <3> QED
        BY <3>2, <3>3, <3>4
    <2> QED
      BY <2>1, <2>2
  <1>2. \A row \in lateAcks \cup {ack} : row \in Nat /\ row <= Len(chat) /\ AnsweredUpTo(row)'
    BY <1>0, Lasting DEF IInv, AnsweredInOrder
  <1>3. At("ack") => \E row \in 1 .. Len(chat) : row = loop.last /\ AnsweredUpTo(row)'
    <2>1. SUFFICES ASSUME At("ack")
                   PROVE  \E row \in 1 .. Len(chat) : row = loop.last /\ AnsweredUpTo(row)'
      OBVIOUS
    <2>2. PICK row \in 1 .. Len(chat) : row = loop.last /\ AnsweredUpTo(row)
      BY <2>1 DEF IInv, AnsweredInOrder
    <2>3. AnsweredUpTo(row)'
      BY <1>0, <2>2, Lasting
    <2> QED
      BY <2>2, <2>3
  <1>4. \A row \in lateAcks' \cup {ack'} : AnsweredUpTo(row)'
    <2>1. \A row \in lateAcks' \cup {ack'} :
            row \in lateAcks \cup {ack} \/ (At("ack") /\ row = loop.last)
      BY AckStep DEF IInv
    <2> QED
      BY <1>2, <1>3, <2>1 DEF AnsweredUpTo
  <1>5. ASSUME loop'.pc = "ack"
        PROVE  \E row \in 1 .. Len(chat) : row = loop'.last /\ AnsweredUpTo(row)'
    <2>1. CASE Skip \/ Save
      <3>1. loop'.last = loop.batch[1]
        BY <2>1, PassedIsAnswered, PassedFields DEF IInv
      <3> QED
        BY <2>1, <3>1, PassedIsAnswered
    <2>2. CASE UNCHANGED vars \/ Elsewhere
      <3>1. loop' = loop
        BY <2>2 DEF vars, Elsewhere, Receive, WriteConfig, RequestReload, QueueForce, Age,
                    LateAck, QueueScan
      <3> QED
        BY <1>3, <1>5, <3>1
    <2>3. ~ (Between \/ FetchCommands \/ Working)
      BY <1>5, BetweenLoop, FetchFields, WorkingLoop DEF IInv
    <2> QED
      BY <2>1, <2>2, <2>3, StepKinds
  <1> QED
    BY <1>0, <1>1, <1>4, <1>5 DEF AnsweredInOrder

LEMMA BatchKept ==
  ASSUME IInv, [Next]_vars, loop'.batch = loop.batch, UNCHANGED results,
         loop'.pc \in {"act", "save"} =>
           loop.pc \in {"act", "save"} \/ ~ Answered(loop.batch[1])
  PROVE  BatchInOrder'
  <1>1. /\ Len(chat) \in Nat /\ Len(chat') \in Nat /\ Len(chat) <= Len(chat')
        /\ \A row \in 1 .. Len(chat) : chat'[row] = chat[row]
    BY ChatGrows DEF IInv
  <1> DEFINE batch == loop.batch
  <1>2. /\ \A i \in 1 .. Len(batch) : IsCommand(batch[i])
        /\ \A i, j \in 1 .. Len(batch) : i < j => batch[i] < batch[j]
        /\ batch # <<>> => AnsweredBefore(batch[1])
        /\ \A i, j \in 1 .. Len(batch) : j = i + 1 =>
             \A r \in 1 .. Len(chat) : batch[i] < r /\ r < batch[j] => ~ IsCommand(r)
        /\ loop'.pc \in {"act", "save"} => batch[1] \notin DOMAIN results
    BY DEF IInv, BatchInOrder, Answered
  <1>3. batch # <<>> => 1 \in 1 .. Len(batch)
    <2>1. batch \in Seq(Nat)
      BY DEF IInv, Typed
    <2>2. \A s \in Seq(Nat) : s # <<>> => 1 \in 1 .. Len(s)
      OBVIOUS
    <2> QED
      BY <2>1, <2>2
  <1> HIDE DEF batch
  <1>4. \A i \in 1 .. Len(batch) : batch[i] \in 1 .. Len(chat') /\ chat'[batch[i]] \in Commands
    BY <1>1, <1>2 DEF IsCommand
  <1>5. \A r \in 1 .. Len(chat') : batch # <<>> /\ r < batch[1] /\ chat'[r] \in Commands
           => r \in DOMAIN results
    BY <1>1, <1>2, <1>3 DEF IsCommand, AnsweredBefore, Answered
  <1>6. ASSUME NEW i \in 1 .. Len(batch), NEW j \in 1 .. Len(batch), j = i + 1,
               NEW r \in 1 .. Len(chat'), batch[i] < r, r < batch[j]
        PROVE  chat'[r] \notin Commands
    <2>1. batch[j] \in 1 .. Len(chat)
      BY <1>2 DEF IsCommand
    <2>2. r \in 1 .. Len(chat)
      BY <1>1, <1>6, <2>1
    <2> QED
      BY <1>1, <1>2, <1>6, <2>2 DEF IsCommand
  <1> QED
    BY <1>2, <1>4, <1>5, <1>6 DEF BatchInOrder, IsCommand, AnsweredBefore, Answered, batch

LEMMA FetchInOrder ==
  ASSUME IInv, FetchCommands
  PROVE  BatchInOrder'
  <1> DEFINE batch == loop'.batch
  <1>1. /\ UNCHANGED <<chat, results>> /\ Len(chat) \in Nat /\ ack \in 0 .. Len(chat)
        /\ AnsweredUpTo(ack)
    BY DEF IInv, Typed, AnsweredInOrder, FetchCommands
  <1>2. /\ Len(batch) \in Nat /\ (batch # <<>> => Len(batch) # 0)
        /\ loop'.pc \in {"top", "next"}
        /\ \A k \in 1 .. Len(batch) : batch[k] \in Pending
        /\ \A i, j \in 1 .. Len(batch) : i < j => batch[i] < batch[j]
        /\ \A row \in Pending : \E k \in 1 .. Len(batch) : batch[k] = row
    <2>1. loop' \in LoopType
      BY FetchFields DEF IInv
    <2>2. batch \in Seq(Nat)
      BY <2>1 DEF LoopType
    <2>3. \A s \in Seq(Nat) : s = <<>> <=> Len(s) = 0
      OBVIOUS
    <2> QED
      BY <2>2, <2>3, FetchFields DEF IInv
  <1> HIDE DEF batch
  <1>3. \A row \in Pending : row \in Nat /\ ack < row /\ IsCommand(row)
    BY <1>1, LimitsAssumption DEF Pending, Window, IsCommand
  <1>4. \A row, r \in Nat : row \in Pending /\ ack < r /\ r < row /\ IsCommand(r) => r \in Pending
    BY <1>1, LimitsAssumption DEF Pending, Window, IsCommand
  <1>5. \A i \in 1 .. Len(batch) : IsCommand(batch[i]) /\ batch[i] \in Nat /\ ack < batch[i]
    BY <1>2, <1>3
  <1>6. ASSUME batch # <<>>, NEW r \in 1 .. Len(chat), r < batch[1], IsCommand(r)
        PROVE  Answered(r)
    <2>1. 1 \in 1 .. Len(batch) /\ batch[1] \in Pending /\ batch[1] \in Nat
      BY <1>2, <1>5, <1>6
    <2>2. CASE r <= ack
      BY <1>1, <1>6, <2>2 DEF AnsweredUpTo
    <2>3. CASE ack < r
      <3>1. r \in Pending
        BY <1>4, <1>6, <2>1, <2>3
      <3>2. PICK k \in 1 .. Len(batch) : batch[k] = r
        BY <1>2, <3>1
      <3>3. k = 1 \/ batch[1] < batch[k]
        BY <1>2, <2>1
      <3> QED
        BY <1>6, <2>1, <3>2, <3>3
    <2> QED
      BY <1>1, <2>2, <2>3
  <1>7. ASSUME NEW i \in 1 .. Len(batch), NEW j \in 1 .. Len(batch), j = i + 1,
               NEW r \in 1 .. Len(chat), batch[i] < r, r < batch[j]
        PROVE  ~ IsCommand(r)
    <2>1. SUFFICES ASSUME IsCommand(r)
                   PROVE  FALSE
      OBVIOUS
    <2>2. batch[i] \in Nat /\ batch[j] \in Nat /\ ack < batch[i] /\ batch[j] \in Pending
      BY <1>2, <1>5
    <2>3. r \in Pending
      BY <1>1, <1>4, <1>7, <2>1, <2>2
    <2>4. PICK k \in 1 .. Len(batch) : batch[k] = r
      BY <1>2, <2>3
    <2>5. k = i \/ k = j \/ k < i \/ j < k
      BY <1>2, <1>7
    <2> QED
      BY <1>2, <1>7, <2>2, <2>4, <2>5
  <1>8. \A i \in 1 .. Len(batch) : batch[i] \in 1 .. Len(chat') /\ chat'[batch[i]] \in Commands
    BY <1>1, <1>5 DEF IsCommand
  <1>9. \A r \in 1 .. Len(chat') : batch # <<>> /\ r < batch[1] /\ chat'[r] \in Commands
           => r \in DOMAIN results'
    BY <1>1, <1>6 DEF Answered, IsCommand
  <1>10. \A i, j \in 1 .. Len(batch) : j = i + 1 =>
           \A r \in 1 .. Len(chat') : batch[i] < r /\ r < batch[j] => chat'[r] \notin Commands
    BY <1>1, <1>7 DEF IsCommand
  <1> QED
    BY <1>2, <1>8, <1>9, <1>10 DEF BatchInOrder, IsCommand, AnsweredBefore, Answered, batch

LEMMA RestInOrder ==
  ASSUME IInv, [Next]_vars, Skip \/ Save
  PROVE  BatchInOrder'
  <1> DEFINE batch == loop.batch
             rest == loop'.batch
  <1>1. /\ UNCHANGED chat /\ Len(chat) \in Nat /\ IsCommand(batch[1])
        /\ batch[1] \in DOMAIN results'
        /\ \E first \in 1 .. Len(chat) : first = batch[1] /\ AnsweredUpTo(first)'
    BY PassedIsAnswered, ChatGrows DEF IInv, Skip, Save
  <1>2. /\ rest \in Seq(Nat) /\ loop'.pc \in {"next", "ack"}
        /\ Len(rest) = Len(batch) - 1 /\ Len(batch) \in Nat
        /\ \A k \in 1 .. Len(rest) : rest[k] = batch[k + 1]
    BY PassedIsAnswered, PassedFields DEF IInv, LoopType
  <1>3. rest # <<>> => Len(rest) # 0 /\ Len(rest) \in Nat
    <2>1. \A s \in Seq(Nat) : Len(s) \in Nat /\ (s = <<>> <=> Len(s) = 0)
      OBVIOUS
    <2> QED
      BY <1>2, <2>1
  <1>4. /\ \A i \in 1 .. Len(batch) : IsCommand(batch[i])
        /\ \A i, j \in 1 .. Len(batch) : i < j => batch[i] < batch[j]
        /\ \A i, j \in 1 .. Len(batch) : j = i + 1 =>
             \A r \in 1 .. Len(chat) : batch[i] < r /\ r < batch[j] => ~ IsCommand(r)
    BY DEF IInv, BatchInOrder
  <1> HIDE DEF batch, rest
  <1>5. \A i \in 1 .. Len(rest) : IsCommand(rest[i])
    BY <1>2, <1>4
  <1>6. \A i, j \in 1 .. Len(rest) : i < j => rest[i] < rest[j]
    BY <1>2, <1>4
  <1>7. ASSUME NEW i \in 1 .. Len(rest), NEW j \in 1 .. Len(rest), j = i + 1,
               NEW r \in 1 .. Len(chat), rest[i] < r, r < rest[j]
        PROVE  ~ IsCommand(r)
    <2>1. /\ i + 1 \in 1 .. Len(batch) /\ j + 1 \in 1 .. Len(batch)
          /\ rest[i] = batch[i + 1] /\ rest[j] = batch[j + 1]
      BY <1>2, <1>7
    <2> QED
      BY <1>4, <1>7, <2>1
  <1>8. ASSUME rest # <<>>, NEW r \in 1 .. Len(chat), r < rest[1], IsCommand(r)
        PROVE  r \in DOMAIN results'
    <2>1. 1 \in 1 .. Len(batch) /\ 2 \in 1 .. Len(batch) /\ rest[1] = batch[2]
      BY <1>2, <1>3, <1>8
    <2>2. PICK first \in 1 .. Len(chat) : first = batch[1] /\ AnsweredUpTo(first)'
      BY <1>1
    <2>3. r <= first
      BY <1>1, <1>4, <1>8, <2>1, <2>2
    <2> QED
      BY <1>1, <1>8, <2>2, <2>3 DEF AnsweredUpTo, Answered, IsCommand
  <1>9. \A i \in 1 .. Len(rest) : rest[i] \in 1 .. Len(chat') /\ chat'[rest[i]] \in Commands
    BY <1>1, <1>5 DEF IsCommand
  <1>10. \A r \in 1 .. Len(chat') : rest # <<>> /\ r < rest[1] /\ chat'[r] \in Commands
            => r \in DOMAIN results'
    BY <1>1, <1>8 DEF IsCommand
  <1>11. \A i, j \in 1 .. Len(rest) : j = i + 1 =>
           \A r \in 1 .. Len(chat') : rest[i] < r /\ r < rest[j] => chat'[r] \notin Commands
    BY <1>1, <1>7 DEF IsCommand
  <1> QED
    BY <1>2, <1>6, <1>9, <1>10, <1>11
    DEF BatchInOrder, IsCommand, AnsweredBefore, Answered, rest

LEMMA NextBatch ==
  ASSUME IInv, [Next]_vars
  PROVE  BatchInOrder'
  <1>1. CASE UNCHANGED vars \/ Elsewhere
    <2>1. loop' = loop /\ UNCHANGED results
      BY <1>1 DEF vars, Elsewhere, Receive, WriteConfig, RequestReload, QueueForce, Age,
                  LateAck, QueueScan
    <2> QED
      BY <2>1, BatchKept
  <1>2. CASE Between
    <2>1. /\ loop'.batch = <<>> /\ Len(loop'.batch) = 0
          /\ loop'.pc \notin {"act", "save"}
      BY <1>2, BetweenLoop DEF Busy
    <2> QED
      BY <2>1 DEF BatchInOrder
  <1>3. CASE FetchCommands
    BY <1>3, FetchInOrder
  <1>4. CASE Working
    <2>1. /\ loop'.batch = loop.batch /\ UNCHANGED results
          /\ loop.pc \in {"act", "save"} \/ ~ Answered(loop.batch[1])
      BY <1>4, WorkingLoop DEF IInv
    <2> QED
      BY <2>1, BatchKept
  <1>5. CASE Skip \/ Save
    BY <1>5, RestInOrder
  <1> QED
    BY StepKinds, <1>1, <1>2, <1>3, <1>4, <1>5
-----------------------------------------------------------------------------
(***************************************************************************)
(* The switches.                                                           *)
(***************************************************************************)
\* What obeying a command does to one switch.
LEMMA ObeyedSwitch ==
  ASSUME IInv, NEW flag \in {"paused", "quiet"}, NEW row
  PROVE  /\ Turns(row, flag) => /\ MemoryAfter(chat[row])[flag] = ValueOf(chat[row])
                                /\ FlagsAfter(chat[row])[flag] = ValueOf(chat[row])
         /\ ~ Turns(row, flag) => /\ MemoryAfter(chat[row])[flag] = memory[flag]
                                  /\ FlagsAfter(chat[row])[flag] = flags[flag]
  <1> DEFINE text == chat[row]
  <1>1. /\ flags \in [{"paused", "quiet", "reload"} -> BOOLEAN]
        /\ memory \in [{"paused", "quiet", "scan", "force"} -> BOOLEAN]
    BY DEF IInv, Typed
  <1> HIDE DEF text
  <1>2. CASE text \in Switches
    <2>1. text # "scan" /\ FlagOf(text) \in {"paused", "quiet"}
      BY <1>2, FlagFacts DEF Switches
    <2>2. /\ MemoryAfter(text) = [memory EXCEPT ![FlagOf(text)] = ValueOf(text)]
          /\ FlagsAfter(text) = [flags EXCEPT ![FlagOf(text)] = ValueOf(text)]
      BY <1>2, <2>1 DEF MemoryAfter, FlagsAfter
    <2> QED
      BY <1>1, <1>2, <2>1, <2>2 DEF Turns, text
  <1>3. CASE text \notin Switches
    <2>1. MemoryAfter(text)[flag] = memory[flag] /\ FlagsAfter(text)[flag] = flags[flag]
      BY <1>1, <1>3 DEF MemoryAfter, FlagsAfter
    <2> QED
      BY <1>3, <2>1 DEF Turns, text
  <1> QED
    BY <1>2, <1>3

\* Only an obeyed command or a restart turns a switch.
LEMMA SwitchMoves ==
  ASSUME IInv, [Next]_vars, NEW flag \in {"paused", "quiet"}
  PROVE  \/ Act \/ ActFails
         \/ Restart /\ flags'[flag] = flags[flag] /\ memory'[flag] = flags[flag]
         \/ flags'[flag] = flags[flag] /\ memory'[flag] = memory[flag]
  <1>1. CASE Restart
    BY <1>1 DEF Restart
  <1>2. CASE UNCHANGED <<flags.paused, flags.quiet, memory.paused, memory.quiet>>
    BY <1>2
  <1> QED
    BY <1>1, <1>2, WhoActs DEF IInv

\* The command at hand comes after every answered one.
LEMMA CurrentIsNew ==
  ASSUME IInv, loop.pc \in {"act", "save"}
  PROVE  \E c \in 1 .. Len(chat) : /\ c = loop.batch[1] /\ c = Current /\ c \notin DOMAIN results
                                   /\ \A row \in DOMAIN results : row < c
  <1>1. /\ Len(loop.batch) \in Nat \ {0} /\ Current = loop.batch[1]
    BY BusyBatch DEF IInv, Busy
  <1>2. IsCommand(loop.batch[1]) /\ ~ Answered(loop.batch[1])
    BY <1>1 DEF IInv, BatchInOrder
  <1>3. PICK c \in 1 .. Len(chat) : c = loop.batch[1]
    BY <1>2 DEF IsCommand
  <1>4. ASSUME NEW row \in DOMAIN results
        PROVE  row < c
    <2>1. row \in 1 .. Len(chat) /\ AnsweredUpTo(row)
      BY <1>4 DEF IInv, AnsweredInOrder, IsCommand
    <2>2. c <= row => Answered(c)
      BY <1>2, <1>3, <2>1 DEF AnsweredUpTo
    <2> QED
      BY <1>2, <1>3, <2>1, <2>2 DEF IInv, Typed
  <1> QED
    BY <1>1, <1>2, <1>3, <1>4 DEF Answered

\* The rows of chat.db turn what they turned.
LEMMA TurnsLast ==
  ASSUME IInv, [Next]_vars, NEW flag \in {"paused", "quiet"}
  PROVE  /\ \A row \in 1 .. Len(chat) : /\ Turns(row, flag)' <=> Turns(row, flag)
                                        /\ chat'[row] = chat[row]
         /\ \A row, value : SaysFrom(row, flag, value) =>
              \E r \in 1 .. Len(chat') : row <= r /\ chat'[r] \in Switches
                                         /\ FlagOf(chat'[r]) = flag /\ value = ValueOf(chat'[r])
  <1>1. /\ Len(chat) \in Nat /\ Len(chat') \in Nat /\ Len(chat) <= Len(chat')
        /\ \A row \in 1 .. Len(chat) : chat'[row] = chat[row]
    BY ChatGrows DEF IInv
  <1> QED
    BY <1>1 DEF Turns, SaysFrom

\* What Told says of the next state.
ToldNext(row, flag) ==
  /\ \E r \in 1 .. Len(chat') : row <= r /\ chat'[r] \in Switches
                                /\ FlagOf(chat'[r]) = flag /\ flags'[flag] = ValueOf(chat'[r])
  /\ \E r \in 1 .. Len(chat') : row <= r /\ chat'[r] \in Switches
                                /\ FlagOf(chat'[r]) = flag /\ memory'[flag] = ValueOf(chat'[r])

LEMMA StillTold ==
  ASSUME IInv, [Next]_vars, NEW flag \in {"paused", "quiet"}, NEW row \in DOMAIN results,
         Told(row, flag)
  PROVE  ToldNext(row, flag)
  <1>1. SaysFrom(row, flag, flags[flag]) /\ SaysFrom(row, flag, memory[flag])
    BY DEF Told
  <1>2. CASE flags'[flag] = flags[flag] /\ memory'[flag] = memory[flag]
    BY <1>1, <1>2, TurnsLast DEF ToldNext
  <1>3. CASE flags'[flag] = flags[flag] /\ memory'[flag] = flags[flag]
    BY <1>1, <1>3, TurnsLast DEF ToldNext
  <1>4. CASE Act \/ ActFails
    <2>1. PICK c \in 1 .. Len(chat) : c = Current /\ row < c
      BY <1>4, CurrentIsNew DEF Act, ActFails
    <2>2. chat' = chat /\ memory' = MemoryAfter(chat[c])
          /\ (flags' = FlagsAfter(chat[c]) \/ flags' = flags)
      BY <1>4, <2>1 DEF Act, ActFails
    <2>3. CASE ~ Turns(c, flag)
      <3>1. memory'[flag] = memory[flag] /\ flags'[flag] = flags[flag]
        BY <2>2, <2>3, ObeyedSwitch
      <3> QED
        BY <1>2, <3>1
    <2>4. CASE Turns(c, flag)
      <3>1. /\ memory'[flag] = ValueOf(chat[c])
            /\ flags'[flag] = ValueOf(chat[c]) \/ flags'[flag] = flags[flag]
        BY <2>2, <2>4, ObeyedSwitch
      <3>2. row <= c /\ chat[c] \in Switches /\ FlagOf(chat[c]) = flag
        BY <2>1, <2>4 DEF Turns, IInv, Typed
      <3> QED
        BY <1>1, <2>1, <2>2, <3>1, <3>2, TurnsLast DEF ToldNext
    <2> QED
      BY <2>3, <2>4
  <1> QED
    BY <1>2, <1>3, <1>4, SwitchMoves

\* The latest answered command of a switch, when it is recorded as done.
Latest(row, flag) ==
  /\ Turns(row, flag) /\ results[row] = "done"
  /\ \A r \in DOMAIN results : Turns(r, flag) /\ results[r] # "limited" => r <= row

LEMMA LatestTold ==
  ASSUME IInv, [Next]_vars, NEW flag \in {"paused", "quiet"}, NEW row \in DOMAIN results',
         Latest(row, flag)'
  PROVE  ToldNext(row, flag)
  <1>1. \A r \in DOMAIN results : r \in 1 .. Len(chat)
    BY DEF IInv, Typed
  <1>2. CASE UNCHANGED results
    <2>1. \A r \in DOMAIN results : Turns(r, flag)' <=> Turns(r, flag)
      BY <1>1, TurnsLast
    <2>2. Latest(row, flag)
      BY <1>2, <2>1 DEF Latest
    <2>3. Told(row, flag)
      BY <1>2, <2>2 DEF IInv, SwitchesTold, Latest
    <2> QED
      BY <1>2, <2>3, StillTold
  <1>3. CASE ~ UNCHANGED results
    <2>1. /\ Save /\ loop.pc = "save" /\ UNCHANGED <<chat, flags, memory>>
          /\ DOMAIN results' = DOMAIN results \cup {loop.batch[1]}
          /\ results'[loop.batch[1]] = loop.outcome
          /\ \A r \in DOMAIN results : results'[r] = results[r]
      BY <1>3, ResultsStep
    <2>2. PICK c \in 1 .. Len(chat) : /\ c = loop.batch[1] /\ c \notin DOMAIN results
                                      /\ \A r \in DOMAIN results : r < c
      BY <2>1, CurrentIsNew
    <2>3. CASE row = c
      <3>1. loop.outcome = "done" /\ Turns(c, flag)
        BY <2>1, <2>2, <2>3 DEF Latest, Turns
      <3>2. flags[flag] = ValueOf(chat[c]) /\ memory[flag] = ValueOf(chat[c])
        BY <2>1, <2>2, <3>1 DEF IInv, SwitchesTold
      <3>3. c <= c
        OBVIOUS
      <3> QED
        BY <2>1, <2>3, <3>1, <3>2, <3>3 DEF ToldNext, Turns
    <2>4. CASE row # c
      <3>1. row \in DOMAIN results
        BY <2>1, <2>2, <2>4
      <3>2. Latest(row, flag)
        BY <2>1, <3>1 DEF Latest, Turns
      <3>3. Told(row, flag)
        BY <3>1, <3>2 DEF IInv, SwitchesTold, Latest
      <3> QED
        BY <3>1, <3>3, StillTold
    <2> QED
      BY <2>3, <2>4
  <1> QED
    BY <1>2, <1>3

LEMMA DoneIsObeyed ==
  ASSUME IInv, [Next]_vars, NEW flag \in {"paused", "quiet"},
         loop'.pc = "save", loop'.outcome = "done", Turns(loop.batch[1], flag)'
  PROVE  /\ flags'[flag] = ValueOf(chat'[loop'.batch[1]])
         /\ memory'[flag] = ValueOf(chat'[loop'.batch[1]])
  <1>1. CASE UNCHANGED vars \/ Elsewhere
    <2>1. loop' = loop /\ loop.pc = "save" /\ loop.outcome = "done"
      BY <1>1 DEF vars, Elsewhere, Receive, WriteConfig, RequestReload, QueueForce, Age,
                  LateAck, QueueScan
    <2>2. flags'[flag] = flags[flag] /\ memory'[flag] = memory[flag]
      BY <1>1 DEF IInv, Typed, vars, Elsewhere, Receive, WriteConfig, RequestReload,
                  QueueForce, Age, LateAck, QueueScan
    <2>3. PICK c \in 1 .. Len(chat) : c = loop.batch[1]
      BY <2>1, CurrentIsNew
    <2>4. chat'[c] = chat[c] /\ Turns(c, flag)
      BY <2>1, <2>3, TurnsLast DEF Turns
    <2> QED
      <3>1. Turns(loop.batch[1], flag)
        BY <2>3, <2>4
      <3>2. flags[flag] = ValueOf(chat[c]) /\ memory[flag] = ValueOf(chat[c])
        BY <2>1, <2>3, <3>1 DEF IInv, SwitchesTold
      <3> QED
        BY <2>1, <2>2, <2>3, <2>4, <3>2
  <1>2. CASE Working
    <2>1. \/ Act
          \/ To("save", "limited") \/ To("save", "error") \/ To("act", "done")
      BY <1>2 DEF Working, Limit, Record, RecordFails, ActFails
    <2>2. loop.pc \in Busy
      BY <1>2, WorkingLoop DEF IInv, Busy
    <2>3. Act
      BY <2>1, <2>2, ToFields DEF IInv, Busy, Outcomes
    <2>4. PICK c \in 1 .. Len(chat) : c = loop.batch[1] /\ c = Current
      BY <2>3, CurrentIsNew DEF Act
    <2>5. /\ chat' = chat /\ loop'.batch = loop.batch
          /\ memory' = MemoryAfter(chat[c]) /\ flags' = FlagsAfter(chat[c])
      BY <1>2, <2>3, <2>4, WorkingLoop DEF IInv, Act
    <2>6. Turns(c, flag)
      BY <2>4, <2>5 DEF Turns
    <2>7. MemoryAfter(chat[c])[flag] = ValueOf(chat[c]) /\ FlagsAfter(chat[c])[flag] = ValueOf(chat[c])
      BY <2>6, ObeyedSwitch
    <2> QED
      BY <2>4, <2>5, <2>7
  <1>3. ~ (Between \/ FetchCommands \/ Skip \/ Save)
    BY BetweenLoop, FetchFields, PassedIsAnswered, PassedFields DEF IInv, Busy
  <1> QED
    BY StepKinds, <1>1, <1>2, <1>3

LEMMA NextTold ==
  ASSUME IInv, [Next]_vars
  PROVE  SwitchesTold'
  <1>1. SUFFICES ASSUME NEW flag \in {"paused", "quiet"}
                 PROVE  /\ \A row \in DOMAIN results' : Latest(row, flag)' => Told(row, flag)'
                        /\ /\ loop'.pc = "save" /\ loop'.outcome = "done"
                           /\ Turns(loop.batch[1], flag)'
                           => /\ flags'[flag] = ValueOf(chat'[loop'.batch[1]])
                              /\ memory'[flag] = ValueOf(chat'[loop'.batch[1]])
    BY DEF SwitchesTold, Latest
  <1>2. \A row \in DOMAIN results' : Latest(row, flag)' => Told(row, flag)'
    BY LatestTold DEF ToldNext, Told, SaysFrom, Turns
  <1> QED
    BY <1>2, DoneIsObeyed

LEMMA InitInductive == Init => IInv
  <1> SUFFICES ASSUME Init
               PROVE  IInv
    OBVIOUS
  <1>1. regime \in Regimes /\ loop = LoopAt("top") /\ chat = <<>> /\ results = <<>>
    BY DEF Init
  <1>2. /\ loop \in LoopType /\ loop.pc = "top" /\ loop.batch = <<>> /\ Len(loop.batch) = 0
    BY <1>1, LoopAtFields DEF PCs
  <1>3. DOMAIN results = {} /\ Len(chat) = 0 /\ chat \in Seq(regime.texts)
    BY <1>1
  <1>4. Typed
    <2>1. config \in 1 .. regime.config /\ settings \in 1 .. config
      BY RegimeFields DEF Init
    <2>2. /\ flags \in [paused : BOOLEAN, quiet : BOOLEAN, reload : BOOLEAN]
          /\ memory \in [paused : BOOLEAN, quiet : BOOLEAN, scan : BOOLEAN, force : BOOLEAN]
      BY DEF Init
    <2>3. /\ flags \in [{"paused", "quiet", "reload"} -> BOOLEAN]
          /\ memory \in [{"paused", "quiet", "scan", "force"} -> BOOLEAN]
      BY <2>2
    <2> QED
      BY <1>1, <1>2, <1>3, <2>1, <2>3, RegimeFields, LimitsAssumption
      DEF Init, Typed, LoopType, Busy
  <1>5. AnsweredInOrder /\ BatchInOrder /\ SwitchesTold
    <2>1. /\ 1 .. Len(chat) = {} /\ lateAcks = {} /\ 1 .. Len(loop.batch) = {}
          /\ loop.pc \notin {"act", "save", "ack"}
      BY <1>2, <1>3 DEF Init
    <2>2. AnsweredInOrder /\ BatchInOrder
      BY <1>2, <1>3, <2>1 DEF AnsweredInOrder, AnsweredUpTo, BatchInOrder
    <2> QED
      BY <1>3, <2>1, <2>2 DEF SwitchesTold
  <1> QED
    BY <1>4, <1>5 DEF IInv

LEMMA NextInductive == IInv /\ [Next]_vars => IInv'
  BY NextTyped, NextInOrder, NextBatch, NextTold DEF IInv

LEMMA Inductive == Spec => []IInv
  BY InitInductive, NextInductive, PTL DEF Spec

(***************************************************************************)
(* For every window, limit and circumstance: an acknowledged command was   *)
(* answered, and the switches, in memory and in agent_flags, stand as the  *)
(* last answered command says or one after it - whatever crashes, fails,   *)
(* or is acknowledged late, in whatever order.                             *)
(***************************************************************************)
THEOREM RepliesAlwaysStand == Spec => []RepliesStand
  <1>1. IInv => TypeOK
    <2>1. SUFFICES ASSUME IInv
                   PROVE  TypeOK
      OBVIOUS
    <2>2. \A row \in 1 .. Len(chat) : chat[row] \in regime.texts
      BY <2>1 DEF IInv, Typed
    <2>3. \A row \in DOMAIN results : chat[row] \in Commands /\ results[row] \in Outcomes
      BY <2>1 DEF IInv, Typed, AnsweredInOrder, IsCommand
    <2>4. \A i, j \in DOMAIN loop.batch : i < j => loop.batch[i] < loop.batch[j]
      <3>1. loop.batch \in Seq(Nat)
        BY <2>1 DEF IInv, Typed
      <3>2. DOMAIN loop.batch = 1 .. Len(loop.batch)
        BY <3>1
      <3> QED
        BY <2>1, <3>2 DEF IInv, BatchInOrder
    <2> QED
      BY <2>1, <2>2, <2>3, <2>4 DEF IInv, Typed, TypeOK, PCs, Busy
  <1>2. IInv => AckedAreAnswered
    BY DEF IInv, Typed, AnsweredInOrder, AnsweredUpTo, IsCommand, Answered, AckedAreAnswered
  <1>3. IInv => LastWordWins
    <2>1. SUFFICES ASSUME IInv
                   PROVE  LastWordWins
      OBVIOUS
    <2>2. \A row \in DOMAIN results : row \in 1 .. Len(chat)
      BY <2>1 DEF IInv, Typed
    <2>3. ASSUME NEW flag \in {"paused", "quiet"}, NEW last \in DOMAIN results,
                 Turns(last, flag), results[last] = "done",
                 \A r \in DOMAIN results : Turns(r, flag) /\ results[r] # "limited" => r <= last
          PROVE  /\ \E row \in last .. Len(chat) : Turns(row, flag) /\ flags[flag] = ValueOf(chat[row])
                 /\ \E row \in last .. Len(chat) : Turns(row, flag) /\ memory[flag] = ValueOf(chat[row])
      <3>1. SaysFrom(last, flag, flags[flag]) /\ SaysFrom(last, flag, memory[flag])
        BY <2>1, <2>3 DEF IInv, SwitchesTold, Told
      <3>2. \A row \in 1 .. Len(chat) : last <= row => row \in last .. Len(chat)
        BY <2>2, <2>3
      <3> QED
        BY <3>1, <3>2 DEF SaysFrom
    <2> QED
      BY <2>3 DEF LastWordWins, Turns
  <1>4. IInv => RepliesStand
    BY <1>1, <1>2, <1>3 DEF RepliesStand
  <1> QED
    BY <1>4, Inductive, PTL
=============================================================================
