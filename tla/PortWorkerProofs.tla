-------------------------- MODULE PortWorkerProofs --------------------------
(***************************************************************************)
(* Theorems about PortWorker, for any number of motors, commands and any   *)
(* delays.  The invariants of the command path are proved in layers, each  *)
(* resting on the ones before it: the types together with the order of the *)
(* queue, then the flag, the answers, and the published results.  The      *)
(* steps of a scan, of time and of the bus leave the command path alone,   *)
(* which is said once, in ScanFrame and BusFrame.                          *)
(***************************************************************************)
EXTENDS PortWorker, SequenceTheorems, TLAPS

Handling == {"received", "process", "finish"}

(* The channel holds the commands after the current one, in order; all but *)
(* the one being delivered are there while the worker lives.               *)
InQueueOrder ==
    /\ Len(cmdChan) + cur <= Len(issued)
    /\ \A i \in 1 .. Len(cmdChan) : cmdChan[i] = cur + i
    /\ pc # "exited" =>
          /\ sub # "closed"
          /\ Len(issued) = cur + Len(cmdChan) + (IF sub = "flagged" THEN 1 ELSE 0)

-----------------------------------------------------------------------------

(* A scan reads motors and writes the table: no command, answer or motor   *)
(* changes in it.                                                          *)
LEMMA ScanFrame ==
    ASSUME BeginScan \/ ScanStep
    PROVE  /\ UNCHANGED <<chanVars, cur, outcome, rx, sinceCommand, busVars>>
           /\ pc \notin Handling \cup {"exited"} /\ pc' \notin Handling
<1>1. CASE BeginScan
  BY <1>1 DEF BeginScan, Handling
<1>2. CASE PreemptScan \/ EndScan \/ EndPing \/ EndSearch
  BY <1>2 DEF PreemptScan, EndScan, EndPing, EndSearch, ReturnFromScan, Handling, timeVars, scanVars
<1>3. ASSUME NEW m \in Motors, ReadMotor(m) \/ PingMotor(m) \/ Announce(m)
      PROVE  /\ UNCHANGED <<chanVars, cur, outcome, rx, sinceCommand, busVars>>
             /\ pc \notin Handling \cup {"exited"} /\ pc' \notin Handling
  BY <1>3 DEF ReadMotor, ReadOk, ReadServoError, ReadFailed, NextToRead, PingMotor, PingFound,
     PingSilent, PingGarbled, PingIoError, NextToPing, Announce, Handling, timeVars
<1>4. QED
  BY <1>1, <1>2, <1>3 DEF ScanStep

(* What the bus and the clock do reaches neither the queues nor the table; *)
(* of the worker they change at most that it ends.                         *)
LEMMA BusFrame ==
    ASSUME Elapse \/ AdapterLost \/ RxEnqueueFails \/ \E m \in Motors : Plug(m) \/ Unplug(m)
    PROVE  /\ UNCHANGED <<issued, sub, cmdChan, cur, outcome, rx, cache, tableVars>>
           /\ pc # "exited" /\ pc' \in {pc, "exited"}
           /\ commandWaiting' # commandWaiting => pc' = "exited"
  BY DEF Elapse, AdapterLost, RxEnqueueFails, Plug, Unplug, chanVars

(* Every step is one of the command path, of a scan, or of the bus.        *)
LEMMA StepCases ==
    ASSUME [Next]_vars
    PROVE  \/ \E c \in Cmd : WellFormed(c) /\ Notify(c)
           \/ Deliver
           \/ Unsubscribe
           \/ ReceiveCommand
           \/ HandleCommand
           \/ ProcessCommand
           \/ FinishOk
           \/ FinishError
           \/ FinishFatal
           \/ BeginScan \/ ScanStep
           \/ Elapse \/ AdapterLost \/ RxEnqueueFails \/ \E m \in Motors : Plug(m) \/ Unplug(m)
           \/ UNCHANGED vars
  BY DEF Next, Callback, Worker, HandleOne, Environment

-----------------------------------------------------------------------------

(* No step loses, repeats or reorders a command on its way to the worker.  *)
LEMMA InQueueOrderStep ==
    ASSUME TypeOK, InQueueOrder, [Next]_vars
    PROVE  InQueueOrder'
<1>. USE DEF InQueueOrder
<1>. /\ issued \in Seq(Cmd) /\ cmdChan \in Seq(CmdIds) /\ cur \in Nat
     /\ Len(issued) \in Nat /\ Len(cmdChan) \in Nat /\ Len(issued) \in CmdIds
  BY PortAssumption, LenProperties DEF TypeOK, CommandTypeOK, CmdIds
<1>1. ASSUME NEW c \in Cmd, Notify(c) PROVE InQueueOrder'
  <2>1. Len(issued') = Len(issued) + 1
    BY <1>1, AppendProperties DEF Notify
  <2>2. QED
    BY <1>1, <2>1 DEF Notify
<1>2. CASE Deliver
  <2>1. CASE pc = "exited"
    BY <1>2, <2>1 DEF Deliver
  <2>2. CASE pc # "exited"
    <3>1. /\ cmdChan' = Append(cmdChan, Len(issued))
          /\ UNCHANGED <<issued, cur, pc>> /\ sub = "flagged" /\ sub' = "idle"
      BY <1>2, <2>2 DEF Deliver
    <3>2. /\ Len(cmdChan') = Len(cmdChan) + 1
          /\ cmdChan'[Len(cmdChan) + 1] = Len(issued)
          /\ \A i \in 1 .. Len(cmdChan) : cmdChan'[i] = cmdChan[i]
      BY <3>1, AppendProperties
    <3>3. Len(issued) = cur + Len(cmdChan) + 1
      BY <2>2, <3>1
    <3>4. \A i \in 1 .. Len(cmdChan) + 1 : cmdChan'[i] = cur + i
      BY <3>2, <3>3
    <3>5. QED
      BY <3>1, <3>2, <3>3, <3>4
  <2>3. QED
    BY <2>1, <2>2
<1>3. CASE Unsubscribe
  BY <1>3 DEF Unsubscribe
<1>4. CASE ReceiveCommand
  <2>1. /\ cmdChan # <<>> /\ pc # "exited"
        /\ cur' = Head(cmdChan) /\ cmdChan' = Tail(cmdChan)
        /\ UNCHANGED <<issued, sub>>
    BY <1>4 DEF ReceiveCommand
  <2>2. /\ Len(cmdChan) >= 1 /\ cur' = cur + 1
        /\ Len(cmdChan') = Len(cmdChan) - 1
        /\ \A i \in 1 .. Len(cmdChan) - 1 : cmdChan'[i] = cmdChan[i + 1]
    BY <2>1, EmptySeq, HeadTailProperties
  <2>3. \A i \in 1 .. Len(cmdChan') : cmdChan'[i] = cur' + i
    BY <2>2
  <2>4. QED
    BY <2>1, <2>2, <2>3
<1>5. CASE HandleCommand
  BY <1>5 DEF HandleCommand
<1>6. CASE ProcessCommand
  BY <1>6 DEF ProcessCommand, chanVars
<1>7. CASE FinishOk \/ FinishError \/ FinishFatal
  BY <1>7 DEF FinishOk, FinishError, FinishFatal, Idle, chanVars
<1>8. CASE BeginScan \/ ScanStep
  BY <1>8, ScanFrame DEF chanVars, Handling
<1>9. CASE Elapse \/ AdapterLost \/ RxEnqueueFails \/ \E m \in Motors : Plug(m) \/ Unplug(m)
  BY <1>9, BusFrame
<1>10. CASE UNCHANGED vars
  BY <1>10 DEF vars, chanVars
<1>11. QED
  BY <1>1, <1>2, <1>3, <1>4, <1>5, <1>6, <1>7, <1>8, <1>9, <1>10, StepCases

-----------------------------------------------------------------------------

(* The table operators return tables.                                      *)
LEMMA ShowCommandType ==
    ASSUME TypeOK, NEW table, NEW result \in Results
    PROVE  ShowCommand(table, result) \in [Ids -> [cmd : CmdIds, result : Results]]
<1>1. cur \in CmdIds
  BY LenProperties, PortAssumption DEF TypeOK, CommandTypeOK, CmdIds
<1>2. QED
  BY <1>1 DEF TypeOK, TableTypeOK, ShowCommand

(* Forgetting motors leaves a table too.                                   *)
LEMMA ForgetType ==
    ASSUME NEW commands \in [Ids -> [cmd : CmdIds, result : Results]], NEW S
    PROVE  Forget(commands, S) \in [Ids -> [cmd : CmdIds, result : Results]]
  BY PortAssumption DEF Forget, NoCommand, CmdIds, Results

(* An envelope about the current command is one of st3215/rx.              *)
LEMMA RxType ==
    ASSUME TypeOK, NEW signal \in ResultSignals \cup {"command"}
    PROVE  Append(rx, [cmd |-> cur, signal |-> signal])
               \in Seq([cmd : CmdIds, signal : ResultSignals \cup {"command"}])
<1>1. cur \in CmdIds
  BY LenProperties, PortAssumption DEF TypeOK, CommandTypeOK, CmdIds
<1>2. [cmd |-> cur, signal |-> signal] \in [cmd : CmdIds, signal : ResultSignals \cup {"command"}]
  BY <1>1
<1>3. QED
  BY <1>2, AppendProperties DEF TypeOK, CommandTypeOK

(* Every step keeps the types of the queues and of the command path.       *)
LEMMA CommandTypeStep ==
    ASSUME TypeOK, InQueueOrder, [Next]_vars
    PROVE  CommandTypeOK'
<1>. USE DEF CommandTypeOK
<1>. CommandTypeOK /\ Len(issued) \in Nat /\ Len(cmdChan) \in Nat /\ MaxCmds \in Nat
  BY LenProperties, PortAssumption DEF TypeOK
<1>1. ASSUME NEW c \in Cmd, Notify(c) PROVE CommandTypeOK'
  <2>1. issued' \in Seq(Cmd) /\ Len(issued') = Len(issued) + 1
    BY <1>1, AppendProperties DEF Notify
  <2>2. QED
    BY <1>1, <2>1 DEF Notify
<1>2. CASE Deliver
  <2>1. Len(issued) \in CmdIds /\ cmdChan \in Seq(CmdIds)
    BY DEF CmdIds
  <2>2. Append(cmdChan, Len(issued)) \in Seq(CmdIds)
    BY <2>1, AppendProperties
  <2>3. UNCHANGED <<issued, commandWaiting, pc, cur, outcome, rx>>
    BY <1>2 DEF Deliver
  <2>4. cmdChan' \in Seq(CmdIds) /\ sub' \in {"idle", "closed"}
    BY <1>2, <2>1, <2>2 DEF Deliver
  <2>5. QED
    BY <2>3, <2>4
<1>3. CASE Unsubscribe
  BY <1>3 DEF Unsubscribe
<1>4. CASE ReceiveCommand
  <2>1. /\ cmdChan # <<>> /\ cur' = Head(cmdChan) /\ cmdChan' = Tail(cmdChan)
        /\ UNCHANGED <<issued, sub, commandWaiting, outcome, rx>> /\ pc' = "received"
    BY <1>4 DEF ReceiveCommand
  <2>2. cmdChan' \in Seq(CmdIds) /\ Len(cmdChan) >= 1 /\ cur' = cmdChan[1]
    BY <2>1, HeadTailProperties, EmptySeq
  <2>3. cur' \in 1 .. Len(issued)
    BY <2>2 DEF InQueueOrder
  <2>4. QED
    BY <2>1, <2>2, <2>3 DEF PCs
<1>5. CASE HandleCommand
  <2>1. rx' \in Seq([cmd : CmdIds, signal : ResultSignals \cup {"command"}])
    BY <1>5, RxType DEF HandleCommand
  <2>2. UNCHANGED <<issued, sub, cmdChan, cur, outcome>> /\ pc = "received" /\ pc' = "process"
        /\ commandWaiting' = FALSE
    BY <1>5 DEF HandleCommand
  <2>3. QED
    BY <2>1, <2>2 DEF PCs
<1>6. CASE ProcessCommand
  <2>1. outcome' \in Outcomes
    BY <1>6 DEF ProcessCommand, ProcessUnicast, ProcessSyncWrite, ProcessCalibration, ProcessOther,
       Outcomes
  <2>2. UNCHANGED <<chanVars, cur, rx>> /\ pc = "process" /\ pc' = "finish"
    BY <1>6 DEF ProcessCommand
  <2>3. QED
    BY <2>1, <2>2 DEF chanVars, PCs
<1>7. CASE FinishOk \/ FinishError \/ FinishFatal
  <2>1. \E signal \in ResultSignals \cup {"command"} : Answer(signal)
    BY <1>7 DEF FinishOk, FinishError, FinishFatal, ResultSignals, Service!ResultSignals
  <2>2. rx' \in Seq([cmd : CmdIds, signal : ResultSignals \cup {"command"}])
    BY <2>1, RxType DEF Answer
  <2>3. UNCHANGED <<chanVars, cur>> /\ pc' \in {"select", "exited"} /\ outcome' \in Outcomes
    BY <1>7 DEF FinishOk, FinishError, FinishFatal, Idle, Outcomes
  <2>4. QED
    BY <2>2, <2>3 DEF chanVars, PCs
<1>8. CASE BeginScan \/ ScanStep
  <2>1. UNCHANGED <<chanVars, cur, outcome, rx>> /\ pc' \notin Handling
    BY <1>8, ScanFrame
  <2>2. pc' \in PCs
    BY <1>8 DEF BeginScan, ScanStep, PreemptScan, EndScan, EndPing, EndSearch, ReturnFromScan,
       ReadMotor, ReadOk, ReadServoError, ReadFailed, NextToRead, PingMotor, PingFound, PingSilent,
       PingGarbled, PingIoError, NextToPing, Announce, PCs
  <2>3. QED
    BY <2>1, <2>2 DEF chanVars, Handling
<1>9. CASE Elapse \/ AdapterLost \/ RxEnqueueFails \/ \E m \in Motors : Plug(m) \/ Unplug(m)
  <2>1. UNCHANGED <<issued, sub, cmdChan, cur, outcome, rx>> /\ pc' \in {pc, "exited"}
    BY <1>9, BusFrame
  <2>2. commandWaiting' \in BOOLEAN
    BY <1>9 DEF Elapse, AdapterLost, RxEnqueueFails, Plug, Unplug, chanVars
  <2>3. QED
    BY <2>1, <2>2 DEF PCs
<1>10. CASE UNCHANGED vars
  BY <1>10 DEF vars, chanVars
<1>11. QED
  BY <1>1, <1>2, <1>3, <1>4, <1>5, <1>6, <1>7, <1>8, <1>9, <1>10, StepCases

(* Every step keeps the types of the scan's variables and of the ages.     *)
LEMMA ScanTypeStep ==
    ASSUME TypeOK, [Next]_vars
    PROVE  ScanTypeOK'
<1>. USE PortAssumption DEF ScanTypeOK
<1>. ScanTypeOK
  BY DEF TypeOK
<1>1. ASSUME NEW c \in Cmd, Notify(c) PROVE ScanTypeOK'
  BY <1>1 DEF Notify, scanVars, timeVars
<1>2. CASE Deliver \/ Unsubscribe \/ ReceiveCommand
  BY <1>2 DEF Deliver, Unsubscribe, ReceiveCommand, scanVars, timeVars
<1>3. CASE HandleCommand
  BY <1>3 DEF HandleCommand, scanVars
<1>4. CASE ProcessCommand \/ FinishOk \/ FinishError \/ FinishFatal
  BY <1>4 DEF ProcessCommand, FinishOk, FinishError, FinishFatal, Idle, scanVars, timeVars
<1>5. CASE BeginScan
  BY <1>5 DEF BeginScan
<1>6. CASE PreemptScan \/ EndPing \/ EndSearch
  BY <1>6 DEF PreemptScan, EndPing, EndSearch, ReturnFromScan, scanVars, timeVars
<1>7. CASE EndScan
  <2>1. missingSince' \in [Motors -> {NotMissing} \cup 0 .. GRACE]
    BY <1>7 DEF EndScan
  <2>2. Kept \subseteq Motors
    BY DEF Kept
  <2>3. UNCHANGED timeVars /\ \/ ReturnFromScan /\ lastSeen' \in {lastSeen, Kept}
                              \/ /\ seen' = Kept /\ toPing' = Searched
                                 /\ UNCHANGED <<lastSeen, toScan, found, searching>>
    BY <1>7 DEF EndScan
  <2>4. QED
    BY <2>1, <2>2, <2>3 DEF timeVars, ReturnFromScan, Searched
<1>8. ASSUME NEW m \in Motors, ReadMotor(m) \/ PingMotor(m) \/ Announce(m) PROVE ScanTypeOK'
  BY <1>8 DEF ReadMotor, ReadOk, ReadServoError, ReadFailed, NextToRead, PingMotor, PingFound,
     PingSilent, PingGarbled, PingIoError, NextToPing, Announce, timeVars
<1>9. CASE Elapse
  <2>1. missingSince' \in [Motors -> {NotMissing} \cup 0 .. GRACE]
    BY <1>9 DEF Elapse, Older, NotMissing
  <2>2. sinceCommand' \in 0 .. SEARCH_DELAY /\ sinceSearch' \in 0 .. SEARCH_GAP
    BY <1>9 DEF Elapse, Older
  <2>3. QED
    BY <1>9, <2>1, <2>2 DEF Elapse
<1>10. CASE AdapterLost \/ RxEnqueueFails \/ \E m \in Motors : Plug(m) \/ Unplug(m)
  BY <1>10 DEF AdapterLost, RxEnqueueFails, Plug, Unplug, scanVars, timeVars
<1>11. CASE UNCHANGED vars
  BY <1>11 DEF vars, scanVars, timeVars
<1>12. QED
  BY <1>1, <1>2, <1>3, <1>4, <1>5, <1>6, <1>7, <1>8, <1>9, <1>10, <1>11, StepCases DEF ScanStep

(* Every step keeps the types of the EEPROM cache and the published table. *)
LEMMA TableTypeStep ==
    ASSUME TypeOK, [Next]_vars
    PROVE  TableTypeOK'
<1>. USE PortAssumption DEF TableTypeOK
<1>. TableTypeOK
  BY DEF TypeOK
<1>1. ASSUME NEW c \in Cmd, Notify(c) PROVE TableTypeOK'
  BY <1>1 DEF Notify, tableVars
<1>2. CASE Deliver \/ Unsubscribe \/ ReceiveCommand \/ ProcessCommand
  BY <1>2 DEF Deliver, Unsubscribe, ReceiveCommand, ProcessCommand, tableVars
<1>3. CASE HandleCommand
  <2>1. lastCommand' \in [Ids -> [cmd : CmdIds, result : Results]]
    BY <1>3, ShowCommandType DEF HandleCommand, Results
  <2>2. QED
    BY <1>3, <2>1 DEF HandleCommand
<1>4. CASE FinishOk \/ FinishError \/ FinishFatal
  <2>1. lastCommand' \in [Ids -> [cmd : CmdIds, result : Results]]
    <3>1. {"success", "rejected", "failed"} \subseteq Results
      BY DEF Results, ResultSignals, Service!ResultSignals
    <3>2. CASE FinishOk
      <4>1. PICK result \in Results :
                lastCommand' = Forget(ShowCommand(listed, result), OldIds(issued[cur]))
        BY <3>1, <3>2 DEF FinishOk
      <4>2. QED
        BY <4>1, ShowCommandType, ForgetType
    <3>3. CASE FinishError
      BY <3>1, <3>3, ShowCommandType, ForgetType DEF FinishError
    <3>4. CASE FinishFatal
      BY <3>1, <3>4, ShowCommandType DEF FinishFatal
    <3>5. QED
      BY <1>4, <3>2, <3>3, <3>4
  <2>2. MotorId(issued[cur]) \subseteq Ids
    <3>1. issued[cur] \in Cmd
      BY <1>4, LenProperties, ElementOfSeq
      DEF FinishOk, FinishError, FinishFatal, TypeOK, CommandTypeOK
    <3>2. QED
      BY <3>1 DEF Cmd, MotorId, Ids
  <2>3. listed' \subseteq Ids /\ cache' \in [Motors -> {NoCache} \cup CmdIds]
    BY <1>4, <2>2 DEF FinishOk, FinishError, FinishFatal
  <2>4. QED
    BY <2>1, <2>3
<1>5. CASE BeginScan \/ PreemptScan \/ EndPing \/ EndSearch
  BY <1>5 DEF BeginScan, PreemptScan, EndPing, EndSearch, tableVars
<1>6. CASE EndScan
  <2>1. lastCommand' \in [Ids -> [cmd : CmdIds, result : Results]]
    BY <1>6, ForgetType DEF EndScan
  <2>2. QED
    BY <1>6, <2>1 DEF EndScan
<1>7. ASSUME NEW m \in Motors, ReadMotor(m) PROVE TableTypeOK'
  <2>1. eeprom[m] \in CmdIds
    BY DEF TypeOK, BusTypeOK
  <2>2. QED
    BY <1>7, <2>1 DEF ReadMotor, ReadOk, ReadServoError, ReadFailed, NextToRead, Upsert, Ids
<1>8. ASSUME NEW m \in Motors, PingMotor(m) \/ Announce(m) PROVE TableTypeOK'
  BY <1>8 DEF PingMotor, PingFound, PingSilent, PingGarbled, PingIoError, NextToPing, Announce,
     Upsert, Ids, tableVars
<1>9. CASE Elapse \/ AdapterLost \/ RxEnqueueFails \/ \E m \in Motors : Plug(m) \/ Unplug(m)
  BY <1>9, BusFrame DEF tableVars
<1>10. CASE UNCHANGED vars
  BY <1>10 DEF vars, tableVars
<1>11. QED
  BY <1>1, <1>2, <1>3, <1>4, <1>5, <1>6, <1>7, <1>8, <1>9, <1>10, StepCases DEF ScanStep

(* Every step keeps the types of the adapter and the motors.               *)
LEMMA BusTypeStep ==
    ASSUME TypeOK, [Next]_vars
    PROVE  BusTypeOK'
<1>. USE PortAssumption DEF BusTypeOK
<1>. BusTypeOK
  BY DEF TypeOK
<1>1. ASSUME NEW c \in Cmd, Notify(c) PROVE BusTypeOK'
  BY <1>1 DEF Notify, busVars
<1>2. CASE Deliver \/ Unsubscribe \/ ReceiveCommand \/ HandleCommand \/ FinishOk \/ FinishError
           \/ FinishFatal
  BY <1>2 DEF Deliver, Unsubscribe, ReceiveCommand, HandleCommand, FinishOk, FinishError,
     FinishFatal, busVars
<1>3. CASE ProcessCommand
  <2>. cur \in CmdIds
    BY LenProperties DEF TypeOK, CommandTypeOK, CmdIds
  <2>1. ASSUME NEW m \in Motors, ProcessUnicast(m) PROVE BusTypeOK'
    <3>1. PICK applied \in BOOLEAN : IF applied THEN ApplyTo(m, issued[cur].kind) /\ UNCHANGED adapter
                                                ELSE UNCHANGED busVars
      BY <2>1 DEF ProcessUnicast
    <3>2. CASE applied
      BY <3>1, <3>2 DEF ApplyTo, CmdIds
    <3>3. CASE ~applied
      BY <3>1, <3>3 DEF busVars
    <3>4. QED
      BY <3>2, <3>3
  <2>2. CASE ProcessOther
    BY <2>2 DEF ProcessOther, busVars
  <2>3. CASE ProcessCalibration \/ ProcessSyncWrite
    BY <2>3 DEF ProcessCalibration, ProcessSyncWrite
  <2>4. QED
    BY <1>3, <2>1, <2>2, <2>3 DEF ProcessCommand
<1>4. CASE BeginScan \/ ScanStep
  BY <1>4, ScanFrame DEF busVars
<1>5. CASE Elapse \/ AdapterLost \/ RxEnqueueFails \/ \E m \in Motors : Plug(m) \/ Unplug(m)
  <2>1. CASE Elapse \/ AdapterLost \/ RxEnqueueFails
    BY <2>1 DEF Elapse, AdapterLost, RxEnqueueFails, busVars
  <2>2. ASSUME NEW m \in Motors, Plug(m) \/ Unplug(m) PROVE BusTypeOK'
    BY <2>2 DEF Plug, Unplug, CmdIds
  <2>3. QED
    BY <1>5, <2>1, <2>2
<1>6. CASE UNCHANGED vars
  BY <1>6 DEF vars, busVars
<1>7. QED
  BY <1>1, <1>2, <1>3, <1>4, <1>5, <1>6, StepCases

-----------------------------------------------------------------------------

(* In every reachable state the variables have their types, and the        *)
(* channel holds the outstanding commands in queue order.                  *)
THEOREM TypeCorrect == Spec => [](TypeOK /\ InQueueOrder)
<1>1. Init => TypeOK /\ InQueueOrder
  <2>. SUFFICES ASSUME Init PROVE TypeOK /\ InQueueOrder
    OBVIOUS
  <2>. 0 \in CmdIds
    BY PortAssumption DEF CmdIds
  <2>. commandWaiting \in BOOLEAN /\ searching \in BOOLEAN /\ adapter \in BOOLEAN
    BY Zenon DEF Init
  <2>1. CommandTypeOK
    <3>1. /\ <<>> \in Seq(Cmd) /\ <<>> \in Seq(CmdIds) /\ Len(<<>>) = 0
          /\ <<>> \in Seq([cmd : CmdIds, signal : ResultSignals \cup {"command"}])
      BY EmptySeq
    <3>2. QED
      BY <3>1, PortAssumption DEF Init, CommandTypeOK, PCs, Outcomes
  <2>2. ScanTypeOK
    BY PortAssumption DEF Init, ScanTypeOK
  <2>3. BusTypeOK
    BY PortAssumption DEF Init, BusTypeOK
  <2>4. TableTypeOK
    BY DEF Init, TableTypeOK, Results, NoCommand
  <2>5. InQueueOrder
    BY EmptySeq DEF Init, InQueueOrder
  <2>6. QED
    BY <2>1, <2>2, <2>3, <2>4, <2>5 DEF TypeOK
<1>2. TypeOK /\ InQueueOrder /\ [Next]_vars => (TypeOK /\ InQueueOrder)'
  BY CommandTypeStep, ScanTypeStep, TableTypeStep, BusTypeStep, InQueueOrderStep DEF TypeOK
<1>3. QED
  BY <1>1, <1>2, PTL DEF Spec

(* While the worker lives its preemption flag is raised only for a command *)
(* that is on its way: a tick is never skipped, and a scan never cut       *)
(* short, for a command that was already taken up.                         *)
THEOREM FlagCorrect == Spec => []FlagMeansCommand
<1>1. Init => FlagMeansCommand
  BY DEF Init, FlagMeansCommand
<1>2. TypeOK /\ InQueueOrder /\ FlagMeansCommand /\ [Next]_vars => FlagMeansCommand'
  <2>. SUFFICES ASSUME TypeOK, InQueueOrder, FlagMeansCommand, [Next]_vars
                PROVE  FlagMeansCommand'
    OBVIOUS
  <2>. USE DEF FlagMeansCommand
  <2>1. ASSUME NEW c \in Cmd, Notify(c) PROVE FlagMeansCommand'
    BY <2>1 DEF Notify
  <2>2. CASE Deliver
    <3>1. cmdChan \in Seq(CmdIds) /\ Len(issued) \in CmdIds
      BY LenProperties, PortAssumption DEF TypeOK, CommandTypeOK, CmdIds
    <3>2. Append(cmdChan, Len(issued)) # <<>>
      BY <3>1, AppendProperties
    <3>3. QED
      BY <2>2, <3>2 DEF Deliver
  <2>3. CASE Unsubscribe \/ ReceiveCommand
    BY <2>3 DEF Unsubscribe, ReceiveCommand
  <2>4. CASE HandleCommand
    BY <2>4 DEF HandleCommand
  <2>5. CASE ProcessCommand \/ FinishOk \/ FinishError \/ FinishFatal
    BY <2>5 DEF ProcessCommand, FinishOk, FinishError, FinishFatal, chanVars
  <2>6. CASE BeginScan \/ ScanStep
    BY <2>6, ScanFrame DEF chanVars, Handling
  <2>7. CASE Elapse \/ AdapterLost \/ RxEnqueueFails \/ \E m \in Motors : Plug(m) \/ Unplug(m)
    BY <2>7, BusFrame
  <2>8. CASE UNCHANGED vars
    BY <2>8 DEF vars, chanVars
  <2>9. QED
    BY <2>1, <2>2, <2>3, <2>4, <2>5, <2>6, <2>7, <2>8, StepCases
<1>3. QED
  BY <1>1, <1>2, TypeCorrect, PTL DEF Spec

-----------------------------------------------------------------------------

(* How far the answers have got, by where the worker is with a command.    *)
AnswersSoFar ==
    /\ pc = "received" => Len(rx) = 2 * cur - 2
    /\ pc \in {"process", "finish"} => Len(rx) = 2 * cur - 1
    /\ pc \notin Handling \cup {"exited"} => Len(rx) = 2 * cur
    /\ Len(rx) <= 2 * cur
    /\ \A k \in 1 .. cur :
          /\ 2 * k - 1 <= Len(rx) => rx[2 * k - 1] = [cmd |-> k, signal |-> "command"]
          /\ 2 * k <= Len(rx) => rx[2 * k].cmd = k /\ rx[2 * k].signal \in ResultSignals

(* An envelope appended to the answers is the last one, the others stay.   *)
LEMMA RxAppend ==
    ASSUME TypeOK, NEW signal \in ResultSignals \cup {"command"},
           rx' = Append(rx, [cmd |-> cur, signal |-> signal])
    PROVE  /\ Len(rx) \in Nat /\ Len(rx') = Len(rx) + 1
           /\ rx'[Len(rx) + 1] = [cmd |-> cur, signal |-> signal]
           /\ \A i \in 1 .. Len(rx) : rx'[i] = rx[i]
<1>1. cur \in CmdIds
  BY LenProperties, PortAssumption DEF TypeOK, CommandTypeOK, CmdIds
<1>2. [cmd |-> cur, signal |-> signal] \in [cmd : CmdIds, signal : ResultSignals \cup {"command"}]
  BY <1>1
<1>3. rx \in Seq([cmd : CmdIds, signal : ResultSignals \cup {"command"}])
  BY DEF TypeOK, CommandTypeOK
<1>4. QED
  BY <1>2, <1>3, LenProperties, AppendProperties

(* Every step keeps the answers in line with where the worker is.          *)
LEMMA AnswersStep ==
    ASSUME TypeOK, InQueueOrder, AnswersSoFar, [Next]_vars
    PROVE  AnswersSoFar'
<1>. USE DEF AnswersSoFar, Handling
<1>. cur \in Nat /\ Len(rx) \in Nat /\ (pc \in Handling => cur >= 1)
  BY LenProperties DEF TypeOK, CommandTypeOK
<1>1. ASSUME NEW c \in Cmd, Notify(c) PROVE AnswersSoFar'
  BY <1>1 DEF Notify
<1>2. CASE Deliver \/ Unsubscribe
  BY <1>2 DEF Deliver, Unsubscribe
<1>3. CASE ReceiveCommand
  <2>1. cmdChan \in Seq(CmdIds) /\ cmdChan # <<>> /\ cur' = Head(cmdChan)
    BY <1>3 DEF ReceiveCommand, TypeOK, CommandTypeOK
  <2>2. cur' = cur + 1
    BY <2>1, EmptySeq DEF InQueueOrder
  <2>3. pc = "select" /\ pc' = "received" /\ UNCHANGED rx
    BY <1>3 DEF ReceiveCommand
  <2>4. QED
    BY <2>2, <2>3
<1>4. CASE HandleCommand
  <2>1. /\ pc = "received" /\ pc' = "process" /\ UNCHANGED cur
        /\ rx' = Append(rx, [cmd |-> cur, signal |-> "command"])
    BY <1>4 DEF HandleCommand
  <2>2. /\ Len(rx') = 2 * cur - 1 /\ rx'[2 * cur - 1] = [cmd |-> cur, signal |-> "command"]
        /\ \A i \in 1 .. 2 * cur - 2 : rx'[i] = rx[i]
    BY <2>1, RxAppend
  <2>3. QED
    BY <2>1, <2>2
<1>5. CASE ProcessCommand
  BY <1>5 DEF ProcessCommand
<1>6. CASE FinishOk \/ FinishError \/ FinishFatal
  <2>1. /\ pc = "finish" /\ pc' \in {"select", "exited"} /\ UNCHANGED cur
        /\ \E signal \in ResultSignals : rx' = Append(rx, [cmd |-> cur, signal |-> signal])
    BY <1>6 DEF FinishOk, FinishError, FinishFatal, Idle, Answer, ResultSignals,
       Service!ResultSignals
  <2>2. PICK signal \in ResultSignals : rx' = Append(rx, [cmd |-> cur, signal |-> signal])
    BY <2>1
  <2>3. /\ Len(rx) = 2 * cur - 1 /\ Len(rx') = 2 * cur
        /\ rx'[2 * cur] = [cmd |-> cur, signal |-> signal]
        /\ \A i \in 1 .. Len(rx) : rx'[i] = rx[i]
    BY <2>1, <2>2, RxAppend
  <2>4. ASSUME NEW k \in 1 .. cur
        PROVE  /\ rx'[2 * k - 1] = [cmd |-> k, signal |-> "command"]
               /\ rx'[2 * k].cmd = k /\ rx'[2 * k].signal \in ResultSignals
    <3>1. rx'[2 * k - 1] = [cmd |-> k, signal |-> "command"]
      <4>1. 2 * k - 1 \in 1 .. Len(rx)
        BY <2>3
      <4>2. QED
        BY <2>3, <4>1
    <3>2. CASE k < cur
      <4>1. 2 * k \in 1 .. Len(rx)
        BY <2>3, <3>2
      <4>2. QED
        BY <2>3, <3>1, <4>1
    <3>3. CASE k = cur
      BY <2>3, <3>1, <3>3
    <3>4. QED
      BY <3>2, <3>3
  <2>5. cur' = cur /\ Len(rx') = 2 * cur' /\ pc' \in {"select", "exited"}
    BY <2>1, <2>3
  <2>6. \A k \in 1 .. cur' : /\ rx'[2 * k - 1] = [cmd |-> k, signal |-> "command"]
                             /\ rx'[2 * k].cmd = k /\ rx'[2 * k].signal \in ResultSignals
    BY <2>4, <2>5
  <2>7. QED
    BY <2>5, <2>6
<1>7. CASE BeginScan \/ ScanStep
  BY <1>7, ScanFrame
<1>8. CASE Elapse \/ AdapterLost \/ RxEnqueueFails \/ \E m \in Motors : Plug(m) \/ Unplug(m)
  BY <1>8, BusFrame
<1>9. CASE UNCHANGED vars
  BY <1>9 DEF vars
<1>10. QED
  BY <1>1, <1>2, <1>3, <1>4, <1>5, <1>6, <1>7, <1>8, <1>9, StepCases

(* In every reachable state st3215/rx holds what the worker's place says.  *)
THEOREM AnswersTracked == Spec => []AnswersSoFar
<1>1. Init => AnswersSoFar
  BY EmptySeq DEF Init, AnswersSoFar, Handling
<1>2. QED
  BY <1>1, AnswersStep, TypeCorrect, PTL DEF Spec

(* Every command of st3215/tx that the worker took is answered in          *)
(* st3215/rx, in order, by its Command envelope and exactly one result.    *)
THEOREM AnswersCorrect == Spec => []AnsweredInOrder
<1>1. TypeOK /\ AnswersSoFar => AnsweredInOrder
  <2>. SUFFICES ASSUME TypeOK, AnswersSoFar,
                       NEW k \in 1 .. Len(issued), NEW i \in 1 .. Len(rx)
                PROVE  /\ i = 2 * k - 1 => rx[i] = [cmd |-> k, signal |-> "command"]
                       /\ i = 2 * k => rx[i].cmd = k /\ rx[i].signal \in ResultSignals
    BY DEF AnsweredInOrder
  <2>1. cur \in Nat /\ Len(rx) \in Nat /\ Len(issued) \in Nat /\ Len(rx) <= 2 * cur
    BY LenProperties DEF TypeOK, CommandTypeOK, AnswersSoFar
  <2>2. i \in {2 * k - 1, 2 * k} => k \in 1 .. cur
    BY <2>1
  <2>3. QED
    BY <2>1, <2>2 DEF AnswersSoFar
<1>2. QED
  BY <1>1, TypeCorrect, AnswersTracked, PTL

-----------------------------------------------------------------------------

(* A command shown as processing is the current one, on a motor that it    *)
(* names and that is still listed, so that its result finds the same entry. *)
ProcessingShown ==
    \A m \in Ids : lastCommand[m].result = "processing" =>
        /\ pc \in {"process", "finish", "exited"}
        /\ lastCommand[m].cmd = cur
        /\ pc # "exited" => m \in listed \cap issued[cur].targets

(* Every step keeps a shown "processing" tied to the current command.      *)
LEMMA ProcessingStep ==
    ASSUME TypeOK, ProcessingShown, [Next]_vars
    PROVE  ProcessingShown'
<1>. USE DEF ProcessingShown
<1>1. ASSUME NEW c \in Cmd, Notify(c) PROVE ProcessingShown'
  <2>1. issued \in Seq(Cmd) /\ issued' = Append(issued, c)
        /\ (pc \in {"process", "finish"} => cur \in 1 .. Len(issued))
    BY <1>1, LenProperties DEF Notify, TypeOK, CommandTypeOK
  <2>2. pc \in {"process", "finish"} => issued'[cur] = issued[cur]
    BY <2>1, AppendProperties
  <2>3. UNCHANGED <<pc, cur, listed, lastCommand>>
    BY <1>1 DEF Notify, tableVars
  <2>4. QED
    BY <2>2, <2>3
<1>2. CASE Deliver \/ Unsubscribe
  BY <1>2 DEF Deliver, Unsubscribe, tableVars
<1>3. CASE ReceiveCommand
  BY <1>3 DEF ReceiveCommand, tableVars
<1>4. CASE HandleCommand
  <2>1. /\ pc = "received" /\ pc' = "process" /\ UNCHANGED <<issued, cur, listed>>
        /\ lastCommand' = ShowCommand(listed, "processing")
    BY <1>4 DEF HandleCommand
  <2>2. QED
    BY <2>1 DEF ShowCommand
<1>5. CASE ProcessCommand
  BY <1>5 DEF ProcessCommand, chanVars, tableVars
<1>6. CASE FinishOk \/ FinishError \/ FinishFatal
  <2>1. /\ pc = "finish" /\ UNCHANGED <<issued, cur>>
        /\ \E table, result, S :
              /\ listed \subseteq table /\ result # "processing"
              /\ lastCommand' \in {ShowCommand(table, result), Forget(ShowCommand(table, result), S)}
    <3>1. CASE FinishOk
      <4>1. PICK result \in {"success", "rejected"} :
                lastCommand' = Forget(ShowCommand(listed, result), OldIds(issued[cur]))
        BY <3>1 DEF FinishOk
      <4>2. QED
        BY <3>1, <4>1 DEF FinishOk, chanVars
    <3>2. CASE FinishError
      <4>1. lastCommand' = Forget(ShowCommand(listed \cup MotorId(issued[cur]), "failed"),
                                  OldIds(issued[cur]))
        BY <3>2 DEF FinishError
      <4>2. QED
        BY <3>2, <4>1 DEF FinishError, chanVars
    <3>3. CASE FinishFatal
      <4>1. lastCommand' = ShowCommand(listed \cup MotorId(issued[cur]), "failed")
        BY <3>3 DEF FinishFatal
      <4>2. QED
        BY <3>3, <4>1 DEF FinishFatal, chanVars
    <3>4. QED
      BY <1>6, <3>1, <3>2, <3>3
  <2>2. \A m \in Ids : lastCommand'[m].result # "processing"
    BY <2>1 DEF ShowCommand, Forget, NoCommand
  <2>3. QED
    BY <2>2
<1>7. CASE BeginScan \/ ScanStep
  <2>1. pc \notin {"process", "finish", "exited"}
    BY <1>7, ScanFrame DEF Handling
  <2>2. \A m \in Ids : lastCommand'[m] \in {lastCommand[m], NoCommand}
    BY <1>7 DEF BeginScan, ScanStep, PreemptScan, EndScan, Forget, EndPing, EndSearch, ReadMotor,
       ReadOk, ReadServoError, ReadFailed, NextToRead, PingMotor, PingFound, PingSilent,
       PingGarbled, PingIoError, NextToPing, Announce, tableVars
  <2>3. QED
    BY <2>1, <2>2 DEF NoCommand
<1>8. CASE Elapse \/ AdapterLost \/ RxEnqueueFails \/ \E m \in Motors : Plug(m) \/ Unplug(m)
  BY <1>8, BusFrame DEF tableVars
<1>9. CASE UNCHANGED vars
  BY <1>9 DEF vars, chanVars, tableVars
<1>10. QED
  BY <1>1, <1>2, <1>3, <1>4, <1>5, <1>6, <1>7, <1>8, <1>9, StepCases

(* No motor of the published table is left showing a command as processing *)
(* that the worker has finished with, whichever way the command ended.     *)
THEOREM NoProcessingLeft == Spec => []NothingLeftProcessing
<1>1. Init => ProcessingShown
  BY DEF Init, ProcessingShown, NoCommand
<1>2. ProcessingShown => NothingLeftProcessing
  BY DEF ProcessingShown, NothingLeftProcessing
<1>3. QED
  BY <1>1, <1>2, ProcessingStep, TypeCorrect, PTL DEF Spec

-----------------------------------------------------------------------------

(* Why the grace window never expires: the scan that records a motor as    *)
(* missing wipes the timestamp before it ends.                             *)
NothingMissing == missingSince = [m \in Motors |-> NotMissing]

(* With a grace window longer than zero no scan ever drops a motor: once   *)
(* found, it stays in last_seen_motors.                                    *)
NeverEvicts == [][lastSeen \subseteq lastSeen']_vars

(* No step leaves a grace timestamp behind.                                *)
LEMMA NothingMissingStep ==
    ASSUME TypeOK, NothingMissing, [Next]_vars
    PROVE  NothingMissing'
<1>. USE DEF NothingMissing
<1>1. CASE EndScan
  BY <1>1 DEF EndScan
<1>2. CASE Elapse
  BY <1>2 DEF Elapse
<1>3. CASE PreemptScan \/ EndPing \/ EndSearch \/ BeginScan
  BY <1>3 DEF PreemptScan, EndPing, EndSearch, BeginScan, scanVars
<1>4. ASSUME NEW m \in Motors, ReadMotor(m) \/ PingMotor(m) \/ Announce(m) PROVE NothingMissing'
  BY <1>4 DEF ReadMotor, ReadOk, ReadServoError, ReadFailed, NextToRead, PingMotor, PingFound,
     PingSilent, PingGarbled, PingIoError, NextToPing, Announce
<1>5. QED
  BY <1>1, <1>2, <1>3, <1>4, StepCases DEF ScanStep, Notify, Deliver, Unsubscribe, ReceiveCommand,
     HandleCommand, ProcessCommand, FinishOk, FinishError, FinishFatal, AdapterLost, RxEnqueueFails,
     Plug, Unplug, vars, scanVars

(* A search goes on from everything the scan before it kept.               *)
SearchKeeps == pc \in {"search", "announce"} => lastSeen \subseteq seen

(* Without a timestamp an age is zero, so a scan keeps every motor.        *)
LEMMA KeptAll ==
    ASSUME GRACE > 0, NothingMissing, lastSeen \subseteq Motors
    PROVE  lastSeen \subseteq Kept
<1>1. \A m \in lastSeen : FirstMissed(m) = 0
  BY DEF NothingMissing, FirstMissed
<1>2. Evicted = {}
  BY <1>1, PortAssumption DEF Evicted
<1>3. QED
  BY <1>2 DEF Kept

(* Neither a scan nor the search after it drops a motor.                   *)
LEMMA SearchStep ==
    ASSUME GRACE > 0, TypeOK, NothingMissing, SearchKeeps, [Next]_vars
    PROVE  SearchKeeps' /\ lastSeen \subseteq lastSeen'
<1>. USE DEF SearchKeeps
<1>. lastSeen \subseteq Motors
  BY DEF TypeOK, ScanTypeOK
<1>1. CASE EndScan
  <2>1. lastSeen \subseteq Kept
    BY KeptAll
  <2>2. QED
    BY <1>1, <2>1 DEF EndScan, ReturnFromScan
<1>2. CASE PreemptScan \/ EndPing \/ EndSearch \/ BeginScan
  BY <1>2 DEF PreemptScan, EndPing, EndSearch, BeginScan, ReturnFromScan, scanVars
<1>3. ASSUME NEW m \in Motors, ReadMotor(m) \/ PingMotor(m) \/ Announce(m)
      PROVE  SearchKeeps' /\ lastSeen \subseteq lastSeen'
  BY <1>3 DEF ReadMotor, ReadOk, ReadServoError, ReadFailed, NextToRead, PingMotor, PingFound,
     PingSilent, PingGarbled, PingIoError, NextToPing, Announce
<1>4. CASE ProcessCommand \/ FinishOk \/ FinishError \/ FinishFatal \/ ReceiveCommand \/ HandleCommand
  BY <1>4 DEF ProcessCommand, FinishOk, FinishError, FinishFatal, Idle, ReceiveCommand, HandleCommand,
     scanVars
<1>5. CASE Elapse \/ AdapterLost \/ RxEnqueueFails \/ \E m \in Motors : Plug(m) \/ Unplug(m)
  BY <1>5 DEF Elapse, AdapterLost, RxEnqueueFails, Plug, Unplug, scanVars
<1>6. ASSUME NEW c \in Cmd, Notify(c) PROVE SearchKeeps' /\ lastSeen \subseteq lastSeen'
  BY <1>6 DEF Notify, scanVars
<1>7. CASE Deliver \/ Unsubscribe \/ UNCHANGED vars
  BY <1>7 DEF Deliver, Unsubscribe, vars, scanVars
<1>8. QED
  BY <1>1, <1>2, <1>3, <1>4, <1>5, <1>6, <1>7, StepCases DEF ScanStep

(* The eviction of silent motors (port.rs, the end of the scan) is dead    *)
(* code for every grace window longer than zero: a motor that was found    *)
(* stays in last_seen_motors until the worker ends.                        *)
THEOREM GraceNeverExpires ==
    ASSUME GRACE > 0
    PROVE  Spec => NeverEvicts
<1>1. Init => NothingMissing /\ SearchKeeps
  BY DEF Init, NothingMissing, SearchKeeps
<1>2. TypeOK /\ NothingMissing /\ SearchKeeps /\ [Next]_vars
          => (NothingMissing /\ SearchKeeps)' /\ [lastSeen \subseteq lastSeen']_vars
  BY NothingMissingStep, SearchStep
<1>3. QED
  BY <1>1, <1>2, TypeCorrect, PTL DEF Spec, NeverEvicts

(* In particular neither a scan cut short by a command, nor the search     *)
(* after a scan, drops a motor that was not missed for the grace window.   *)
THEOREM DropsCorrect ==
    ASSUME GRACE > 0
    PROVE  Spec => DroppedOnlyAfterGrace
<1>1. [lastSeen \subseteq lastSeen']_vars
          => [\A m \in lastSeen \ lastSeen' : missingSince[m] >= GRACE]_vars
  OBVIOUS
<1>2. QED
  BY <1>1, GraceNeverExpires, PTL DEF NeverEvicts, DroppedOnlyAfterGrace

-----------------------------------------------------------------------------

(* A command that invalidates finds nothing cached for what it may change; *)
(* the EEPROM of every motor was last changed by a command already taken.  *)
CacheTracked ==
    /\ CacheStaleOnlyByBypass
    /\ \A m \in Motors : eeprom[m] <= cur
    /\ pc = "process" => \A m \in Invalidated(issued[cur]) : cache[m] = NoCache

(* A step that only drops or refreshes cache entries cannot make one stale. *)
LEMMA CacheUntouched ==
    ASSUME TypeOK, CacheTracked, UNCHANGED <<issued, cur, eeprom>>,
           \A m \in Motors : cache'[m] \in {cache[m], NoCache, eeprom[m]},
           pc' # "process" \/ (pc = "process" /\ UNCHANGED cache)
    PROVE  CacheTracked'
<1>1. CacheStaleOnlyByBypass'
  BY DEF CacheTracked, CacheStaleOnlyByBypass
<1>2. (pc = "process" => \A m \in Invalidated(issued[cur]) : cache[m] = NoCache)'
  BY DEF CacheTracked, Invalidated
<1>3. QED
  BY <1>1, <1>2 DEF CacheTracked

(* Every step keeps the cache tracked: the invalidation comes before the   *)
(* write, and no scan runs between the two.                                *)
LEMMA CacheStep ==
    ASSUME TypeOK, InQueueOrder, CacheTracked, [Next]_vars
    PROVE  CacheTracked'
<1>. cur \in Nat /\ Len(issued) \in Nat /\ cur <= Len(issued) /\ issued \in Seq(Cmd)
  BY LenProperties DEF TypeOK, CommandTypeOK
<1>. \A m \in Motors : eeprom[m] \in Nat
  BY PortAssumption DEF TypeOK, BusTypeOK, CmdIds
<1>1. ASSUME NEW c \in Cmd, Notify(c) PROVE CacheTracked'
  <2>1. issued' = Append(issued, c) /\ UNCHANGED <<pc, cur, cache, eeprom>>
    BY <1>1 DEF Notify, busVars
  <2>2. \A k \in 1 .. cur : issued'[k] = issued[k]
    BY <2>1, AppendProperties
  <2>3. CacheStaleOnlyByBypass'
    <3>1. \A m \in Motors : eeprom[m] # 0 => eeprom[m] \in 1 .. cur
      BY DEF CacheTracked
    <3>2. \A m \in Motors : eeprom[m] # 0 => issued'[eeprom[m]] = issued[eeprom[m]]
      BY <2>2, <3>1
    <3>3. QED
      BY <2>1, <3>2 DEF CacheTracked, CacheStaleOnlyByBypass
  <2>4. pc = "process" => cur \in 1 .. cur
    BY DEF TypeOK, CommandTypeOK
  <2>5. QED
    BY <2>1, <2>2, <2>3, <2>4 DEF CacheTracked, Invalidated
<1>2. CASE Deliver \/ Unsubscribe
  BY <1>2, CacheUntouched DEF Deliver, Unsubscribe, busVars
<1>3. CASE ReceiveCommand
  <2>1. cmdChan \in Seq(CmdIds) /\ cmdChan # <<>> /\ cur' = Head(cmdChan)
    BY <1>3 DEF ReceiveCommand, TypeOK, CommandTypeOK
  <2>2. cur' = cur + 1
    BY <2>1, EmptySeq DEF InQueueOrder
  <2>3. UNCHANGED <<issued, cache, eeprom>> /\ pc' = "received"
    BY <1>3 DEF ReceiveCommand, busVars
  <2>4. \A m \in Motors : eeprom'[m] <= cur'
    BY <2>2, <2>3 DEF CacheTracked
  <2>5. CacheStaleOnlyByBypass'
    BY <2>3 DEF CacheTracked, CacheStaleOnlyByBypass
  <2>6. QED
    BY <2>3, <2>4, <2>5 DEF CacheTracked
<1>4. CASE HandleCommand
  <2>1. /\ UNCHANGED <<issued, cur, eeprom>> /\ pc' = "process"
        /\ cache' = [m \in Motors |-> IF m \in Invalidated(issued[cur]) THEN NoCache ELSE cache[m]]
    BY <1>4 DEF HandleCommand, busVars
  <2>2. Invalidated(issued[cur]) \subseteq Motors
    <3>1. cur \in 1 .. Len(issued)
      BY <1>4 DEF HandleCommand, TypeOK, CommandTypeOK
    <3>2. issued[cur] \in Cmd
      BY <3>1, ElementOfSeq
    <3>3. QED
      BY <3>2 DEF Cmd, Invalidated
  <2>3. CacheStaleOnlyByBypass'
    BY <2>1 DEF CacheTracked, CacheStaleOnlyByBypass
  <2>4. QED
    BY <2>1, <2>2, <2>3 DEF CacheTracked, Invalidated
<1>5. CASE ProcessCommand
  <2>1. UNCHANGED <<issued, cur, cache>> /\ pc = "process" /\ pc' = "finish"
    BY <1>5 DEF ProcessCommand, chanVars, tableVars
  <2>2. /\ \A m \in Motors : eeprom'[m] \in {eeprom[m], cur}
        /\ \A m \in Motors : eeprom'[m] # eeprom[m] =>
               issued[cur].kind \in CacheBypass \/ m \in Invalidated(issued[cur])
    <3>1. ASSUME NEW m \in Motors, ProcessUnicast(m) PROVE <2>2
      <4>1. m \in issued[cur].targets /\ (UNCHANGED eeprom \/ ApplyTo(m, issued[cur].kind))
        BY <3>1 DEF ProcessUnicast, busVars
      <4>2. eeprom \in [Motors -> CmdIds]
        BY DEF TypeOK, BusTypeOK
      <4>3. QED
        BY <4>1, <4>2 DEF ApplyTo, Invalidated, CacheBypass
    <3>2. CASE ProcessOther
      BY <3>2 DEF ProcessOther, busVars
    <3>3. CASE ProcessCalibration
      BY <3>3 DEF ProcessCalibration, Invalidated
    <3>4. CASE ProcessSyncWrite
      BY <3>4 DEF ProcessSyncWrite, SyncKinds, CacheBypass
    <3>5. QED
      BY <1>5, <3>1, <3>2, <3>3, <3>4 DEF ProcessCommand
  <2>3. cur # 0
    BY <2>1 DEF TypeOK, CommandTypeOK
  <2>4. CacheStaleOnlyByBypass'
    BY <2>1, <2>2, <2>3 DEF CacheTracked, CacheStaleOnlyByBypass
  <2>5. QED
    BY <2>1, <2>2, <2>4 DEF CacheTracked
<1>6. CASE FinishOk \/ FinishError \/ FinishFatal
  BY <1>6, CacheUntouched DEF FinishOk, FinishError, FinishFatal, Idle, chanVars, busVars
<1>7. CASE BeginScan \/ ScanStep
  <2>1. UNCHANGED <<issued, cur, eeprom>> /\ pc' # "process"
    BY <1>7, ScanFrame DEF chanVars, busVars, Handling
  <2>2. \A m \in Motors : cache'[m] \in {cache[m], NoCache, eeprom[m]}
    BY <1>7 DEF BeginScan, ScanStep, PreemptScan, EndScan, EndPing, EndSearch, ReadMotor,
       ReadOk, ReadServoError, ReadFailed, NextToRead, PingMotor, PingFound, PingSilent,
       PingGarbled, PingIoError, NextToPing, Announce, TypeOK, TableTypeOK
  <2>3. QED
    BY <2>1, <2>2, CacheUntouched
<1>8. CASE Elapse \/ AdapterLost \/ RxEnqueueFails \/ \E m \in Motors : Plug(m) \/ Unplug(m)
  <2>1. UNCHANGED <<issued, cur, cache>> /\ pc' \in {pc, "exited"}
    BY <1>8, BusFrame
  <2>2. UNCHANGED eeprom
    BY <1>8 DEF Elapse, AdapterLost, RxEnqueueFails, Plug, Unplug, busVars
  <2>3. QED
    BY <2>1, <2>2, CacheUntouched
<1>9. CASE UNCHANGED vars
  BY <1>9, CacheUntouched DEF vars, chanVars, busVars
<1>10. QED
  BY <1>1, <1>2, <1>3, <1>4, <1>5, <1>6, <1>7, <1>8, <1>9, StepCases

(* A stale entry of eeprom_cache is always the work of a plain write, a    *)
(* sync_write, an action or an id change: a reset or a calibration never   *)
(* leaves one, even when it fails after it changed the motor.              *)
THEOREM CacheCorrect == Spec => []CacheStaleOnlyByBypass
<1>1. Init => CacheTracked
  BY DEF Init, CacheTracked, CacheStaleOnlyByBypass
<1>2. CacheTracked => CacheStaleOnlyByBypass
  BY DEF CacheTracked
<1>3. QED
  BY <1>1, <1>2, CacheStep, TypeCorrect, PTL DEF Spec

-----------------------------------------------------------------------------

(* The worker implements CommandService: seen from the two queues it takes *)
(* one command at a time and answers it twice, until it closes.            *)
THEOREM Implements == Spec => ImplementsService
<1>1. Init => Service!Init
  BY EmptySeq DEF Init, Service!Init
<1>2. TypeOK /\ InQueueOrder /\ AnswersSoFar /\ [Next]_vars => [Service!Next]_(Service!vars)
  <2>. SUFFICES ASSUME TypeOK, InQueueOrder, AnswersSoFar, [Next]_vars
                PROVE  Service!Next \/ UNCHANGED Service!vars
    OBVIOUS
  <2>. USE DEF Service!Next, Service!vars
  <2>. cur \in Nat /\ Len(issued) \in Nat /\ cur <= Len(issued) /\ (pc \in Handling => cur >= 1)
    BY LenProperties DEF TypeOK, CommandTypeOK, Handling
  <2>1. ASSUME NEW c \in Cmd, Notify(c) PROVE Service!Accept
    <3>1. issued \in Seq(Cmd) /\ issued' = Append(issued, c) /\ UNCHANGED <<rx, pc>>
      BY <2>1 DEF Notify, TypeOK, CommandTypeOK
    <3>2. QED
      BY <3>1, AppendProperties DEF Service!Accept
  <2>2. CASE Deliver \/ Unsubscribe
    BY <2>2 DEF Deliver, Unsubscribe
  <2>3. CASE ReceiveCommand
    BY <2>3 DEF ReceiveCommand
  <2>4. CASE HandleCommand
    <3>1. /\ pc = "received" /\ pc' = "process" /\ UNCHANGED issued
          /\ rx' = Append(rx, [cmd |-> cur, signal |-> "command"])
      BY <2>4 DEF HandleCommand
    <3>2. cur \in 1 .. Len(issued) /\ Len(rx) = 2 * cur - 2
      BY <3>1 DEF AnswersSoFar, Handling
    <3>3. Service!Begin
      BY <3>1, <3>2 DEF Service!Begin
    <3>4. QED
      BY <3>3
  <2>5. CASE ProcessCommand
    BY <2>5 DEF ProcessCommand, chanVars
  <2>6. CASE FinishOk \/ FinishError \/ FinishFatal
    <3>1. /\ pc = "finish" /\ UNCHANGED issued
          /\ \E signal \in ResultSignals : rx' = Append(rx, [cmd |-> cur, signal |-> signal])
      BY <2>6 DEF FinishOk, FinishError, FinishFatal, Answer, chanVars, ResultSignals,
         Service!ResultSignals
    <3>2. cur \in 1 .. Len(issued) /\ Len(rx) = 2 * cur - 1
      BY <3>1 DEF AnswersSoFar, Handling
    <3>3. Service!Answer
      BY <3>1, <3>2 DEF Service!Answer, ResultSignals
    <3>4. QED
      BY <3>3
  <2>7. CASE BeginScan \/ ScanStep
    BY <2>7, ScanFrame DEF chanVars, Service!Close
  <2>8. CASE Elapse \/ AdapterLost \/ RxEnqueueFails \/ \E m \in Motors : Plug(m) \/ Unplug(m)
    BY <2>8, BusFrame DEF Service!Close
  <2>9. CASE UNCHANGED vars
    BY <2>9 DEF vars, chanVars
  <2>10. QED
    BY <2>1, <2>2, <2>3, <2>4, <2>5, <2>6, <2>7, <2>8, <2>9, StepCases
<1>3. QED
  BY <1>1, <1>2, TypeCorrect, AnswersTracked, PTL DEF Spec, ImplementsService, Service!Spec

=============================================================================
