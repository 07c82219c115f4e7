-------------------------- MODULE CalibrationProofs --------------------------
(***************************************************************************)
(* Theorems about Calibration, for any number of runs, requests and        *)
(* motors, and whatever the watcher has not read yet.                      *)
(***************************************************************************)
EXTENDS Calibration, SequenceTheorems, TLAPS

(* A run is only prepared while there is room for one (the bound of the    *)
(* model), and while a new flag waits to be stored, the old one is up.     *)
Prepared ==
    /\ port = "found" => started < MaxRuns
    /\ port = "spawned" => store \in stopped \cup {0}

(* A run that was not started has no task.                                 *)
Unborn == \A r \in Runs : r > started => phase[r] = "none"

(* The flag that is stored is the newest run's, or one already raised.      *)
SupersededTold == store \in {0, started} \cup stopped

Inv == TypeOK /\ Prepared /\ Unborn /\ SupersededTold /\ ProgressHasRun

-----------------------------------------------------------------------------

(* Entries move from one queue to the other unharmed.                      *)
LEMMA QueueTypes ==
    ASSUME TypeOK
    PROVE  /\ tx # <<>> => Head(tx) \in Command /\ Tail(tx) \in Seq(Command)
           /\ rx # <<>> => Head(rx) \in Entry /\ Tail(rx) \in Seq(Entry)
           /\ \A c \in Command : Append(tx, c) \in Seq(Command)
           /\ \A e \in Entry : Append(rx, e) \in Seq(Entry)
  BY HeadTailProperties, AppendProperties DEF TypeOK

(* Raising the stored flag raises that of a run.                           *)
LEMMA SignalType ==
    ASSUME TypeOK
    PROVE  SignalledExisting \subseteq Runs
  BY CalibrationAssumption DEF TypeOK, SignalledExisting, Runs

(* A run goes from phase to phase.                                         *)
LEMMA GotoType ==
    ASSUME TypeOK, NEW r \in Runs, NEW p \in Phases, Goto(r, p)
    PROVE  /\ phase' \in [Runs -> Phases]
           /\ phase'[r] = p
           /\ \A q \in Runs \ {r} : phase'[q] = phase[q]
  BY DEF TypeOK, Goto

(* The steps of clients, the bus and the worker keep the types.            *)
LEMMA PortType ==
    ASSUME Inv,
           \/ \E kind \in RequestKinds : Request(Plain(kind))
           \/ \E m \in Motors : Report(m)
           \/ Port
    PROVE  TypeOK'
<1>. TypeOK /\ Prepared
  BY DEF Inv
<1>. USE CalibrationAssumption DEF TypeOK, vars, portVars, runVars, watchVars
<1>1. ASSUME NEW kind \in RequestKinds, Request(Plain(kind)) PROVE TypeOK'
  <2>1. Plain(kind) \in Command
    BY DEF Plain, Command
  <2>2. tx' \in Seq(Command) /\ requests' \in 0 .. MaxRequests
    BY <1>1, <2>1, QueueTypes DEF Request
  <2>3. QED
    BY <1>1, <2>2 DEF Request
<1>2. ASSUME NEW m \in Motors, Report(m) PROVE TypeOK'
  <2>1. [kind |-> "state", motor |-> m] \in Entry
    BY DEF Entry
  <2>2. rx' \in Seq(Entry)
    BY <1>2, <2>1, QueueTypes DEF Report
  <2>3. QED
    BY <1>2, <2>2 DEF Report
<1>3. CASE Forward
  <2>1. Head(tx) \in Command /\ Head(tx).kind # "auto"
    BY <1>3, QueueTypes DEF Forward
  <2>2. Head(tx) \in Entry
    BY <2>1 DEF Command, Entry
  <2>3. tx' \in Seq(Command) /\ rx' \in Seq(Entry)
    BY <1>3, <2>2, QueueTypes DEF Forward
  <2>4. QED
    BY <1>3, <2>3 DEF Forward
<1>4. CASE FindRobot
  <2>1. tx' \in Seq(Command)
    BY <1>4, QueueTypes DEF FindRobot
  <2>2. QED
    BY <1>4, <2>1 DEF FindRobot
<1>5. CASE SpawnRun
  <2>1. started' \in 0 .. MaxRuns /\ stopped' \subseteq Runs
    BY <1>5, SignalType DEF SpawnRun, Prepared
  <2>2. phase' \in [Runs -> Phases]
    BY <1>5 DEF SpawnRun, Phases
  <2>3. QED
    BY <1>5, <2>1, <2>2 DEF SpawnRun
<1>6. CASE StoreFlag
  BY <1>6 DEF StoreFlag
<1>7. QED
  BY <1>1, <1>2, <1>3, <1>4, <1>5, <1>6 DEF Port

(* The steps of a run keep the types.                                      *)
LEMMA RunType ==
    ASSUME Inv, NEW r \in Runs, Run(r)
    PROVE  TypeOK'
<1>. TypeOK
  BY DEF Inv
<1>. USE DEF TypeOK, vars, portVars, runVars, watchVars, Phases
<1>1. CASE NextStep(r) \/ StepFails(r)
  <2>1. phase' \in [Runs -> Phases]
    BY <1>1 DEF NextStep, StepFails, Goto
  <2>2. QED
    BY <1>1, <2>1 DEF NextStep, StepFails
<1>2. CASE ResetBounds(r) \/ Begin(r) \/ NoticeStop(r) \/ ReportStopped(r) \/ Mark(r) \/ ClearFlag(r)
  <2>1. phase' \in [Runs -> Phases]
    BY <1>2 DEF ResetBounds, Begin, NoticeStop, ReportStopped, Mark, ClearFlag, Goto
  <2>2. QED
    BY <1>2, <2>1, CalibrationAssumption
       DEF ResetBounds, Begin, NoticeStop, ReportStopped, Mark, ClearFlag
<1>3. CASE Save(r)
  <2>1. [kind |-> "freeze", arcs |-> Motors] \in Command
    BY DEF Command
  <2>2. tx' \in Seq(Command)
    BY <1>3, <2>1, QueueTypes DEF Save
  <2>3. phase' \in [Runs -> Phases]
    BY <1>3 DEF Save, Goto
  <2>4. QED
    BY <1>3, <2>2, <2>3 DEF Save
<1>4. QED
  BY <1>1, <1>2, <1>3 DEF Run, Proceed

(* The steps of the watcher keep the types.                                *)
LEMMA WatcherType ==
    ASSUME Inv, Watcher
    PROVE  TypeOK'
<1>. TypeOK
  BY DEF Inv
<1>. USE CalibrationAssumption DEF TypeOK, vars, portVars, runVars, watchVars
<1>1. CASE WatchReset \/ WatchStop
  <2>1. stopped' \subseteq Runs /\ rx' \in Seq(Entry)
    BY <1>1, SignalType, QueueTypes DEF WatchReset, WatchStop, Reads
  <2>2. QED
    BY <1>1, <2>1 DEF WatchReset, WatchStop
<1>2. CASE Wipe \/ Release \/ Hide \/ DropFlag
  BY <1>2 DEF Wipe, Release, Hide, DropFlag
<1>3. CASE WatchFreeze
  <2>1. rx' \in Seq(Entry)
    BY <1>3, QueueTypes DEF WatchFreeze, Reads
  <2>2. \A S : Frozen(S) \in [Motors -> {"none", "tracked", "frozen"}]
    BY DEF Frozen
  <2>3. bounds' \in [Motors -> {"none", "tracked", "frozen"}]
    BY <1>3, <2>2 DEF WatchFreeze
  <2>4. QED
    BY <1>3, <2>1, <2>3 DEF WatchFreeze
<1>4. CASE WatchState
  <2>1. rx' \in Seq(Entry) /\ Head(rx) \in Entry /\ Head(rx).kind = "state"
    BY <1>4, QueueTypes DEF WatchState, Reads
  <2>2. Head(rx).motor \in Motors
    BY <2>1 DEF Entry
  <2>3. QED
    BY <1>4, <2>1, <2>2 DEF WatchState
<1>5. QED
  BY <1>1, <1>2, <1>3, <1>4 DEF Watcher

(* Every step keeps the types.                                             *)
LEMMA TypeStep ==
    ASSUME Inv, [Next]_vars
    PROVE  TypeOK'
<1>1. CASE Next
  BY <1>1, PortType, RunType, WatcherType DEF Next
<1>2. CASE UNCHANGED vars
  BY <1>2 DEF Inv, TypeOK, vars, portVars, runVars, watchVars
<1>3. QED
  BY <1>1, <1>2

(* What a step does to the stored flag, to the worker and to the raised    *)
(* flags: besides the worker itself, steps only raise flags and drop the   *)
(* stored one.                                                             *)
LEMMA FlagFrame ==
    ASSUME [Next]_vars, ~FindRobot, ~SpawnRun, ~StoreFlag
    PROVE  /\ UNCHANGED <<port, started>>
           /\ store' \in {store, 0}
           /\ stopped \subseteq stopped'
<1>. USE DEF vars, portVars, runVars, watchVars
<1>1. ASSUME NEW kind \in RequestKinds, Request(Plain(kind))
      PROVE  UNCHANGED <<port, started, store, stopped>>
  BY <1>1 DEF Request
<1>2. ASSUME NEW m \in Motors, Report(m) PROVE UNCHANGED <<port, started, store, stopped>>
  BY <1>2 DEF Report
<1>3. ASSUME NEW r \in Runs, Run(r)
      PROVE  UNCHANGED <<port, started, stopped>> /\ store' \in {store, 0}
  BY <1>3 DEF Run, Proceed, NextStep, StepFails, ResetBounds, Begin, NoticeStop, ReportStopped,
     Save, Mark, ClearFlag
<1>4. CASE Watcher
  BY <1>4 DEF Watcher, WatchReset, Wipe, WatchFreeze, Release, Hide, WatchStop, DropFlag,
     WatchState, SignalledExisting
<1>5. CASE Forward
  BY <1>5 DEF Forward
<1>6. CASE UNCHANGED vars
  BY <1>6
<1>7. QED
  BY <1>1, <1>2, <1>3, <1>4, <1>5, <1>6 DEF Next, Port

(* Every step keeps the stored flag that of the newest run or a raised one, *)
(* and the flag about to be replaced raised.                               *)
LEMMA FlagStep ==
    ASSUME Inv, [Next]_vars
    PROVE  (Prepared /\ SupersededTold)'
<1>. Prepared /\ SupersededTold
  BY DEF Inv
<1>. USE DEF Prepared, SupersededTold
<1>1. CASE FindRobot
  BY <1>1 DEF FindRobot
<1>2. CASE SpawnRun
  BY <1>2 DEF SpawnRun, SignalledExisting
<1>3. CASE StoreFlag
  BY <1>3 DEF StoreFlag
<1>4. CASE ~FindRobot /\ ~SpawnRun /\ ~StoreFlag
  BY <1>4, FlagFrame
<1>5. QED
  BY <1>1, <1>2, <1>3, <1>4

(* Every step leaves the runs not yet started alone.                       *)
LEMMA UnbornStep ==
    ASSUME Inv, [Next]_vars
    PROVE  Unborn'
<1>. TypeOK /\ Unborn /\ started \in Nat
  BY CalibrationAssumption DEF Inv, TypeOK
<1>. USE DEF Unborn
<1>1. ASSUME NEW r \in Runs, Run(r) PROVE Unborn'
  <2>1. phase[r] # "none" /\ UNCHANGED started /\ \A q \in Runs \ {r} : phase'[q] = phase[q]
    BY <1>1 DEF Run, Proceed, NextStep, StepFails, ResetBounds, Begin, NoticeStop, ReportStopped,
       Save, Mark, ClearFlag, Goto, TypeOK, runVars, portVars
  <2>2. QED
    BY <2>1
<1>2. CASE SpawnRun
  BY <1>2, CalibrationAssumption DEF SpawnRun, TypeOK, Runs
<1>3. CASE UNCHANGED <<phase, started>>
  BY <1>3
<1>4. CASE Watcher
  BY <1>3, <1>4 DEF Watcher, WatchReset, Wipe, WatchFreeze, Release, Hide, WatchStop, DropFlag,
     WatchState, runVars, portVars
<1>5. CASE Forward \/ FindRobot \/ StoreFlag
  BY <1>3, <1>5 DEF Forward, FindRobot, StoreFlag, runVars
<1>6. ASSUME NEW kind \in RequestKinds, Request(Plain(kind)) PROVE Unborn'
  BY <1>3, <1>6 DEF Request, runVars
<1>7. ASSUME NEW m \in Motors, Report(m) PROVE Unborn'
  BY <1>3, <1>7 DEF Report, runVars, portVars
<1>8. CASE UNCHANGED vars
  BY <1>3, <1>8 DEF vars, runVars, portVars
<1>9. QED
  BY <1>1, <1>2, <1>4, <1>5, <1>6, <1>7, <1>8 DEF Next, Port

(* Every step that leaves a run without a last word to come publishes      *)
(* something else than InProgress.                                         *)
LEMMA ProgressStep ==
    ASSUME Inv, [Next]_vars
    PROVE  ProgressHasRun'
<1>. TypeOK /\ ProgressHasRun /\ Prepared /\ Unborn
  BY DEF Inv
<1>. USE DEF ProgressHasRun
<1>1. CASE UNCHANGED <<phase, status>>
  BY <1>1
<1>2. ASSUME NEW r \in Runs, Run(r) PROVE ProgressHasRun'
  <2>1. CASE NextStep(r) \/ Begin(r)
    <3>1. phase'[r] \in Underway
      BY <2>1 DEF NextStep, Begin, Goto, runVars, TypeOK, Underway
    <3>2. QED
      BY <3>1
  <2>2. CASE ResetBounds(r) \/ StepFails(r) \/ NoticeStop(r) \/ Save(r) \/ ClearFlag(r)
    <3>1. UNCHANGED status
      BY <2>2 DEF ResetBounds, StepFails, NoticeStop, Save, ClearFlag
    <3>2. \A q \in Runs : phase[q] \in Underway => phase'[q] \in Underway
      BY <2>2 DEF ResetBounds, StepFails, NoticeStop, Save, ClearFlag, Goto, TypeOK, Underway
    <3>3. QED
      BY <3>1, <3>2
  <2>3. CASE ReportStopped(r) \/ Mark(r)
    BY <2>3 DEF ReportStopped, Mark
  <2>4. QED
    BY <1>2, <2>1, <2>2, <2>3 DEF Run, Proceed
<1>3. CASE SpawnRun
  <2>1. \A q \in Runs : phase[q] \in Underway => phase'[q] = phase[q]
    BY <1>3, CalibrationAssumption DEF SpawnRun, TypeOK, Unborn, Underway, Runs
  <2>2. QED
    BY <1>3, <2>1 DEF SpawnRun
<1>4. CASE Watcher
  BY <1>4 DEF Watcher, WatchReset, Wipe, WatchFreeze, Release, Hide, WatchStop, DropFlag,
     WatchState, runVars
<1>5. CASE Forward \/ FindRobot \/ StoreFlag
  BY <1>1, <1>5 DEF Forward, FindRobot, StoreFlag, runVars
<1>6. ASSUME NEW kind \in RequestKinds, Request(Plain(kind)) PROVE ProgressHasRun'
  BY <1>1, <1>6 DEF Request, runVars
<1>7. ASSUME NEW m \in Motors, Report(m) PROVE ProgressHasRun'
  BY <1>1, <1>7 DEF Report, runVars
<1>8. CASE UNCHANGED vars
  BY <1>1, <1>8 DEF vars, runVars
<1>9. QED
  BY <1>2, <1>3, <1>4, <1>5, <1>6, <1>7, <1>8 DEF Next, Port

-----------------------------------------------------------------------------

(* The inductive invariant, on which the other theorems rest.              *)
THEOREM CalibrationInvariant == Spec => []Inv
<1>1. Init => Inv
  <2>. SUFFICES ASSUME Init PROVE Inv
    OBVIOUS
  <2>. freezed \in BOOLEAN
    BY Zenon DEF Init
  <2>1. TypeOK
    BY CalibrationAssumption, EmptySeq DEF Init, TypeOK, Phases
  <2>2. Prepared /\ Unborn /\ SupersededTold /\ ProgressHasRun
    BY DEF Init, Prepared, Unborn, SupersededTold, ProgressHasRun
  <2>3. QED
    BY <2>1, <2>2 DEF Inv
<1>2. Inv /\ [Next]_vars => Inv'
  BY TypeStep, FlagStep, UnbornStep, ProgressStep DEF Inv
<1>3. QED
  BY <1>1, <1>2, PTL DEF Spec

(* In every reachable state the variables have their types.                *)
THEOREM CalibrationTypes == Spec => []TypeOK
<1>1. Inv => TypeOK
  BY DEF Inv
<1>2. QED
  BY <1>1, CalibrationInvariant, PTL

(* However the runs of a bus overlap, fail and are stopped, the bus is     *)
(* never left published as being calibrated when no run will say more.     *)
THEOREM ProgressCorrect == Spec => []ProgressHasRun
<1>1. Inv => ProgressHasRun
  BY DEF Inv
<1>2. QED
  BY <1>1, CalibrationInvariant, PTL

(* A signal is only ever new to the newest run: whatever flag a stop, a    *)
(* reset or a start finds, a superseded run had been told before.          *)
THEOREM StopCorrect == Spec => SignalsHitNewest
<1>1. Inv /\ [Next]_vars => [stopped' \ stopped \subseteq {started}]_vars
  <2>. SUFFICES ASSUME Inv, [Next]_vars PROVE stopped' \ stopped \subseteq {started}
    OBVIOUS
  <2>. SupersededTold
    BY DEF Inv
  <2>. USE DEF vars, portVars, runVars, watchVars
  <2>1. CASE stopped' = SignalledExisting
    BY <2>1 DEF SignalledExisting, SupersededTold
  <2>2. CASE UNCHANGED stopped
    BY <2>2
  <2>3. CASE Port
    BY <2>1, <2>2, <2>3 DEF Port, Forward, FindRobot, SpawnRun, StoreFlag
  <2>4. CASE Watcher
    BY <2>1, <2>2, <2>4 DEF Watcher, WatchReset, Wipe, WatchFreeze, Release, Hide, WatchStop,
       DropFlag, WatchState
  <2>5. ASSUME NEW r \in Runs, Run(r) PROVE UNCHANGED stopped
    BY <2>5 DEF Run, Proceed, NextStep, StepFails, ResetBounds, Begin, NoticeStop, ReportStopped,
       Save, Mark, ClearFlag
  <2>6. CASE (\E kind \in RequestKinds : Request(Plain(kind))) \/ (\E m \in Motors : Report(m))
    BY <2>2, <2>6 DEF Request, Report
  <2>7. CASE UNCHANGED vars
    BY <2>2, <2>7
  <2>8. QED
    BY <2>2, <2>3, <2>4, <2>5, <2>6, <2>7 DEF Next
<1>2. QED
  BY <1>1, CalibrationInvariant, PTL DEF Spec, SignalsHitNewest

(* Neither spawning a run nor storing its flag puts a run that drives the  *)
(* motors out of the reach of a stop command.                              *)
THEOREM StartCorrect == Spec => StartOrphansNobody
<1>1. Inv /\ [Next]_vars => [port # port' => \A r \in Runs : Orphan(r)' => Orphan(r)]_vars
  <2>. SUFFICES ASSUME Inv, [Next]_vars, port # port', NEW r \in Runs, Orphan(r)'
                PROVE  Orphan(r)
    OBVIOUS
  <2>. TypeOK /\ Prepared
    BY DEF Inv
  <2>. USE DEF Orphan, Alive
  <2>1. CASE FindRobot
    BY <2>1 DEF FindRobot, runVars
  <2>2. CASE SpawnRun
    <3>1. r # started + 1
      BY <2>2 DEF SpawnRun
    <3>2. phase'[r] = phase[r]
      BY <2>2, <3>1 DEF SpawnRun, TypeOK
    <3>3. QED
      BY <2>2, <3>2 DEF SpawnRun, SignalledExisting
  <2>3. CASE StoreFlag
    <3>1. r # started /\ r \notin stopped /\ r # 0 /\ UNCHANGED phase
      BY <2>3, CalibrationAssumption DEF StoreFlag, runVars, Runs
    <3>2. r # store
      BY <2>3, <3>1 DEF StoreFlag, Prepared
    <3>3. QED
      BY <2>3, <3>1, <3>2 DEF StoreFlag
  <2>4. QED
    BY <2>1, <2>2, <2>3, FlagFrame
<1>2. QED
  BY <1>1, CalibrationInvariant, PTL DEF Spec, StartOrphansNobody

=============================================================================
