----------------------------- MODULE Calibration -----------------------------
(***************************************************************************)
(* Calibration of one ST3215 bus: the part of the port worker that handles *)
(* the calibration commands (port.rs, auto_calibrate/mod.rs), the tasks of *)
(* the automatic runs it starts (so101.rs, elrobot.rs, calibrator.rs), and *)
(* the watcher that follows the bus in st3215/rx to track ranges, and to   *)
(* freeze, reset and stop (port_meta.rs).  They share three things of the  *)
(* ST3215BusCommunicator (state.rs), each behind its own lock: the stop    *)
(* flag of the bus, the bounds of its motors, and the published status.    *)
(*                                                                         *)
(* A run is identified by its number; run 0 is none.  What a run does to   *)
(* the motors is abstracted to the checks of its stop flag and to how it   *)
(* ends; a set of positions is abstracted to whether it has any, an arc to *)
(* whether it is tracked or frozen.                                        *)
(***************************************************************************)
EXTENDS Integers, Sequences

CONSTANTS
    Motors,       \* the motors of the robot
    RequestKinds, \* the calibration commands that clients use
    MaxRuns,      \* bound: automatic runs started
    MaxRequests,  \* bound: calibration commands from clients
    MaxPending    \* bound: entries of st3215/rx the watcher has not read

ASSUME CalibrationAssumption ==
    /\ RequestKinds \subseteq {"auto", "stop", "reset", "freeze"}
    /\ MaxRuns \in Nat /\ MaxRequests \in Nat /\ MaxPending \in Nat

VARIABLES
    requests,  \* how many commands clients have sent
    tx,        \* the calibration commands the worker has not taken
    port,      \* where the worker is with an auto_calibrate command
    started,   \* how many runs were started
    phase,     \* where the task of each run is
    result,    \* how its calibration sequence ended
    stopped,   \* the runs whose stop_requested flag is up
    store,     \* calibration_stops: the run whose flag it holds
    status,    \* auto_calibration, as published
    rx,        \* what the watcher has not read yet
    watcher,   \* where the watcher is
    freezed,   \* it does not track ranges
    points,    \* the motors in its motor_points
    bounds     \* the bounds of each motor

portVars  == <<requests, tx, port, started>>
runVars   == <<phase, result>>
watchVars == <<rx, watcher, freezed, points>>
vars == <<portVars, runVars, stopped, store, status, watchVars, bounds>>

-----------------------------------------------------------------------------

Runs == 1 .. MaxRuns
Command == [kind : {"auto", "stop", "reset", "freeze"}, arcs : SUBSET Motors]
Entry == [kind : {"stop", "reset", "freeze"}, arcs : SUBSET Motors]
             \cup [kind : {"state"}, motor : Motors]
Phases == {"none", "starting", "started", "working", "disabling", "saving", "marking",
           "clearing", "ended"}
Plain(kind) == [kind |-> kind, arcs |-> {}]

(* A run that may still publish InProgress before its last word.           *)
Underway == {"working", "disabling", "saving", "marking"}
Alive(r) == phase[r] \notin {"none", "clearing", "ended"}

TypeOK ==
    /\ requests \in 0 .. MaxRequests
    /\ tx \in Seq(Command)
    /\ port \in {"idle", "found", "spawned"}
    /\ started \in 0 .. MaxRuns
    /\ phase \in [Runs -> Phases]
    /\ result \in [Runs -> {"ok", "failed"}]
    /\ stopped \subseteq Runs
    /\ store \in 0 .. MaxRuns
    /\ status \in {"none", "InProgress", "Done", "Failed", "Stopped"}
    /\ rx \in Seq(Entry)
    /\ watcher \in {"reading", "wipe", "release", "hide", "drop", "panicked", "gone"}
    /\ freezed \in BOOLEAN
    /\ points \subseteq Motors
    /\ bounds \in [Motors -> {"none", "tracked", "frozen"}]

(* A bus without calibration records in st3215/meta.                       *)
Init ==
    /\ requests = 0 /\ tx = <<>> /\ port = "idle" /\ started = 0
    /\ phase = [r \in Runs |-> "none"] /\ result = [r \in Runs |-> "ok"]
    /\ stopped = {} /\ store = 0 /\ status = "none"
    /\ rx = <<>> /\ watcher = "reading" /\ freezed = FALSE /\ points = {}
    /\ bounds = [m \in Motors |-> "none"]

-----------------------------------------------------------------------------
(***************************************************************************)
(* Clients and the bus.                                                    *)
(***************************************************************************)

Request(command) ==
    /\ requests < MaxRequests
    /\ requests' = requests + 1
    /\ tx' = Append(tx, command)
    /\ UNCHANGED <<port, started, runVars, stopped, store, status, watchVars, bounds>>

(* A scan of the worker reports a motor.                                   *)
Report(m) ==
    /\ Len(rx) < MaxPending
    /\ rx' = Append(rx, [kind |-> "state", motor |-> m])
    /\ UNCHANGED <<portVars, runVars, stopped, store, status, watcher, freezed, points, bounds>>

-----------------------------------------------------------------------------
(***************************************************************************)
(* The port worker, one command at a time.                                 *)
(***************************************************************************)

(* Stop, reset and freeze reach the watcher as CommandSuccess; reset and   *)
(* freeze may be rejected instead.                                         *)
Forward ==
    /\ port = "idle" /\ tx # <<>> /\ Head(tx).kind # "auto"
    /\ tx' = Tail(tx)
    /\ \/ rx' = Append(rx, Head(tx))
       \/ Head(tx).kind # "stop" /\ UNCHANGED rx
    /\ UNCHANGED <<requests, port, started, runVars, stopped, store, status, watcher, freezed,
                   points, bounds>>

(* auto_calibrate: nothing happens unless a known robot answers the pings. *)
FindRobot ==
    /\ port = "idle" /\ tx # <<>> /\ Head(tx).kind = "auto"
    /\ tx' = Tail(tx)
    /\ port' \in IF started < MaxRuns THEN {"idle", "found"} ELSE {"idle"}
    /\ UNCHANGED <<requests, started, runVars, stopped, store, status, watchVars, bounds>>

SignalledNone == stopped
SignalledUnchecked == stopped \cup {store}
SignalledExisting == stopped \cup ({store} \ {0})

(* Mutant: the run whose flag is stored is not told.                       *)
SpawnRunUntold ==
    /\ port = "found"
    /\ started' = started + 1
    /\ phase' = [phase EXCEPT ![started + 1] = "starting"]
    /\ port' = "spawned"
    /\ UNCHANGED <<requests, tx, result, stopped, store, status, watchVars, bounds>>

(* The run whose flag is stored is told to stop, the new run is spawned... *)
SpawnRun ==
    /\ port = "found"
    /\ stopped' = SignalledExisting
    /\ started' = started + 1
    /\ phase' = [phase EXCEPT ![started + 1] = "starting"]
    /\ port' = "spawned"
    /\ UNCHANGED <<requests, tx, result, store, status, watchVars, bounds>>

(* ... and its flag stored in place of the old one.                        *)
StoreFlag ==
    /\ port = "spawned"
    /\ store' = started
    /\ port' = "idle"
    /\ UNCHANGED <<requests, tx, started, runVars, stopped, status, watchVars, bounds>>

-----------------------------------------------------------------------------
(***************************************************************************)
(* The task of a run.                                                      *)
(***************************************************************************)

Goto(r, p) == phase' = [phase EXCEPT ![r] = p]

ResetBounds(r) ==
    /\ phase[r] = "starting"
    /\ bounds' = [m \in Motors |-> "none"]
    /\ Goto(r, "started")
    /\ UNCHANGED <<portVars, result, stopped, store, status, watchVars>>

Begin(r) ==
    /\ phase[r] = "started"
    /\ status' = "InProgress"
    /\ Goto(r, "working")
    /\ UNCHANGED <<portVars, result, stopped, store, watchVars, bounds>>

(* A step of the sequence, and the last one.                               *)
NextStep(r) ==
    /\ phase[r] = "working"
    /\ r \notin stopped
    /\ status' = "InProgress"
    /\ \/ UNCHANGED runVars
       \/ Goto(r, "saving") /\ result' = [result EXCEPT ![r] = "ok"]
    /\ UNCHANGED <<portVars, stopped, store, watchVars, bounds>>

(* A timeout, a missing motor or a missing bus.                            *)
StepFails(r) ==
    /\ phase[r] = "working"
    /\ Goto(r, "marking")
    /\ result' = [result EXCEPT ![r] = "failed"]
    /\ UNCHANGED <<portVars, stopped, store, status, watchVars, bounds>>

(* check_stop: torque off, which may take until its timeout ...            *)
NoticeStop(r) ==
    /\ phase[r] = "working"
    /\ r \in stopped
    /\ Goto(r, "disabling")
    /\ UNCHANGED <<portVars, result, stopped, store, status, watchVars, bounds>>

ReportStoppedAndGoOn(r) ==
    /\ phase[r] = "disabling"
    /\ status' = "Stopped"
    /\ Goto(r, "working")
    /\ UNCHANGED <<portVars, result, stopped, store, watchVars, bounds>>

(* ... and the sequence ends with an error.                                *)
ReportStopped(r) ==
    /\ phase[r] = "disabling"
    /\ status' = "Stopped"
    /\ Goto(r, "marking")
    /\ result' = [result EXCEPT ![r] = "failed"]
    /\ UNCHANGED <<portVars, stopped, store, watchVars, bounds>>

(* save_calibration: a freeze command with the arcs of all the motors.     *)
Save(r) ==
    /\ phase[r] = "saving"
    /\ Goto(r, "marking")
    /\ \/ tx' = Append(tx, [kind |-> "freeze", arcs |-> Motors]) /\ UNCHANGED result
       \/ result' = [result EXCEPT ![r] = "failed"] /\ UNCHANGED tx
    /\ UNCHANGED <<requests, port, started, stopped, store, status, watchVars, bounds>>

MarkNothing(r) ==
    /\ phase[r] = "marking"
    /\ Goto(r, "clearing")
    /\ UNCHANGED <<portVars, result, stopped, store, status, watchVars, bounds>>

Mark(r) ==
    /\ phase[r] = "marking"
    /\ status' = IF result[r] = "ok" THEN "Done" ELSE "Failed"
    /\ Goto(r, "clearing")
    /\ UNCHANGED <<portVars, result, stopped, store, watchVars, bounds>>

(* The task forgets the flag of the bus, whoever's it is.                  *)
ClearFlag(r) ==
    /\ phase[r] = "clearing"
    /\ store' = 0
    /\ Goto(r, "ended")
    /\ UNCHANGED <<portVars, result, stopped, status, watchVars, bounds>>

-----------------------------------------------------------------------------
(***************************************************************************)
(* The watcher of st3215/rx.                                               *)
(***************************************************************************)

Reads(kind) ==
    /\ watcher = "reading"
    /\ rx # <<>> /\ Head(rx).kind = kind
    /\ rx' = Tail(rx)

(* Reset: stop the run, wipe the bounds, record it, release the flag, hide *)
(* the status.                                                             *)
WatchReset ==
    /\ Reads("reset")
    /\ freezed' = FALSE
    /\ stopped' = SignalledExisting
    /\ watcher' = "wipe"
    /\ UNCHANGED <<portVars, runVars, store, status, points, bounds>>

(* The watcher ends if st3215/meta refuses its record.                     *)
Wipe ==
    /\ watcher = "wipe"
    /\ bounds' = [m \in Motors |-> "none"]
    /\ points' = {}
    /\ watcher' \in {"release", "gone"}
    /\ UNCHANGED <<portVars, runVars, stopped, store, status, rx, freezed>>

Frozen(S) == [m \in Motors |-> IF m \in S THEN "frozen" ELSE bounds[m]]

(* Freeze: with the arcs that came along, or with the bounds of every      *)
(* motor that has points.  A motor without bounds is unwrapped all the     *)
(* same, and the watcher panics.                                           *)
WatchFreeze ==
    /\ Reads("freeze")
    /\ freezed' = TRUE
    /\ LET arcs   == Head(rx).arcs
           chosen == IF arcs # {} THEN arcs ELSE points
       IN  IF arcs = {} /\ \E m \in points : bounds[m] = "none"
           THEN /\ \E S \in SUBSET {m \in points : bounds[m] # "none"} : bounds' = Frozen(S)
                /\ watcher' = "panicked"
                /\ UNCHANGED points
           ELSE /\ bounds' = Frozen(chosen)
                /\ \/ watcher' = "release" /\ points' = {}
                   \/ watcher' = "gone" /\ UNCHANGED points
    /\ UNCHANGED <<portVars, runVars, stopped, store, status>>

Release ==
    /\ watcher = "release"
    /\ store' = 0
    /\ watcher' = "hide"
    /\ UNCHANGED <<portVars, runVars, stopped, status, rx, freezed, points, bounds>>

Hide ==
    /\ watcher = "hide"
    /\ status' = "none"
    /\ watcher' = "reading"
    /\ UNCHANGED <<portVars, runVars, stopped, store, rx, freezed, points, bounds>>

(* Stop: raise the stored flag and then drop it, if there is one.          *)
WatchStop ==
    /\ Reads("stop")
    /\ stopped' = SignalledExisting
    /\ watcher' = IF store = 0 THEN "reading" ELSE "drop"
    /\ UNCHANGED <<portVars, runVars, store, status, freezed, points, bounds>>

DropFlag ==
    /\ watcher = "drop"
    /\ store' = 0
    /\ watcher' = "reading"
    /\ UNCHANGED <<portVars, runVars, stopped, status, rx, freezed, points, bounds>>

(* A motor's state counts only while ranges are tracked, without errors,   *)
(* and at a position not seen before.                                      *)
WatchState ==
    /\ Reads("state")
    /\ LET m == Head(rx).motor
       IN  \/ UNCHANGED <<points, bounds>>
           \/ /\ ~freezed
              /\ points' = points \cup {m}
              /\ bounds' = [bounds EXCEPT ![m] = "tracked"]
    /\ UNCHANGED <<portVars, runVars, stopped, store, status, watcher, freezed>>

-----------------------------------------------------------------------------

Port == Forward \/ FindRobot \/ SpawnRun \/ StoreFlag

(* What a run does in any case, unless its calibration sequence goes on.   *)
Proceed(r) ==
    \/ ResetBounds(r) \/ Begin(r)
    \/ NoticeStop(r) \/ ReportStopped(r)
    \/ Save(r) \/ Mark(r) \/ ClearFlag(r)

Run(r) == NextStep(r) \/ StepFails(r) \/ Proceed(r)

Watcher ==
    \/ WatchReset \/ Wipe
    \/ WatchFreeze
    \/ Release \/ Hide
    \/ WatchStop \/ DropFlag
    \/ WatchState

Next ==
    \/ \E kind \in RequestKinds : Request(Plain(kind))
    \/ \E m \in Motors : Report(m)
    \/ Port
    \/ \E r \in Runs : Run(r)
    \/ Watcher

Spec == Init /\ [][Next]_vars

(* The tasks run on; a working run keeps checking its flag as long as the  *)
(* bus is published, which every scan of the worker does.                  *)
Fairness == \A r \in Runs : WF_vars(Proceed(r))

FairSpec == Spec /\ Fairness

-----------------------------------------------------------------------------
(***************************************************************************)
(* Properties.                                                             *)
(***************************************************************************)

(* A bus published as being calibrated has a run that will still publish   *)
(* how it ended: superseded, stopped and failing runs, whose words arrive  *)
(* in any order, never leave InProgress behind.                            *)
ProgressHasRun == status = "InProgress" => \E r \in Runs : phase[r] \in Underway

(* Whoever raises a flag -- a stop command, a reset, another start -- tells *)
(* the newest run: no signal goes to a run that was superseded without     *)
(* being told, not even in the window in which the new run is at work and  *)
(* the old run's flag still stored.                                        *)
SignalsHitNewest == [][stopped' \ stopped \subseteq {started}]_vars

(* A run that no stop command can reach any more.                          *)
Orphan(r) ==
    /\ Alive(r) /\ r \notin stopped
    /\ r # store
    /\ ~(port = "spawned" /\ r = started)

(* Starting a run never makes an earlier one unreachable: the flag that is *)
(* replaced was raised first.                                              *)
StartOrphansNobody ==
    [][port # port' => \A r \in Runs : Orphan(r)' => Orphan(r)]_vars

(* A run that was told to stop ends.                                       *)
StopEndsRun == \A r \in Runs : r \in stopped ~> phase[r] = "ended"

(* Starting a calibration stops the one in progress: two runs that nobody  *)
(* asked to stop never drive the same motors.                              *)
Driving(r) == phase[r] \in {"starting", "started", "working"}
AtMostOneUnstopped ==
    \A r, q \in Runs : Driving(r) /\ Driving(q) /\ {r, q} \cap stopped = {} => r = q

(* The watcher finds bounds for every motor it has points of, which it     *)
(* unwraps: it never panics over a motor without.                          *)
PointsHaveBounds == watcher # "panicked"

=============================================================================
