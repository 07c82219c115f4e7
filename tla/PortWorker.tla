----------------------------- MODULE PortWorker -----------------------------
(***************************************************************************)
(* One ST3215 serial port: the worker task of St3215Port (port.rs), the    *)
(* queue subscription that feeds it commands from another thread, and the  *)
(* part of ST3215BusCommunicator (state.rs) that keeps the published table *)
(* of motors.  The servo bus is the environment: motors come and go, the   *)
(* adapter can be unplugged, and a reply may be good, a servo error, late  *)
(* or garbled.                                                             *)
(*                                                                         *)
(* A command is identified by its position in the st3215/tx queue.  The    *)
(* code between two awaits of the worker is one action; what the other     *)
(* thread can see in between (command_waiting, the channel) is split.      *)
(* EEPROM contents are abstracted to the id of the command that last       *)
(* changed them (0: as found); ids are changed by plain writes, as the     *)
(* clients do.  Time is counted in units of 100 ms.  An elapsed() is an    *)
(* age; the code only asks whether it reached a threshold, at which the    *)
(* model stops counting.                                                   *)
(***************************************************************************)
EXTENDS Integers, Sequences

CONSTANTS
    Motors,        \* the ids 1..MAX_MOTORS_CNT that a search pings
    Attached,      \* the ids a motor may ever answer to in this instance
    BROADCAST_ID,  \* the id under which a sync_write is reported
    Kinds,         \* the command kinds that clients use
    MaxCmds,       \* bound: commands issued to this port
    GRACE,         \* DISCONNECT_GRACE_MS
    SEARCH_DELAY,  \* NO_COMMAND_SEARCH_DELAY_MS
    SEARCH_GAP     \* MIN_TIME_BETWEEN_SEARCHES_MS

UnicastKinds == {"write", "write_eeprom", "write_id", "reg_write", "action", "reset"}
SyncKinds == {"sync_write", "sync_write_eeprom"}
AllKinds == UnicastKinds \cup SyncKinds \cup {"calibrate", "other"}

ASSUME PortAssumption ==
    /\ BROADCAST_ID \notin Motors
    /\ Attached \subseteq Motors
    /\ Kinds \subseteq AllKinds
    /\ MaxCmds \in Nat
    /\ GRACE \in Nat /\ SEARCH_DELAY \in Nat /\ SEARCH_GAP \in Nat

VARIABLES
    issued,          \* st3215/tx: every command addressed to this port
    sub,             \* the subscription callback: idle, flagged or closed
    commandWaiting,  \* command_waiting
    cmdChan,         \* the unbounded command channel, as command ids
    pc,              \* where the worker is
    cur,             \* the last command received, 0 before the first
    outcome,         \* what process_command returned
    rx,              \* st3215/rx, the envelopes that carry a command
    lastSeen,        \* last_seen_motors
    missingSince,    \* missing_since, as ages
    seen, toScan,    \* currently_seen_motors and the motors left to read
    toPing, found,   \* the ids left to ping and new_motors
    searching,       \* search_for_new
    sinceCommand,    \* last_command_time.elapsed()
    sinceSearch,     \* last_search_time.elapsed()
    cache,           \* eeprom_cache
    listed,          \* motors of the bus in the published InferenceState
    lastCommand,     \* their last_command
    adapter,         \* the USB adapter is plugged in
    online,          \* ids that a motor answers to
    eeprom,          \* EEPROM contents of the motor with this id
    staged           \* its reg_write not yet triggered by action, 0 if none

chanVars  == <<issued, sub, commandWaiting, cmdChan>>
scanVars  == <<lastSeen, missingSince, seen, toScan, toPing, found, searching>>
timeVars  == <<sinceCommand, sinceSearch>>
tableVars == <<listed, lastCommand>>
busVars   == <<adapter, online, eeprom, staged>>
vars == <<chanVars, pc, cur, outcome, rx, scanVars, timeVars, cache, tableVars, busVars>>

-----------------------------------------------------------------------------

(* What the port promises: see CommandService.                             *)
Service == INSTANCE CommandService WITH accepted <- Len(issued), open <- (pc # "exited")
ResultSignals == Service!ResultSignals

Cmd == [kind : AllKinds, targets : SUBSET Motors]
Ids == Motors \cup {BROADCAST_ID}
CmdIds == 0 .. MaxCmds
NoCache == -1
NotMissing == -1
PCs == {"select", "received", "process", "finish", "scan", "search", "announce", "exited"}
Outcomes == {"ok", "rejected", "servo", "timeout", "fatal"}
Results == ResultSignals \cup {"none", "processing"}
NoCommand == [cmd |-> 0, result |-> "none"]

(* A command names one motor, several (sync_write), or none: a calibration *)
(* command has motor id 0, which the table ignores.                        *)
WellFormed(c) ==
    /\ c.kind \in Kinds
    /\ \/ c.kind \in UnicastKinds /\ \E m \in Motors : c.targets = {m}
       \/ c.kind \in SyncKinds /\ c.targets # {}
       \/ c.kind \in {"calibrate", "other"} /\ c.targets = {}

(* The id an error of this command is reported under.                      *)
MotorId(c) == IF c.kind \in SyncKinds THEN {BROADCAST_ID} ELSE c.targets

CommandTypeOK ==
    /\ issued \in Seq(Cmd) /\ Len(issued) <= MaxCmds
    /\ sub \in {"idle", "flagged", "closed"}
    /\ commandWaiting \in BOOLEAN
    /\ cmdChan \in Seq(CmdIds)
    /\ pc \in PCs
    /\ cur \in 0 .. Len(issued)
    /\ pc \in {"received", "process", "finish"} => cur > 0
    /\ outcome \in Outcomes
    /\ rx \in Seq([cmd : CmdIds, signal : ResultSignals \cup {"command"}])

ScanTypeOK ==
    /\ lastSeen \subseteq Motors /\ seen \subseteq Motors
    /\ toScan \subseteq Motors /\ toPing \subseteq Motors /\ found \subseteq Motors
    /\ pc = "search" => toPing \cap seen = {}
    /\ missingSince \in [Motors -> {NotMissing} \cup 0 .. GRACE]
    /\ searching \in BOOLEAN
    /\ sinceCommand \in 0 .. SEARCH_DELAY
    /\ sinceSearch \in 0 .. SEARCH_GAP

TableTypeOK ==
    /\ cache \in [Motors -> {NoCache} \cup CmdIds]
    /\ listed \subseteq Ids
    /\ lastCommand \in [Ids -> [cmd : CmdIds, result : Results]]

BusTypeOK ==
    /\ adapter \in BOOLEAN
    /\ online \subseteq Motors
    /\ eeprom \in [Motors -> CmdIds]
    /\ staged \in [Motors -> CmdIds]

TypeOK == CommandTypeOK /\ ScanTypeOK /\ TableTypeOK /\ BusTypeOK

Init ==
    /\ issued = <<>> /\ sub = "idle" /\ commandWaiting = FALSE /\ cmdChan = <<>>
    /\ pc = "select" /\ cur = 0 /\ outcome = "ok" /\ rx = <<>>
    /\ lastSeen = {} /\ seen = {} /\ toScan = {} /\ toPing = {} /\ found = {}
    /\ missingSince = [m \in Motors |-> NotMissing]
    /\ searching = FALSE
    /\ sinceCommand = 0 /\ sinceSearch = 0
    /\ cache = [m \in Motors |-> NoCache]
    /\ listed = {} /\ lastCommand = [m \in Ids |-> NoCommand]
    /\ adapter = TRUE /\ online = Attached
    /\ eeprom = [m \in Motors |-> 0] /\ staged = [m \in Motors |-> 0]

-----------------------------------------------------------------------------
(***************************************************************************)
(* The subscription callback, on a thread of the queue engine.             *)
(***************************************************************************)

(* A command for this bus arrives: the callback raises the flag ...        *)
Notify(c) ==
    /\ sub = "idle"
    /\ Len(issued) < MaxCmds
    /\ issued' = Append(issued, c)
    /\ commandWaiting' = TRUE
    /\ sub' = "flagged"
    /\ UNCHANGED <<cmdChan, pc, cur, outcome, rx, scanVars, timeVars, cache, tableVars, busVars>>

(* ... and then sends it.  Once the worker has gone the send fails and the *)
(* callback ends its subscription.                                         *)
Deliver ==
    /\ sub = "flagged"
    /\ IF pc = "exited"
       THEN sub' = "closed" /\ UNCHANGED cmdChan
       ELSE sub' = "idle" /\ cmdChan' = Append(cmdChan, Len(issued))
    /\ UNCHANGED <<issued, commandWaiting, pc, cur, outcome, rx, scanVars, timeVars, cache,
                   tableVars, busVars>>

(* open() sees the worker's end and unsubscribes.                          *)
Unsubscribe ==
    /\ pc = "exited"
    /\ sub = "idle"
    /\ sub' = "closed"
    /\ UNCHANGED <<issued, commandWaiting, cmdChan, pc, cur, outcome, rx, scanVars, timeVars,
                   cache, tableVars, busVars>>

-----------------------------------------------------------------------------
(***************************************************************************)
(* The published table (state.rs).                                         *)
(***************************************************************************)

(* update_command_result: only motors already in the table show a command. *)
ShowCommand(table, result) ==
    [m \in Ids |-> IF m \in table \cap issued[cur].targets
                   THEN [cmd |-> cur, result |-> result]
                   ELSE lastCommand[m]]

(* update_motor_state: a state or an error envelope of any id creates its  *)
(* entry.                                                                  *)
Upsert(S) == listed' = listed \cup S

(* remove_motor_state, for several motors.                                 *)
Forget(commands, S) == [m \in Ids |-> IF m \in S THEN NoCommand ELSE commands[m]]

-----------------------------------------------------------------------------
(***************************************************************************)
(* The worker: commands.                                                   *)
(***************************************************************************)

ReceiveNewestCommand ==
    /\ pc = "select"
    /\ cmdChan # <<>>
    /\ cur' = cmdChan[Len(cmdChan)]
    /\ cmdChan' = SubSeq(cmdChan, 1, Len(cmdChan) - 1)
    /\ pc' = "received"
    /\ UNCHANGED <<issued, sub, commandWaiting, outcome, rx, scanVars, timeVars, cache,
                   tableVars, busVars>>

ReceiveCommand ==
    /\ pc = "select"
    /\ cmdChan # <<>>
    /\ cur' = Head(cmdChan)
    /\ cmdChan' = Tail(cmdChan)
    /\ pc' = "received"
    /\ UNCHANGED <<issued, sub, commandWaiting, outcome, rx, scanVars, timeVars, cache,
                   tableVars, busVars>>

InvalidatedTargetsOnly(c) == IF c.kind \in {"calibrate", "reset"} THEN c.targets ELSE {}

(* The motors whose cached EEPROM a command may change.                    *)
Invalidated(c) ==
    CASE c.kind = "calibrate"            -> Motors
      [] c.kind \in {"reset", "reg_write"} -> c.targets
      [] OTHER                           -> {}

HandleCommandKeepsFlag ==
    /\ pc = "received"
    /\ sinceCommand' = 0
    /\ rx' = Append(rx, [cmd |-> cur, signal |-> "command"])
    /\ lastCommand' = ShowCommand(listed, "processing")
    /\ cache' = [m \in Motors |-> IF m \in Invalidated(issued[cur]) THEN NoCache ELSE cache[m]]
    /\ pc' = "process"
    /\ UNCHANGED <<chanVars, cur, outcome, scanVars, sinceSearch, listed, busVars>>

HandleCommand ==
    /\ pc = "received"
    /\ commandWaiting' = FALSE
    /\ sinceCommand' = 0
    /\ rx' = Append(rx, [cmd |-> cur, signal |-> "command"])
    /\ lastCommand' = ShowCommand(listed, "processing")
    /\ cache' = [m \in Motors |-> IF m \in Invalidated(issued[cur]) THEN NoCache ELSE cache[m]]
    /\ pc' = "process"
    /\ UNCHANGED <<issued, sub, cmdChan, cur, outcome, scanVars, sinceSearch, listed, busVars>>

(* What one request to a motor does there when it gets through.            *)
ApplyTo(m, kind) ==
    CASE kind \in {"write_eeprom", "reset"} ->
             /\ eeprom' = [eeprom EXCEPT ![m] = cur]
             /\ UNCHANGED <<online, staged>>
      [] kind = "write_id" ->
             \E n \in Attached \ online :
                 /\ online' = (online \ {m}) \cup {n}
                 /\ eeprom' = [eeprom EXCEPT ![n] = cur]
                 /\ staged' = [staged EXCEPT ![n] = 0]
      [] kind = "reg_write" ->
             /\ staged' = [staged EXCEPT ![m] = cur]
             /\ UNCHANGED <<online, eeprom>>
      [] kind = "action" /\ staged[m] # 0 ->
             /\ eeprom' = [eeprom EXCEPT ![m] = cur]
             /\ staged' = [staged EXCEPT ![m] = 0]
             /\ UNCHANGED online
      [] OTHER -> UNCHANGED <<online, eeprom, staged>>

(* A single request: it may take effect although no good reply comes back. *)
(* A wrong checksum, id or length is as fatal to the worker as I/O errors. *)
ProcessUnicast(m) ==
    /\ issued[cur].kind \in UnicastKinds
    /\ m \in issued[cur].targets
    /\ \E res \in {"ok", "servo", "timeout", "fatal"}, applied \in BOOLEAN :
        /\ res \in {"ok", "servo"} => adapter /\ m \in online
        /\ ~adapter => res = "fatal"
        /\ res = "ok" => applied
        /\ applied => adapter /\ m \in online
        /\ outcome' = res
        /\ IF applied
           THEN ApplyTo(m, issued[cur].kind) /\ UNCHANGED adapter
           ELSE UNCHANGED busVars

(* sync_write is written and never acknowledged: any of the motors it names *)
(* may have taken it, whatever its address, and whether or not the write    *)
(* was reported as complete.                                                *)
ProcessSyncWrite ==
    /\ issued[cur].kind \in SyncKinds
    /\ outcome' \in IF adapter THEN {"ok", "timeout", "fatal"} ELSE {"fatal"}
    /\ \E S \in SUBSET (issued[cur].targets \cap online) :
        /\ ~adapter \/ issued[cur].kind = "sync_write" => S = {}
        /\ eeprom' = [m \in Motors |-> IF m \in S THEN cur ELSE eeprom[m]]
    /\ UNCHANGED <<adapter, online, staged>>

(* A calibration goes over all motors, swallows their errors, and is       *)
(* rejected if any write could not be verified.                            *)
ProcessCalibration ==
    /\ issued[cur].kind = "calibrate"
    /\ outcome' \in {"ok", "rejected"}
    /\ \E S \in SUBSET online :
        /\ ~adapter => S = {}
        /\ eeprom' = [m \in Motors |-> IF m \in S THEN cur ELSE eeprom[m]]
    /\ UNCHANGED <<adapter, online, staged>>

ProcessOther ==
    /\ issued[cur].kind = "other"
    /\ outcome' = "ok"
    /\ UNCHANGED busVars

ProcessCommand ==
    /\ pc = "process"
    /\ \/ \E m \in Motors : ProcessUnicast(m)
       \/ ProcessSyncWrite
       \/ ProcessCalibration
       \/ ProcessOther
    /\ pc' = "finish"
    /\ UNCHANGED <<chanVars, cur, rx, scanVars, timeVars, cache, tableVars>>

(* After a write to the ID register the old id leaves table and cache; the *)
(* scan's last_seen_motors still holds it.                                 *)
OldIds(c) == IF c.kind = "write_id" THEN c.targets ELSE {}

Answer(signal) == rx' = Append(rx, [cmd |-> cur, signal |-> signal])

(* The worker is back at its select!, the outcome consumed.                *)
Idle == pc' = "select" /\ outcome' = "ok"

FinishOk ==
    /\ pc = "finish"
    /\ outcome \in {"ok", "rejected"}
    /\ LET old    == OldIds(issued[cur])
           result == IF outcome = "ok" THEN "success" ELSE "rejected"
       IN  /\ Answer(result)
           /\ lastCommand' = Forget(ShowCommand(listed, result), old)
           /\ listed' = listed \ old
           /\ cache' = [m \in Motors |-> IF m \in old THEN NoCache ELSE cache[m]]
    /\ Idle
    /\ UNCHANGED <<chanVars, cur, scanVars, timeVars, busVars>>

FinishErrorUnanswered ==
    /\ pc = "finish"
    /\ outcome \in {"servo", "timeout"}
    /\ listed' = listed \cup MotorId(issued[cur])
    /\ Idle
    /\ UNCHANGED <<chanVars, cur, rx, scanVars, timeVars, lastCommand, cache, busVars>>

(* The error envelope first (it creates the motor's entry if need be), the *)
(* result next, then drain and carry on, the old id cleared all the same.  *)
FinishError ==
    /\ pc = "finish"
    /\ outcome \in {"servo", "timeout"}
    /\ LET old   == OldIds(issued[cur])
           table == listed \cup MotorId(issued[cur])
       IN  /\ Answer("failed")
           /\ lastCommand' = Forget(ShowCommand(table, "failed"), old)
           /\ listed' = table \ old
           /\ cache' = [m \in Motors |-> IF m \in old THEN NoCache ELSE cache[m]]
    /\ Idle
    /\ UNCHANGED <<chanVars, cur, scanVars, timeVars, busVars>>

(* Any other error is answered too, and then ends the worker.              *)
FinishFatal ==
    /\ pc = "finish"
    /\ outcome = "fatal"
    /\ LET table == listed \cup MotorId(issued[cur])
       IN  /\ lastCommand' = ShowCommand(table, "failed")
           /\ listed' = table
    /\ Answer("failed")
    /\ pc' = "exited"
    /\ UNCHANGED <<chanVars, cur, outcome, scanVars, timeVars, cache, busVars>>

-----------------------------------------------------------------------------
(***************************************************************************)
(* The worker: one scan of the motors seen last.                           *)
(***************************************************************************)

BeginScan ==
    /\ pc = "select"
    /\ ~commandWaiting
    /\ searching' = (sinceCommand >= SEARCH_DELAY /\ sinceSearch >= SEARCH_GAP)
    /\ sinceSearch' = IF searching' THEN 0 ELSE sinceSearch
    /\ toScan' = lastSeen
    /\ pc' = "scan"
    /\ UNCHANGED <<chanVars, cur, outcome, rx, lastSeen, missingSince, seen, toPing, found,
                   sinceCommand, cache, tableVars, busVars>>

(* scan_motors returns: its locals are gone.                               *)
ReturnFromScan ==
    /\ seen' = {} /\ toScan' = {} /\ toPing' = {} /\ found' = {} /\ searching' = FALSE
    /\ pc' = "select"

(* A command that arrives during a scan ends it: what it saw is dropped.   *)
PreemptScan ==
    /\ pc = "scan"
    /\ toScan # {}
    /\ commandWaiting
    /\ ReturnFromScan
    /\ UNCHANGED <<chanVars, cur, outcome, rx, lastSeen, missingSince, timeVars, cache, tableVars,
                   busVars>>

NextToRead(m) ==
    /\ pc = "scan"
    /\ ~commandWaiting
    /\ m \in toScan
    /\ toScan' = toScan \ {m}
    /\ UNCHANGED <<chanVars, pc, cur, outcome, rx, lastSeen, missingSince, toPing, found,
                   searching, timeVars, lastCommand, busVars>>

(* A motor without cached EEPROM is read in full, and what was read of its *)
(* EEPROM is cached.                                                       *)
ReadOk(m) ==
    /\ NextToRead(m)
    /\ adapter /\ m \in online
    /\ seen' = seen \cup {m}
    /\ cache' = [cache EXCEPT ![m] = IF cache[m] = NoCache THEN eeprom[m] ELSE cache[m]]
    /\ Upsert({m})

(* A servo error still is an answer, but nothing is cached from it.        *)
ReadServoError(m) ==
    /\ NextToRead(m)
    /\ adapter /\ m \in online
    /\ seen' = seen \cup {m}
    /\ Upsert({m})
    /\ UNCHANGED cache

ReadFailed(m) ==
    /\ NextToRead(m)
    /\ Upsert({m})
    /\ UNCHANGED <<seen, cache>>

(* The end of the scan.  A missed motor gets a timestamp (age 0) if it has *)
(* none, and is dropped once that is GRACE old; every other missed motor   *)
(* is put back into currently_seen_motors, and then the timestamps of all  *)
(* the motors in currently_seen_motors are removed.                        *)
FirstMissed(m) == IF missingSince[m] = NotMissing THEN 0 ELSE missingSince[m]
Evicted == {m \in lastSeen \ seen : FirstMissed(m) >= GRACE}
KeptSeenOnly == seen
Kept == seen \cup (lastSeen \ Evicted)

(* A search leaves the motors alone that it is told to ignore.  The mutant *)
(* pings every id.                                                         *)
EveryId == Motors
Searched == Motors \ Kept

EndScan ==
    /\ pc = "scan"
    /\ toScan = {}
    /\ missingSince' = [m \in Motors |-> IF m \in Kept \cup Evicted THEN NotMissing
                                         ELSE missingSince[m]]
    /\ cache' = [m \in Motors |-> IF m \in Evicted THEN NoCache ELSE cache[m]]
    /\ listed' = listed \ Evicted
    /\ lastCommand' = Forget(lastCommand, Evicted)
    /\ \/ /\ ~searching
          /\ lastSeen' = Kept
          /\ ReturnFromScan
       \/ /\ searching /\ commandWaiting
          /\ ReturnFromScan
          /\ UNCHANGED lastSeen
       \/ /\ searching /\ ~commandWaiting
          /\ seen' = Kept
          /\ toPing' = Searched
          /\ pc' = "search"
          /\ UNCHANGED <<lastSeen, toScan, found, searching>>
    /\ UNCHANGED <<chanVars, cur, outcome, rx, timeVars, busVars>>

-----------------------------------------------------------------------------
(***************************************************************************)
(* The worker: the search for new motors.                                  *)
(***************************************************************************)

NextToPing(m) ==
    /\ pc = "search"
    /\ ~commandWaiting
    /\ m \in toPing
    /\ toPing' = toPing \ {m}
    /\ UNCHANGED <<chanVars, cur, outcome, rx, lastSeen, missingSince, seen, toScan, searching,
                   timeVars, cache, lastCommand, busVars>>

(* A servo error counts as found, and is reported first.                   *)
PingFound(m) ==
    /\ NextToPing(m)
    /\ adapter /\ m \in online
    /\ found' = found \cup {m}
    /\ (UNCHANGED listed \/ Upsert({m}))
    /\ UNCHANGED pc

PingSilent(m) ==
    /\ NextToPing(m)
    /\ adapter
    /\ UNCHANGED <<pc, found, listed>>

(* A bad or foreign reply is reported under the id that was pinged.        *)
PingGarbled(m) ==
    /\ NextToPing(m)
    /\ adapter /\ online # {}
    /\ Upsert({m})
    /\ UNCHANGED <<pc, found>>

PingIoErrorIgnored(m) ==
    /\ NextToPing(m)
    /\ adapter => online # {}
    /\ UNCHANGED <<pc, found, listed>>

(* An I/O error (a reply cut short counts as one) ends the worker.         *)
PingIoError(m) ==
    /\ NextToPing(m)
    /\ adapter => online # {}
    /\ pc' = "exited"
    /\ UNCHANGED <<found, listed>>

EndPing ==
    /\ pc = "search"
    /\ toPing = {} \/ commandWaiting
    /\ pc' = "announce"
    /\ UNCHANGED <<chanVars, cur, outcome, rx, scanVars, timeVars, cache, tableVars, busVars>>

(* DriveConnect does not touch the table.                                  *)
Announce(m) ==
    /\ pc = "announce"
    /\ ~commandWaiting
    /\ m \in found
    /\ seen' = seen \cup {m}
    /\ found' = found \ {m}
    /\ UNCHANGED <<chanVars, pc, cur, outcome, rx, lastSeen, missingSince, toScan, toPing,
                   searching, timeVars, cache, tableVars, busVars>>

EndSearchForgets ==
    /\ pc = "announce"
    /\ found = {} \/ commandWaiting
    /\ ReturnFromScan
    /\ UNCHANGED <<chanVars, cur, outcome, rx, lastSeen, missingSince, timeVars, cache, tableVars,
                   busVars>>

EndSearch ==
    /\ pc = "announce"
    /\ found = {} \/ commandWaiting
    /\ lastSeen' = seen
    /\ ReturnFromScan
    /\ UNCHANGED <<chanVars, cur, outcome, rx, missingSince, timeVars, cache, tableVars, busVars>>

(* The rx queue refuses an envelope: the worker leaves its loop.           *)
RxEnqueueFails ==
    /\ pc \in {"received", "finish", "scan", "announce"}
    /\ commandWaiting' = (commandWaiting /\ pc # "received")
    /\ pc' = "exited"
    /\ UNCHANGED <<issued, sub, cmdChan, cur, outcome, rx, scanVars, timeVars, cache, tableVars,
                   busVars>>

-----------------------------------------------------------------------------
(***************************************************************************)
(* The environment: time, the adapter, the motors.  Nothing looks at it    *)
(* any more once the worker has ended.                                     *)
(***************************************************************************)

(* The cap is TLC's bound: at the limit every comparison has its last say. *)
Older(age, limit) == IF age < limit THEN age + 1 ELSE age

Elapse ==
    /\ pc # "exited"
    /\ sinceCommand' = Older(sinceCommand, SEARCH_DELAY)
    /\ sinceSearch' = Older(sinceSearch, SEARCH_GAP)
    /\ missingSince' = [m \in Motors |-> IF missingSince[m] = NotMissing THEN NotMissing
                                         ELSE Older(missingSince[m], GRACE)]
    /\ UNCHANGED <<chanVars, pc, cur, outcome, rx, lastSeen, seen, toScan, toPing, found,
                   searching, cache, tableVars, busVars>>

Plug(m) ==
    /\ pc # "exited"
    /\ m \in Attached \ online
    /\ online' = online \cup {m}
    /\ UNCHANGED <<chanVars, pc, cur, outcome, rx, scanVars, timeVars, cache, tableVars,
                   adapter, eeprom, staged>>

(* A motor that loses power loses a staged reg_write, not its EEPROM.      *)
Unplug(m) ==
    /\ pc # "exited"
    /\ m \in online
    /\ online' = online \ {m}
    /\ staged' = [staged EXCEPT ![m] = 0]
    /\ UNCHANGED <<chanVars, pc, cur, outcome, rx, scanVars, timeVars, cache, tableVars,
                   adapter, eeprom>>

AdapterLost ==
    /\ pc # "exited"
    /\ adapter
    /\ adapter' = FALSE
    /\ UNCHANGED <<chanVars, pc, cur, outcome, rx, scanVars, timeVars, cache, tableVars,
                   online, eeprom, staged>>

-----------------------------------------------------------------------------

Callback == Deliver \/ Unsubscribe

ReadMotor(m) == ReadOk(m) \/ ReadServoError(m) \/ ReadFailed(m)
PingMotor(m) == PingFound(m) \/ PingSilent(m) \/ PingGarbled(m) \/ PingIoError(m)

HandleOne == HandleCommand \/ ProcessCommand \/ FinishOk \/ FinishError \/ FinishFatal

ScanStep ==
    \/ PreemptScan
    \/ EndScan
    \/ EndPing
    \/ EndSearch
    \/ \E m \in Motors : ReadMotor(m) \/ PingMotor(m) \/ Announce(m)

Worker == ReceiveCommand \/ HandleOne \/ BeginScan \/ ScanStep

Environment == AdapterLost \/ RxEnqueueFails \/ \E m \in Motors : Plug(m) \/ Unplug(m)

Next ==
    \/ \E c \in Cmd : WellFormed(c) /\ Notify(c)
    \/ Callback
    \/ Worker
    \/ Elapse
    \/ Environment

Spec == Init /\ [][Next]_vars

(* The worker and the callback keep running; select! picks at random among *)
(* ready branches, so neither the channel nor the ticks are starved; a     *)
(* motor that stays on the bus answers some of the pings it is sent.       *)
Fairness ==
    /\ WF_vars(Callback)
    /\ WF_vars(HandleOne \/ ScanStep)
    /\ SF_vars(ReceiveCommand)
    /\ SF_vars(BeginScan)
    /\ WF_vars(Elapse)
    /\ \A m \in Motors : SF_vars(PingFound(m))

FairSpec == Spec /\ Fairness

-----------------------------------------------------------------------------
(***************************************************************************)
(* Safety.                                                                 *)
(***************************************************************************)

(* While the worker lives, command_waiting is up only if a command is on   *)
(* its way to it: raised and being sent, in the channel, or just received. *)
(* Otherwise every tick would be skipped and every scan cut short for      *)
(* good: the callback must raise the flag before it sends, and the worker  *)
(* must lower it after it received.                                        *)
FlagMeansCommand ==
    pc # "exited" /\ commandWaiting =>
        sub = "flagged" \/ cmdChan # <<>> \/ pc = "received"

(* The rx queue answers the commands of the tx queue in their order, each  *)
(* with one Command envelope and then exactly one result, none skipped.    *)
AnsweredInOrder ==
    \A k \in 1 .. Len(issued), i \in 1 .. Len(rx) :
        /\ i = 2 * k - 1 => rx[i] = [cmd |-> k, signal |-> "command"]
        /\ i = 2 * k     => rx[i].cmd = k /\ rx[i].signal \in ResultSignals

(* No motor is left showing a command as processing once the worker has    *)
(* gone on: on every path the result reaches the same entries as the       *)
(* Command envelope did.                                                   *)
NothingLeftProcessing ==
    \A m \in Ids : lastCommand[m].result = "processing" =>
        pc \in {"process", "finish", "exited"} /\ lastCommand[m].cmd = cur

(* Cached EEPROM that differs from the motor's can only be the work of the *)
(* commands that never invalidate it: a plain write, a sync_write, an      *)
(* action, an id change.  reset and the calibrations leave no stale entry  *)
(* behind, whether or not they succeed.                                    *)
CacheBypass == {"write_eeprom", "sync_write_eeprom", "write_id", "action"}
CacheStaleOnlyByBypass ==
    \A m \in Motors : cache[m] \notin {NoCache, eeprom[m]} =>
        eeprom[m] # 0 /\ issued[eeprom[m]].kind \in CacheBypass

(* A motor is dropped from last_seen_motors only after it was missed for   *)
(* the whole grace window: neither a transient failure nor a scan or a     *)
(* search that a command cut short loses a motor.                          *)
DroppedOnlyAfterGrace ==
    [][\A m \in lastSeen \ lastSeen' : missingSince[m] >= GRACE]_vars

-----------------------------------------------------------------------------
(***************************************************************************)
(* Liveness.                                                               *)
(***************************************************************************)

(* The worker implements CommandService: no command of the queue is lost,  *)
(* taken twice or overtaken, and each is answered unless the worker ends.  *)
ImplementsService == Service!Spec
AnswersEveryCommand == Service!LiveSpec

(* A motor that stays on the bus gets scanned, unless the worker ends.     *)
MotorGetsSeen ==
    \A m \in Motors : <>[](m \in online) => []<>(m \in lastSeen \/ pc = "exited")

(* A lost adapter ends the worker, without which the driver neither        *)
(* reports the bus as disconnected nor opens it again -- as long as there  *)
(* is an id left to ping.  Once every id up to MAX_MOTORS_CNT is in        *)
(* last_seen_motors nothing is pinged, failed reads are swallowed, and     *)
(* only a command to a motor still ends it.                                *)
CommandAhead == \E k \in cur + 1 .. Len(issued) : issued[k].kind \in UnicastKinds \cup SyncKinds
AdapterLossEndsWorker ==
    /\ ~adapter ~> (pc = "exited" \/ lastSeen = Motors)
    /\ (~adapter /\ CommandAhead) ~> pc = "exited"

(* An id that a motor gave up through a write to its ID register, and that *)
(* was cleared from the table for it, is not listed again by a scan while  *)
(* no motor answers to it.                                                 *)
OldIdStaysCleared ==
    [][\A m \in Motors \ online : pc = "scan" /\ m \in listed' \ listed =>
          ~ \E k \in 1 .. cur : /\ issued[k] = [kind |-> "write_id", targets |-> {m}]
                                /\ Len(rx) >= 2 * k /\ rx[2 * k].signal = "success"]_vars

(* A motor that stops answering for good leaves the scan list.             *)
SilentMotorEvicted ==
    \A m \in Motors : <>[](m \notin online) => []<>(m \notin lastSeen \/ pc = "exited")

=============================================================================
