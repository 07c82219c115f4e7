------------------------------- MODULE BusDriver -------------------------------
(***************************************************************************)
(* The ST3215 driver (driver.rs) and the state of all buses it publishes   *)
(* (state.rs).  A scanner looks for serial ports every second; for a new   *)
(* one it signals the bus as connected, records the port and spawns a task *)
(* that opens and serves it (PortWorker), signals the bus as disconnected  *)
(* and gives the port back.  Every signal goes through send_rx: the rx     *)
(* queue, the table of buses under its write lock, and the published copy  *)
(* of the table under its read lock, in separate critical sections of many *)
(* tasks.                                                                  *)
(*                                                                         *)
(* A bus is the adapter its port was found with.  What a port reports      *)
(* while it is served is abstracted to whether its bus has any motors; of  *)
(* its scans only whether they have found a motor under every id, for then *)
(* nothing is pinged any more and a lost adapter goes unnoticed; of        *)
(* last_inference_queue_ptr only the moment it is written is modelled.     *)
(***************************************************************************)
CONSTANTS
    Ports,     \* the names of serial ports
    Adapters,  \* the USB adapters
    Nameless,  \* those of them without a serial number
    NoAdapter

ASSUME BusAssumption == Nameless \subseteq Adapters /\ NoAdapter \notin Adapters

VARIABLES
    plugged,   \* the adapter behind each port name
    alive,     \* the opened ports whose adapter was not unplugged since
    scan,      \* where the scanner is; from "scanning" on it holds the lock of ports
    found,     \* what it found and has not looked at
    ports,     \* the managed ports
    at,        \* where the life of each port is
    bus,       \* the bus_info it was created with
    step,      \* where its send_rx is
    table,     \* state.buses: what is listed for each port
    copy,      \* the table, encoded by a send_rx under the read lock
    shown,     \* the last table in st3215/inference
    stale,     \* the last attempt to publish was refused
    disturbed, \* the ports that ever failed to open or had a signal refused
    full       \* the served ports whose last_seen_motors holds every id

portVars == <<at, bus>>
stateVars == <<table, shown, stale>>
vars == <<plugged, alive, scan, found, ports, portVars, step, copy, stateVars, disturbed, full>>

Plugs == Adapters \cup {NoAdapter}
Unlisted == [bus |-> NoAdapter, motors |-> FALSE]
Entry == [bus : Plugs, motors : BOOLEAN]
Nowhere == [p \in Ports |-> NoAdapter]
EmptyTable == [p \in Ports |-> Unlisted]

(* The parts of a port's life in which it sends a signal.                  *)
Signals == {"connecting", "serving", "leaving"}

TypeOK ==
    /\ plugged \in [Ports -> Plugs] /\ found \in [Ports -> Plugs] /\ bus \in [Ports -> Plugs]
    /\ alive \subseteq Ports /\ ports \subseteq Ports /\ disturbed \subseteq Ports
    /\ full \subseteq Ports
    /\ scan \in {"idle", "waiting", "scanning"}
    /\ at \in [Ports -> {"free", "opening", "removing"} \cup Signals]
    /\ step \in [Ports -> {"none", "send", "change", "stamp", "read", "enqueue"}]
    /\ table \in [Ports -> Entry] /\ shown \in [Ports -> Entry]
    /\ copy \in [Ports -> [Ports -> Entry]]
    /\ stale \in BOOLEAN
    /\ \A p \in Ports :
           /\ at[p] \in {"free", "connecting"} <=> p \notin ports
           /\ step[p] # "none" => at[p] \in Signals
           /\ at[p] = "connecting" => scan = "scanning"
           /\ p \in full => at[p] = "serving"

Init ==
    /\ plugged \in [Ports -> Plugs]
    /\ \A p, q \in Ports : plugged[p] = plugged[q] /\ plugged[p] # NoAdapter => p = q
    /\ alive = {} /\ scan = "idle" /\ found = Nowhere /\ ports = {}
    /\ at = [p \in Ports |-> "free"] /\ bus = Nowhere
    /\ step = [p \in Ports |-> "none"] /\ copy = [p \in Ports |-> EmptyTable]
    /\ table = EmptyTable /\ shown = EmptyTable /\ stale = FALSE
    /\ disturbed = {} /\ full = {}

-----------------------------------------------------------------------------
(***************************************************************************)
(* Adapters come and go, under any port name.                              *)
(***************************************************************************)

Plug(p, a) ==
    /\ plugged[p] = NoAdapter /\ \A q \in Ports : plugged[q] # a
    /\ plugged' = [plugged EXCEPT ![p] = a]
    /\ UNCHANGED <<alive, scan, found, ports, portVars, step, copy, stateVars, disturbed, full>>

Unplug(p) ==
    /\ plugged[p] # NoAdapter
    /\ plugged' = [plugged EXCEPT ![p] = NoAdapter]
    /\ alive' = alive \ {p}
    /\ UNCHANGED <<scan, found, ports, portVars, step, copy, stateVars, disturbed, full>>

-----------------------------------------------------------------------------
(***************************************************************************)
(* send_rx, for the signal that the port's place in its life calls for.    *)
(***************************************************************************)

(* A refused envelope changes nothing; the caller only logs it.            *)
Send(p) ==
    /\ step[p] = "send"
    /\ \/ step' = [step EXCEPT ![p] = IF bus[p] \in Nameless THEN "none" ELSE "change"]
          /\ UNCHANGED disturbed
       \/ step' = [step EXCEPT ![p] = "none"]
          /\ disturbed' = disturbed \cup {p}
    /\ UNCHANGED <<plugged, alive, scan, found, ports, portVars, copy, stateVars, full>>

(* Mutant: the read lock is given up before the copy is enqueued.          *)
WritableAlways == TRUE

(* parking_lot's RwLock: readers keep writers out.                         *)
Writable == \A q \in Ports : step[q] # "enqueue"

(* A port that is listed already keeps its entry; a report finds the entry *)
(* of its port or is dropped, and may add the first motor or remove the    *)
(* last one.                                                               *)
Changed(p, motors) ==
    CASE at[p] = "connecting" /\ table[p].bus = NoAdapter ->
             [bus |-> bus[p], motors |-> FALSE]
      [] at[p] = "serving" /\ table[p].bus # NoAdapter -> [table[p] EXCEPT !.motors = motors]
      [] at[p] = "leaving" -> Unlisted
      [] OTHER -> table[p]

Change(p) ==
    /\ step[p] = "change" /\ Writable
    /\ \E motors \in BOOLEAN : table' = [table EXCEPT ![p] = Changed(p, motors)]
    /\ step' = [step EXCEPT ![p] = "stamp"]
    /\ UNCHANGED <<plugged, alive, scan, found, ports, portVars, copy, shown, stale, disturbed, full>>

(* The write lock again, for last_inference_queue_ptr.                     *)
Stamp(p) ==
    /\ step[p] = "stamp" /\ Writable
    /\ step' = [step EXCEPT ![p] = "read"]
    /\ UNCHANGED <<plugged, alive, scan, found, ports, portVars, copy, stateVars, disturbed, full>>

Read(p) ==
    /\ step[p] = "read"
    /\ step' = [step EXCEPT ![p] = "enqueue"]
    /\ copy' = [copy EXCEPT ![p] = table]
    /\ UNCHANGED <<plugged, alive, scan, found, ports, portVars, stateVars, disturbed, full>>

(* The copy is enqueued with the read lock still held.                     *)
Enqueue(p) ==
    /\ step[p] = "enqueue"
    /\ step' = [step EXCEPT ![p] = "none"]
    /\ copy' = [copy EXCEPT ![p] = EmptyTable]
    /\ \/ shown' = copy[p] /\ stale' = FALSE
       \/ stale' = TRUE /\ UNCHANGED shown
    /\ UNCHANGED <<plugged, alive, scan, found, ports, portVars, table, disturbed, full>>

SendStep(p) == Send(p) \/ Change(p) \/ Stamp(p) \/ Read(p) \/ Enqueue(p)

-----------------------------------------------------------------------------
(***************************************************************************)
(* The scanner.                                                            *)
(***************************************************************************)

(* available_ports(), before the lock of ports is taken.                   *)
Look ==
    /\ scan = "idle"
    /\ scan' = "waiting"
    /\ found' = plugged
    /\ UNCHANGED <<plugged, alive, ports, portVars, step, copy, stateVars, disturbed, full>>

(* The lock is fair: it goes to the tasks that wait for it first.          *)
Lock ==
    /\ scan = "waiting" /\ \A p \in Ports : at[p] # "removing"
    /\ scan' = "scanning"
    /\ UNCHANGED <<plugged, alive, found, ports, portVars, step, copy, stateVars, disturbed, full>>

Busy == \E p \in Ports : at[p] = "connecting"

(* A managed port is left alone, and so is one whose St3215Port::new fails.*)
PassOver(p) ==
    /\ scan = "scanning" /\ ~Busy /\ found[p] # NoAdapter
    /\ found' = [found EXCEPT ![p] = NoAdapter]
    /\ UNCHANGED <<plugged, alive, scan, ports, portVars, step, copy, stateVars, disturbed, full>>

(* Mutant: a port is taken although it is managed.                         *)
ConnectAgain(p) ==
    /\ scan = "scanning" /\ ~Busy /\ found[p] # NoAdapter
    /\ at' = [at EXCEPT ![p] = "connecting"]
    /\ bus' = [bus EXCEPT ![p] = found[p]]
    /\ step' = [step EXCEPT ![p] = "send"]
    /\ found' = [found EXCEPT ![p] = NoAdapter]
    /\ UNCHANGED <<plugged, alive, scan, ports, copy, stateVars, disturbed, full>>

Connect(p) ==
    /\ scan = "scanning" /\ ~Busy /\ found[p] # NoAdapter /\ p \notin ports
    /\ at' = [at EXCEPT ![p] = "connecting"]
    /\ bus' = [bus EXCEPT ![p] = found[p]]
    /\ step' = [step EXCEPT ![p] = "send"]
    /\ found' = [found EXCEPT ![p] = NoAdapter]
    /\ UNCHANGED <<plugged, alive, scan, ports, copy, stateVars, disturbed, full>>

Manage(p) ==
    /\ at[p] = "connecting" /\ step[p] = "none"
    /\ at' = [at EXCEPT ![p] = "opening"]
    /\ ports' = ports \cup {p}
    /\ UNCHANGED <<plugged, alive, scan, found, bus, step, copy, stateVars, disturbed, full>>

Finish ==
    /\ scan = "scanning" /\ ~Busy /\ found = Nowhere
    /\ scan' = "idle"
    /\ UNCHANGED <<plugged, alive, found, ports, portVars, step, copy, stateVars, disturbed, full>>

Scanner ==
    \/ Look \/ Lock \/ Finish
    \/ \E p \in Ports : PassOver(p) \/ Connect(p) \/ Manage(p)

-----------------------------------------------------------------------------
(***************************************************************************)
(* The task of a port.                                                     *)
(***************************************************************************)

OpenOk(p) ==
    /\ at[p] = "opening" /\ plugged[p] # NoAdapter
    /\ at' = [at EXCEPT ![p] = "serving"]
    /\ alive' = alive \cup {p}
    /\ UNCHANGED <<plugged, scan, found, ports, bus, step, copy, stateVars, disturbed, full>>

(* No disconnect is signalled for a port that does not open.               *)
OpenFails(p) ==
    /\ at[p] = "opening"
    /\ at' = [at EXCEPT ![p] = "removing"]
    /\ disturbed' = disturbed \cup {p}
    /\ UNCHANGED <<plugged, alive, scan, found, ports, bus, step, copy, stateVars, full>>

(* The worker of the port reports a motor.                                 *)
Report(p) ==
    /\ at[p] = "serving" /\ step[p] = "none" /\ p \in alive
    /\ step' = [step EXCEPT ![p] = "send"]
    /\ UNCHANGED <<plugged, alive, scan, found, ports, portVars, copy, stateVars, disturbed, full>>

(* A search finds a motor under the last id that was left to ping.  A scan *)
(* drops no motor again (PortWorkerProofs, GraceNeverExpires).             *)
Fill(p) ==
    /\ at[p] = "serving" /\ step[p] = "none" /\ p \in alive \ full
    /\ full' = full \cup {p}
    /\ UNCHANGED <<plugged, alive, scan, found, ports, portVars, step, copy, stateVars, disturbed>>

(* The adapter is gone: the worker ends at its next ping or at a command,  *)
(* and open returns.                                                       *)
ServeEnds(p) ==
    /\ at[p] = "serving" /\ step[p] = "none" /\ p \notin alive
    /\ at' = [at EXCEPT ![p] = "leaving"]
    /\ step' = [step EXCEPT ![p] = "send"]
    /\ full' = full \ {p}
    /\ UNCHANGED <<plugged, alive, scan, found, ports, bus, copy, stateVars, disturbed>>

(* ... or on a garbled reply, or when the rx queue refuses an envelope.    *)
Abandon(p) ==
    /\ at[p] = "serving" /\ step[p] = "none" /\ p \in alive
    /\ at' = [at EXCEPT ![p] = "leaving"]
    /\ step' = [step EXCEPT ![p] = "send"]
    /\ alive' = alive \ {p}
    /\ full' = full \ {p}
    /\ UNCHANGED <<plugged, scan, found, ports, bus, copy, stateVars, disturbed>>

(* Mutant: the port is given back without a word.                          *)
LeftUnsaid(p) ==
    /\ at[p] = "leaving" /\ step[p] = "send"
    /\ step' = [step EXCEPT ![p] = "none"]
    /\ at' = [at EXCEPT ![p] = "removing"]
    /\ UNCHANGED <<plugged, alive, scan, found, ports, bus, copy, stateVars, disturbed, full>>

Left(p) ==
    /\ at[p] = "leaving" /\ step[p] = "none"
    /\ at' = [at EXCEPT ![p] = "removing"]
    /\ UNCHANGED <<plugged, alive, scan, found, ports, bus, step, copy, stateVars, disturbed, full>>

(* Mutant: the port stays managed.                                         *)
RemoveNothing(p) ==
    /\ at[p] = "removing" /\ scan # "scanning"
    /\ at' = [at EXCEPT ![p] = "removing"]
    /\ UNCHANGED <<plugged, alive, scan, found, ports, bus, step, copy, stateVars, disturbed, full>>

Remove(p) ==
    /\ at[p] = "removing" /\ scan # "scanning"
    /\ at' = [at EXCEPT ![p] = "free"]
    /\ ports' = ports \ {p}
    /\ UNCHANGED <<plugged, alive, scan, found, bus, step, copy, stateVars, disturbed, full>>

Task(p) == OpenOk(p) \/ OpenFails(p) \/ ServeEnds(p) \/ Left(p)

(* What a task does without waiting for anybody: on a full bus only a      *)
(* command, which may never come, lets the worker see that its adapter is  *)
(* gone.                                                                   *)
TaskProceeds(p) == OpenOk(p) \/ OpenFails(p) \/ Left(p) \/ (p \notin full /\ ServeEnds(p))

Next ==
    \/ Scanner
    \/ \E p \in Ports :
          \/ SendStep(p) \/ Task(p) \/ Report(p) \/ Fill(p) \/ Abandon(p) \/ Remove(p)
          \/ Unplug(p)
          \/ \E a \in Adapters : Plug(p, a)

Spec == Init /\ [][Next]_vars

(* The tasks and the scanner run, the write lock is not starved by         *)
(* readers, and an adapter that stays plugged in is created in one of the   *)
(* scans and opened in one of the attempts.                                *)
Fairness ==
    /\ WF_vars(Scanner)
    /\ \A p \in Ports :
          /\ WF_vars(SendStep(p)) /\ WF_vars(TaskProceeds(p)) /\ WF_vars(Remove(p))
          /\ SF_vars(Change(p) \/ Stamp(p))
          /\ SF_vars(Connect(p)) /\ SF_vars(OpenOk(p))

FairSpec == Spec /\ Fairness

-----------------------------------------------------------------------------
(***************************************************************************)
(* Properties.                                                             *)
(***************************************************************************)

(* The published table is the table, except while a change of it is on its *)
(* way or the queue refused the last one: of two tasks that publish at the *)
(* same time none can leave an older table behind (state.rs:335-347).      *)
PublishedCatchesUp ==
    shown # table => stale \/ \E p \in Ports : step[p] \in {"stamp", "read", "enqueue"}

(* Unless a signal of it was refused or it did not open, a port is listed, *)
(* as the adapter it serves, from before it is opened until after it is    *)
(* closed, and not listed when it is given back.                           *)
ListingFollowsService ==
    \A p \in Ports \ disturbed :
        /\ at[p] \in {"opening", "serving"} /\ bus[p] \notin Nameless => table[p].bus = bus[p]
        /\ at[p] \in {"free", "removing"} => table[p] = Unlisted

(* A bus that has a motor under every id and whose adapter is gone: its    *)
(* worker notices nothing until a command comes.                           *)
Unnoticed(p) == p \in full \ alive

(* An adapter that stays plugged in is served, again and again when its    *)
(* worker ends, whatever happened to its port before -- unless the port    *)
(* stays with the worker of a full bus that lost its adapter.              *)
PluggedGetsServed ==
    \A p \in Ports :
        <>[](plugged[p] # NoAdapter) => []<>(at[p] = "serving" /\ p \in alive) \/ <>[]Unnoticed(p)

(* A port whose adapter is gone for good is given back, with the same      *)
(* exception.                                                              *)
UnpluggedGetsReleased ==
    \A p \in Ports :
        <>[](plugged[p] = NoAdapter) => <>[](p \notin ports) \/ <>[]Unnoticed(p)

=============================================================================
