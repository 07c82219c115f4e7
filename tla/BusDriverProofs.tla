---------------------------- MODULE BusDriverProofs ----------------------------
(***************************************************************************)
(* Proofs about the driver and the published state, for every set of ports *)
(* and adapters.  Publication rests on the read lock: a copy that waits to *)
(* be enqueued is the table itself.  The listing of a port follows its     *)
(* life signal by signal: Listing says what its entry is at every step.    *)
(***************************************************************************)
EXTENDS BusDriver, TLAPS

CopyIsCurrent == \A p \in Ports : step[p] = "enqueue" => copy[p] = table

(* The steps of a signal that come after the table was changed.            *)
Past == {"stamp", "read", "enqueue", "none"}

Listing ==
    \A p \in Ports \ disturbed :
        /\ at[p] \in {"free", "removing"} \/ bus[p] \in Nameless => table[p] = Unlisted
        /\ at[p] = "connecting" /\ step[p] \notin Past => table[p] = Unlisted
        /\ at[p] = "connecting" /\ step[p] \in Past /\ bus[p] \notin Nameless
               => table[p].bus = bus[p]
        /\ at[p] \in {"opening", "serving"} /\ bus[p] \notin Nameless => table[p].bus = bus[p]
        /\ at[p] = "leaving" /\ step[p] \in Past => table[p] = Unlisted
        /\ step[p] \in {"change", "stamp", "read", "enqueue"} => bus[p] \notin Nameless

Inv == TypeOK /\ CopyIsCurrent /\ PublishedCatchesUp /\ Listing

(* What the list of buses holds for a port is an entry.                    *)
LEMMA UnlistedType == Unlisted \in Entry
  BY DEF Unlisted, Entry, Plugs

LEMMA EmptyType == EmptyTable \in [Ports -> Entry] /\ Nowhere \in [Ports -> Plugs]
  BY UnlistedType DEF EmptyTable, Nowhere, Plugs

(* A signal replaces the entry of its port by an entry.                    *)
LEMMA ChangedType ==
    ASSUME TypeOK, NEW p \in Ports, NEW motors \in BOOLEAN
    PROVE  Changed(p, motors) \in Entry
<1>1. table[p] \in Entry /\ bus[p] \in Plugs
  BY DEF TypeOK
<1>2. [bus |-> bus[p], motors |-> FALSE] \in Entry
  BY <1>1 DEF Entry
<1>3. [table[p] EXCEPT !.motors = motors] \in Entry
  BY <1>1 DEF Entry
<1> QED BY <1>1, <1>2, <1>3, UnlistedType DEF Changed

-----------------------------------------------------------------------------

LEMMA InitInv == Init => Inv
<1> SUFFICES ASSUME Init PROVE Inv
  OBVIOUS
<1>1. TypeOK
  <2>1. stale \in BOOLEAN
    BY Zenon DEF Init
  <2> QED BY <2>1, EmptyType DEF Init, TypeOK, Signals
<1>2. CopyIsCurrent /\ PublishedCatchesUp
  BY DEF Init, CopyIsCurrent, PublishedCatchesUp
<1>3. Listing
  BY BusAssumption DEF Init, Listing, EmptyTable, Nowhere, Past
<1> QED BY <1>1, <1>2, <1>3 DEF Inv

LEMMA TypeStep == TypeOK /\ [Next]_vars => TypeOK'
<1> SUFFICES ASSUME TypeOK, [Next]_vars PROVE TypeOK'
  OBVIOUS
<1> USE DEF TypeOK, Signals, portVars, stateVars
<1>1. ASSUME NEW p \in Ports, Send(p) PROVE TypeOK'
  BY <1>1 DEF Send
<1>2. ASSUME NEW p \in Ports, Change(p) PROVE TypeOK'
  <2>1. \A motors \in BOOLEAN : Changed(p, motors) \in Entry
    BY ChangedType
  <2> QED BY <1>2, <2>1 DEF Change
<1>3. ASSUME NEW p \in Ports, Stamp(p) PROVE TypeOK'
  BY <1>3 DEF Stamp
<1>4. ASSUME NEW p \in Ports, Read(p) PROVE TypeOK'
  BY <1>4 DEF Read
<1>5. ASSUME NEW p \in Ports, Enqueue(p) PROVE TypeOK'
  <2>1. EmptyTable \in [Ports -> Entry]
    BY EmptyType
  <2>2. copy' = [copy EXCEPT ![p] = EmptyTable] /\ step' = [step EXCEPT ![p] = "none"]
    BY <1>5 DEF Enqueue
  <2>3. copy' \in [Ports -> [Ports -> Entry]]
    BY <2>1, <2>2
  <2>4. shown' \in [Ports -> Entry]
    BY <1>5 DEF Enqueue
  <2>5. stale' \in BOOLEAN
    BY <1>5, Zenon DEF Enqueue
  <2>6. UNCHANGED <<plugged, alive, scan, found, ports, at, bus, table, disturbed, full>>
    BY <1>5 DEF Enqueue
  <2> QED BY <2>2, <2>3, <2>4, <2>5, <2>6
<1>6. CASE Look \/ Lock \/ Finish
  BY <1>6 DEF Look, Lock, Finish, Busy
<1>7. ASSUME NEW p \in Ports, PassOver(p) \/ Connect(p) \/ Manage(p) PROVE TypeOK'
  <2>1. CASE PassOver(p)
    BY <2>1 DEF PassOver, Plugs
  <2>2. CASE Connect(p)
    BY <2>2 DEF Connect, Plugs
  <2>3. CASE Manage(p)
    BY <2>3 DEF Manage
  <2> QED BY <1>7, <2>1, <2>2, <2>3
<1>8. ASSUME NEW p \in Ports, Task(p) PROVE TypeOK'
  BY <1>8 DEF Task, OpenOk, OpenFails, ServeEnds, Left
<1>9. ASSUME NEW p \in Ports, Report(p) \/ Fill(p) \/ Abandon(p) \/ Remove(p) PROVE TypeOK'
  BY <1>9 DEF Report, Fill, Abandon, Remove
<1>10. ASSUME NEW p \in Ports, Unplug(p) \/ \E a \in Adapters : Plug(p, a) PROVE TypeOK'
  BY <1>10 DEF Unplug, Plug, Plugs
<1>11. CASE UNCHANGED vars
  BY <1>11 DEF vars
<1> QED
  BY <1>1, <1>2, <1>3, <1>4, <1>5, <1>6, <1>7, <1>8, <1>9, <1>10, <1>11
  DEF Next, Scanner, SendStep

(* Only Change writes the table, and not while a copy waits.               *)
LEMMA CopyStep == TypeOK /\ CopyIsCurrent /\ [Next]_vars => CopyIsCurrent'
<1> SUFFICES ASSUME TypeOK, CopyIsCurrent, [Next]_vars PROVE CopyIsCurrent'
  OBVIOUS
<1> USE DEF TypeOK, CopyIsCurrent, portVars, stateVars
<1>1. ASSUME NEW p \in Ports, Send(p) PROVE CopyIsCurrent'
  BY <1>1 DEF Send
<1>2. ASSUME NEW p \in Ports, Change(p) PROVE CopyIsCurrent'
  BY <1>2 DEF Change, Writable
<1>3. ASSUME NEW p \in Ports, Stamp(p) PROVE CopyIsCurrent'
  BY <1>3 DEF Stamp
<1>4. ASSUME NEW p \in Ports, Read(p) PROVE CopyIsCurrent'
  BY <1>4 DEF Read
<1>5. ASSUME NEW p \in Ports, Enqueue(p) PROVE CopyIsCurrent'
  BY <1>5 DEF Enqueue
<1>6. CASE Scanner
  BY <1>6 DEF Scanner, Look, Lock, Finish, PassOver, Connect, Manage
<1>7. ASSUME NEW p \in Ports, Task(p) \/ Report(p) \/ Fill(p) \/ Abandon(p) \/ Remove(p)
      PROVE CopyIsCurrent'
  BY <1>7 DEF Task, OpenOk, OpenFails, ServeEnds, Left, Report, Fill, Abandon, Remove
<1>8. ASSUME NEW p \in Ports, Unplug(p) \/ \E a \in Adapters : Plug(p, a) PROVE CopyIsCurrent'
  BY <1>8 DEF Unplug, Plug
<1>9. CASE UNCHANGED vars
  BY <1>9 DEF vars
<1> QED BY <1>1, <1>2, <1>3, <1>4, <1>5, <1>6, <1>7, <1>8, <1>9 DEF Next, SendStep

LEMMA PublishedStep ==
    TypeOK /\ CopyIsCurrent /\ PublishedCatchesUp /\ [Next]_vars => PublishedCatchesUp'
<1> SUFFICES ASSUME TypeOK, CopyIsCurrent, PublishedCatchesUp, [Next]_vars
             PROVE  PublishedCatchesUp'
  OBVIOUS
<1> USE DEF TypeOK, PublishedCatchesUp, portVars, stateVars
<1>1. ASSUME NEW p \in Ports, Send(p) PROVE PublishedCatchesUp'
  BY <1>1 DEF Send
<1>2. ASSUME NEW p \in Ports, Change(p) PROVE PublishedCatchesUp'
  BY <1>2 DEF Change
<1>3. ASSUME NEW p \in Ports, Stamp(p) PROVE PublishedCatchesUp'
  BY <1>3 DEF Stamp
<1>4. ASSUME NEW p \in Ports, Read(p) PROVE PublishedCatchesUp'
  BY <1>4 DEF Read
<1>5. ASSUME NEW p \in Ports, Enqueue(p) PROVE PublishedCatchesUp'
  BY <1>5 DEF Enqueue, CopyIsCurrent
<1>6. CASE Scanner
  <2>1. CASE Look \/ Lock \/ Finish
    BY <2>1 DEF Look, Lock, Finish
  <2>2. ASSUME NEW p \in Ports, PassOver(p) PROVE PublishedCatchesUp'
    BY <2>2 DEF PassOver
  <2>3. ASSUME NEW p \in Ports, Connect(p) PROVE PublishedCatchesUp'
    <3>1. step[p] = "none" /\ step' = [step EXCEPT ![p] = "send"]
      BY <2>3 DEF Connect, Busy, Signals
    <3>2. UNCHANGED <<table, shown, stale>>
      BY <2>3 DEF Connect
    <3> QED BY <3>1, <3>2
  <2>4. ASSUME NEW p \in Ports, Manage(p) PROVE PublishedCatchesUp'
    BY <2>4 DEF Manage
  <2> QED BY <1>6, <2>1, <2>2, <2>3, <2>4 DEF Scanner
<1>7. ASSUME NEW p \in Ports, Task(p) \/ Report(p) \/ Fill(p) \/ Abandon(p) \/ Remove(p)
      PROVE PublishedCatchesUp'
  BY <1>7 DEF Task, OpenOk, OpenFails, ServeEnds, Left, Report, Fill, Abandon, Remove
<1>8. ASSUME NEW p \in Ports, Unplug(p) \/ \E a \in Adapters : Plug(p, a)
      PROVE PublishedCatchesUp'
  BY <1>8 DEF Unplug, Plug
<1>9. CASE UNCHANGED vars
  BY <1>9 DEF vars
<1> QED BY <1>1, <1>2, <1>3, <1>4, <1>5, <1>6, <1>7, <1>8, <1>9 DEF Next, SendStep

LEMMA ListingStep == TypeOK /\ Listing /\ [Next]_vars => Listing'
<1> SUFFICES ASSUME TypeOK, Listing, [Next]_vars PROVE Listing'
  OBVIOUS
<1> USE DEF TypeOK, Signals, Listing, Past, portVars, stateVars
<1>1. ASSUME NEW p \in Ports, Send(p) PROVE Listing'
  BY <1>1 DEF Send
<1>2. ASSUME NEW p \in Ports, Change(p) PROVE Listing'
  <2> PICK motors \in BOOLEAN : table' = [table EXCEPT ![p] = Changed(p, motors)]
    BY <1>2 DEF Change
  <2>1. table' = [table EXCEPT ![p] = Changed(p, motors)] /\ step' = [step EXCEPT ![p] = "stamp"]
    BY <1>2 DEF Change
  <2>2. UNCHANGED <<at, bus, disturbed>> /\ step[p] = "change"
    BY <1>2 DEF Change
  <2>3. CASE at[p] = "connecting" /\ p \notin disturbed
    <3>1. Changed(p, motors) = [bus |-> bus[p], motors |-> FALSE]
      BY <2>2, <2>3 DEF Changed, Unlisted
    <3> QED BY <2>1, <2>2, <2>3, <3>1
  <2>4. CASE at[p] = "serving" /\ p \notin disturbed
    <3>1. Changed(p, motors).bus = table[p].bus
      BY <2>2, <2>4 DEF Changed, Entry
    <3> QED BY <2>1, <2>2, <2>4, <3>1
  <2>5. CASE at[p] = "leaving" /\ p \notin disturbed
    <3>1. Changed(p, motors) = Unlisted
      BY <2>5 DEF Changed
    <3> QED BY <2>1, <2>2, <2>5, <3>1
  <2>6. CASE p \in disturbed
    BY <2>1, <2>2, <2>6
  <2> QED BY <2>2, <2>3, <2>4, <2>5, <2>6
<1>3. ASSUME NEW p \in Ports, Stamp(p) PROVE Listing'
  BY <1>3 DEF Stamp
<1>4. ASSUME NEW p \in Ports, Read(p) PROVE Listing'
  BY <1>4 DEF Read
<1>5. ASSUME NEW p \in Ports, Enqueue(p) PROVE Listing'
  BY <1>5 DEF Enqueue
<1>6. CASE Look \/ Lock \/ Finish
  BY <1>6 DEF Look, Lock, Finish
<1>7. ASSUME NEW p \in Ports, PassOver(p) \/ Connect(p) \/ Manage(p) PROVE Listing'
  <2>1. CASE PassOver(p)
    BY <2>1 DEF PassOver
  <2>2. CASE Connect(p)
    <3>1. at[p] = "free"
      BY <2>2 DEF Connect, Busy
    <3>2. at' = [at EXCEPT ![p] = "connecting"] /\ step' = [step EXCEPT ![p] = "send"]
      BY <2>2 DEF Connect
    <3>3. bus' = [bus EXCEPT ![p] = found[p]] /\ UNCHANGED <<table, disturbed>>
      BY <2>2 DEF Connect
    <3> QED BY <3>1, <3>2, <3>3
  <2>3. CASE Manage(p)
    BY <2>3 DEF Manage
  <2> QED BY <1>7, <2>1, <2>2, <2>3
<1>8. ASSUME NEW p \in Ports, Task(p) PROVE Listing'
  BY <1>8 DEF Task, OpenOk, OpenFails, ServeEnds, Left
<1>9. ASSUME NEW p \in Ports, Report(p) \/ Fill(p) \/ Abandon(p) \/ Remove(p) PROVE Listing'
  BY <1>9 DEF Report, Fill, Abandon, Remove
<1>10. ASSUME NEW p \in Ports, Unplug(p) \/ \E a \in Adapters : Plug(p, a) PROVE Listing'
  BY <1>10 DEF Unplug, Plug
<1>11. CASE UNCHANGED vars
  BY <1>11 DEF vars
<1> QED
  BY <1>1, <1>2, <1>3, <1>4, <1>5, <1>6, <1>7, <1>8, <1>9, <1>10, <1>11
  DEF Next, Scanner, SendStep

-----------------------------------------------------------------------------

(* The four parts hold together in every reachable state.                  *)
THEOREM BusInvariant == Spec => []Inv
<1>1. Inv /\ [Next]_vars => Inv'
  BY TypeStep, CopyStep, PublishedStep, ListingStep DEF Inv
<1> QED BY InitInv, <1>1, PTL DEF Spec

(* Every reachable state is well typed: among others, a port has at most   *)
(* one task, and it has one exactly while it is managed.                   *)
THEOREM BusTypes == Spec => []TypeOK
<1>1. Inv => TypeOK
  BY DEF Inv
<1> QED BY BusInvariant, <1>1, PTL

(* No task leaves an older table behind in st3215/inference.               *)
THEOREM PublicationCorrect == Spec => []PublishedCatchesUp
<1>1. Inv => PublishedCatchesUp
  BY DEF Inv
<1> QED BY BusInvariant, <1>1, PTL

(* A bus is listed exactly while it is served, unless something failed.    *)
THEOREM ListingCorrect == Spec => []ListingFollowsService
<1>1. Inv => ListingFollowsService
  BY DEF Inv, Listing, ListingFollowsService
<1> QED BY BusInvariant, <1>1, PTL

=============================================================================
