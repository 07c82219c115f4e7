--------------------------- MODULE StationInference ---------------------------
(***************************************************************************)
(* The inference feed of the station (inference/mod.rs).  The subscription *)
(* callback of every registered queue stores the queue's newest entry in a *)
(* shared map and raises a flag; one worker thread waits for the flag,     *)
(* copies the map and publishes the copy in inference-states.              *)
(*                                                                         *)
(* The flag is behind a mutex with a condition variable: what a thread     *)
(* does while it holds the mutex is one action.  The map is a DashMap,     *)
(* which locks a part of itself at a time: the worker reads it entry by    *)
(* entry, in any order, while callbacks go on storing.                     *)
(***************************************************************************)
EXTENDS Naturals

CONSTANTS
    Queues,  \* the queues that drivers register, each of them once
    MaxId    \* bound: the newest entry of a queue

ASSUME InferenceAssumption == MaxId \in Nat

VARIABLES
    subscribed, \* the queues whose subscription was accepted
    pointers,   \* latest_pointers: the newest entry of each queue, 0 for none
    signalling, \* the queues whose callback has stored and not yet signalled
    signaled,   \* the flag behind the mutex
    worker,     \* where the worker thread is
    toRead,     \* the entries of the map it has still to copy
    snap,       \* the copy: what it read of each queue
    published,  \* the state last accepted by inference-states
    failed,     \* the last enqueue was refused
    main,       \* where the thread that shuts the station down is
    message     \* shutdown_tx holds the request

shutdownVars == <<main, message>>
workerVars == <<toRead, snap>>
feedVars == <<published, failed>>
vars == <<subscribed, pointers, signalling, signaled, worker, workerVars, feedVars, shutdownVars>>

Ids == 0 .. MaxId
Nothing == [q \in Queues |-> 0]

TypeOK ==
    /\ subscribed \subseteq Queues
    /\ pointers \in [Queues -> Ids]
    /\ signalling \subseteq subscribed
    /\ signaled \in BOOLEAN
    /\ worker \in {"awake", "waiting", "copying", "exited"}
    /\ toRead \subseteq Queues
    /\ worker # "copying" => toRead = {}
    /\ snap \in [Queues -> Ids]
    /\ published \in [Queues -> Ids]
    /\ failed \in BOOLEAN
    /\ main \in {"running", "sent", "done"}
    /\ message \in BOOLEAN

(* Start: the worker is on its way to its first look at the flag.          *)
Init ==
    /\ subscribed = {} /\ pointers = Nothing /\ signalling = {}
    /\ signaled = FALSE /\ worker = "awake" /\ toRead = {} /\ snap = Nothing
    /\ published = Nothing /\ failed = FALSE
    /\ main = "running" /\ message = FALSE

-----------------------------------------------------------------------------
(***************************************************************************)
(* The drivers' side: registration and the callbacks.                      *)
(***************************************************************************)

(* A refused subscription is only logged: the queue stays out of the feed. *)
Register(q) ==
    /\ q \notin subscribed
    /\ subscribed' = subscribed \cup {q}
    /\ UNCHANGED <<pointers, signalling, signaled, worker, workerVars, feedVars, shutdownVars>>

(* A batch of entries arrives; only the last one of it counts.             *)
Store(q) ==
    /\ q \in subscribed \ signalling
    /\ \E id \in Ids : id > pointers[q] /\ pointers' = [pointers EXCEPT ![q] = id]
    /\ signalling' = signalling \cup {q}
    /\ UNCHANGED <<subscribed, signaled, worker, workerVars, feedVars, shutdownVars>>

(* Set the flag and notify, under the mutex.                               *)
Raise ==
    /\ signaled' = TRUE
    /\ worker' = IF worker = "waiting" THEN "awake" ELSE worker

(* Mutant: the flag is raised, and nobody is woken.                        *)
SignalUnnoticed(q) ==
    /\ q \in signalling
    /\ signaled' = TRUE
    /\ signalling' = signalling \ {q}
    /\ UNCHANGED <<subscribed, pointers, worker, workerVars, feedVars, shutdownVars>>

Signal(q) ==
    /\ q \in signalling
    /\ Raise
    /\ signalling' = signalling \ {q}
    /\ UNCHANGED <<subscribed, pointers, workerVars, feedVars, shutdownVars>>

-----------------------------------------------------------------------------
(***************************************************************************)
(* The worker thread.                                                      *)
(***************************************************************************)

(* Mutant: wait for the next signal without a look at the flag.            *)
SleepAnyway ==
    /\ worker = "awake"
    /\ worker' = "waiting"
    /\ UNCHANGED <<subscribed, pointers, signalling, signaled, workerVars, feedVars, shutdownVars>>

(* No flag: wait, which releases the mutex in the same step.               *)
Sleep ==
    /\ worker = "awake" /\ ~signaled
    /\ worker' = "waiting"
    /\ UNCHANGED <<subscribed, pointers, signalling, signaled, workerVars, feedVars, shutdownVars>>

Exit ==
    /\ worker = "awake" /\ signaled /\ message
    /\ worker' = "exited"
    /\ message' = FALSE
    /\ UNCHANGED <<subscribed, pointers, signalling, signaled, workerVars, feedVars, main>>

(* Clear the flag first: what arrives during the copy raises it again.     *)
Begin ==
    /\ worker = "awake" /\ signaled /\ ~message
    /\ signaled' = FALSE
    /\ worker' = "copying" /\ toRead' = Queues /\ snap' = Nothing
    /\ UNCHANGED <<subscribed, pointers, signalling, feedVars, shutdownVars>>

Read(q) ==
    /\ worker = "copying" /\ q \in toRead
    /\ toRead' = toRead \ {q}
    /\ snap' = [snap EXCEPT ![q] = pointers[q]]
    /\ UNCHANGED <<subscribed, pointers, signalling, signaled, worker, feedVars, shutdownVars>>

(* Mutant: the flag is cleared when the state is published.                *)
PublishClearing ==
    /\ worker = "copying" /\ toRead = {}
    /\ worker' = "awake" /\ signaled' = FALSE
    /\ \/ snap = Nothing /\ UNCHANGED feedVars
       \/ snap # Nothing /\ published' = snap /\ failed' = FALSE
       \/ snap # Nothing /\ failed' = TRUE /\ UNCHANGED published
    /\ UNCHANGED <<subscribed, pointers, signalling, workerVars, shutdownVars>>

(* Mutant: the worker turns to its flag with the copy unfinished.          *)
PublishUnfinished ==
    /\ worker = "copying"
    /\ worker' = "awake"
    /\ UNCHANGED <<subscribed, pointers, signalling, signaled, workerVars, feedVars, shutdownVars>>

(* Mutant: a state is published with what was copied so far.               *)
PublishHalf ==
    /\ worker = "copying"
    /\ worker' = "awake" /\ toRead' = {}
    /\ \/ snap = Nothing /\ UNCHANGED feedVars
       \/ snap # Nothing /\ published' = snap /\ failed' = FALSE
    /\ UNCHANGED <<subscribed, pointers, signalling, signaled, snap, shutdownVars>>

(* An empty copy is not published; a refused one is logged and dropped.    *)
Publish ==
    /\ worker = "copying" /\ toRead = {}
    /\ worker' = "awake"
    /\ \/ snap = Nothing /\ UNCHANGED feedVars
       \/ snap # Nothing /\ published' = snap /\ failed' = FALSE
       \/ snap # Nothing /\ failed' = TRUE /\ UNCHANGED published
    /\ UNCHANGED <<subscribed, pointers, signalling, signaled, workerVars, shutdownVars>>

Worker == Sleep \/ Exit \/ Begin \/ (\E q \in Queues : Read(q)) \/ Publish

-----------------------------------------------------------------------------
(***************************************************************************)
(* Shutdown: leave the request in the channel, then wake the worker.       *)
(***************************************************************************)

ShutdownSend ==
    /\ main = "running"
    /\ main' = "sent" /\ message' = TRUE
    /\ UNCHANGED <<subscribed, pointers, signalling, signaled, worker, workerVars, feedVars>>

ShutdownWake ==
    /\ main = "sent"
    /\ main' = "done"
    /\ Raise
    /\ UNCHANGED <<subscribed, pointers, signalling, workerVars, feedVars, message>>

(* Mutant: the worker is woken before the request is in the channel.       *)
ShutdownSwapped ==
    \/ /\ main = "running"
       /\ main' = "sent"
       /\ Raise
       /\ UNCHANGED <<subscribed, pointers, signalling, workerVars, feedVars, message>>
    \/ /\ main = "sent"
       /\ main' = "done" /\ message' = TRUE
       /\ UNCHANGED <<subscribed, pointers, signalling, signaled, worker, workerVars, feedVars>>

Shutdown == ShutdownSend \/ ShutdownWake

Next ==
    \/ \E q \in Queues : Register(q) \/ Store(q) \/ Signal(q)
    \/ Worker
    \/ Shutdown

Spec == Init /\ [][Next]_vars

(* Threads that have work get to run: a callback finishes, the worker goes *)
(* on, and shutdown() returns once it was called.                          *)
FairSpec ==
    /\ Spec
    /\ \A q \in Queues : WF_vars(Signal(q))
    /\ WF_vars(Worker)
    /\ WF_vars(ShutdownWake)

-----------------------------------------------------------------------------
(***************************************************************************)
(* What the feed must keep to.                                             *)
(***************************************************************************)

(* An entry the copy does not hold is never forgotten: the flag is up for  *)
(* it, its callback is about to raise the flag, or the worker has still to *)
(* read it.  It is what the comment at mod.rs:102 relies on.               *)
NoLostUpdate ==
    \A q \in Queues :
        pointers[q] # snap[q] =>
            signaled \/ q \in signalling \/ (worker = "copying" /\ q \in toRead)

(* The worker does not sleep through a raised flag (mod.rs:93, 102, 164).  *)
NoMissedWakeup == worker = "waiting" => ~signaled

(* Every entry is published, itself or a later one in its place, unless    *)
(* the queue refuses the state that has it or the station is shut down.    *)
EveryUpdatePublished ==
    \A q \in Queues : \A id \in 1 .. MaxId :
        pointers[q] >= id ~> published[q] >= id \/ failed \/ worker = "exited"

(* A station that is shut down gets rid of its worker, whatever the worker *)
(* and the callbacks were doing (mod.rs:26-34, 98).                        *)
ShutdownEndsWorker == main # "running" ~> worker = "exited"

(* The feed is a feed of the latest: no published state takes a queue back *)
(* to an older entry or shows one that did not exist.                      *)
Feed == INSTANCE LatestFeed WITH latest <- pointers
ImplementsFeed == Feed!Spec

=============================================================================
