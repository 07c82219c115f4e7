------------------------- MODULE StationInferenceProofs -------------------------
(***************************************************************************)
(* Proofs about the inference feed, for every set of queues and every      *)
(* bound.  The invariant has three parts that hold together: the flag, the *)
(* callbacks and the copy account for every entry not yet copied; the      *)
(* worker sleeps only with the flag down; and neither the copy nor the     *)
(* published state is ever ahead of the map.                               *)
(***************************************************************************)
EXTENDS StationInference, TLAPS

(* What was copied is between what is published and what the map holds, so *)
(* that publishing it takes no queue back.                                 *)
CopyInOrder ==
    \A q \in Queues :
        /\ published[q] <= pointers[q]
        /\ snap[q] <= pointers[q]
        /\ worker = "copying" /\ q \notin toRead => published[q] <= snap[q]

Inv == TypeOK /\ NoLostUpdate /\ NoMissedWakeup /\ CopyInOrder

LEMMA InitInv == Init => Inv
<1>1. ASSUME Init PROVE TypeOK
  <2>1. 0 \in Ids
    BY InferenceAssumption DEF Ids
  <2>2. Nothing \in [Queues -> Ids]
    BY <2>1 DEF Nothing
  <2>3. signaled \in BOOLEAN /\ failed \in BOOLEAN /\ message \in BOOLEAN
    BY <1>1, Zenon DEF Init
  <2>4. subscribed \subseteq Queues /\ signalling \subseteq subscribed /\ toRead = {}
    BY <1>1, Zenon DEF Init
  <2>5. worker = "awake" /\ main = "running"
    BY <1>1, Zenon DEF Init
  <2>6. pointers = Nothing /\ snap = Nothing /\ published = Nothing
    BY <1>1, Zenon DEF Init
  <2> QED BY <2>2, <2>3, <2>4, <2>5, <2>6 DEF TypeOK
<1>2. ASSUME Init PROVE NoLostUpdate /\ NoMissedWakeup /\ CopyInOrder
  BY <1>2 DEF Init, NoLostUpdate, NoMissedWakeup, CopyInOrder, Nothing
<1> QED BY <1>1, <1>2 DEF Inv

LEMMA TypeStep == TypeOK /\ [Next]_vars => TypeOK'
<1> SUFFICES ASSUME TypeOK, [Next]_vars PROVE TypeOK'
  OBVIOUS
<1> USE InferenceAssumption DEF TypeOK, Ids, workerVars, feedVars, shutdownVars
<1>1. ASSUME NEW q \in Queues, Register(q) PROVE TypeOK'
  BY <1>1 DEF Register
<1>2. ASSUME NEW q \in Queues, Store(q) PROVE TypeOK'
  BY <1>2 DEF Store
<1>3. ASSUME NEW q \in Queues, Signal(q) PROVE TypeOK'
  BY <1>3 DEF Signal, Raise
<1>4. CASE Sleep
  BY <1>4 DEF Sleep
<1>5. CASE Exit
  BY <1>5 DEF Exit
<1>6. CASE Begin
  <2>1. Nothing \in [Queues -> Ids]
    BY DEF Nothing
  <2>2. snap' = Nothing /\ toRead' = Queues /\ worker' = "copying" /\ signaled' = FALSE
    BY <1>6 DEF Begin
  <2>3. UNCHANGED <<subscribed, pointers, signalling, published, failed, main, message>>
    BY <1>6 DEF Begin
  <2> QED BY <2>1, <2>2, <2>3
<1>7. ASSUME NEW q \in Queues, Read(q) PROVE TypeOK'
  BY <1>7 DEF Read
<1>8. CASE Publish
  BY <1>8 DEF Publish
<1>9. CASE Shutdown
  BY <1>9 DEF Shutdown, ShutdownSend, ShutdownWake, Raise
<1>10. CASE UNCHANGED vars
  BY <1>10 DEF vars
<1> QED
  BY <1>1, <1>2, <1>3, <1>4, <1>5, <1>6, <1>7, <1>8, <1>9, <1>10 DEF Next, Worker

LEMMA UpdateStep == TypeOK /\ NoLostUpdate /\ [Next]_vars => NoLostUpdate'
<1> SUFFICES ASSUME TypeOK, NoLostUpdate, [Next]_vars PROVE NoLostUpdate'
  OBVIOUS
<1> USE DEF NoLostUpdate, TypeOK, workerVars
<1>1. ASSUME NEW q \in Queues, Register(q) PROVE NoLostUpdate'
  BY <1>1 DEF Register
<1>2. ASSUME NEW q \in Queues, Store(q) PROVE NoLostUpdate'
  BY <1>2 DEF Store
<1>3. ASSUME NEW q \in Queues, Signal(q) PROVE NoLostUpdate'
  BY <1>3 DEF Signal, Raise
<1>4. CASE Sleep
  BY <1>4 DEF Sleep
<1>5. CASE Exit
  BY <1>5 DEF Exit
<1>6. CASE Begin
  BY <1>6 DEF Begin
<1>7. ASSUME NEW q \in Queues, Read(q) PROVE NoLostUpdate'
  BY <1>7 DEF Read
<1>8. CASE Publish
  BY <1>8 DEF Publish
<1>9. CASE Shutdown
  BY <1>9 DEF Shutdown, ShutdownSend, ShutdownWake, Raise
<1>10. CASE UNCHANGED vars
  BY <1>10 DEF vars
<1> QED
  BY <1>1, <1>2, <1>3, <1>4, <1>5, <1>6, <1>7, <1>8, <1>9, <1>10 DEF Next, Worker

LEMMA WakeupStep == TypeOK /\ NoMissedWakeup /\ [Next]_vars => NoMissedWakeup'
<1> SUFFICES ASSUME TypeOK, NoMissedWakeup, [Next]_vars PROVE NoMissedWakeup'
  OBVIOUS
<1> QED
  BY DEF NoMissedWakeup, TypeOK, Next, Worker, Register, Store, Signal, Raise, Sleep, Exit,
         Begin, Read, Publish, Shutdown, ShutdownSend, ShutdownWake, vars, workerVars

LEMMA OrderStep == TypeOK /\ CopyInOrder /\ [Next]_vars => CopyInOrder'
<1> SUFFICES ASSUME TypeOK, CopyInOrder, [Next]_vars PROVE CopyInOrder'
  OBVIOUS
<1> USE InferenceAssumption DEF CopyInOrder, TypeOK, Ids, workerVars, feedVars
<1>1. ASSUME NEW q \in Queues, Register(q) PROVE CopyInOrder'
  BY <1>1 DEF Register
<1>2. ASSUME NEW q \in Queues, Store(q) PROVE CopyInOrder'
  BY <1>2 DEF Store
<1>3. ASSUME NEW q \in Queues, Signal(q) PROVE CopyInOrder'
  BY <1>3 DEF Signal, Raise
<1>4. CASE Sleep
  BY <1>4 DEF Sleep
<1>5. CASE Exit
  BY <1>5 DEF Exit
<1>6. CASE Begin
  BY <1>6 DEF Begin, Nothing
<1>7. ASSUME NEW q \in Queues, Read(q) PROVE CopyInOrder'
  BY <1>7 DEF Read
<1>8. CASE Publish
  BY <1>8 DEF Publish
<1>9. CASE Shutdown
  BY <1>9 DEF Shutdown, ShutdownSend, ShutdownWake, Raise
<1>10. CASE UNCHANGED vars
  BY <1>10 DEF vars
<1> QED
  BY <1>1, <1>2, <1>3, <1>4, <1>5, <1>6, <1>7, <1>8, <1>9, <1>10 DEF Next, Worker

(* The parts of the invariant hold together in every reachable state.      *)
THEOREM InferenceInvariant == Spec => []Inv
<1>1. Inv /\ [Next]_vars => Inv'
  BY TypeStep, UpdateStep, WakeupStep, OrderStep DEF Inv
<1> QED BY InitInv, <1>1, PTL DEF Spec

(* Every reachable state of the feed is well typed.                        *)
THEOREM InferenceTypes == Spec => []TypeOK
<1>1. Inv => TypeOK
  BY DEF Inv
<1> QED BY InferenceInvariant, <1>1, PTL

(* No entry is forgotten between a callback and the worker.                *)
THEOREM UpdatesKept == Spec => []NoLostUpdate
<1>1. Inv => NoLostUpdate
  BY DEF Inv
<1> QED BY InferenceInvariant, <1>1, PTL

(* The worker never sleeps through a raised flag.                          *)
THEOREM WakeupsKept == Spec => []NoMissedWakeup
<1>1. Inv => NoMissedWakeup
  BY DEF Inv
<1> QED BY InferenceInvariant, <1>1, PTL

(* Every step of the feed is a step of the abstract one, or none.          *)
LEMMA StepImplements == Inv /\ [Next]_vars => [Feed!Next]_<<pointers, published>>
<1> SUFFICES ASSUME Inv, [Next]_vars PROVE [Feed!Next]_<<pointers, published>>
  OBVIOUS
<1> USE InferenceAssumption DEF Inv, TypeOK, Ids, workerVars, feedVars
<1>1. ASSUME NEW q \in Queues, Store(q) PROVE Feed!Update(q)
  BY <1>1 DEF Store, Feed!Update
<1>2. CASE Publish
  <2>1. CASE UNCHANGED published
    BY <1>2, <2>1 DEF Publish
  <2>2. CASE published' = snap
    <3>1. \A q \in Queues : published[q] <= snap[q] /\ snap[q] <= pointers[q]
      BY <1>2 DEF Publish, CopyInOrder
    <3>2. published' \in [Queues -> Nat]
      BY <2>2
    <3> QED BY <1>2, <2>2, <3>1, <3>2 DEF Publish, Feed!Publish, Feed!Next
  <2> QED BY <1>2, <2>1, <2>2 DEF Publish
<1>3. ASSUME ~Publish, ~(\E q \in Queues : Store(q)) PROVE UNCHANGED <<pointers, published>>
  BY <1>3 DEF Next, Worker, Register, Signal, Sleep, Exit, Begin, Read, Shutdown,
              ShutdownSend, ShutdownWake, vars
<1> QED BY <1>1, <1>2, <1>3 DEF Feed!Next

(* The feed of the station implements the feed of the latest entries.      *)
THEOREM FeedCorrect == Spec => ImplementsFeed
<1>1. Init => Feed!Init
  BY DEF Init, Feed!Init, Nothing
<1> QED BY <1>1, InferenceInvariant, StepImplements, PTL DEF Spec, ImplementsFeed, Feed!Spec

=============================================================================
