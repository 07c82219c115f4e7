------------------------------ MODULE LatestFeed ------------------------------
(***************************************************************************)
(* What the inference feed of a station promises its readers: every state  *)
(* published holds, for each queue, an entry that was its latest at some   *)
(* moment, and never an older one than the state published before.         *)
(* Updates may be conflated: a reader sees the latest, not every one.      *)
(***************************************************************************)
EXTENDS Naturals

CONSTANT Queues

VARIABLES
    latest,    \* the latest entry of each queue, 0 when it has none
    published  \* the entry of each queue in the last published state

Init == latest = [q \in Queues |-> 0] /\ published = latest

Update(q) ==
    /\ latest'[q] \in Nat /\ latest'[q] > latest[q]
    /\ latest' = [latest EXCEPT ![q] = latest'[q]]
    /\ UNCHANGED published

Publish ==
    /\ published' \in [Queues -> Nat]
    /\ \A q \in Queues : published[q] <= published'[q] /\ published'[q] <= latest[q]
    /\ UNCHANGED latest

Next == (\E q \in Queues : Update(q)) \/ Publish

Spec == Init /\ [][Next]_<<latest, published>>

=============================================================================
