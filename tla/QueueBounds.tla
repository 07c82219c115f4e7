----------------------------- MODULE QueueBounds -----------------------------
(***************************************************************************)
(* How dataset-generator turns the range of inference-states entries it    *)
(* was given into a range of the recorded queue (bounds.go): two           *)
(* goroutines look for the entry that names the queue, one forward from    *)
(* the first pointer and one backward from the last, each a read of the    *)
(* single entry first and then in batches of searchStep.                   *)
(*                                                                         *)
(* An entry of inference-states is the pointer it holds for the recorded   *)
(* queue, or NoPtr: it has no entry of that name, or cannot be parsed.     *)
(* At most one queue of the station has a matching name.                   *)
(***************************************************************************)
EXTENDS Integers, Sequences, FiniteSetsExt

CONSTANTS
    Recordings,  \* what the station may hold and the tool may be asked for, by name
    STEP         \* searchStep, 10000 in the code

(* A recording: states is inference-states, from and to the command line's *)
(* pointers into it, last the newest entry of the recorded queue, damaged  *)
(* its entries that do not parse, frames the frames it may consist of,     *)
(* minCommands the flag of that name.  Pointers name existing entries, and *)
(* newer states never hold older pointers (LatestFeed).                    *)
NoPtr == 0
IsRecording(r) ==
    /\ r.last \in Nat /\ r.states \in Seq(Nat)
    /\ r.from \in 1 .. r.to /\ r.to \in 1 .. Len(r.states)
    /\ \A i \in DOMAIN r.states : r.states[i] \in 0 .. r.last
    /\ \A i, j \in DOMAIN r.states :
          i <= j /\ r.states[i] # NoPtr /\ r.states[j] # NoPtr => r.states[i] <= r.states[j]

ASSUME BoundsAssumption ==
    /\ STEP \in Nat \ {0}
    /\ \A k \in DOMAIN Recordings : IsRecording(Recordings[k])

VARIABLES
    chosen,     \* which of the recordings it is; it never changes
    forward,    \* the goroutine that looks for the from bound
    backward    \* the goroutine that looks for the to bound

boundsVars == <<forward, backward>>

recording == Recordings[chosen]
States == recording.states
Searching(p) == [pc |-> "search", at |-> p]
Found(ptr) == [pc |-> "found", at |-> ptr]
NotFound == [pc |-> "error", at |-> 0]
FirstTry(p) == [pc |-> "try", at |-> p]

BoundsTypeOK ==
    /\ chosen \in DOMAIN Recordings
    /\ forward \in [pc : {"try", "search", "found", "error"}, at : Nat]
    /\ backward \in [pc : {"try", "search", "found", "error"}, at : Nat]

(* What a read of n entries of a queue of the given length answers: the    *)
(* entries first .. last, cut short when the stream breaks.                *)
Replies(length, p, n) ==
    LET end == IF p + n - 1 < length THEN p + n - 1 ELSE length
    IN [first : {p}, last : {end}, broken : {FALSE}]
       \cup [first : {p}, last : (p - 1) .. end, broken : {TRUE}]

Matches(lo, hi) == {i \in lo .. hi : States[i] # NoPtr}

(* tryFindQueueAtPtr: an entry that was received counts even if the stream *)
(* then breaks.                                                            *)
Try(g, p) ==
    \E r \in Replies(Len(States), p, 1) :
        g' = IF r.last < r.first THEN NotFound
             ELSE IF States[p] # NoPtr THEN Found(States[p])
             ELSE Searching(p)

TryForward == forward.pc = "try" /\ Try(forward, forward.at) /\ UNCHANGED backward
TryBackward == backward.pc = "try" /\ Try(backward, backward.at) /\ UNCHANGED forward

(* searchForwardForQueue, one round of its loop.  A batch may run past the *)
(* last pointer, and so may the match.                                     *)
SearchForward ==
    /\ forward.pc = "search"
    /\ IF forward.at >= recording.to THEN forward' = NotFound
       ELSE \E r \in Replies(Len(States), forward.at, STEP) :
            LET found == Matches(r.first, r.last)
            IN forward' = IF found # {} THEN Found(States[Min(found)])
                          ELSE IF r.broken \/ r.last < r.first THEN NotFound
                          ELSE Searching(r.last + 1)
    /\ UNCHANGED backward

(* The batch of searchBackwardForQueue ends at the entry it has come down  *)
(* to; if that is not within reach of the first pointer, just before it.   *)
BatchStart(p) == IF p - STEP > recording.from THEN p - STEP ELSE recording.from

(* Where the next round starts: the last entry received, if the batch did  *)
(* not reach the present one.  This is one entry further back, not STEP.   *)
NextBackward(p, received) == IF received < p THEN received ELSE BatchStart(p)

(* A plausible bug: returning at the first match, as the forward search.   *)
ClosestIsFirst(found) == Min(found)

(* Of the matches of a batch, which comes in order, the last one counts.   *)
Closest(found) == Max(found)

SearchBackward ==
    /\ backward.pc = "search"
    /\ LET p == backward.at
       IN IF p <= recording.from THEN backward' = NotFound
          ELSE \E r \in Replies(Len(States), BatchStart(p), STEP) :
               LET received == IF r.last > p THEN p + 1 ELSE r.last
                   found == Matches(r.first, IF r.last > p THEN p ELSE r.last)
                   next == NextBackward(p, received)
               IN backward' = IF r.broken THEN NotFound
                              ELSE IF found # {} THEN Found(States[Closest(found)])
                              ELSE IF next = recording.from THEN NotFound
                              ELSE Searching(next)
    /\ UNCHANGED forward

Search == TryForward \/ TryBackward \/ SearchForward \/ SearchBackward

(* FetchQueueBounds starts both goroutines and waits for both.             *)
StartSearch ==
    /\ forward' = FirstTry(recording.from)
    /\ backward' = FirstTry(recording.to)
SearchEnded == {forward.pc, backward.pc} \subseteq {"found", "error"}
BoundsFound == forward.pc = "found" /\ backward.pc = "found"

(* The bounds are those of the recording: the pointer of the first entry   *)
(* at or after the from pointer that names the queue, and that of the last *)
(* entry at or before the to pointer.  In particular they are in order.    *)
BoundsAreNearest ==
    BoundsFound =>
        /\ forward.at = States[Min(Matches(recording.from, recording.to))]
        /\ backward.at = States[Max(Matches(recording.from, recording.to))]
        /\ forward.at <= backward.at

=============================================================================
