------------------------- MODULE DatasetGeneratorProofs -------------------------
(***************************************************************************)
(* Proofs about dataset-generator, for every recording, batch size and     *)
(* capacity of the channel, every threshold, every sequence of runs and    *)
(* every failure of a file operation, also when the process ends anywhere. *)
(*                                                                         *)
(* The search for the bounds: each goroutine carries what it has ruled out *)
(* so far: forward, everything from the first pointer up to where it is;   *)
(* backward, everything from where it is to the last pointer.  So the      *)
(* match it finds is the nearest, and where both found one, the two are    *)
(* the ends of the same set.                                               *)
(*                                                                         *)
(* The frames: what was handled followed by what is in the channel is the  *)
(* start of the frames within the bounds that parse, in order, up to where *)
(* the goroutine of the stream is.                                         *)
(*                                                                         *)
(* The episodes: what an open one holds, that it misses no frame, and that *)
(* no command is lost between two of them.                                 *)
(*                                                                         *)
(* The files: the episodes on disk are smooth, the merged ones are of one  *)
(* run, and what was reported as saved is on disk.                         *)
(***************************************************************************)
EXTENDS DatasetPipeline, Counting, SequenceTheorems

(* What a goroutine has ruled out: no entry of the range names the queue.  *)
RuledOut(lo, hi) == \A i \in lo .. hi : States[i] = NoPtr

ForwardInv ==
    /\ forward.pc = "try" => forward.at = recording.from
    /\ forward.pc = "search" =>
          /\ forward.at \in recording.from .. Len(States) + 1
          /\ RuledOut(recording.from, forward.at - 1)
    /\ forward.pc = "found" =>
          \E i \in recording.from .. Len(States) :
             /\ States[i] # NoPtr /\ forward.at = States[i]
             /\ RuledOut(recording.from, i - 1)

BackwardInv ==
    /\ backward.pc = "try" => backward.at = recording.to
    /\ backward.pc = "search" =>
          /\ backward.at \in recording.from .. recording.to
          /\ RuledOut(backward.at, recording.to)
    /\ backward.pc = "found" =>
          \E i \in recording.from .. recording.to :
             /\ States[i] # NoPtr /\ backward.at = States[i]
             /\ RuledOut(i + 1, recording.to)

BoundsInv == BoundsTypeOK /\ ForwardInv /\ BackwardInv

(* What the assumption says of the recording that was chosen.              *)
LEMMA RecordingFacts ==
  ASSUME chosen \in DOMAIN Recordings
  PROVE  /\ STEP \in Nat \ {0}
         /\ recording.last \in Nat /\ States \in Seq(Nat)
         /\ recording.from \in Nat \ {0} /\ recording.to \in Nat
         /\ recording.from <= recording.to /\ recording.to <= Len(States)
         /\ \A i \in 1 .. Len(States) : States[i] \in 0 .. recording.last
         /\ \A i, j \in 1 .. Len(States) :
               i <= j /\ States[i] # NoPtr /\ States[j] # NoPtr => States[i] <= States[j]
<1>1. IsRecording(recording)
  BY BoundsAssumption DEF recording
<1>2. States \in Seq(Nat) /\ DOMAIN States = 1 .. Len(States) /\ Len(States) \in Nat
  BY <1>1 DEF IsRecording, States
<1>3. recording.to \in 1 .. Len(States) /\ recording.from \in 1 .. recording.to
  BY <1>1 DEF IsRecording, States
<1>4. /\ \A i \in DOMAIN States : States[i] \in 0 .. recording.last
      /\ \A i, j \in DOMAIN States :
            i <= j /\ States[i] # NoPtr /\ States[j] # NoPtr => States[i] <= States[j]
  BY <1>1 DEF IsRecording, States
<1>5. recording.last \in Nat
  BY <1>1 DEF IsRecording
<1>6. STEP \in Nat \ {0}
  BY BoundsAssumption
<1>7. recording.from \in Nat \ {0} /\ recording.to \in Nat
      /\ recording.from <= recording.to /\ recording.to <= Len(States)
  BY <1>2, <1>3
<1> QED BY <1>2, <1>4, <1>5, <1>6, <1>7

(* Two goroutines that found something agree: the first match from the     *)
(* front is not after the last one from the back, so both lie between the  *)
(* pointers and are the ends of the same set.                              *)
LEMMA NearestFromInv ==
  ASSUME BoundsInv
  PROVE  BoundsAreNearest
<1>1. SUFFICES ASSUME BoundsFound PROVE
          /\ forward.at = States[Min(Matches(recording.from, recording.to))]
          /\ backward.at = States[Max(Matches(recording.from, recording.to))]
          /\ forward.at <= backward.at
  BY DEF BoundsAreNearest
<1> DEFINE M == Matches(recording.from, recording.to)
<1> chosen \in DOMAIN Recordings
  BY DEF BoundsInv, BoundsTypeOK
<1>2. PICK i \in recording.from .. Len(States) :
         /\ States[i] # NoPtr /\ forward.at = States[i]
         /\ RuledOut(recording.from, i - 1)
  BY <1>1 DEF BoundsInv, ForwardInv, BoundsFound
<1>3. PICK j \in recording.from .. recording.to :
         /\ States[j] # NoPtr /\ backward.at = States[j]
         /\ RuledOut(j + 1, recording.to)
  BY <1>1 DEF BoundsInv, BackwardInv, BoundsFound
<1>4. i <= j
  BY <1>2, <1>3, RecordingFacts DEF RuledOut
<1>5. i \in M /\ j \in M /\ \A k \in M : k \in Int /\ i <= k /\ k <= j
  BY <1>2, <1>3, <1>4, RecordingFacts DEF RuledOut, Matches
<1>6. Min(M) = i
  <2> HIDE DEF M
  <2>1. Min(M) \in M /\ \A y \in M : Min(M) <= y
    BY <1>5 DEF Min
  <2>2. Min(M) \in Int /\ i \in Int /\ Min(M) <= i /\ i <= Min(M)
    BY <1>5, <2>1
  <2> QED BY <2>2
<1>7. Max(M) = j
  <2> HIDE DEF M
  <2>1. Max(M) \in M /\ \A y \in M : Max(M) >= y
    BY <1>5 DEF Max
  <2>2. Max(M) \in Int /\ j \in Int /\ Max(M) >= j /\ Max(M) <= j
    BY <1>5, <2>1
  <2> QED BY <2>2
<1>8. States[i] <= States[j]
  BY <1>2, <1>3, <1>4, RecordingFacts
<1> QED BY <1>2, <1>3, <1>6, <1>7, <1>8

-----------------------------------------------------------------------------

(* The entries a read answers are within the queue, and no more than it    *)
(* asked for.                                                              *)
LEMMA RepliesFacts ==
  ASSUME NEW length \in Nat, NEW p \in 1 .. length + 1, NEW n \in Nat \ {0},
         NEW r \in Replies(length, p, n)
  PROVE  /\ r.first = p /\ r.last \in p - 1 .. length /\ r.last <= p + n - 1
         /\ ~r.broken => r.last = IF p + n - 1 < length THEN p + n - 1 ELSE length
         /\ r.broken \in BOOLEAN
<1> DEFINE end == IF p + n - 1 < length THEN p + n - 1 ELSE length
<1>1. end \in Int /\ p - 1 <= end /\ end <= length /\ end <= p + n - 1 /\ length \in Int
  OBVIOUS
<1>2. CASE r \in [first : {p}, last : {end}, broken : {FALSE}]
  <2>1. r.first = p /\ r.last = end /\ r.broken = FALSE
    BY <1>2
  <2>2. r.last \in p - 1 .. length /\ r.last <= p + n - 1
    <3> HIDE DEF end
    <3> QED BY <1>1, <2>1
  <2> QED BY <2>1, <2>2
<1>3. CASE r \in [first : {p}, last : (p - 1) .. end, broken : {TRUE}]
  <2>1. r.first = p /\ r.last \in (p - 1) .. end /\ r.broken = TRUE
    BY <1>3
  <2>2. r.last \in Int /\ p - 1 <= r.last /\ r.last <= end
    <3> HIDE DEF end
    <3> QED BY <1>1, <2>1
  <2>3. r.last <= length /\ r.last <= p + n - 1
    <3> HIDE DEF end
    <3> QED BY <1>1, <2>2
  <2>4. r.last \in p - 1 .. length
    BY <2>2, <2>3
  <2>5. r.broken \in BOOLEAN /\ ~(~r.broken)
    BY <2>1
  <2> HIDE DEF end
  <2> QED BY <2>1, <2>3, <2>4, <2>5, Zenon
<1> QED BY <1>2, <1>3 DEF Replies

(* The recording does not change while the program runs.                   *)
LEMMA RecordingStays ==
  ASSUME chosen' = chosen
  PROVE  recording' = recording /\ States' = States
BY DEF recording, States

(* The range ruled out, and the set of matches, tell the same.             *)
LEMMA NoMatches ==
  ASSUME NEW lo \in Int, NEW hi \in Int
  PROVE  Matches(lo, hi) = {} <=> RuledOut(lo, hi)
BY DEF Matches, RuledOut

LEMMA ForwardStep ==
  ASSUME BoundsInv, chosen' = chosen, TryForward \/ SearchForward
  PROVE  ForwardInv' /\ forward' \in [pc : {"try", "search", "found", "error"}, at : Nat]
<1> USE RecordingStays
<1>1. chosen \in DOMAIN Recordings
  BY DEF BoundsInv, BoundsTypeOK
<1> DEFINE p == forward.at
           from == recording.from
           size == Len(States)
<1>2. /\ STEP \in Nat \ {0} /\ size \in Nat /\ from \in 1 .. size
      /\ recording.to \in from .. size /\ p \in Nat
      /\ \A i \in 1 .. size : States[i] \in Nat
  <2>1. forward \in [pc : {"try", "search", "found", "error"}, at : Nat]
    BY DEF BoundsInv, BoundsTypeOK
  <2>2. size \in Nat
    BY <1>1, RecordingFacts
  <2> QED BY <1>1, <2>1, <2>2, RecordingFacts
<1>3. ASSUME NEW i \in from .. size, States[i] # NoPtr, RuledOut(from, i - 1),
             forward' = Found(States[i])
      PROVE  ForwardInv' /\ forward' \in [pc : {"try", "search", "found", "error"}, at : Nat]
  <2>1. forward'.pc = "found" /\ forward'.at = States[i]
    BY <1>3 DEF Found
  <2>2. ForwardInv'
    BY <1>3, <2>1 DEF ForwardInv, RuledOut
  <2> QED BY <1>2, <1>3, <2>2 DEF Found
<1>4. ASSUME NEW i \in from .. size + 1, RuledOut(from, i - 1), forward' = Searching(i)
      PROVE  ForwardInv' /\ forward' \in [pc : {"try", "search", "found", "error"}, at : Nat]
  <2>1. forward'.pc = "search" /\ forward'.at = i
    BY <1>4 DEF Searching
  <2>2. ForwardInv'
    BY <1>4, <2>1 DEF ForwardInv, RuledOut
  <2> QED BY <1>2, <1>4, <2>2 DEF Searching
<1>5. ASSUME forward' = NotFound
      PROVE  ForwardInv' /\ forward' \in [pc : {"try", "search", "found", "error"}, at : Nat]
  BY <1>5 DEF NotFound, ForwardInv
<1>6. CASE TryForward
  <2>1. p = from /\ \E r \in Replies(size, p, 1) :
           forward' = IF r.last < r.first THEN NotFound
                      ELSE IF States[p] # NoPtr THEN Found(States[p])
                      ELSE Searching(p)
    BY <1>6 DEF TryForward, Try, BoundsInv, ForwardInv
  <2>2. RuledOut(from, from - 1)
    BY <1>2 DEF RuledOut
  <2>3. from \in from .. size /\ from \in from .. size + 1
    BY <1>2
  <2> HIDE DEF p, from, size
  <2> QED BY <1>3, <1>4, <1>5, <2>1, <2>2, <2>3
<1>7. CASE SearchForward
  <2>1. p \in from .. size + 1 /\ RuledOut(from, p - 1)
    BY <1>7 DEF SearchForward, BoundsInv, ForwardInv
  <2>2. CASE p >= recording.to
    BY <1>5, <1>7, <2>2 DEF SearchForward
  <2>3. CASE ~(p >= recording.to)
    <3>1. PICK r \in Replies(size, p, STEP) :
             LET found == Matches(r.first, r.last)
             IN forward' = IF found # {} THEN Found(States[Min(found)])
                           ELSE IF r.broken \/ r.last < r.first THEN NotFound
                           ELSE Searching(r.last + 1)
      BY <1>7, <2>3 DEF SearchForward
    <3>2. p \in 1 .. size
      BY <1>2, <2>1, <2>3
    <3>3. r.first = p /\ r.last \in p - 1 .. size
      <4> HIDE DEF p, size
      <4> QED BY <1>2, <3>1, <3>2, RepliesFacts
    <3> DEFINE M == Matches(p, r.last)
    <3>4. CASE M # {}
      <4>1. forward' = Found(States[Min(M)])
        BY <3>1, <3>3, <3>4
      <4>2. M \in SUBSET Nat /\ \A k \in M : k \in p .. size /\ States[k] # NoPtr
        BY <1>2, <3>2, <3>3 DEF Matches
      <4>3. Min(M) \in M /\ \A k \in M : Min(M) <= k
        <5> HIDE DEF M
        <5> QED BY <3>4, <4>2, MinIsLeast
      <4>4. RuledOut(from, Min(M) - 1)
        <5> SUFFICES ASSUME NEW k \in from .. Min(M) - 1 PROVE States[k] = NoPtr
          BY DEF RuledOut
        <5>1. CASE k <= p - 1
          BY <1>2, <2>1, <4>2, <4>3, <5>1 DEF RuledOut
        <5>2. CASE p <= k
          <6>1. k <= r.last /\ k \notin M
            BY <1>2, <3>2, <3>3, <4>2, <4>3, <5>2 DEF Matches
          <6> QED BY <1>2, <3>2, <3>3, <5>2, <6>1 DEF Matches
        <5> QED BY <1>2, <4>2, <4>3, <5>1, <5>2
      <4>5. Min(M) \in from .. size /\ States[Min(M)] # NoPtr
        BY <1>2, <2>1, <4>2, <4>3
      <4> HIDE DEF M
      <4> QED BY <1>3, <4>1, <4>4, <4>5
    <3>5. CASE M = {}
      <4>1. forward' = IF r.broken \/ r.last < p THEN NotFound ELSE Searching(r.last + 1)
        BY <3>1, <3>3, <3>5
      <4>2. RuledOut(p, r.last)
        BY <1>2, <3>3, <3>5, NoMatches
      <4> DEFINE i == r.last + 1
      <4>3. RuledOut(from, i - 1)
        BY <1>2, <2>1, <3>3, <4>2 DEF RuledOut
      <4>4. i \in from .. size + 1
        BY <1>2, <2>1, <3>3
      <4>5. forward' = NotFound \/ forward' = Searching(i)
        BY <4>1
      <4> HIDE DEF i, from, size
      <4>6. CASE forward' = Searching(i)
        BY <1>4, <4>3, <4>4, <4>6
      <4> QED BY <1>5, <4>5, <4>6
    <3> QED BY <3>4, <3>5
  <2> QED BY <2>2, <2>3
<1> QED BY <1>6, <1>7

LEMMA BackwardStep ==
  ASSUME BoundsInv, chosen' = chosen, TryBackward \/ SearchBackward
  PROVE  BackwardInv' /\ backward' \in [pc : {"try", "search", "found", "error"}, at : Nat]
<1> USE RecordingStays
<1>1. chosen \in DOMAIN Recordings
  BY DEF BoundsInv, BoundsTypeOK
<1> DEFINE p == backward.at
           from == recording.from
           to == recording.to
           size == Len(States)
<1>2. /\ STEP \in Nat \ {0} /\ size \in Nat /\ from \in 1 .. to
      /\ to \in 1 .. size /\ p \in Nat
      /\ \A i \in 1 .. size : States[i] \in Nat
  <2>1. backward \in [pc : {"try", "search", "found", "error"}, at : Nat]
    BY DEF BoundsInv, BoundsTypeOK
  <2>2. size \in Nat
    BY <1>1, RecordingFacts
  <2> QED BY <1>1, <2>1, <2>2, RecordingFacts
<1>3. ASSUME NEW i \in from .. to, States[i] # NoPtr, RuledOut(i + 1, to),
             backward' = Found(States[i])
      PROVE  BackwardInv' /\ backward' \in [pc : {"try", "search", "found", "error"}, at : Nat]
  <2>1. backward'.pc = "found" /\ backward'.at = States[i]
    BY <1>3 DEF Found
  <2>2. BackwardInv'
    BY <1>3, <2>1 DEF BackwardInv, RuledOut
  <2> QED BY <1>2, <1>3, <2>2 DEF Found
<1>4. ASSUME NEW i \in from .. to, RuledOut(i, to), backward' = Searching(i)
      PROVE  BackwardInv' /\ backward' \in [pc : {"try", "search", "found", "error"}, at : Nat]
  <2>1. backward'.pc = "search" /\ backward'.at = i
    BY <1>4 DEF Searching
  <2>2. BackwardInv'
    BY <1>4, <2>1 DEF BackwardInv, RuledOut
  <2> QED BY <1>2, <1>4, <2>2 DEF Searching
<1>5. ASSUME backward' = NotFound
      PROVE  BackwardInv' /\ backward' \in [pc : {"try", "search", "found", "error"}, at : Nat]
  BY <1>5 DEF NotFound, BackwardInv
<1>6. CASE TryBackward
  <2>1. p = to /\ \E r \in Replies(size, p, 1) :
           backward' = IF r.last < r.first THEN NotFound
                       ELSE IF States[p] # NoPtr THEN Found(States[p])
                       ELSE Searching(p)
    BY <1>6 DEF TryBackward, Try, BoundsInv, BackwardInv
  <2>2. RuledOut(to + 1, to) /\ (States[to] = NoPtr => RuledOut(to, to))
    BY <1>2 DEF RuledOut
  <2>3. to \in from .. to
    BY <1>2
  <2> HIDE DEF p, from, to, size
  <2> QED BY <1>3, <1>4, <1>5, <2>1, <2>2, <2>3
<1>7. CASE SearchBackward
  <2>1. p \in from .. to /\ RuledOut(p, to)
    BY <1>7 DEF SearchBackward, BoundsInv, BackwardInv
  <2>2. CASE p <= from
    BY <1>5, <1>7, <2>2 DEF SearchBackward
  <2>3. CASE ~(p <= from)
    <3> DEFINE start == BatchStart(p)
    <3>1. PICK r \in Replies(size, start, STEP) :
             LET received == IF r.last > p THEN p + 1 ELSE r.last
                 found == Matches(r.first, IF r.last > p THEN p ELSE r.last)
                 next == NextBackward(p, received)
             IN backward' = IF r.broken THEN NotFound
                            ELSE IF found # {} THEN Found(States[Closest(found)])
                            ELSE IF next = recording.from THEN NotFound
                            ELSE Searching(next)
      BY <1>7, <2>3 DEF SearchBackward
    <3>2. start \in from .. p - 1 /\ start \in 1 .. size /\ p - 1 <= start + STEP - 1
          /\ (start + STEP - 1 < p \/ start = from)
      BY <1>2, <2>1, <2>3 DEF BatchStart
    <3>3. CASE r.broken
      BY <1>5, <3>1, <3>3
    <3>4. CASE ~r.broken
      <4> DEFINE hi == IF r.last > p THEN p ELSE r.last
                 received == IF r.last > p THEN p + 1 ELSE r.last
                 next == NextBackward(p, received)
                 M == Matches(start, hi)
      <4>1. r.first = start /\ r.last \in start - 1 .. size
            /\ r.last = IF start + STEP - 1 < size THEN start + STEP - 1 ELSE size
        <5> HIDE DEF start, size
        <5> QED BY <1>2, <3>1, <3>2, <3>4, RepliesFacts
      <4>2. hi \in p - 1 .. p /\ hi \in Int
        BY <1>2, <2>1, <3>2, <4>1
      <4>3. backward' = IF M # {} THEN Found(States[Closest(M)])
                        ELSE IF next = from THEN NotFound
                        ELSE Searching(next)
        BY <3>1, <3>4, <4>1
      <4>4. CASE M # {}
        <5>1. M \in SUBSET Nat /\ \A k \in M : k \in start .. hi /\ k <= p /\ States[k] # NoPtr
          <6> HIDE DEF hi, start
          <6> QED BY <1>2, <2>1, <3>2, <4>2 DEF Matches
        <5>2. Max(M) \in M /\ \A k \in M : Max(M) >= k
          <6> HIDE DEF M
          <6> QED BY <1>2, <4>4, <5>1, MaxIsGreatest
        <5>3. RuledOut(Max(M) + 1, to)
          <6> SUFFICES ASSUME NEW k \in Max(M) + 1 .. to PROVE States[k] = NoPtr
            BY DEF RuledOut
          <6> HIDE DEF hi, start
          <6>1. Max(M) \in Int /\ Max(M) >= start /\ k \in Int /\ k > Max(M) /\ k \notin M
            BY <1>2, <3>2, <5>1, <5>2
          <6>2. CASE k <= hi
            BY <3>2, <4>2, <6>1, <6>2 DEF Matches
          <6>3. CASE k > hi
            BY <1>2, <2>1, <4>2, <6>1, <6>3 DEF RuledOut
          <6> QED BY <4>2, <6>1, <6>2, <6>3
        <5>4. Max(M) \in from .. to /\ States[Max(M)] # NoPtr
          <6> HIDE DEF hi, start
          <6> QED BY <1>2, <2>1, <3>2, <5>1, <5>2
        <5>5. backward' = Found(States[Max(M)])
          BY <4>3, <4>4 DEF Closest
        <5> HIDE DEF M
        <5> QED BY <1>3, <5>3, <5>4, <5>5
      <4>5. CASE M = {}
        <5>1. RuledOut(start, hi)
          <6> HIDE DEF hi, start
          <6> QED BY <3>2, <4>2, <4>5, NoMatches
        <5>2. RuledOut(p - 1, to)
          <6> HIDE DEF hi, start
          <6> QED BY <1>2, <2>1, <3>2, <4>2, <5>1 DEF RuledOut
        <5>3. next = p - 1 \/ next = from
          <6>1. CASE received < p
            <7>1. next = received
              BY <6>1 DEF NextBackward
            <7>2. r.last \in Int /\ received = r.last /\ hi = r.last
              BY <1>2, <4>1, <6>1
            <7>3. r.last = p - 1
              <8> HIDE DEF start, next, received, hi
              <8> QED BY <1>2, <4>2, <6>1, <7>2
            <7> QED BY <7>1, <7>2, <7>3
          <6>2. CASE ~(received < p)
            <7>1. next = start
              BY <6>2 DEF NextBackward
            <7>2. r.last >= p
              BY <1>2, <2>1, <4>1, <6>2
            <7>3. start = from
              <8> HIDE DEF start, next, received, hi
              <8> QED BY <1>2, <2>1, <3>2, <4>1, <7>2
            <7> QED BY <7>1, <7>3
          <6> QED BY <6>1, <6>2
        <5> DEFINE i == p - 1
        <5>4. backward' = NotFound \/ backward' = Searching(i)
          <6> HIDE DEF next, M
          <6> QED BY <4>3, <4>5, <5>3
        <5>5. i \in from .. to
          BY <1>2, <2>1, <2>3
        <5> HIDE DEF i, from, to
        <5>6. CASE backward' = Searching(i)
          BY <1>4, <5>2, <5>5, <5>6 DEF i
        <5> QED BY <1>5, <5>4, <5>6
      <4> QED BY <4>4, <4>5
    <3> QED BY <3>3, <3>4
  <2> QED BY <2>2, <2>3
<1> QED BY <1>6, <1>7

-----------------------------------------------------------------------------

(* What a step of the two programs does to the search: all but a new run,  *)
(* the end of one, and the search itself leave it alone.                   *)
LEMMA StepsOfTheSearch ==
  ASSUME [Next]_vars
  PROVE  /\ chosen' = chosen
         /\ \/ StartSearch
            \/ Search
            \/ forward' = NotFound /\ backward' = NotFound
            \/ UNCHANGED boundsVars
<1>1. CASE UNCHANGED vars
  BY <1>1 DEF vars, generatorVars
<1>2. CASE MakeVideo \/ Video
  BY <1>2 DEF MakeVideo, Video, generatorVars
<1>3. CASE Launch
  BY <1>3 DEF Launch
<1>4. CASE FindBounds
  BY <1>4 DEF FindBounds
<1>5. CASE BoundsFail \/ OpenStream \/ StreamStep
  BY <1>5 DEF BoundsFail, OpenStream, StreamStep
<1>6. CASE ProcessFrame
  <2>1. PICK f : Take(f)
    BY <1>6 DEF ProcessFrame, IgnoreFrame, WaitForCommand, StartEpisode, ContinueEpisode, EndEpisode
  <2> QED BY <2>1 DEF Take
<1>7. CASE CreateFile \/ CreateFileFails \/ WriteFile \/ WriteFileFails
  BY <1>7 DEF CreateFile, CreateFileFails, WriteFile, WriteFileFails, notSaving
<1>8. CASE StreamFails \/ Finalize
  BY <1>8 DEF StreamFails, Finalize
<1>9. CASE NothingToMerge \/ MergeFails \/ OpenParts \/ CreateOutput \/ CopyRows
           \/ RemoveFile \/ CleanupEnds
  BY <1>9 DEF NothingToMerge, MergeFails, OpenParts, CreateOutput, CopyRows, RemoveFile,
     CleanupEnds, Succeed, notMerging
<1>10. CASE Quit \/ Kill
  BY <1>10 DEF Quit, Kill, Stop
<1> QED BY <1>1, <1>2, <1>3, <1>4, <1>5, <1>6, <1>7, <1>8, <1>9, <1>10
        DEF Next, Generate, GeneratorNext, Worker

LEMMA BoundsInit == Init => BoundsInv
BY DEF Init, GeneratorInit, BoundsInv, BoundsTypeOK, ForwardInv, BackwardInv, NotFound

LEMMA BoundsNext == BoundsInv /\ [Next]_vars => BoundsInv'
<1> SUFFICES ASSUME BoundsInv, [Next]_vars PROVE BoundsInv'
  OBVIOUS
<1>1. chosen' = chosen /\ recording' = recording /\ States' = States
  BY StepsOfTheSearch, RecordingStays
<1>2. chosen \in DOMAIN Recordings
  BY DEF BoundsInv, BoundsTypeOK
<1>3. CASE StartSearch
  <2>1. recording.from \in Nat /\ recording.to \in Nat
    BY <1>2, RecordingFacts
  <2> QED BY <1>1, <1>2, <1>3, <2>1
          DEF StartSearch, FirstTry, BoundsInv, BoundsTypeOK, ForwardInv, BackwardInv
<1>4. CASE TryForward \/ SearchForward
  <2>1. UNCHANGED backward
    BY <1>4 DEF TryForward, SearchForward
  <2>2. ForwardInv' /\ forward' \in [pc : {"try", "search", "found", "error"}, at : Nat]
    BY <1>1, <1>4, ForwardStep
  <2>3. BackwardInv'
    BY <1>1, <2>1 DEF BoundsInv, BackwardInv, RuledOut
  <2> QED BY <1>1, <2>1, <2>2, <2>3 DEF BoundsInv, BoundsTypeOK
<1>5. CASE TryBackward \/ SearchBackward
  <2>1. UNCHANGED forward
    BY <1>5 DEF TryBackward, SearchBackward
  <2>2. BackwardInv' /\ backward' \in [pc : {"try", "search", "found", "error"}, at : Nat]
    BY <1>1, <1>5, BackwardStep
  <2>3. ForwardInv'
    BY <1>1, <2>1 DEF BoundsInv, ForwardInv, RuledOut
  <2> QED BY <1>1, <2>1, <2>2, <2>3 DEF BoundsInv, BoundsTypeOK
<1>6. CASE forward' = NotFound /\ backward' = NotFound
  BY <1>1, <1>6 DEF NotFound, BoundsInv, BoundsTypeOK, ForwardInv, BackwardInv
<1>7. CASE UNCHANGED boundsVars
  BY <1>1, <1>7 DEF boundsVars, BoundsInv, BoundsTypeOK, ForwardInv, BackwardInv, RuledOut
<1> QED BY <1>3, <1>4, <1>5, <1>6, <1>7, StepsOfTheSearch DEF Search

(* The search for the bounds keeps what each goroutine has ruled out.      *)
THEOREM BoundsInvariance == Spec => []BoundsInv
BY BoundsInit, BoundsNext, PTL DEF Spec

(* Whatever the recording, the batch size and the order in which the two   *)
(* goroutines run: bounds that were found are those of the recording.      *)
THEOREM BoundsAreTheNearest == Spec => []BoundsAreNearest
<1>1. BoundsInv => BoundsAreNearest
  BY NearestFromInv
<1> QED BY <1>1, BoundsInvariance, PTL

-----------------------------------------------------------------------------

(* The frames sent so far, handled or still in the channel.                *)
Total == Len(handled) + Len(frames)
Given(i) == IF i <= Len(handled) THEN handled[i].id ELSE frames[i - Len(handled)]

Sent == {Given(i) : i \in 1 .. Total}

Sorted == \A i, j \in 1 .. Total : i < j => Given(i) < Given(j)
SentInOrder ==
    /\ Sent \subseteq InBounds
    /\ \A x \in Sent : \A b \in InBounds : b < x => b \in Sent

Before(n) == {b \in InBounds : b < n}

Reading ==
    source.pc = "read" =>
        /\ source.cursor \in forward.at .. recording.last + 1
        /\ Sent = Before(source.cursor)

(* Between the cursor and the next entry of the batch nothing is to be     *)
(* sent; a batch that did not break is full or reaches the newest entry.   *)
InBatch ==
    source.pc = "entry" =>
        /\ source.first \in forward.at .. source.next /\ source.next <= source.last + 1
        /\ source.last <= recording.last
        /\ source.cursor \in forward.at .. source.next
        /\ source.cursor = source.next => source.next = source.first
        /\ Sent = Before(source.next)
        /\ \A b \in InBounds : b < source.next => b <= source.cursor
        /\ ~source.broken => Received >= BATCH \/ source.last = recording.last

Returned == source.pc \in {"return", "end"} /\ errChan = "none" => Sent = InBounds

StreamTypes ==
    /\ source \in Sources
    /\ frames \in Seq(Nat) /\ handled \in Seq(Handled)

NoStream == frames = <<>> /\ handled = <<>>

StreamInv ==
    /\ StreamTypes
    /\ source.pc = "off" => NoStream /\ pc \in {"off", "bounds", "failed"}
    /\ pc \in {"off", "bounds"} => source.pc = "off"
    /\ source.pc # "off" => BoundsFound /\ Sorted /\ SentInOrder /\ Reading /\ InBatch /\ Returned
    /\ closed => source.pc = "end"
    /\ Finalized => source.pc = "end" /\ errChan = "none" /\ frames = <<>>

(* Bounds that were found are entries of the recorded queue, in order.     *)
LEMMA FoundFacts ==
  ASSUME BoundsInv, BoundsFound
  PROVE  /\ forward.at \in 1 .. recording.last /\ backward.at \in 1 .. recording.last
         /\ forward.at <= backward.at /\ recording.last \in Nat
<1> chosen \in DOMAIN Recordings
  BY DEF BoundsInv, BoundsTypeOK
<1>1. PICK i \in recording.from .. Len(States) : States[i] # NoPtr /\ forward.at = States[i]
  BY DEF BoundsInv, ForwardInv, BoundsFound
<1>2. PICK j \in recording.from .. recording.to : States[j] # NoPtr /\ backward.at = States[j]
  BY DEF BoundsInv, BackwardInv, BoundsFound
<1>3. i \in 1 .. Len(States) /\ j \in 1 .. Len(States)
  BY <1>1, <1>2, RecordingFacts
<1>4. States[i] \in 0 .. recording.last /\ States[j] \in 0 .. recording.last
      /\ recording.last \in Nat
  BY <1>3, RecordingFacts
<1>5. forward.at \in 1 .. recording.last /\ backward.at \in 1 .. recording.last
  BY <1>1, <1>2, <1>4 DEF NoPtr
<1> QED BY <1>4, <1>5, NearestFromInv DEF BoundsAreNearest

(* The property from the invariant: the frames up to the i-th handled one  *)
(* are counted off by the handled ones.                                    *)
LEMMA OnceInOrderFromInv ==
  ASSUME BoundsInv, StreamInv
  PROVE  FramesOnceInOrder
<1>1. handled \in Seq(Handled) /\ frames \in Seq(Nat)
      /\ Len(handled) \in Nat /\ Len(frames) \in Nat
  BY DEF StreamInv, StreamTypes
<1>2. CASE source.pc = "off"
  <2>1. Len(handled) = 0 /\ ~Finalized
    BY <1>2 DEF StreamInv, NoStream, Finalized
  <2> QED BY <2>1 DEF FramesOnceInOrder
<1>3. CASE source.pc # "off"
  <2> BoundsFound /\ Sorted /\ SentInOrder
    BY <1>3 DEF StreamInv
  <2> DEFINE InOrder ==
               /\ \A i \in 1 .. Total : Given(i) \in InBounds
               /\ \A i \in 1 .. Total : \A b \in InBounds :
                     b < Given(i) => \E k \in 1 .. Total : Given(k) = b
  <2> InOrder
    BY DEF SentInOrder, Sent
  <2> DEFINE n == Len(handled)
  <2>1. InBounds \subseteq Int
    BY FoundFacts DEF InBounds
  <2>2. Total \in Nat /\ n <= Total /\ n \in Nat
        /\ \A i \in 1 .. n : i \in 1 .. Total /\ Given(i) = handled[i].id
    BY <1>1 DEF Total, Given
  <2>3. ASSUME NEW i \in 1 .. n
        PROVE  handled[i].id \in InBounds
               /\ Cardinality({j \in InBounds : j <= handled[i].id}) = i
    <3> DEFINE S == {j \in InBounds : j <= handled[i].id}
               g == [k \in 1 .. i |-> Given(k)]
    <3>1. i \in Nat /\ i <= n /\ i \in 1 .. Total /\ Given(i) = handled[i].id
          /\ handled[i].id \in InBounds
      BY <2>2
    <3>2. \A k \in 1 .. i : k \in 1 .. Total /\ Given(k) \in InBounds /\ Given(k) \in Int
      <4>1. \A k \in 1 .. i : k \in 1 .. Total
        BY <2>2, <3>1
      <4> QED BY <2>1, <4>1
    <3>3. \A k \in 1 .. i : Given(k) <= Given(i)
      BY <3>1, <3>2 DEF Sorted
    <3>4. g \in [1 .. i -> S]
      BY <3>1, <3>2, <3>3
    <3>5. ASSUME NEW x \in S PROVE \E k \in 1 .. i : g[k] = x
      <4>1. x \in InBounds /\ x <= Given(i) /\ x \in Int
        BY <2>1, <3>1
      <4>2. CASE x = Given(i)
        BY <3>1, <4>2
      <4>3. CASE x < Given(i)
        <5>1. PICK k \in 1 .. Total : Given(k) = x
          BY <3>1, <4>1, <4>3
        <5>2. k < i
          BY <2>2, <3>1, <3>2, <4>1, <4>3, <5>1 DEF Sorted
        <5> QED BY <3>1, <5>1, <5>2
      <4> QED BY <2>1, <3>1, <3>2, <4>1, <4>2, <4>3
    <3>6. \A a, b \in 1 .. i : a < b => g[a] < g[b]
      BY <3>2 DEF Sorted
    <3>7. \A k \in 1 .. i : g[k] \in Int
      BY <3>2
    <3> HIDE DEF S, g
    <3>8. Cardinality(S) = i
      BY <3>1, <3>4, <3>5, <3>6, <3>7, CountedOff
    <3> QED BY <3>1, <3>8 DEF S
  <2>4. ASSUME Finalized PROVE n = Cardinality(InBounds)
    <3> DEFINE g == [k \in 1 .. n |-> Given(k)]
    <3>1. Sent = InBounds /\ frames = <<>> /\ Total = n
      BY <1>1, <1>3, <2>4 DEF StreamInv, Returned, Total
    <3>2. \A k \in 1 .. n : Given(k) \in InBounds /\ Given(k) \in Int
      BY <2>1, <3>1
    <3>3. g \in [1 .. n -> InBounds] /\ \A k \in 1 .. n : g[k] \in Int
      BY <3>2
    <3>4. \A a, b \in 1 .. n : a < b => g[a] < g[b]
      BY <3>1 DEF Sorted
    <3>5. \A x \in InBounds : \E k \in 1 .. n : g[k] = x
      BY <3>1 DEF Sent
    <3> HIDE DEF g
    <3> QED BY <2>2, <3>3, <3>4, <3>5, CountedOff
  <2> QED BY <2>3, <2>4 DEF FramesOnceInOrder
<1> QED BY <1>2, <1>3

-----------------------------------------------------------------------------

(* Steps that neither send nor handle a frame.                             *)
LEMMA QueueKept ==
  ASSUME UNCHANGED <<frames, handled>>
  PROVE  Sent' = Sent /\ Sorted' = Sorted
BY DEF Sent, Sorted, Total, Given

LEMMA BoundsKept ==
  ASSUME UNCHANGED <<chosen, forward, backward>>
  PROVE  InBounds' = InBounds /\ BoundsFound' = BoundsFound /\ recording' = recording
BY DEF InBounds, BoundsFound, recording

(* The fields of the goroutine after a read.                               *)
LEMMA AfterRead ==
  ASSUME source \in Sources, NEW f, NEW l, NEW b,
         source' = [source EXCEPT !.pc = "entry", !.next = f, !.first = f, !.last = l, !.broken = b]
  PROVE  /\ source'.pc = "entry" /\ source'.next = f /\ source'.first = f /\ source'.last = l
         /\ source'.cursor = source.cursor
BY DEF Sources

LEMMA AfterReadType ==
  ASSUME source \in Sources, NEW f \in Nat, NEW l \in Nat, NEW b \in BOOLEAN,
         source' = [source EXCEPT !.pc = "entry", !.next = f, !.first = f, !.last = l, !.broken = b]
  PROVE  source' \in Sources /\ source'.broken = b
BY DEF Sources

(* The steps of the goroutine that reads the queue.                        *)
LEMMA StreamKeepsInv ==
  ASSUME BoundsInv, StreamInv, Stream,
         UNCHANGED <<chosen, forward, backward, pc, handled>>
  PROVE  StreamInv'
<1>1. source.pc \notin {"off", "end"}
  BY DEF Stream, ReadBatch, PassBounds, SkipDamaged, SendFrame, EndBatch, SendError, Return
<1>2. /\ StreamTypes /\ BoundsFound /\ Sorted /\ SentInOrder /\ Reading /\ InBatch /\ Returned
      /\ ~closed /\ ~Finalized /\ pc \notin {"off", "bounds"}
  BY <1>1 DEF StreamInv
<1>3. /\ forward.at \in 1 .. recording.last /\ backward.at \in 1 .. recording.last
      /\ forward.at <= backward.at /\ recording.last \in Nat /\ BATCH \in Nat \ {0}
  BY <1>2, FoundFacts, StreamAssumption
<1>4. InBounds' = InBounds /\ BoundsFound' = BoundsFound /\ recording' = recording
  BY BoundsKept
<1>5. \A b \in InBounds : b \in Int /\ b <= backward.at /\ forward.at <= b
  BY <1>3 DEF InBounds
<1> DEFINE Goal == /\ StreamTypes' /\ source'.pc # "off" /\ Sorted' /\ SentInOrder'
                   /\ Reading' /\ InBatch' /\ Returned' /\ (closed' => source'.pc = "end")
<1>6. SUFFICES Goal
  BY <1>2, <1>4 DEF StreamInv, Finalized
<1>7. source \in Sources /\ source.cursor \in Nat /\ source.next \in Nat /\ source.last \in Nat
      /\ source.first \in Nat
  BY <1>2 DEF StreamTypes, Sources
<1>8. ASSUME UNCHANGED frames
      PROVE  Sent' = Sent /\ Sorted' /\ SentInOrder'
             /\ frames' \in Seq(Nat) /\ handled' \in Seq(Handled)
  BY <1>2, <1>4, <1>8, QueueKept DEF SentInOrder, StreamTypes
<1>9. CASE ReadBatch
  <2>1. PICK r \in Replies(recording.last, source.cursor, BATCH) :
           source' = [source EXCEPT !.pc = "entry", !.next = r.first, !.first = r.first,
                                    !.last = r.last, !.broken = r.broken]
    BY <1>9 DEF ReadBatch
  <2>2. source.cursor \in forward.at .. recording.last + 1 /\ Sent = Before(source.cursor)
    BY <1>2, <1>9 DEF ReadBatch, Reading
  <2>3. r.first = source.cursor /\ r.last \in source.cursor - 1 .. recording.last
    BY <1>3, <2>1, <2>2, RepliesFacts
  <2>b. r.broken \in BOOLEAN
    BY <1>3, <2>1, <2>2, RepliesFacts
  <2>c. ASSUME ~r.broken
        PROVE  r.last - r.first + 1 >= BATCH \/ r.last = recording.last
    <3>1. r.last = IF source.cursor + BATCH - 1 < recording.last
                   THEN source.cursor + BATCH - 1 ELSE recording.last
      BY <1>3, <2>1, <2>2, <2>c, RepliesFacts
    <3> QED BY <1>3, <2>2, <2>3, <3>1
  <2>4. /\ source'.pc = "entry" /\ source'.next = r.first /\ source'.first = r.first
        /\ source'.last = r.last /\ source'.cursor = source.cursor
    BY <1>2, <2>1, AfterRead DEF StreamTypes
  <2>5. source' \in Sources /\ source'.broken = r.broken
    <3>1. r.last \in Nat /\ r.first \in Nat
      BY <1>3, <2>2, <2>3
    <3> QED BY <1>2, <2>1, <2>b, <3>1, AfterReadType DEF StreamTypes
  <2>6. UNCHANGED <<frames, closed, errChan>>
    BY <1>9 DEF ReadBatch
  <2>7. InBatch'
    <3>1. source'.first \in forward.at .. source'.next /\ source'.next <= source'.last + 1
          /\ source'.last <= recording.last /\ source'.cursor \in forward.at .. source'.next
          /\ source'.next = source'.first
      BY <1>3, <2>2, <2>3, <2>4
    <3>2. Sent' = {b \in InBounds' : b < source'.next}
      BY <1>4, <1>8, <2>2, <2>3, <2>4, <2>6 DEF Before
    <3>3. \A b \in InBounds' : b < source'.next => b <= source'.cursor
      BY <1>4, <1>5, <2>2, <2>3, <2>4
    <3>4. ~source'.broken => source'.last - source'.first + 1 >= BATCH \/ source'.last = recording.last
      BY <2>c, <2>4, <2>5
    <3> QED BY <1>4, <3>1, <3>2, <3>3, <3>4 DEF InBatch, Before, Received
  <2> QED BY <1>2, <1>8, <2>4, <2>5, <2>6, <2>7 DEF StreamTypes, Reading, Returned
<1>10. CASE PassBounds
  <2>1. source' = [source EXCEPT !.pc = "return"] /\ source.next > backward.at
        /\ UNCHANGED <<frames, closed, errChan>> /\ source.pc = "entry"
    BY <1>10 DEF PassBounds
  <2>2. source'.pc = "return" /\ source' \in Sources
    BY <1>2, <2>1 DEF StreamTypes, Sources
  <2>3. Sent = Before(source.next)
    BY <1>2, <2>1 DEF InBatch
  <2>4. Sent = InBounds
    BY <1>3, <1>5, <1>7, <2>1, <2>3 DEF Before
  <2> QED BY <1>2, <1>4, <1>8, <2>1, <2>2, <2>4 DEF StreamTypes, Reading, InBatch, Returned
<1>11. ASSUME source.pc = "entry"
       PROVE  /\ source.first \in forward.at .. source.next /\ source.next <= source.last + 1
              /\ source.last <= recording.last
              /\ source.cursor \in forward.at .. source.next
              /\ source.cursor = source.next => source.next = source.first
              /\ Sent = Before(source.next)
              /\ \A b \in InBounds : b < source.next => b <= source.cursor
  BY <1>2, <1>11 DEF InBatch
<1>12. CASE SkipDamaged
  <2>1. source' = [source EXCEPT !.next = source.next + 1] /\ source.next \in recording.damaged
        /\ UNCHANGED <<frames, closed, errChan>> /\ source.pc = "entry"
        /\ source.next <= source.last
    BY <1>12 DEF SkipDamaged
  <2>2. source'.pc = "entry" /\ source'.next = source.next + 1 /\ source'.first = source.first
        /\ source'.last = source.last /\ source'.cursor = source.cursor
    BY <1>2, <2>1 DEF StreamTypes, Sources
  <2>3. source'.broken = source.broken /\ source' \in Sources
    <3>1. source.next + 1 \in Nat
      BY <1>7
    <3> QED BY <1>2, <2>1, <3>1 DEF StreamTypes, Sources
  <2>4. \A b \in InBounds : b < source.next + 1 <=> b < source.next
    <3>1. source.next \notin InBounds
      BY <2>1 DEF InBounds
    <3> QED BY <1>5, <1>7, <3>1
  <2>5. InBatch'
    <3>1. source'.first \in forward.at .. source'.next /\ source'.next <= source'.last + 1
          /\ source'.last <= recording.last /\ source'.cursor \in forward.at .. source'.next
          /\ source'.cursor # source'.next
      BY <1>3, <1>7, <1>11, <2>1, <2>2
    <3>2. Sent' = {b \in InBounds' : b < source'.next}
      BY <1>4, <1>8, <1>11, <2>1, <2>2, <2>4 DEF Before
    <3>3. \A b \in InBounds' : b < source'.next => b <= source'.cursor
      BY <1>4, <1>11, <2>1, <2>2, <2>4
    <3>4. ~source'.broken => source'.last - source'.first + 1 >= BATCH \/ source'.last = recording.last
      BY <1>2, <2>1, <2>2, <2>3 DEF InBatch, Received
    <3> QED BY <1>4, <3>1, <3>2, <3>3, <3>4 DEF InBatch, Before, Received
  <2> QED BY <1>2, <1>8, <2>1, <2>2, <2>3, <2>5 DEF StreamTypes, Reading, Returned
<1>13. CASE SendFrame
  <2>1. /\ source' = [source EXCEPT !.cursor = source.next, !.next = source.next + 1]
        /\ source.next \notin recording.damaged /\ source.next <= backward.at
        /\ frames' = Append(frames, source.next)
        /\ UNCHANGED <<closed, errChan>> /\ source.pc = "entry"
        /\ source.next <= source.last
    BY <1>13 DEF SendFrame
  <2>2. source'.pc = "entry" /\ source'.next = source.next + 1 /\ source'.first = source.first
        /\ source'.last = source.last /\ source'.cursor = source.next
    BY <1>2, <2>1 DEF StreamTypes, Sources
  <2>3. source'.broken = source.broken /\ source' \in Sources
    <3>1. source.next + 1 \in Nat
      BY <1>7
    <3> QED BY <1>2, <1>7, <2>1, <3>1 DEF StreamTypes, Sources
  <2>4. source.next \in InBounds
    BY <1>3, <1>7, <1>11, <2>1 DEF InBounds
  <2>5. /\ frames' \in Seq(Nat) /\ Total' = Total + 1 /\ Total \in Nat
        /\ \A i \in 1 .. Total : Given(i)' = Given(i)
        /\ \A i \in 1 .. Total' : i = Total + 1 => Given(i)' = source.next
    <3>1. frames \in Seq(Nat) /\ handled \in Seq(Handled)
          /\ Len(handled) \in Nat /\ Len(frames) \in Nat /\ handled' = handled
      BY <1>2 DEF StreamTypes
    <3>2. /\ frames' \in Seq(Nat) /\ Len(frames') = Len(frames) + 1
          /\ \A i \in 1 .. Len(frames) : frames'[i] = frames[i]
          /\ frames'[Len(frames) + 1] = source.next
      BY <1>7, <2>1, <3>1
    <3>3. Total' = Total + 1 /\ Total \in Nat
      BY <3>1, <3>2 DEF Total
    <3>4. ASSUME NEW i \in 1 .. Total PROVE Given(i)' = Given(i)
      <4>1. CASE i <= Len(handled)
        BY <3>1, <4>1 DEF Given
      <4>2. CASE ~(i <= Len(handled))
        <5>1. i - Len(handled) \in 1 .. Len(frames)
          BY <3>1, <4>2 DEF Total
        <5> QED BY <3>1, <3>2, <4>2, <5>1 DEF Given
      <4> QED BY <4>1, <4>2
    <3>5. ASSUME NEW i \in 1 .. Total', i = Total + 1 PROVE Given(i)' = source.next
      <4>1. ~(i <= Len(handled)) /\ i - Len(handled) = Len(frames) + 1
        BY <3>1, <3>5 DEF Total
      <4> QED BY <3>1, <3>2, <4>1 DEF Given
    <3> QED BY <3>2, <3>3, <3>4, <3>5
  <2>6. Sent' = Sent \cup {source.next}
    <3> HIDE DEF Total
    <3>1. 1 .. Total' = (1 .. Total) \cup {Total + 1}
      BY <2>5
    <3>2. Sent' = {Given(i)' : i \in 1 .. Total'}
      BY DEF Sent
    <3>3. {Given(i)' : i \in 1 .. Total} = Sent
      BY <2>5 DEF Sent
    <3>4. Total + 1 \in 1 .. Total'
      BY <2>5
    <3>5. {Given(i)' : i \in 1 .. Total'} = {Given(i)' : i \in 1 .. Total} \cup {source.next}
      BY <2>5, <3>1, <3>4
    <3> QED BY <3>2, <3>3, <3>5
  <2>7. Sent' = {b \in InBounds : b < source.next + 1}
    BY <1>5, <1>7, <1>11, <2>1, <2>4, <2>6 DEF Before
  <2>8. Sorted'
    <3>1. \A i \in 1 .. Total : Given(i) < source.next
      BY <1>11, <2>1 DEF Sent, Before
    <3>2. SUFFICES ASSUME NEW i \in 1 .. Total', NEW j \in 1 .. Total', i < j
                   PROVE  Given(i)' < Given(j)'
      BY DEF Sorted
    <3>3. CASE j \in 1 .. Total
      BY <1>2, <2>5, <3>2, <3>3 DEF Sorted
    <3>4. CASE j = Total + 1
      <4>1. i \in 1 .. Total /\ Given(i)' = Given(i)
        BY <2>5, <3>2, <3>4
      <4> QED BY <2>5, <3>1, <3>4, <4>1
    <3> QED BY <2>5, <3>2, <3>3, <3>4
  <2>9. SentInOrder'
    BY <1>4, <1>5, <1>7, <2>7 DEF SentInOrder
  <2>10. InBatch'
    <3>1. source'.first \in forward.at .. source'.next /\ source'.next <= source'.last + 1
          /\ source'.last <= recording.last /\ source'.cursor \in forward.at .. source'.next
          /\ source'.cursor # source'.next
      BY <1>3, <1>7, <1>11, <2>1, <2>2
    <3>2. Sent' = {b \in InBounds' : b < source'.next}
      BY <1>4, <2>2, <2>7
    <3>3. \A b \in InBounds' : b < source'.next => b <= source'.cursor
      BY <1>4, <1>5, <1>7, <2>2
    <3>4. ~source'.broken => source'.last - source'.first + 1 >= BATCH \/ source'.last = recording.last
      BY <1>2, <2>1, <2>2, <2>3 DEF InBatch, Received
    <3> QED BY <1>4, <3>1, <3>2, <3>3, <3>4 DEF InBatch, Before, Received
  <2> QED BY <1>2, <2>1, <2>2, <2>3, <2>5, <2>8, <2>9, <2>10 DEF StreamTypes, Reading, Returned
<1>14. CASE EndBatch
  <2>1. source.pc = "entry" /\ source.next > source.last /\ UNCHANGED <<frames, closed, errChan>>
    BY <1>14 DEF EndBatch
  <2>2. source.next = source.last + 1
    BY <1>7, <1>11, <2>1
  <2>3. ASSUME NEW s \in {"failing", "return"}, source' = [source EXCEPT !.pc = s],
               s = "return" => Sent = InBounds
        PROVE  Goal
    <3>1. source'.pc = s /\ source' \in Sources
      BY <1>2, <2>3 DEF StreamTypes, Sources
    <3>2. source'.pc \in {"failing", "return"} /\ (source'.pc = "return" => Sent = InBounds)
      BY <2>3, <3>1
    <3>3. StreamTypes' /\ Sorted' /\ SentInOrder' /\ closed' = closed /\ source' \in Sources
      BY <1>2, <1>8, <2>1, <3>1 DEF StreamTypes
    <3>4. Reading' /\ InBatch' /\ Returned'
      BY <1>4, <1>8, <2>1, <3>2 DEF Reading, InBatch, Returned
    <3> QED BY <1>2, <3>2, <3>3, <3>4
  <2> DEFINE A == [source EXCEPT !.pc = "failing"]
             B == [source EXCEPT !.pc = "return"]
             C == [source EXCEPT !.pc = "read", !.cursor = source.cursor + 1]
             full == Received < BATCH \/ source.cursor >= backward.at
  <2>9. source' = IF source.broken THEN A ELSE IF full THEN B ELSE C
    BY <1>14 DEF EndBatch, NextCursor
  <2>4. CASE source.broken
    <3>1. source' = A
      <4> HIDE DEF A, B, C, full
      <4> QED BY <2>4, <2>9, Zenon
    <3> QED BY <2>3, <3>1
  <2>5. CASE ~source.broken
    <3>1. Received >= BATCH \/ source.last = recording.last
      BY <1>2, <2>1, <2>5 DEF InBatch
    <3>2. source' = IF full THEN B ELSE C
      <4> HIDE DEF A, B, C, full
      <4> QED BY <2>5, <2>9, Zenon
    <3>3. CASE Received < BATCH
      <4>1. source.last = recording.last
        BY <1>3, <1>7, <3>1, <3>3 DEF Received
      <4>2. Sent = InBounds
        BY <1>3, <1>5, <1>7, <1>11, <2>1, <4>1 DEF Before
      <4>3. source' = B
        BY <3>2, <3>3
      <4> QED BY <2>3, <4>2, <4>3
    <3>4. CASE ~(Received < BATCH) /\ source.cursor >= backward.at
      <4>1. source.first <= source.last
        BY <1>3, <1>7, <3>4 DEF Received
      <4>2. source.cursor < source.next
        BY <1>3, <1>7, <1>11, <2>1, <2>2, <4>1
      <4>3. Sent = InBounds
        <5>1. \A b \in InBounds : b < source.next
          BY <1>3, <1>5, <1>7, <3>4, <4>2
        <5> QED BY <1>11, <2>1, <5>1 DEF Before
      <4>4. source' = B
        BY <3>2, <3>4
      <4> QED BY <2>3, <4>3, <4>4
    <3>5. CASE ~(Received < BATCH) /\ ~(source.cursor >= backward.at)
      <4>1. source.first <= source.last
        BY <1>3, <1>7, <3>5 DEF Received
      <4>2. source.cursor < source.next
        BY <1>3, <1>7, <1>11, <2>1, <2>2, <4>1
      <4>3. source' = [source EXCEPT !.pc = "read", !.cursor = source.cursor + 1]
        BY <3>2, <3>5
      <4>4. source.cursor + 1 \in Nat
        BY <1>7
      <4>5. source'.pc = "read" /\ source'.cursor = source.cursor + 1 /\ source' \in Sources
        BY <1>2, <4>3, <4>4 DEF StreamTypes, Sources
      <4>6. source'.cursor \in forward.at .. recording.last + 1
        BY <1>3, <1>7, <1>11, <2>1, <3>5, <4>5
      <4>7. \A b \in InBounds : b < source.next <=> b < source.cursor + 1
        BY <1>5, <1>7, <1>11, <2>1, <4>2
      <4>8. Sent' = {b \in InBounds' : b < source'.cursor}
        BY <1>4, <1>8, <1>11, <2>1, <4>5, <4>7 DEF Before
      <4>9. Reading'
        BY <1>4, <4>6, <4>8 DEF Reading, Before
      <4> QED BY <1>2, <1>8, <2>1, <4>5, <4>9 DEF StreamTypes, InBatch, Returned
    <3> QED BY <3>3, <3>4, <3>5
  <2> QED BY <2>4, <2>5
<1>15. CASE SendError
  <2>1. source' = [source EXCEPT !.pc = "return"] /\ errChan' = "error" /\ UNCHANGED <<frames, closed>>
    BY <1>15 DEF SendError
  <2>2. source'.pc = "return" /\ source' \in Sources
    BY <1>2, <2>1 DEF StreamTypes, Sources
  <2> QED BY <1>2, <1>8, <2>1, <2>2 DEF StreamTypes, Reading, InBatch, Returned
<1>16. CASE Return
  <2>1. source' = [NoBatch EXCEPT !.pc = "end"] /\ UNCHANGED <<frames, errChan>>
        /\ source.pc = "return"
    BY <1>16 DEF Return
  <2>2. source'.pc = "end" /\ source' \in Sources
    BY <2>1 DEF NoBatch, Sources
  <2> QED BY <1>2, <1>4, <1>8, <2>1, <2>2 DEF StreamTypes, Reading, InBatch, Returned
<1> QED BY <1>9, <1>10, <1>12, <1>13, <1>14, <1>15, <1>16 DEF Stream

(* A frame that was received is as the recording allows.                   *)
LEMMA FrameFacts ==
  ASSUME chosen \in DOMAIN Recordings, NEW id, NEW f \in Frames(id)
  PROVE  f.id = id /\ f.images \in 0 .. 2 /\ f.goals \in AnyGoals /\ f.stamp <= LIFETIME
         /\ \E k \in recording.frames : k.step \in Nat /\ f.stamp = Stamp(k)
<1>1. PICK k \in recording.frames :
         /\ f = [id |-> id, stamp |-> Stamp(k), goals |-> k.goals, images |-> k.images]
         /\ Stamp(k) <= LIFETIME
  BY DEF Frames
<1>2. k.step \in Nat /\ k.goals \in AnyGoals /\ k.images \in 0 .. 2
  BY <1>1, GeneratorAssumption DEF recording
<1> QED BY <1>1, <1>2

LEMMA EntryFacts ==
  ASSUME NEW f, f.id \in Nat, f.goals \in AnyGoals, f.images \in 0 .. 2
  PROVE  /\ Entry(f) \in Handled /\ Entry(f).id = f.id /\ Entry(f).images = f.images
         /\ Entry(f).goals = f.goals /\ Entry(f).open = InEpisode(detector)
BY DEF Entry, Handled, InEpisode

(* Handling a frame moves it from the channel to the handled ones.         *)
LEMMA TakeKeepsInv ==
  ASSUME BoundsInv, StreamInv, pc' \in {"stream", "save"},
         NEW f, Take(f), f.goals \in AnyGoals, f.images \in 0 .. 2
  PROVE  StreamInv'
<1>1. /\ pc = "stream" /\ frames # <<>> /\ f.id = Head(frames) /\ frames' = Tail(frames)
      /\ handled' = Append(handled, Entry(f))
      /\ UNCHANGED <<chosen, forward, backward, source, closed, errChan>>
  BY DEF Take, boundsVars
<1>2. /\ StreamTypes /\ source.pc # "off" /\ BoundsFound /\ Sorted /\ SentInOrder /\ Reading /\ InBatch
      /\ Returned /\ (closed => source.pc = "end")
  BY <1>1 DEF StreamInv
<1>3. InBounds' = InBounds /\ BoundsFound' = BoundsFound /\ recording' = recording
  BY <1>1, BoundsKept
<1>4. frames \in Seq(Nat) /\ handled \in Seq(Handled)
      /\ Len(handled) \in Nat /\ Len(frames) \in Nat /\ Len(frames) > 0
  BY <1>1, <1>2 DEF StreamTypes
<1>5. /\ frames' \in Seq(Nat) /\ Len(frames') = Len(frames) - 1
      /\ \A i \in 1 .. Len(frames') : frames'[i] = frames[i + 1]
      /\ f.id = frames[1] /\ f.id \in Nat
  BY <1>1, <1>4, HeadTailProperties
<1>6. /\ handled' \in Seq(Handled) /\ Len(handled') = Len(handled) + 1
      /\ \A i \in 1 .. Len(handled) : handled'[i] = handled[i]
      /\ handled'[Len(handled) + 1].id = f.id
  <2> DEFINE e == Entry(f)
  <2>1. e \in Handled /\ e.id = f.id
    BY <1>5, EntryFacts
  <2> HIDE DEF e
  <2> QED BY <1>1, <1>4, <2>1, AppendProperties DEF e
<1>7. Total' = Total /\ Total \in Nat
  BY <1>4, <1>5, <1>6 DEF Total
<1>8. ASSUME NEW i \in 1 .. Total PROVE Given(i)' = Given(i)
  <2>1. CASE i <= Len(handled)
    BY <1>4, <1>6, <2>1 DEF Given
  <2>2. CASE i = Len(handled) + 1
    <3>1. Given(i)' = f.id
      BY <1>4, <1>6, <2>2 DEF Given
    <3>2. Given(i) = frames[1]
      BY <1>4, <2>2 DEF Given
    <3> QED BY <1>5, <3>1, <3>2
  <2>3. CASE i > Len(handled) + 1
    <3>1. i - Len(handled') \in 1 .. Len(frames') /\ i - Len(handled') + 1 = i - Len(handled)
      BY <1>4, <1>5, <1>6, <2>3 DEF Total
    <3>2. Given(i)' = frames'[i - Len(handled')]
      BY <1>4, <1>6, <2>3 DEF Given
    <3>3. Given(i) = frames[i - Len(handled)]
      BY <1>4, <2>3 DEF Given
    <3> QED BY <1>5, <3>1, <3>2, <3>3
  <2> QED BY <1>4, <2>1, <2>2, <2>3
<1>9. Sent' = Sent
  <2>1. Sent' = {Given(i)' : i \in 1 .. Total'}
    BY DEF Sent
  <2>2. {Given(i)' : i \in 1 .. Total} = Sent
    BY <1>8 DEF Sent
  <2> QED BY <1>7, <2>1, <2>2
<1>10. Sorted'
  BY <1>2, <1>7, <1>8 DEF Sorted
<1>11. StreamTypes' /\ SentInOrder' /\ Reading' /\ Returned'
  BY <1>1, <1>2, <1>3, <1>5, <1>6, <1>9 DEF StreamTypes, SentInOrder, Reading, Before, Returned
<1>12. InBatch'
  BY <1>1, <1>2, <1>3, <1>9 DEF InBatch, Before, Received
<1> QED BY <1>1, <1>2, <1>3, <1>10, <1>11, <1>12 DEF StreamInv, Finalized

-----------------------------------------------------------------------------

(* Steps that leave the stream and the handled frames alone: where         *)
(* runProcessing may go is all that matters.                               *)
LEMMA OtherKeepsInv ==
  ASSUME StreamInv, UNCHANGED <<chosen, forward, backward, streamVars, handled>>,
         source.pc = "off" => pc' \in {"off", "bounds", "failed"},
         pc' \in {"off", "bounds"} => pc \in {"off", "bounds"},
         Finalized' => Finalized \/ (StreamOver /\ errChan = "none")
  PROVE  StreamInv'
<1>1. InBounds' = InBounds /\ BoundsFound' = BoundsFound /\ recording' = recording
  BY BoundsKept
<1>2. Sent' = Sent /\ Sorted' = Sorted
  BY QueueKept DEF streamVars
<1>3. source' = source /\ frames' = frames /\ closed' = closed /\ errChan' = errChan
      /\ handled' = handled /\ forward' = forward /\ backward' = backward
  BY DEF streamVars
<1>4. StreamTypes' /\ (source.pc = "off" => NoStream' /\ pc' \in {"off", "bounds", "failed"})
      /\ (pc' \in {"off", "bounds"} => source.pc = "off")
  BY <1>3 DEF StreamInv, StreamTypes, NoStream
<1>5. source.pc # "off" =>
         BoundsFound' /\ Sorted' /\ SentInOrder' /\ Reading' /\ InBatch' /\ Returned'
  BY <1>1, <1>2, <1>3 DEF StreamInv, SentInOrder, Reading, InBatch, Returned, Before, Received
<1>6. Finalized' => source.pc = "end" /\ errChan = "none" /\ frames = <<>>
  BY DEF StreamInv, StreamOver
<1> QED BY <1>3, <1>4, <1>5, <1>6 DEF StreamInv

(* Nothing is read, and nothing handled.                                   *)
LEMMA ResetMakesInv ==
  ASSUME source' = NoBatch, frames' = <<>>, handled' = <<>>, closed' = FALSE,
         pc' \in {"off", "bounds"}
  PROVE  StreamInv'
<1>1. source'.pc = "off" /\ source' \in Sources
  BY DEF NoBatch, Sources
<1>2. ~Finalized'
  BY DEF Finalized
<1> QED BY <1>1, <1>2 DEF StreamInv, StreamTypes, NoStream

LEMMA StreamInit == Init => StreamInv
<1> SUFFICES ASSUME Init PROVE StreamInv
  OBVIOUS
<1>1. source = NoBatch /\ frames = <<>> /\ handled = <<>> /\ closed = FALSE /\ pc = "off"
  BY DEF Init, GeneratorInit
<1>2. source.pc = "off" /\ source \in Sources
  BY <1>1 DEF NoBatch, Sources
<1> QED BY <1>1, <1>2 DEF StreamInv, StreamTypes, NoStream, Finalized

LEMMA StreamNext == BoundsInv /\ StreamInv /\ [Next]_vars => StreamInv'
<1> SUFFICES ASSUME BoundsInv, StreamInv, [Next]_vars PROVE StreamInv'
  OBVIOUS
<1>1. CASE UNCHANGED vars
  <2>1. UNCHANGED <<chosen, forward, backward, streamVars, handled, pc>> /\ Finalized' = Finalized
    BY <1>1 DEF vars, generatorVars, boundsVars, streamVars, Finalized
  <2> QED BY <2>1, OtherKeepsInv DEF StreamInv
<1>2. CASE MakeVideo \/ Video
  <2>1. UNCHANGED <<chosen, forward, backward, streamVars, handled, pc>> /\ Finalized' = Finalized
    BY <1>2 DEF MakeVideo, Video, generatorVars, boundsVars, streamVars, Finalized
  <2> QED BY <2>1, OtherKeepsInv DEF StreamInv
<1>3. CASE Launch
  BY <1>3, ResetMakesInv DEF Launch
<1>4. CASE FindBounds
  <2>1. /\ pc = "bounds" /\ pc' = pc /\ UNCHANGED <<source, frames, closed, errChan, handled>>
    BY <1>4 DEF FindBounds, streamVars
  <2>2. source.pc = "off" /\ NoStream /\ StreamTypes
    BY <2>1 DEF StreamInv
  <2>3. ~Finalized'
    BY <2>1 DEF Finalized
  <2> QED BY <2>1, <2>2, <2>3 DEF StreamInv, StreamTypes, NoStream
<1>5. CASE BoundsFail
  <2>1. UNCHANGED <<chosen, forward, backward, streamVars, handled>> /\ pc' = "failed"
    BY <1>5 DEF BoundsFail, Finish, boundsVars
  <2>2. ~Finalized'
    BY <2>1 DEF Finalized
  <2> QED BY <2>1, <2>2, OtherKeepsInv
<1>6. CASE OpenStream
  <2>1. /\ pc = "bounds" /\ BoundsFound /\ pc' = "stream" /\ UNCHANGED <<chosen, forward, backward, handled>>
        /\ source' = [NoBatch EXCEPT !.pc = "read", !.cursor = forward.at]
        /\ frames' = <<>> /\ closed' = FALSE
    BY <1>6 DEF OpenStream, StartStream, boundsVars
  <2>2. handled = <<>>
    BY <2>1 DEF StreamInv, NoStream
  <2>3. InBounds' = InBounds /\ BoundsFound' = BoundsFound /\ recording' = recording
    BY <2>1, BoundsKept
  <2>4. /\ forward.at \in 1 .. recording.last /\ backward.at \in 1 .. recording.last
        /\ forward.at <= backward.at /\ recording.last \in Nat
    BY <2>1, FoundFacts
  <2>5. source'.pc = "read" /\ source'.cursor = forward.at /\ source' \in Sources
    <3>1. forward.at \in Nat
      BY <2>4
    <3>2. source' = [NoBatch EXCEPT !.pc = "read", !.cursor = forward.at]
      BY <2>1
    <3> QED BY <3>1, <3>2 DEF NoBatch, Sources
  <2>6. Total' = 0 /\ Sent' = {} /\ Sorted'
    BY <2>1, <2>2 DEF Total, Sent, Sorted
  <2>7. Sent' = {b \in InBounds' : b < source'.cursor}
    BY <2>3, <2>4, <2>5, <2>6 DEF InBounds
  <2>8. Reading' /\ SentInOrder'
    BY <2>1, <2>3, <2>4, <2>5, <2>6, <2>7 DEF Reading, Before, SentInOrder
  <2>9. StreamTypes' /\ ~Finalized'
    BY <2>1, <2>2, <2>5 DEF StreamTypes, Finalized
  <2> QED BY <2>1, <2>3, <2>5, <2>6, <2>8, <2>9 DEF StreamInv, InBatch, Returned
<1>7. CASE StreamStep
  BY <1>7, StreamKeepsInv DEF StreamStep, boundsVars
<1>8. CASE ProcessFrame
  <2>1. PICK f \in UNION {Frames(frames[i]) : i \in 1 .. IF frames = <<>> THEN 0 ELSE 1} :
           Take(f) /\ pc' \in {"stream", "save"}
    <3>1. PICK f \in UNION {Frames(frames[i]) : i \in 1 .. IF frames = <<>> THEN 0 ELSE 1} :
             IgnoreFrame(f) \/ WaitForCommand(f) \/ StartEpisode(f) \/ ContinueEpisode(f)
             \/ EndEpisode(f)
      BY <1>8 DEF ProcessFrame
    <3>2. Take(f) /\ pc = "stream"
      BY <3>1 DEF IgnoreFrame, WaitForCommand, StartEpisode, ContinueEpisode, EndEpisode, Take
    <3>3. pc' = pc \/ pc' = "save"
      BY <3>1 DEF IgnoreFrame, WaitForCommand, StartEpisode, ContinueEpisode, EndEpisode
    <3> QED BY <3>2, <3>3
  <2>2. f.images \in 0 .. 2 /\ f.goals \in AnyGoals
    BY <2>1, FrameFacts DEF BoundsInv, BoundsTypeOK
  <2> QED BY <2>1, <2>2, TakeKeepsInv
<1>9. CASE CreateFile \/ CreateFileFails \/ WriteFile \/ WriteFileFails
  <2>1. UNCHANGED <<chosen, forward, backward, streamVars, handled>>
    BY <1>9 DEF CreateFile, CreateFileFails, WriteFile, WriteFileFails, notSaving, boundsVars
  <2>2. \/ pc \in {"save", "write"} /\ pc' \in {"write", "stream"}
        \/ pc \in {"finalSave", "finalWrite"} /\ pc' \in {"finalWrite", "merge"}
    BY <1>9 DEF CreateFile, CreateFileFails, WriteFile, WriteFileFails, Saving, Writing, Final,
       AfterSave
  <2> QED BY <2>1, <2>2, OtherKeepsInv DEF Finalized, StreamInv
<1>10. CASE StreamFails
  <2>1. UNCHANGED <<chosen, forward, backward, streamVars, handled>> /\ pc' = "failed"
    BY <1>10 DEF StreamFails, Finish, boundsVars
  <2>2. ~Finalized'
    BY <2>1 DEF Finalized
  <2> QED BY <2>1, <2>2, OtherKeepsInv
<1>11. CASE Finalize
  <2>1. UNCHANGED <<chosen, forward, backward, streamVars, handled>>
        /\ pc' \in {"merge", "finalSave"} /\ StreamOver /\ errChan = "none" /\ pc = "stream"
    BY <1>11 DEF Finalize, boundsVars, StreamOver
  <2> QED BY <2>1, OtherKeepsInv DEF StreamInv
<1>12. CASE NothingToMerge \/ MergeFails \/ OpenParts \/ CreateOutput \/ CopyRows
            \/ RemoveFile \/ CleanupEnds
  <2>1. UNCHANGED <<chosen, forward, backward, streamVars, handled>>
    BY <1>12 DEF NothingToMerge, MergeFails, OpenParts, CreateOutput, CopyRows, RemoveFile,
       CleanupEnds, Succeed, notMerging, boundsVars
  <2>2. /\ pc \in {"merge", "create", "copy", "cleanup"}
        /\ pc' \in {"create", "copy", "cleanup", "done"}
    BY <1>12 DEF NothingToMerge, MergeFails, OpenParts, CreateOutput, CopyRows, RemoveFile,
       CleanupEnds, Succeed, Finish
  <2> QED BY <2>1, <2>2, OtherKeepsInv DEF Finalized, StreamInv
<1>13. CASE Quit \/ Kill
  BY <1>13, ResetMakesInv DEF Quit, Kill, Stop, Finish
<1> QED BY <1>1, <1>2, <1>3, <1>4, <1>5, <1>6, <1>7, <1>8, <1>9, <1>10, <1>11, <1>12, <1>13
        DEF Next, Generate, GeneratorNext, Worker

(* The stream and the handled frames together are always a start of the    *)
(* frames within the bounds.                                               *)
THEOREM StreamInvariance == Spec => []StreamInv
BY BoundsInvariance, StreamInit, StreamNext, PTL DEF Spec

(* Whatever the recording, the batch size and the capacity of the channel, *)
(* the detector is given every frame within the bounds that parses, once   *)
(* and in order, and all of them before anything is finalized.             *)
THEOREM FramesAreOnceInOrder == Spec => []FramesOnceInOrder
<1>1. BoundsInv /\ StreamInv => FramesOnceInOrder
  BY OnceInOrderFromInv
<1> QED BY <1>1, BoundsInvariance, StreamInvariance, PTL

-----------------------------------------------------------------------------

LEMMA WordFacts ==
  /\ WORD \in Nat \ {0} /\ GAP \in Nat /\ GAP < WORD /\ STILL \in Nat \ {0} /\ LIFETIME \in Nat \ {0}
  /\ LIFETIME + GAP < WORD /\ NoGoals \notin Goals
BY DetectorAssumption, GeneratorAssumption

(* Unsigned subtraction of two words: the difference, or the difference    *)
(* and a wrap.                                                             *)
LEMMA MinusIsDifference ==
  ASSUME NEW a \in Nat, NEW b \in Nat, a < WORD, b < WORD, WORD \in Nat
  PROVE  Minus(a, b) = IF b <= a THEN a - b ELSE a - b + WORD
<1>1. \A x \in Int : x >= 0 /\ x < WORD => x % WORD = x
  OBVIOUS
<1>2. \A x \in Int : x < 0 /\ x > 0 - WORD => x % WORD = x + WORD
  OBVIOUS
<1> QED BY <1>1, <1>2 DEF Minus

LEMMA MinusIsWord ==
  ASSUME NEW a \in Int, NEW b \in Int
  PROVE  Minus(a, b) \in 0 .. WORD - 1 /\ Minus(a, b) \in Int
<1>1. WORD \in Nat \ {0}
  BY WordFacts
<1> QED BY <1>1 DEF Minus

-----------------------------------------------------------------------------

Detectors ==
    [lastGoals : AnyGoals, commands : Nat, moved : Nat, index : Nat,
     start : Nat, label : Labels, skip : BOOLEAN, buffer : Seq(Rows),
     started : Nat, discarded : Nat]

(* What a frame brings to the detector.                                    *)
IsFrame(f) == f.stamp \in 1 .. LIFETIME /\ f.goals \in AnyGoals /\ f.id \in Nat /\ f.images \in 1 .. 2

LEMMA RowType ==
  ASSUME NEW f, IsFrame(f), NEW label \in Labels, NEW since \in 0 .. WORD - 1
  PROVE  Row(label, f, since) \in Rows /\ Row(label, f, since).since = since
         /\ Row(label, f, since).episode = label /\ Row(label, f, since).id = f.id
BY DEF Row, Rows, IsFrame

LEMMA NewDetectorType == NewDetector \in Detectors
BY DEF NewDetector, Detectors, Labels, NoLabel, AnyGoals

LEMMA ResetFields ==
  ASSUME NEW d \in Detectors
  PROVE  /\ Reset(d) \in Detectors
         /\ Reset(d).lastGoals = d.lastGoals /\ Reset(d).commands = 0 /\ Reset(d).start = 0
         /\ Reset(d).index = d.index /\ Reset(d).started = d.started
<1>1. <<>> \in Seq(Rows) /\ NoLabel \in Labels /\ FALSE \in BOOLEAN
  BY DEF Labels, NoLabel
<1> HIDE DEF NoLabel
<1>2. Reset(d) \in Detectors
  BY <1>1 DEF Reset, Detectors
<1> QED BY <1>2 DEF Reset, Detectors

LEMMA SavedFields ==
  ASSUME NEW d \in Detectors
  PROVE  /\ Saved(d) \in Detectors /\ Saved(d).index = d.index + 1
         /\ Saved(d).lastGoals = d.lastGoals /\ Saved(d).commands = d.commands
         /\ Saved(d).moved = d.moved /\ Saved(d).start = d.start /\ Saved(d).label = d.label
         /\ Saved(d).skip = d.skip /\ Saved(d).buffer = d.buffer /\ Saved(d).started = d.started
BY DEF Saved, Detectors

LEMMA DiscardFields ==
  ASSUME NEW d \in Detectors
  PROVE  /\ Discard(d) \in Detectors /\ Discard(d).index = d.index
         /\ Discard(d).lastGoals = d.lastGoals /\ Discard(d).commands = d.commands
         /\ Discard(d).moved = d.moved /\ Discard(d).start = d.start /\ Discard(d).label = d.label
         /\ Discard(d).skip = d.skip /\ Discard(d).buffer = d.buffer
         /\ Discard(d).started = d.started
BY DEF Discard, Detectors

LEMMA StartFields ==
  ASSUME NEW d \in Detectors, NEW f, IsFrame(f), NEW label \in Labels
  PROVE  /\ Start(d, f, label) \in Detectors /\ Start(d, f, label).index = d.index
         /\ Start(d, f, label).commands = 1 /\ Start(d, f, label).start = f.stamp
         /\ Start(d, f, label).label = label /\ Start(d, f, label).skip = d.skip
         /\ Start(d, f, label).buffer = <<Row(label, f, 0)>>
         /\ Start(d, f, label).started = d.started + 1
         /\ Start(d, f, label).lastGoals = f.goals
<1>1. Row(label, f, 0) \in Rows
  BY RowType, WordFacts
<1>2. f.stamp \in Nat /\ f.goals \in AnyGoals
  BY WordFacts DEF IsFrame
<1>3. <<Row(label, f, 0)>> \in Seq(Rows)
  BY <1>1
<1>4. d.started + 1 \in Nat
  BY DEF Detectors
<1> DEFINE buffer1 == <<Row(label, f, 0)>>
           s == Start(d, f, label)
<1>5. s = [d EXCEPT !.start = f.stamp, !.label = label, !.moved = f.stamp, !.commands = 1,
                    !.started = d.started + 1, !.buffer = buffer1, !.lastGoals = f.goals]
  BY DEF Start
<1>6. buffer1 \in Seq(Rows)
  BY <1>3
<1> HIDE DEF buffer1, s
<1>7. s \in Detectors
  BY <1>2, <1>4, <1>5, <1>6 DEF Detectors
<1>8. s.skip = d.skip
  BY <1>5 DEF Detectors
<1>9. /\ s.index = d.index /\ s.commands = 1 /\ s.start = f.stamp /\ s.label = label
      /\ s.buffer = buffer1 /\ s.started = d.started + 1 /\ s.lastGoals = f.goals
  BY <1>5 DEF Detectors
<1> QED BY <1>7, <1>8, <1>9 DEF buffer1, s

LEMMA CountFields ==
  ASSUME NEW d \in Detectors, NEW f, IsFrame(f)
  PROVE  LET c == CountCommand(d, f)
         IN /\ c \in Detectors /\ c.index = d.index /\ c.start = d.start /\ c.label = d.label
            /\ c.skip = d.skip /\ c.buffer = d.buffer /\ c.started = d.started
            /\ ~Changed(d, f.goals) => c = d
            /\ Changed(d, f.goals) => c.commands = d.commands + 1 /\ c.moved = f.stamp
                                      /\ c.lastGoals = f.goals
<1>1. CASE ~Changed(d, f.goals)
  BY <1>1 DEF CountCommand
<1>2. CASE Changed(d, f.goals)
  <2>1. CountCommand(d, f) =
           [d EXCEPT !.commands = d.commands + 1, !.lastGoals = f.goals, !.moved = f.stamp]
    BY <1>2 DEF CountCommand
  <2>2. f.stamp \in Nat /\ f.goals \in AnyGoals
    BY WordFacts DEF IsFrame
  <2>3. d.commands + 1 \in Nat
    BY DEF Detectors
  <2> QED BY <1>2, <2>1, <2>2, <2>3 DEF Detectors
<1> QED BY <1>1, <1>2

(* A frame that goes on with an episode is buffered, or the episode is     *)
(* marked for skip and its buffer stays.                                   *)
LEMMA ContinueFields ==
  ASSUME NEW d \in Detectors, NEW f, IsFrame(f), InEpisode(d)
  PROVE  LET n == Continue(d, f)
         IN /\ n \in Detectors /\ n.index = d.index /\ n.start = d.start /\ n.label = d.label
            /\ n.started = d.started
            /\ n.commands = CountCommand(d, f).commands
            /\ n.lastGoals = CountCommand(d, f).lastGoals
            /\ \/ n.skip /\ n.buffer = d.buffer
               \/ /\ ~d.skip /\ ~GapTooLong(d, f)
                  /\ n.buffer = Append(d.buffer, Row(d.label, f, Since(d, f)))
<1> DEFINE c == CountCommand(d, f)
           n == Continue(d, f)
           row == Row(d.label, f, Since(d, f))
<1>1. /\ c \in Detectors /\ c.index = d.index /\ c.start = d.start /\ c.label = d.label
      /\ c.buffer = d.buffer /\ c.started = d.started
  BY CountFields
<1>2. c.skip = d.skip /\ d.skip \in BOOLEAN
  BY CountFields DEF Detectors
<1>3. d.label \in Labels /\ d.buffer \in Seq(Rows) /\ d.start \in Nat /\ f.stamp \in Int
  BY DEF Detectors, IsFrame
<1>4. row \in Rows
  <2>1. Since(d, f) \in 0 .. WORD - 1
    <3>1. f.stamp \in Int /\ d.start \in Int
      BY <1>3
    <3> QED BY <3>1, MinusIsWord DEF Since
  <2> QED BY <1>3, <2>1, RowType
<1>5. /\ GapTooLong(c, f) = GapTooLong(d, f)
      /\ Row(c.label, f, Since(c, f)) = row
  BY <1>1 DEF GapTooLong, Since
<1> HIDE DEF c, row
<1>6. n = IF GapTooLong(d, f) THEN Buffer([c EXCEPT !.skip = TRUE], f) ELSE Buffer(c, f)
  <2>1. n = Buffer(IF GapTooLong(c, f) THEN [c EXCEPT !.skip = TRUE] ELSE c, f)
    BY DEF Continue, MarkSkip, c
  <2> QED BY <1>5, <2>1
<1>7. CASE GapTooLong(d, f)
  <2> DEFINE s == [c EXCEPT !.skip = TRUE]
  <2>1. s \in Detectors /\ s.index = c.index /\ s.start = c.start /\ s.label = c.label
        /\ s.started = c.started /\ s.commands = c.commands /\ s.lastGoals = c.lastGoals
        /\ s.buffer = c.buffer
    BY <1>1 DEF Detectors
  <2>2. s.skip
    BY <1>1 DEF Detectors
  <2> HIDE DEF s
  <2>3. n = s
    <3>1. n = Buffer(s, f)
      BY <1>6, <1>7 DEF s
    <3> QED BY <2>2, <3>1, Zenon DEF Buffer
  <2>4. n.skip
    BY <2>2, <2>3
  <2> HIDE DEF n
  <2> QED BY <1>1, <2>1, <2>3, <2>4 DEF c, n
<1>8. CASE ~GapTooLong(d, f) /\ c.skip
  <2>1. n = c
    <3>1. n = Buffer(c, f)
      BY <1>6, <1>8
    <3> HIDE DEF n
    <3> QED BY <1>8, <3>1, Zenon DEF Buffer
  <2>2. n.skip
    BY <1>8, <2>1
  <2> HIDE DEF n
  <2> QED BY <1>1, <2>1, <2>2 DEF c, n
<1>9. CASE ~GapTooLong(d, f) /\ ~c.skip
  <2> DEFINE buffer1 == Append(d.buffer, row)
             s == [c EXCEPT !.buffer = buffer1]
  <2>1. n = s
    <3>1. n = Buffer(c, f)
      BY <1>6, <1>9
    <3>2. Buffer(c, f) = [c EXCEPT !.buffer = Append(c.buffer, Row(c.label, f, Since(c, f)))]
      BY <1>9, Zenon DEF Buffer
    <3> HIDE DEF n
    <3> QED BY <1>1, <1>5, <3>1, <3>2
  <2>2. buffer1 \in Seq(Rows)
    BY <1>3, <1>4
  <2> HIDE DEF buffer1
  <2>3. s \in Detectors /\ s.index = c.index /\ s.start = c.start /\ s.label = c.label
        /\ s.started = c.started /\ s.commands = c.commands /\ s.lastGoals = c.lastGoals
        /\ s.buffer = buffer1
    BY <1>1, <2>2 DEF Detectors
  <2> HIDE DEF s, n
  <2>4. ~d.skip
    BY <1>2, <1>9
  <2> QED BY <1>1, <1>9, <2>1, <2>3, <2>4 DEF buffer1, row, c, n
<1> QED BY <1>7, <1>8, <1>9

-----------------------------------------------------------------------------

(* Of an open episode: its label is the one last given, its rows have it,  *)
(* and they are smooth.  No stamp of it is before its start, since that    *)
(* would be a gap: a word is longer than the clock's life and a gap.       *)
Episode(d) ==
    /\ d.label = <<run, d.started>> /\ d.start \in 1 .. LIFETIME
    /\ Smooth(d.buffer)
    /\ \A i \in 1 .. Len(d.buffer) : /\ d.buffer[i].episode = d.label
                                     /\ d.buffer[i].since <= LIFETIME - d.start

DetectorInv ==
    /\ clock \in Nat /\ run \in Nat /\ detector \in Detectors
    /\ InEpisode(detector) => Episode(detector)
    /\ ~InEpisode(detector) => detector.commands = 0
    /\ Saving \/ Writing => InEpisode(detector)
    /\ pc = "bounds" => detector = NewDetector

LEMMA ProcessedFrame ==
  ASSUME BoundsInv, StreamInv, DetectorInv, ProcessFrame
  PROVE  \E f : /\ Take(f)
                /\ f.stamp \in 1 .. LIFETIME /\ f.goals \in AnyGoals /\ f.id \in Nat
                /\ f.images \in 0 .. 2 /\ f.id = Head(frames)
                /\ \/ IgnoreFrame(f)
                   \/ IsFrame(f) /\ (WaitForCommand(f) \/ StartEpisode(f) \/ ContinueEpisode(f)
                                     \/ EndEpisode(f))
<1>1. PICK f \in UNION {Frames(frames[i]) : i \in 1 .. IF frames = <<>> THEN 0 ELSE 1} :
         IgnoreFrame(f) \/ WaitForCommand(f) \/ StartEpisode(f) \/ ContinueEpisode(f) \/ EndEpisode(f)
  BY DEF ProcessFrame
<1>2. Take(f)
  BY <1>1 DEF IgnoreFrame, WaitForCommand, StartEpisode, ContinueEpisode, EndEpisode
<1>3. PICK id : f \in Frames(id)
  BY <1>1
<1>4. frames # <<>> /\ f.id = Head(frames) /\ frames \in Seq(Nat)
  BY <1>2 DEF Take, StreamInv, StreamTypes
<1>5. f.id \in Nat
  BY <1>4
<1>6. f.images \in 0 .. 2 /\ f.goals \in AnyGoals /\ f.stamp <= LIFETIME
  BY <1>3, FrameFacts DEF BoundsInv, BoundsTypeOK
<1>7. f.stamp \in 1 .. LIFETIME
  <2>1. PICK k \in recording.frames : k.step \in Nat /\ f.stamp = Stamp(k)
    BY <1>3, FrameFacts DEF BoundsInv, BoundsTypeOK
  <2>2. Stamp(k) \in Nat /\ Stamp(k) >= 1
    BY <2>1 DEF Stamp, DetectorInv
  <2> QED BY <1>6, <2>1, <2>2, WordFacts
<1>8. ~IgnoreFrame(f) => IsFrame(f)
  <2>1. ~IgnoreFrame(f) => f.images > 0
    BY <1>1 DEF WaitForCommand, StartEpisode, ContinueEpisode, EndEpisode
  <2> QED BY <1>5, <1>6, <1>7, <2>1 DEF IsFrame
<1> QED BY <1>1, <1>2, <1>4, <1>5, <1>6, <1>7, <1>8

(* The first row of an episode.                                            *)
LEMMA StartsEpisode ==
  ASSUME NEW d \in Detectors, NEW f, IsFrame(f), run \in Nat
  PROVE  Episode(Start(d, f, <<run, d.started + 1>>)) /\ InEpisode(Start(d, f, <<run, d.started + 1>>))
<1> DEFINE label == <<run, d.started + 1>>
           s == Start(d, f, label)
           row == Row(label, f, 0)
<1>1. label \in Labels
  BY DEF Labels, Detectors
<1>2. s.label = label /\ s.started = d.started + 1 /\ s.start = f.stamp /\ s.buffer = <<row>>
  <2> HIDE DEF row, label
  <2> QED BY <1>1, StartFields DEF row
<1>3. row.since = 0 /\ row.episode = label
  <2> HIDE DEF label
  <2> QED BY <1>1, RowType, WordFacts
<1>4. f.stamp \in 1 .. LIFETIME /\ LIFETIME \in Nat
  BY WordFacts DEF IsFrame
<1> HIDE DEF s, row
<1>5. Len(s.buffer) = 1 /\ s.buffer[1] = row /\ s.buffer # <<>>
  BY <1>2
<1>6. Smooth(s.buffer)
  BY <1>3, <1>5 DEF Smooth
<1>7. Episode(s)
  BY <1>2, <1>3, <1>4, <1>5, <1>6 DEF Episode
<1>8. InEpisode(s)
  BY <1>2, <1>4 DEF InEpisode
<1> QED BY <1>7, <1>8 DEF s

(* A frame without a gap follows the last one, and is not before the start. *)
LEMMA NoGapFollows ==
  ASSUME NEW start \in 1 .. LIFETIME, NEW stamp \in 1 .. LIFETIME,
         NEW last \in Nat, last <= LIFETIME - start,
         Minus(Minus(stamp, start), last) <= GAP
  PROVE  Minus(stamp, start) - last \in 0 .. GAP /\ Minus(stamp, start) <= LIFETIME - start
<1>1. WORD \in Nat /\ start < WORD /\ stamp < WORD /\ last < WORD /\ GAP \in Nat
      /\ LIFETIME \in Nat /\ LIFETIME + GAP < WORD
  BY WordFacts
<1>2. Minus(stamp, start) = IF start <= stamp THEN stamp - start ELSE stamp - start + WORD
  BY <1>1, MinusIsDifference
<1> DEFINE m == Minus(stamp, start)
<1>3. m \in Nat /\ m < WORD
  BY <1>1, <1>2
<1>4. Minus(m, last) = IF last <= m THEN m - last ELSE m - last + WORD
  <2> HIDE DEF m
  <2> QED BY <1>1, <1>3, MinusIsDifference
<1>9. Minus(m, last) <= GAP
  OBVIOUS
<1>5. CASE start <= stamp
  <2>1. m = stamp - start
    BY <1>2, <1>5
  <2> HIDE DEF m
  <2>2. last <= m
    BY <1>1, <1>3, <1>4, <1>9, <2>1
  <2>3. m - last \in 0 .. GAP /\ m <= LIFETIME - start
    BY <1>1, <1>3, <1>4, <1>9, <2>1, <2>2
  <2> QED BY <2>3 DEF m
<1>6. CASE ~(start <= stamp)
  <2>1. m = stamp - start + WORD
    BY <1>2, <1>6
  <2> HIDE DEF m
  <2>2. last <= m /\ m - last > GAP
    BY <1>1, <1>3, <2>1
  <2> QED BY <1>1, <1>3, <1>4, <1>9, <2>2
<1> QED BY <1>5, <1>6

LEMMA ContinuesEpisode ==
  ASSUME NEW d \in Detectors, NEW f, IsFrame(f), InEpisode(d), Episode(d)
  PROVE  Episode(Continue(d, f)) /\ InEpisode(Continue(d, f))
<1> DEFINE n == Continue(d, f)
           b == d.buffer
           row == Row(d.label, f, Since(d, f))
<1>1. /\ n.start = d.start /\ n.label = d.label /\ n.started = d.started
      /\ n.buffer = b \/ (~GapTooLong(d, f) /\ n.buffer = Append(b, row))
  <2> HIDE DEF row
  <2> QED BY ContinueFields DEF row
<1>2. InEpisode(n)
  BY <1>1 DEF InEpisode
<1>3. /\ b \in Seq(Rows) /\ Len(b) \in Nat \ {0} /\ Smooth(b) /\ d.start \in 1 .. LIFETIME
      /\ d.label = <<run, d.started>> /\ d.label \in Labels
      /\ \A i \in 1 .. Len(b) : b[i].episode = d.label /\ b[i].since <= LIFETIME - d.start
      /\ b[Len(b)].since \in Nat
  <2>1. b \in Seq(Rows) /\ b # <<>> /\ d.label \in Labels
    BY DEF Detectors, Episode, Smooth
  <2>2. Len(b) \in Nat \ {0} /\ b[Len(b)] \in Rows
    BY <2>1
  <2>3. b[Len(b)].since \in Nat
    BY <2>2, WordFacts DEF Rows
  <2> QED BY <2>1, <2>2, <2>3 DEF Episode
<1>4. CASE n.buffer = b
  <2> HIDE DEF n
  <2> QED BY <1>1, <1>2, <1>4 DEF Episode, n
<1>5. CASE ~GapTooLong(d, f) /\ n.buffer = Append(b, row)
  <2>1. f.stamp \in 1 .. LIFETIME /\ f.stamp \in Int /\ d.start \in Int /\ LIFETIME \in Nat
    BY <1>3, WordFacts DEF IsFrame
  <2>2. Minus(Since(d, f), b[Len(b)].since) <= GAP
    <3>1. Since(d, f) \in Int
      BY <2>1, MinusIsWord DEF Since
    <3>2. Minus(Since(d, f), b[Len(b)].since) \in Int
      <4> DEFINE x == b[Len(b)].since
      <4>1. x \in Int
        BY <1>3
      <4> HIDE DEF x
      <4> QED BY <3>1, <4>1, MinusIsWord DEF x
    <3>3. ~(Minus(Since(d, f), b[Len(b)].since) > GAP)
      BY <1>3, <1>5 DEF GapTooLong
    <3> QED BY <3>2, <3>3, WordFacts
  <2>3. Since(d, f) - b[Len(b)].since \in 0 .. GAP /\ Since(d, f) <= LIFETIME - d.start
    BY <1>3, <2>1, <2>2, NoGapFollows DEF Since
  <2>4. Since(d, f) \in 0 .. WORD - 1
    BY <2>1, MinusIsWord DEF Since
  <2>5. row \in Rows /\ row.episode = d.label /\ row.since = Since(d, f)
    BY <1>3, <2>4, RowType
  <2> DEFINE c == n.buffer
  <2> HIDE DEF row
  <2>6. /\ Len(c) = Len(b) + 1 /\ c # <<>> /\ c[Len(b) + 1] = row
        /\ \A i \in 1 .. Len(b) : c[i] = b[i]
    <3> HIDE DEF n
    <3> QED BY <1>3, <1>5, <2>5, AppendProperties
  <2> HIDE DEF n, c
  <2>7. /\ Len(b) \in Nat \ {0} /\ b[1].since = 0
        /\ \A i \in 1 .. Len(b) : b[i].episode = d.label /\ b[i].since <= LIFETIME - d.start
        /\ \A i \in 1 .. Len(b) - 1 : /\ b[i + 1].episode = b[i].episode
                                     /\ b[i + 1].since - b[i].since \in 0 .. GAP
    <3> HIDE DEF b
    <3> QED BY <1>3 DEF Smooth
  <2> HIDE DEF b
  <2>8. c[1].since = 0 /\ \A i \in 1 .. Len(c) : c[i].episode = d.label
                                               /\ c[i].since <= LIFETIME - d.start
    <3>1. c[1] = b[1]
      BY <2>6, <2>7
    <3>2. ASSUME NEW i \in 1 .. Len(c)
          PROVE  c[i].episode = d.label /\ c[i].since <= LIFETIME - d.start
      <4>1. CASE i = Len(b) + 1
        BY <2>3, <2>5, <2>6, <4>1
      <4>2. CASE i \in 1 .. Len(b)
        BY <2>6, <2>7, <4>2
      <4> QED BY <2>6, <2>7, <4>1, <4>2
    <3> QED BY <2>7, <3>1, <3>2
  <2>9. ASSUME NEW i \in 1 .. Len(c) - 1
        PROVE  c[i + 1].episode = c[i].episode /\ c[i + 1].since - c[i].since \in 0 .. GAP
    <3>1. CASE i = Len(b)
      <4>1. c[i + 1] = row /\ c[i] = b[Len(b)] /\ b[Len(b)].episode = d.label
        BY <2>6, <2>7, <3>1
      <4> QED BY <2>3, <2>5, <4>1
    <3>2. CASE i < Len(b)
      <4>1. i \in 1 .. Len(b) - 1 /\ c[i + 1] = b[i + 1] /\ c[i] = b[i]
        BY <2>6, <2>7, <3>2
      <4>2. b[i + 1].episode = b[i].episode /\ b[i + 1].since - b[i].since \in 0 .. GAP
        BY <2>7, <4>1
      <4> QED BY <4>1, <4>2
    <3> QED BY <2>6, <2>7, <3>1, <3>2
  <2>10. Smooth(c)
    BY <2>6, <2>8, <2>9 DEF Smooth
  <2>11. n.label = <<run, n.started>> /\ n.start \in 1 .. LIFETIME
    BY <1>1, <1>3
  <2>12. \A i \in 1 .. Len(c) : c[i].episode = n.label /\ c[i].since <= LIFETIME - n.start
    BY <1>1, <2>8
  <2>13. Episode(n)
    BY <2>10, <2>11, <2>12 DEF Episode, c
  <2> QED BY <1>2, <2>13 DEF n
<1> QED BY <1>1, <1>4, <1>5

-----------------------------------------------------------------------------

(* Steps that leave the episode as it is.                                  *)
LEMMA SameEpisode ==
  ASSUME DetectorInv, clock' \in Nat, run' = run, detector' \in Detectors,
         detector'.start = detector.start, detector'.label = detector.label,
         detector'.started = detector.started, detector'.buffer = detector.buffer,
         detector'.commands = detector.commands,
         pc' \in {"save", "write", "finalSave", "finalWrite"} => InEpisode(detector),
         pc' = "bounds" => detector' = NewDetector
  PROVE  DetectorInv'
<1>1. InEpisode(detector)' = InEpisode(detector)
  BY DEF InEpisode
<1>2. InEpisode(detector)' => Episode(detector)'
  BY <1>1 DEF DetectorInv, Episode
<1>3. ~InEpisode(detector)' => detector'.commands = 0
  BY <1>1 DEF DetectorInv
<1>4. (Saving \/ Writing)' => InEpisode(detector)'
  BY <1>1 DEF Saving, Writing
<1> QED BY <1>2, <1>3, <1>4 DEF DetectorInv

(* Steps after which no episode is open.                                   *)
LEMMA NoEpisode ==
  ASSUME clock' \in Nat, run' \in Nat, detector' \in Detectors,
         detector'.start = 0, detector'.commands = 0,
         pc' \notin {"save", "write", "finalSave", "finalWrite"},
         pc' = "bounds" => detector' = NewDetector
  PROVE  DetectorInv'
BY DEF DetectorInv, InEpisode, Saving, Writing

LEMMA DetectorInit == Init => DetectorInv
<1> SUFFICES ASSUME Init PROVE DetectorInv
  OBVIOUS
<1>1. detector = NewDetector /\ clock = 0 /\ run = 0 /\ pc = "off"
  BY DEF Init, GeneratorInit
<1>2. detector.start = 0 /\ detector.commands = 0
  BY <1>1 DEF NewDetector
<1> QED BY <1>1, <1>2, NewDetectorType DEF DetectorInv, InEpisode, Saving, Writing

LEMMA DetectorNext == BoundsInv /\ StreamInv /\ DetectorInv /\ [Next]_vars => DetectorInv'
<1> SUFFICES ASSUME BoundsInv, StreamInv, DetectorInv, [Next]_vars PROVE DetectorInv'
  OBVIOUS
<1> USE DEF Saving, Writing
<1>0. clock \in Nat /\ run \in Nat /\ detector \in Detectors
      /\ (pc \in {"save", "write", "finalSave", "finalWrite"} => InEpisode(detector))
      /\ (pc = "bounds" => detector = NewDetector)
  BY DEF DetectorInv
<1>1. CASE UNCHANGED vars
  <2>1. UNCHANGED <<detector, clock, run, pc>>
    BY <1>1 DEF vars, generatorVars, detectorVars
  <2> QED BY <1>0, <2>1, SameEpisode
<1>2. CASE MakeVideo \/ Video
  <2>1. UNCHANGED <<detector, clock, run, pc>>
    BY <1>2 DEF MakeVideo, Video, generatorVars, detectorVars
  <2> QED BY <1>0, <2>1, SameEpisode
<1>3. CASE Launch
  <2>1. clock' = 0 /\ run' = run + 1 /\ detector' = NewDetector /\ pc' = "bounds"
    BY <1>3 DEF Launch
  <2>2. detector'.start = 0 /\ detector'.commands = 0
    BY <2>1 DEF NewDetector
  <2> QED BY <1>0, <2>1, <2>2, NewDetectorType, NoEpisode
<1>4. CASE FindBounds \/ StreamStep
  <2>1. UNCHANGED <<detector, clock, run, pc>>
    BY <1>4 DEF FindBounds, StreamStep, detectorVars
  <2> QED BY <1>0, <2>1, SameEpisode
<1>5. CASE BoundsFail \/ OpenStream \/ StreamFails
  <2>1. UNCHANGED <<detector, clock, run>> /\ pc' \in {"failed", "stream"}
    BY <1>5 DEF BoundsFail, OpenStream, StreamFails, Finish, detectorVars
  <2> QED BY <1>0, <2>1, SameEpisode
<1>6. CASE ProcessFrame
  <2>1. PICK f : /\ Take(f)
                 /\ f.stamp \in 1 .. LIFETIME /\ f.goals \in AnyGoals
                 /\ \/ IgnoreFrame(f)
                    \/ IsFrame(f) /\ (WaitForCommand(f) \/ StartEpisode(f) \/ ContinueEpisode(f)
                                      \/ EndEpisode(f))
    BY <1>6, ProcessedFrame
  <2>2. clock' \in Nat /\ run' = run /\ pc = "stream"
    BY <2>1, WordFacts DEF Take
  <2>3. CASE IgnoreFrame(f)
    <3>1. UNCHANGED <<detector, pc>>
      BY <2>3 DEF IgnoreFrame
    <3> QED BY <1>0, <2>2, <3>1, SameEpisode
  <2>4. CASE WaitForCommand(f)
    <3>1. detector' = [detector EXCEPT !.lastGoals = f.goals] /\ pc' = pc
      BY <2>4 DEF WaitForCommand
    <3>2. detector' \in Detectors
      BY <1>0, <2>1, <3>1 DEF Detectors
    <3>3. /\ detector'.start = detector.start /\ detector'.label = detector.label
          /\ detector'.started = detector.started /\ detector'.buffer = detector.buffer
          /\ detector'.commands = detector.commands
      BY <1>0, <3>1 DEF Detectors
    <3> QED BY <2>2, <3>1, <3>2, <3>3, SameEpisode
  <2>5. CASE IsFrame(f) /\ StartEpisode(f)
    <3>1. detector' = Start(detector, f, <<run, detector.started + 1>>) /\ pc' = pc
      BY <2>5 DEF StartEpisode
    <3>2. Episode(detector') /\ InEpisode(detector')
      BY <1>0, <2>5, <3>1, StartsEpisode
    <3>3. detector' \in Detectors
      <4>1. <<run, detector.started + 1>> \in Labels
        BY <1>0 DEF Detectors, Labels
      <4> QED BY <1>0, <2>5, <3>1, <4>1, StartFields
    <3>4. Episode(detector)' /\ InEpisode(detector)'
      BY <2>2, <3>2 DEF Episode, InEpisode
    <3> QED BY <1>0, <2>2, <3>1, <3>3, <3>4 DEF DetectorInv
  <2>6. ASSUME IsFrame(f), InEpisode(detector)
        PROVE  /\ Continue(detector, f) \in Detectors
               /\ Episode(Continue(detector, f)) /\ InEpisode(Continue(detector, f))
    <3>1. Episode(detector)
      BY <2>6 DEF DetectorInv
    <3> QED BY <1>0, <2>6, <3>1, ContinueFields, ContinuesEpisode
  <2>7. ASSUME IsFrame(f), InEpisode(detector), detector' = Continue(detector, f),
               pc' \in {"stream", "save"}
        PROVE  DetectorInv'
    <3>1. detector' \in Detectors /\ Episode(detector') /\ InEpisode(detector')
      BY <2>6, <2>7
    <3>2. Episode(detector)' /\ InEpisode(detector)'
      BY <2>2, <3>1 DEF Episode, InEpisode
    <3> QED BY <1>0, <2>2, <2>7, <3>1, <3>2 DEF DetectorInv
  <2>8. CASE IsFrame(f) /\ ContinueEpisode(f)
    <3>1. InEpisode(detector) /\ detector' = Continue(detector, f) /\ pc' = pc
      BY <2>8 DEF ContinueEpisode
    <3> QED BY <2>2, <2>7, <2>8, <3>1
  <2>9. CASE IsFrame(f) /\ EndEpisode(f)
    <3>1. InEpisode(detector)
          /\ \/ detector' = Reset(Discard(Continue(detector, f))) /\ pc' = pc
             \/ detector' = Continue(detector, f) /\ pc' = "save"
      BY <2>9 DEF EndEpisode
    <3>2. CASE detector' = Continue(detector, f) /\ pc' = "save"
      BY <2>7, <2>9, <3>1, <3>2
    <3>3. CASE detector' = Reset(Discard(Continue(detector, f))) /\ pc' = pc
      <4>1. Discard(Continue(detector, f)) \in Detectors
        BY <2>6, <2>9, <3>1, DiscardFields
      <4>2. detector' \in Detectors /\ detector'.start = 0 /\ detector'.commands = 0
        BY <3>3, <4>1, ResetFields
      <4> QED BY <1>0, <2>2, <3>3, <4>2, NoEpisode
    <3> QED BY <3>1, <3>2, <3>3
  <2> QED BY <2>1, <2>3, <2>4, <2>5, <2>8, <2>9
<1>7. CASE CreateFile
  <2>1. UNCHANGED <<detector, clock, run>> /\ pc' \in {"write", "finalWrite"}
        /\ pc \in {"save", "finalSave"}
    BY <1>7 DEF CreateFile, CreatePart, notSaving
  <2> QED BY <1>0, <2>1, SameEpisode
<1>8. ASSUME NEW d \in {detector, Saved(detector)}, AfterSave(d), UNCHANGED <<clock, run>>,
             pc \in {"save", "write", "finalSave", "finalWrite"}
      PROVE  DetectorInv'
  <2>1. /\ d \in Detectors /\ d.start = detector.start /\ d.label = detector.label
        /\ d.started = detector.started /\ d.buffer = detector.buffer
        /\ d.commands = detector.commands
    BY <1>0, <1>8, SavedFields
  <2>2. CASE detector' = d /\ pc' = "merge"
    BY <1>0, <1>8, <2>1, <2>2, SameEpisode
  <2>3. CASE detector' = Reset(d) /\ pc' = "stream"
    <3>1. detector' \in Detectors /\ detector'.start = 0 /\ detector'.commands = 0
      BY <2>1, <2>3, ResetFields
    <3> QED BY <1>0, <1>8, <2>3, <3>1, NoEpisode
  <2> QED BY <1>8, <2>2, <2>3 DEF AfterSave
<1>9. CASE CreateFileFails \/ WriteFile \/ WriteFileFails
  <2>1. UNCHANGED <<clock, run>> /\ (AfterSave(detector) \/ AfterSave(Saved(detector)))
        /\ pc \in {"save", "write", "finalSave", "finalWrite"}
    BY <1>9 DEF CreateFileFails, WriteFile, WriteFileFails, notSaving
  <2>2. CASE AfterSave(detector)
    BY <1>8, <2>1, <2>2
  <2>3. CASE AfterSave(Saved(detector))
    BY <1>8, <2>1, <2>3
  <2> QED BY <2>1, <2>2, <2>3
<1>10. CASE Finalize
  <2>1. UNCHANGED <<clock, run>> /\ pc = "stream"
    BY <1>10 DEF Finalize, StreamOver
  <2>2. \/ detector' = Discard(detector) /\ pc' = "merge"
        \/ detector' = detector /\ pc' = "merge"
        \/ detector' = detector /\ pc' = "finalSave" /\ InEpisode(detector)
    BY <1>10 DEF Finalize
  <2>3. CASE detector' = Discard(detector) /\ pc' = "merge"
    <3>1. /\ detector' \in Detectors /\ detector'.start = detector.start
          /\ detector'.label = detector.label /\ detector'.started = detector.started
          /\ detector'.buffer = detector.buffer /\ detector'.commands = detector.commands
      BY <1>0, <2>3, DiscardFields
    <3> QED BY <1>0, <2>1, <2>3, <3>1, SameEpisode
  <2>4. CASE detector' = detector /\ pc' = "merge"
    BY <1>0, <2>1, <2>4, SameEpisode
  <2>5. CASE detector' = detector /\ pc' = "finalSave" /\ InEpisode(detector)
    BY <1>0, <2>1, <2>5, SameEpisode
  <2> QED BY <2>2, <2>3, <2>4, <2>5
<1>11. CASE NothingToMerge \/ MergeFails \/ OpenParts \/ CreateOutput \/ CopyRows
            \/ RemoveFile \/ CleanupEnds
  <2>1. UNCHANGED <<detector, clock, run>>
    BY <1>11 DEF NothingToMerge, MergeFails, OpenParts, CreateOutput, CopyRows, RemoveFile,
       CleanupEnds, Succeed, notMerging, detectorVars, CreateMerged, WriteMerged, RemovePart
  <2>2. pc' \in {"create", "copy", "cleanup", "done"}
    BY <1>11 DEF NothingToMerge, MergeFails, OpenParts, CreateOutput, CopyRows, RemoveFile,
       CleanupEnds, Succeed, Finish
  <2> QED BY <1>0, <2>1, <2>2, SameEpisode
<1>12. CASE Quit \/ Kill
  <2>1. clock' = 0 /\ run' = run /\ detector' = NewDetector /\ pc' = "off"
    BY <1>12 DEF Quit, Kill, Stop, Finish
  <2>2. detector'.start = 0 /\ detector'.commands = 0
    BY <2>1 DEF NewDetector
  <2> QED BY <1>0, <2>1, <2>2, NewDetectorType, NoEpisode
<1> QED BY <1>1, <1>2, <1>3, <1>4, <1>5, <1>6, <1>7, <1>9, <1>10, <1>11, <1>12
        DEF Next, Generate, GeneratorNext, Worker

(* The detector's record, the episode it holds open (its frames are smooth *)
(* rows of one label), and when it has one: in every state of the program. *)
THEOREM DetectorInvariance == Spec => []DetectorInv
BY BoundsInvariance, StreamInvariance, DetectorInit, DetectorNext, PTL DEF Spec

-----------------------------------------------------------------------------

(* Nothing was still for STILL at the stamp of a change.                   *)
LEMMA ChangedIsNotOver ==
  ASSUME NEW d \in Detectors, NEW f, IsFrame(f), Over(CountCommand(d, f), f)
  PROVE  ~Changed(d, f.goals)
<1> SUFFICES ASSUME Changed(d, f.goals) PROVE FALSE
  OBVIOUS
<1>1. CountCommand(d, f).moved = f.stamp /\ f.stamp \in Nat
  BY CountFields, WordFacts DEF IsFrame
<1>2. Minus(f.stamp, f.stamp) = 0
  <2>1. f.stamp < WORD
    BY WordFacts DEF IsFrame
  <2> QED BY <1>1, <2>1, MinusIsDifference, WordFacts
<1>3. Signed(0) <= 0
  BY WordFacts DEF Signed
<1>4. Signed(0) >= STILL
  BY <1>1, <1>2 DEF Over
<1>5. Signed(0) \in Int
  BY WordFacts DEF Signed
<1> QED BY <1>3, <1>4, <1>5, WordFacts

(* What a frame with images does to the goals and the commands.            *)
LEMMA FrameCounts ==
  ASSUME DetectorInv, NEW f, IsFrame(f),
         WaitForCommand(f) \/ StartEpisode(f) \/ ContinueEpisode(f) \/ EndEpisode(f)
  PROVE  /\ f.goals # NoGoals /\ (InEpisode(detector) => detector.lastGoals # NoGoals)
               => detector'.lastGoals = f.goals
         /\ Changed(detector, f.goals) => detector'.commands = detector.commands + 1
<1>1. detector \in Detectors /\ (~InEpisode(detector) => detector.commands = 0)
  BY DEF DetectorInv
<1>2. CASE WaitForCommand(f)
  <2>1. detector' = [detector EXCEPT !.lastGoals = f.goals] /\ ~Changed(detector, f.goals)
    BY <1>2 DEF WaitForCommand
  <2>2. detector'.lastGoals = f.goals
    BY <1>1, <2>1 DEF Detectors
  <2> QED BY <2>1, <2>2
<1>3. CASE StartEpisode(f)
  <2>1. detector' = Start(detector, f, <<run, detector.started + 1>>) /\ ~InEpisode(detector)
    BY <1>3 DEF StartEpisode
  <2>2. <<run, detector.started + 1>> \in Labels
    BY <1>1 DEF Detectors, Labels, DetectorInv
  <2>3. detector'.commands = 1 /\ detector'.lastGoals = f.goals
    BY <1>1, <2>1, <2>2, StartFields
  <2> QED BY <1>1, <2>1, <2>3
<1>4. ASSUME InEpisode(detector), NEW n \in Detectors,
             n.commands = CountCommand(detector, f).commands,
             n.lastGoals = CountCommand(detector, f).lastGoals
      PROVE  /\ f.goals # NoGoals /\ detector.lastGoals # NoGoals => n.lastGoals = f.goals
             /\ Changed(detector, f.goals) => n.commands = detector.commands + 1
  <2>1. CASE Changed(detector, f.goals)
    BY <1>1, <1>4, <2>1, CountFields
  <2>2. CASE ~Changed(detector, f.goals)
    BY <1>1, <1>4, <2>2, CountFields DEF Changed
  <2> QED BY <2>1, <2>2
<1>5. ASSUME InEpisode(detector)
      PROVE  /\ Continue(detector, f) \in Detectors
             /\ Continue(detector, f).commands = CountCommand(detector, f).commands
             /\ Continue(detector, f).lastGoals = CountCommand(detector, f).lastGoals
  BY <1>1, <1>5, ContinueFields
<1>6. CASE ContinueEpisode(f)
  <2>1. InEpisode(detector) /\ detector' = Continue(detector, f)
    BY <1>6 DEF ContinueEpisode
  <2> QED BY <1>4, <1>5, <2>1
<1>7. CASE EndEpisode(f)
  <2>1. InEpisode(detector) /\ Over(CountCommand(detector, f), f)
        /\ \/ detector' = Reset(Discard(Continue(detector, f)))
           \/ detector' = Continue(detector, f)
    BY <1>7 DEF EndEpisode
  <2>2. ~Changed(detector, f.goals)
    BY <1>1, <2>1, ChangedIsNotOver
  <2>3. detector'.lastGoals = Continue(detector, f).lastGoals
    BY <1>5, <2>1, DiscardFields, ResetFields
  <2> QED BY <1>4, <1>5, <2>1, <2>2, <2>3
<1> QED BY <1>2, <1>3, <1>6, <1>7

(* The frames handled before one that is taken are older.                  *)
LEMMA TakenIsNewest ==
  ASSUME StreamInv, NEW f, Take(f)
  PROVE  /\ handled \in Seq(Handled)
         /\ \A j \in 1 .. Len(handled) : handled[j].id < f.id
         /\ handled' = Append(handled, Entry(f))
<1>1. /\ pc = "stream" /\ frames # <<>> /\ f.id = Head(frames)
      /\ handled' = Append(handled, Entry(f))
  BY DEF Take, Entry
<1>2. Sorted /\ frames \in Seq(Nat) /\ handled \in Seq(Handled)
  BY <1>1 DEF StreamInv, StreamTypes, Handled
<1>3. Len(handled) \in Nat /\ Len(frames) \in Nat \ {0} /\ frames[1] = f.id
  BY <1>1, <1>2
<1>4. ASSUME NEW j \in 1 .. Len(handled)
      PROVE  handled[j].id < f.id
  <2>1. j \in 1 .. Total /\ Len(handled) + 1 \in 1 .. Total /\ j < Len(handled) + 1
    BY <1>3 DEF Total
  <2>2. Given(j) < Given(Len(handled) + 1)
    BY <1>2, <2>1 DEF Sorted
  <2>3. Given(j) = handled[j].id /\ Given(Len(handled) + 1) = frames[1]
    BY <1>3 DEF Given
  <2> QED BY <1>3, <2>2, <2>3
<1> QED BY <1>1, <1>2, <1>4

(* While nothing blinds it, the detector tracks the goals of the last      *)
(* frame with images, and an episode has some.                             *)
Newest(h, i) == h[i].images > 0 /\ \A k \in i + 1 .. Len(h) : h[k].images = 0
GoalsInv ==
    ~Blind(handled) =>
        /\ InEpisode(detector) => detector.lastGoals # NoGoals
        /\ \A i \in 1 .. Len(handled) :
              Newest(handled, i) => detector.lastGoals = handled[i].goals

(* One more frame: what was so of the ones before it still is.             *)
LEMMA OneFrameMore ==
  ASSUME NEW h \in Seq(Handled), NEW e \in Handled
  PROVE  LET n == Append(h, e)
         IN /\ Blind(h) /\ (e.images > 0 => e.open) => Blind(n)
            /\ e.images > 0 /\ e.goals = NoGoals => Blind(n)
            /\ e.images > 0 => \A i \in 1 .. Len(n) : Newest(n, i) => n[i] = e
            /\ e.images = 0 => \A i \in 1 .. Len(n) :
                                 Newest(n, i) => i \in 1 .. Len(h) /\ Newest(h, i) /\ n[i] = h[i]
            /\ Commanded(n) => /\ e.images > 0
                               /\ \E i \in 1 .. Len(h) :
                                     Newest(h, i) /\ h[i].goals \notin {NoGoals, e.goals}
<1> DEFINE n == Append(h, e)
<1>1. /\ Len(h) \in Nat /\ DOMAIN h = 1 .. Len(h) /\ DOMAIN n = 1 .. Len(h) + 1
      /\ Len(n) = Len(h) + 1 /\ n[Len(h) + 1] = e /\ \A i \in 1 .. Len(h) : n[i] = h[i]
  BY AppendProperties
<1> HIDE DEF n
<1>2. e.images \in 0 .. 2 /\ \A i \in 1 .. Len(h) : h[i].images \in 0 .. 2
  <2>1. \A i \in 1 .. Len(h) : h[i] \in Handled
    OBVIOUS
  <2> QED BY <2>1 DEF Handled
<1>3. ASSUME Blind(h), e.images > 0 => e.open
      PROVE  Blind(n)
  <2>1. PICK i \in 1 .. Len(h) :
           /\ h[i].images > 0 /\ h[i].goals = NoGoals
           /\ \A k \in i + 1 .. Len(h) : h[k].images > 0 => h[k].open
    BY <1>1, <1>3 DEF Blind
  <2>2. i \in DOMAIN n /\ n[i] = h[i]
    BY <1>1
  <2>3. ASSUME NEW k \in i + 1 .. Len(n), n[k].images > 0
        PROVE  n[k].open
    <3>1. CASE k = Len(h) + 1
      BY <1>1, <1>3, <2>3, <3>1
    <3>2. CASE k \in i + 1 .. Len(h)
      BY <1>1, <2>1, <2>3, <3>2
    <3> QED BY <1>1, <3>1, <3>2
  <2> QED BY <2>1, <2>2, <2>3 DEF Blind
<1>7. ASSUME e.images > 0, e.goals = NoGoals
      PROVE  Blind(n)
  <2>1. Len(n) \in DOMAIN n /\ n[Len(n)] = e /\ \A k \in Len(n) + 1 .. Len(n) : FALSE
    BY <1>1
  <2> QED BY <1>7, <2>1 DEF Blind
<1>4. ASSUME e.images > 0, NEW i \in 1 .. Len(n), Newest(n, i)
      PROVE  n[i] = e
  <2>1. CASE i = Len(h) + 1
    BY <1>1, <2>1
  <2>2. CASE i \in 1 .. Len(h)
    <3>1. Len(h) + 1 \in i + 1 .. Len(n)
      BY <1>1, <2>2
    <3> QED BY <1>1, <1>2, <1>4, <3>1 DEF Newest
  <2> QED BY <1>1, <2>1, <2>2
<1>5. ASSUME e.images = 0, NEW i \in 1 .. Len(n), Newest(n, i)
      PROVE  i \in 1 .. Len(h) /\ Newest(h, i) /\ n[i] = h[i]
  <2>1. i \in 1 .. Len(h)
    BY <1>1, <1>5 DEF Newest
  <2>2. ASSUME NEW k \in i + 1 .. Len(h)
        PROVE  h[k].images = 0
    <3>1. k \in i + 1 .. Len(n) /\ k \in 1 .. Len(h)
      BY <1>1, <2>1
    <3> QED BY <1>1, <1>5, <3>1 DEF Newest
  <2> QED BY <1>1, <1>5, <2>1, <2>2 DEF Newest
<1>6. ASSUME Commanded(n)
      PROVE  /\ e.images > 0
             /\ \E i \in 1 .. Len(h) : Newest(h, i) /\ h[i].goals \notin {NoGoals, e.goals}
  <2>1. PICK i \in 1 .. Len(n) - 1 :
           /\ n[i].images > 0 /\ n[Len(n)].images > 0
           /\ \A k \in i + 1 .. Len(n) - 1 : n[k].images = 0
           /\ n[i].goals # n[Len(n)].goals /\ NoGoals \notin {n[i].goals, n[Len(n)].goals}
    BY <1>6 DEF Commanded
  <2>2. Len(n) - 1 = Len(h) /\ i \in 1 .. Len(h) /\ n[i] = h[i] /\ n[Len(n)] = e
    BY <1>1
  <2>3. ASSUME NEW k \in i + 1 .. Len(h)
        PROVE  h[k].images = 0
    <3>1. k \in 1 .. Len(h) /\ n[k].images = 0
      BY <1>1, <2>1, <2>2
    <3> QED BY <1>1, <3>1
  <2> QED BY <2>1, <2>2, <2>3 DEF Newest
<1> QED BY <1>3, <1>4, <1>5, <1>6, <1>7 DEF n

(* A frame: the tracked goals become its goals, and its command counts.    *)
LEMMA FrameTracks ==
  ASSUME BoundsInv, StreamInv, DetectorInv, GoalsInv, ProcessFrame
  PROVE  /\ GoalsInv'
         /\ Commanded(handled') /\ ~Blind(handled)
               => detector'.commands = detector.commands + 1
<1>1. PICK f : /\ Take(f) /\ f.goals \in AnyGoals /\ f.id \in Nat /\ f.images \in 0 .. 2
               /\ \/ IgnoreFrame(f)
                  \/ IsFrame(f) /\ (WaitForCommand(f) \/ StartEpisode(f) \/ ContinueEpisode(f)
                                    \/ EndEpisode(f))
  BY ProcessedFrame
<1> DEFINE e == Entry(f)
<1>2. /\ e \in Handled /\ e.images = f.images /\ e.goals = f.goals
      /\ e.open = InEpisode(detector)
  BY <1>1, EntryFacts
<1>3. handled \in Seq(Handled) /\ handled' = Append(handled, e)
  BY <1>1, TakenIsNewest
<1> HIDE DEF e
<1>4. /\ Blind(handled) /\ (e.images > 0 => e.open) => Blind(handled')
      /\ e.images > 0 /\ e.goals = NoGoals => Blind(handled')
      /\ e.images > 0 => \A i \in 1 .. Len(handled') : Newest(handled', i) => handled'[i] = e
      /\ e.images = 0 => \A i \in 1 .. Len(handled') :
             Newest(handled', i) => /\ i \in 1 .. Len(handled) /\ Newest(handled, i)
                                    /\ handled'[i] = handled[i]
      /\ Commanded(handled') => /\ e.images > 0
                                /\ \E i \in 1 .. Len(handled) :
                                      /\ Newest(handled, i)
                                      /\ handled[i].goals \notin {NoGoals, e.goals}
  BY <1>2, <1>3, OneFrameMore
<1>5. CASE IgnoreFrame(f)
  <2>1. e.images = 0 /\ detector' = detector /\ e.images \in 0 .. 2
    BY <1>2, <1>5 DEF IgnoreFrame, Handled
  <2>2. ~Commanded(handled') /\ (~Blind(handled') => ~Blind(handled))
    BY <1>4, <2>1
  <2> QED BY <1>4, <2>1, <2>2 DEF GoalsInv, InEpisode
<1>6. CASE /\ IsFrame(f)
           /\ WaitForCommand(f) \/ StartEpisode(f) \/ ContinueEpisode(f) \/ EndEpisode(f)
  <2>1. e.images > 0
    BY <1>2, <1>6 DEF IsFrame
  <2>2. ASSUME ~Blind(handled')
        PROVE  f.goals # NoGoals /\ detector'.lastGoals = f.goals
    <3>1. f.goals # NoGoals /\ (InEpisode(detector) => ~Blind(handled))
      BY <1>2, <1>4, <2>1, <2>2
    <3> QED BY <1>6, <3>1, FrameCounts DEF GoalsInv
  <2>3. GoalsInv'
    BY <1>2, <1>4, <2>1, <2>2 DEF GoalsInv
  <2>4. ASSUME Commanded(handled'), ~Blind(handled)
        PROVE  detector'.commands = detector.commands + 1
    <3>1. Changed(detector, f.goals)
      BY <1>2, <1>4, <2>4 DEF GoalsInv, Changed
    <3> QED BY <1>6, <3>1, FrameCounts
  <2> QED BY <2>3, <2>4
<1> QED BY <1>1, <1>5, <1>6

(* Every other step leaves the frames and the goals alone, or clears both. *)
LEMMA OthersTrack ==
  ASSUME DetectorInv, [Next]_vars, ~ProcessFrame
  PROVE  \/ /\ handled' = handled /\ detector'.lastGoals = detector.lastGoals
            /\ InEpisode(detector') => InEpisode(detector)
         \/ handled' = <<>> /\ detector' = NewDetector
<1>0. detector \in Detectors
  BY DEF DetectorInv
<1>1. CASE UNCHANGED vars
  BY <1>1 DEF vars, generatorVars, detectorVars
<1>2. CASE MakeVideo \/ Video \/ FindBounds \/ StreamStep \/ BoundsFail \/ OpenStream \/ StreamFails
  BY <1>2 DEF MakeVideo, Video, FindBounds, StreamStep, BoundsFail, OpenStream, StreamFails,
     detectorVars, generatorVars
<1>3. CASE Launch \/ Quit \/ Kill
  BY <1>3 DEF Launch, Quit, Kill, Stop
<1>4. CASE CreateFile \/ NothingToMerge \/ MergeFails \/ OpenParts \/ CreateOutput \/ CopyRows
            \/ RemoveFile \/ CleanupEnds
  BY <1>4 DEF CreateFile, CreatePart, NothingToMerge, MergeFails, OpenParts, CreateOutput,
     CopyRows, RemoveFile, CleanupEnds, Succeed, notSaving, notMerging, detectorVars, CreateMerged,
     WriteMerged, RemovePart
<1>5. CASE CreateFileFails \/ WriteFile \/ WriteFileFails \/ Finalize
  <2>1. detector' \in {detector, Saved(detector), Reset(detector), Reset(Saved(detector)),
                      Discard(detector)}
    BY <1>5 DEF CreateFileFails, WriteFile, WriteFileFails, AfterSave, Finalize
  <2>2. detector'.lastGoals = detector.lastGoals /\ detector'.start \in {0, detector.start}
    BY <1>0, <2>1, SavedFields, ResetFields, DiscardFields
  <2>3. handled' = handled
    BY <1>5 DEF CreateFileFails, WriteFile, WriteFileFails, Finalize, notSaving
  <2> QED BY <2>2, <2>3 DEF InEpisode
<1> QED BY <1>1, <1>2, <1>3, <1>4, <1>5 DEF Next, Generate, GeneratorNext, Worker

LEMMA GoalsInit == Init => GoalsInv
BY DEF Init, GeneratorInit, GoalsInv, InEpisode, NewDetector

LEMMA GoalsNext ==
  BoundsInv /\ StreamInv /\ DetectorInv /\ GoalsInv /\ [Next]_vars
    => /\ GoalsInv'
       /\ [Commanded(handled') /\ ~Blind(handled)
             => detector'.commands = detector.commands + 1]_handled
<1> SUFFICES ASSUME BoundsInv, StreamInv, DetectorInv, GoalsInv, [Next]_vars
             PROVE  /\ GoalsInv'
                    /\ [Commanded(handled') /\ ~Blind(handled)
                          => detector'.commands = detector.commands + 1]_handled
  OBVIOUS
<1>1. CASE ProcessFrame
  BY <1>1, FrameTracks
<1>2. CASE handled' = handled /\ detector'.lastGoals = detector.lastGoals
           /\ (InEpisode(detector') => InEpisode(detector))
  BY <1>2 DEF GoalsInv
<1>3. CASE handled' = <<>> /\ detector' = NewDetector
  BY <1>3 DEF GoalsInv, InEpisode, NewDetector, Commanded
<1> QED BY <1>1, <1>2, <1>3, OthersTrack

(* No command is lost, within an episode or between two: whenever the      *)
(* goals change from one frame with images to the next, the open episode   *)
(* counts one more, or a new one starts with it; and no episode ends with  *)
(* such a frame.  Only after a frame without joints is the rest of its     *)
(* episode lost.                                                           *)
THEOREM CommandsCounted == Spec => CommandsAreCounted
<1>1. Spec => []GoalsInv
  BY GoalsInit, GoalsNext, BoundsInvariance, StreamInvariance, DetectorInvariance, PTL DEF Spec
<1> QED BY <1>1, GoalsNext, BoundsInvariance, StreamInvariance, DetectorInvariance, PTL
        DEF Spec, CommandsAreCounted

-----------------------------------------------------------------------------

(* Of a sequence of handled frames those with images from one of them on,  *)
(* and those in a buffer.                                                  *)
FramesFrom(h, x) == {h[j].id : j \in {j \in DOMAIN h : h[j].id >= x /\ h[j].images > 0}}
Buffered(b) == {b[i].id : i \in DOMAIN b}

MissesNoFrame(d, h) == ~d.skip => Buffered(d.buffer) = FramesFrom(h, d.buffer[1].id)

LEMMA HandledGrows ==
  ASSUME NEW h \in Seq(Handled), NEW g \in Handled, NEW x \in Nat
  PROVE  /\ g.images > 0 /\ g.id >= x => FramesFrom(Append(h, g), x) = FramesFrom(h, x) \cup {g.id}
         /\ ~(g.images > 0) => FramesFrom(Append(h, g), x) = FramesFrom(h, x)
<1> DEFINE n == Append(h, g)
           m == Len(h) + 1
<1>1. /\ Len(h) \in Nat /\ DOMAIN h = 1 .. Len(h) /\ DOMAIN n = 1 .. m
      /\ n[m] = g /\ \A j \in 1 .. Len(h) : n[j] = h[j]
  BY AppendProperties
<1> HIDE DEF n
<1>2. ASSUME NEW y
      PROVE  y \in FramesFrom(n, x)
                <=> y \in FramesFrom(h, x) \/ (g.images > 0 /\ g.id >= x /\ y = g.id)
  <2>1. y \in FramesFrom(n, x) <=>
           \E j \in 1 .. m : y = n[j].id /\ n[j].id >= x /\ n[j].images > 0
    BY <1>1 DEF FramesFrom
  <2>2. y \in FramesFrom(h, x) <=>
           \E j \in 1 .. Len(h) : y = h[j].id /\ h[j].id >= x /\ h[j].images > 0
    BY <1>1 DEF FramesFrom
  <2>3. \A j : j \in 1 .. m <=> j \in 1 .. Len(h) \/ j = m
    BY <1>1
  <2> HIDE DEF m
  <2> QED BY <1>1, <2>1, <2>2, <2>3
<1> QED BY <1>2 DEF n

(* An episode starts: its frame is the only one from there on.             *)
LEMMA StartBuffers ==
  ASSUME NEW h \in Seq(Handled), NEW g \in Handled, g.images > 0,
         \A j \in 1 .. Len(h) : h[j].id < g.id, NEW row, row.id = g.id
  PROVE  Buffered(<<row>>) = FramesFrom(Append(h, g), <<row>>[1].id)
<1>1. g.id \in Nat
  BY DEF Handled
<1>2. FramesFrom(Append(h, g), g.id) = FramesFrom(h, g.id) \cup {g.id}
  <2>1. g.id >= g.id
    BY <1>1
  <2> QED BY <1>1, <2>1, HandledGrows
<1>3. FramesFrom(h, g.id) = {}
  <2>1. DOMAIN h = 1 .. Len(h) /\ \A j \in 1 .. Len(h) : h[j] \in Handled
    OBVIOUS
  <2>2. \A j \in DOMAIN h : h[j].id < g.id /\ h[j].id \in Nat
    BY <2>1 DEF Handled
  <2> QED BY <1>1, <2>2 DEF FramesFrom
<1>4. Buffered(<<row>>) = {g.id}
  BY DEF Buffered
<1> QED BY <1>2, <1>3, <1>4

(* An episode goes on: its buffer and the handled frames both grow by it.  *)
LEMMA AppendBuffers ==
  ASSUME NEW h \in Seq(Handled), NEW g \in Handled, g.images > 0,
         \A j \in 1 .. Len(h) : h[j].id < g.id, NEW row \in Rows, row.id = g.id, NEW b \in Seq(Rows), b # <<>>,
         Buffered(b) = FramesFrom(h, b[1].id)
  PROVE  Buffered(Append(b, row))
           = FramesFrom(Append(h, g), Append(b, row)[1].id)
<1> DEFINE n == Append(b, row)
           x == b[1].id
<1>1. g.id \in Nat
  BY DEF Handled
<1>2. Len(b) \in Nat \ {0} /\ DOMAIN b = 1 .. Len(b) /\ 1 \in DOMAIN b /\ b[1] \in Rows
  OBVIOUS
<1>3. /\ DOMAIN n = 1 .. Len(b) + 1 /\ n[Len(b) + 1] = row /\ n[1] = b[1]
      /\ \A i \in 1 .. Len(b) : n[i] = b[i]
  BY <1>2, AppendProperties
<1>4. x \in Nat
  BY <1>2 DEF Rows
<1>5. x < g.id
  <2>1. x \in FramesFrom(h, x)
    BY <1>2 DEF Buffered
  <2> HIDE DEF x
  <2>2. PICK j \in DOMAIN h : x = h[j].id
    BY <2>1 DEF FramesFrom
  <2>3. j \in 1 .. Len(h)
    OBVIOUS
  <2> QED BY <2>2, <2>3
<1> HIDE DEF n
<1>6. Buffered(n) = Buffered(b) \cup {g.id}
  <2>1. ASSUME NEW y
        PROVE  y \in Buffered(n) <=> y \in Buffered(b) \/ y = g.id
    <3>1. y \in Buffered(n) <=> \E i \in 1 .. Len(b) + 1 : y = n[i].id
      BY <1>3 DEF Buffered
    <3>2. y \in Buffered(b) <=> \E i \in 1 .. Len(b) : y = b[i].id
      BY <1>2 DEF Buffered
    <3>3. \A i : i \in 1 .. Len(b) + 1 <=> i \in 1 .. Len(b) \/ i = Len(b) + 1
      BY <1>2
    <3> QED BY <1>3, <3>1, <3>2, <3>3
  <2> QED BY <2>1
<1>7. FramesFrom(Append(h, g), x) = FramesFrom(h, x) \cup {g.id}
  <2> HIDE DEF x
  <2>1. g.id >= x
    BY <1>1, <1>4, <1>5
  <2> QED BY <1>1, <1>4, <2>1, HandledGrows
<1> QED BY <1>3, <1>6, <1>7 DEF n

BufferInv == InEpisode(detector) => MissesNoFrame(detector, handled)

LEMMA SameBuffer ==
  ASSUME BufferInv, handled' = handled, detector'.start = detector.start,
         detector'.buffer = detector.buffer, detector'.skip = detector.skip
  PROVE  BufferInv'
<1>1. InEpisode(detector)' => InEpisode(detector)
  BY DEF InEpisode
<1>2. ASSUME InEpisode(detector), ~detector'.skip
      PROVE  Buffered(detector'.buffer) = FramesFrom(handled', detector'.buffer[1].id)
  BY <1>2 DEF BufferInv, MissesNoFrame
<1> QED BY <1>1, <1>2 DEF BufferInv, MissesNoFrame

LEMMA NoBuffer ==
  ASSUME detector'.start = 0
  PROVE  BufferInv'
BY DEF BufferInv, InEpisode

(* A frame without images is in neither.                                   *)
LEMMA IgnoreKeepsBuffer ==
  ASSUME StreamInv, DetectorInv, BufferInv, NEW f, f.id \in Nat, f.goals \in AnyGoals,
         IgnoreFrame(f)
  PROVE  BufferInv'
<1>1. detector' = detector /\ f.images = 0 /\ Take(f)
  BY DEF IgnoreFrame
<1> DEFINE b == detector.buffer
<1>2. ASSUME InEpisode(detector), ~detector.skip
      PROVE  Buffered(b) = FramesFrom(handled', b[1].id)
  <2>1. Buffered(b) = FramesFrom(handled, b[1].id)
    BY <1>2 DEF BufferInv, MissesNoFrame
  <2>2. b \in Seq(Rows) /\ b # <<>>
    BY <1>2 DEF DetectorInv, Detectors, Episode, Smooth
  <2>3. b[1].id \in Nat
    <3>1. b[1] \in Rows
      <4> HIDE DEF b
      <4> QED BY <2>2
    <3> QED BY <3>1 DEF Rows
  <2>4. handled \in Seq(Handled) /\ handled' = Append(handled, Entry(f))
    BY <1>1, TakenIsNewest
  <2>5. FramesFrom(Append(handled, Entry(f)), b[1].id)
          = FramesFrom(handled, b[1].id)
    <3> DEFINE x == b[1].id
    <3>1. x \in Nat /\ Entry(f) \in Handled /\ ~(Entry(f).images > 0)
      <4>1. f.images \in 0 .. 2 /\ ~(f.images > 0)
        BY <1>1
      <4> QED BY <2>3, <4>1, EntryFacts
    <3> HIDE DEF x
    <3>2. FramesFrom(Append(handled, Entry(f)), x) = FramesFrom(handled, x)
      BY <2>4, <3>1, HandledGrows
    <3> QED BY <3>2 DEF x
  <2> QED BY <2>1, <2>4, <2>5
<1>3. InEpisode(detector)' = InEpisode(detector)
  BY <1>1 DEF InEpisode
<1> QED BY <1>1, <1>2, <1>3 DEF BufferInv, MissesNoFrame

LEMMA StartKeepsBuffer ==
  ASSUME StreamInv, DetectorInv, NEW f, IsFrame(f), StartEpisode(f)
  PROVE  BufferInv'
<1>1. /\ Take(f) /\ detector' = Start(detector, f, <<run, detector.started + 1>>)
      /\ detector \in Detectors
  BY DEF StartEpisode, DetectorInv
<1>2. <<run, detector.started + 1>> \in Labels
  <2>1. detector.started \in Nat /\ run \in Nat
    BY DEF DetectorInv, Detectors
  <2> QED BY <2>1 DEF Labels
<1> DEFINE row == Row(<<run, detector.started + 1>>, f, 0)
<1>3. detector'.buffer = <<row>> /\ row.id = f.id
  BY <1>1, <1>2, StartFields DEF Row
<1> HIDE DEF row
<1>4. /\ handled \in Seq(Handled) /\ \A j \in 1 .. Len(handled) : handled[j].id < f.id
      /\ handled' = Append(handled, Entry(f))
  BY <1>1, TakenIsNewest
<1>5. Entry(f) \in Handled /\ Entry(f).id = f.id /\ Entry(f).images > 0
  BY EntryFacts DEF IsFrame
<1>6. Buffered(<<row>>) = FramesFrom(handled', <<row>>[1].id)
  BY <1>3, <1>4, <1>5, StartBuffers
<1> QED BY <1>3, <1>6 DEF BufferInv, MissesNoFrame

LEMMA ContinueKeepsBuffer ==
  ASSUME StreamInv, DetectorInv, BufferInv, NEW f, IsFrame(f), Take(f), InEpisode(detector),
         detector' = Continue(detector, f)
  PROVE  BufferInv'
<1> DEFINE b == detector.buffer
           row == Row(detector.label, f, Since(detector, f))
<1>1. detector \in Detectors /\ Episode(detector)
  BY DEF DetectorInv
<1>2. CASE detector'.skip
  BY <1>2 DEF BufferInv, MissesNoFrame
<1>3. CASE ~detector'.skip
  <2>1. ~detector.skip /\ detector'.buffer = Append(b, row)
    <3> HIDE DEF row
    <3> QED BY <1>1, <1>3, ContinueFields DEF row
  <2>2. b \in Seq(Rows) /\ b # <<>>
    BY <1>1 DEF Detectors, Episode, Smooth
  <2>3. row \in Rows /\ row.id = f.id
    <3>1. f.stamp \in Int /\ detector.start \in Int /\ detector.label \in Labels
      BY <1>1, WordFacts DEF IsFrame, Detectors
    <3>2. Since(detector, f) \in 0 .. WORD - 1
      BY <3>1, MinusIsWord DEF Since
    <3> QED BY <3>1, <3>2, RowType
  <2>4. Buffered(b) = FramesFrom(handled, b[1].id)
    BY <2>1 DEF BufferInv, MissesNoFrame
  <2>5. /\ handled \in Seq(Handled) /\ \A j \in 1 .. Len(handled) : handled[j].id < f.id
        /\ handled' = Append(handled, Entry(f))
    BY TakenIsNewest
  <2> HIDE DEF b, row
  <2>6. Buffered(Append(b, row)) = FramesFrom(handled', Append(b, row)[1].id)
    <3>0. f.id \in Nat /\ f.goals \in AnyGoals /\ f.images \in 1 .. 2
      BY DEF IsFrame
    <3>1. Entry(f) \in Handled /\ Entry(f).id = f.id /\ Entry(f).images > 0
      <4>1. f.images \in 0 .. 2 /\ f.images > 0
        BY <3>0
      <4> QED BY <3>0, <4>1, EntryFacts
    <3> QED BY <2>2, <2>3, <2>4, <2>5, <3>1, AppendBuffers
  <2>7. Buffered(detector'.buffer) = FramesFrom(handled', detector'.buffer[1].id)
    BY <2>1, <2>6
  <2> QED BY <2>7 DEF BufferInv, MissesNoFrame
<1> QED BY <1>2, <1>3

LEMMA BufferNext == BoundsInv /\ StreamInv /\ DetectorInv /\ BufferInv /\ [Next]_vars => BufferInv'
<1> SUFFICES ASSUME BoundsInv, StreamInv, DetectorInv, BufferInv, [Next]_vars PROVE BufferInv'
  OBVIOUS
<1>0. detector \in Detectors
  BY DEF DetectorInv
<1>1. CASE \/ UNCHANGED vars \/ MakeVideo \/ Video \/ FindBounds \/ StreamStep
           \/ BoundsFail \/ OpenStream \/ StreamFails
  <2>1. UNCHANGED <<detector, handled>>
    BY <1>1 DEF vars, MakeVideo, Video, FindBounds, StreamStep, BoundsFail, OpenStream, StreamFails,
       generatorVars, detectorVars
  <2> QED BY <2>1, SameBuffer
<1>2. CASE Launch \/ Quit \/ Kill
  <2>1. detector' = NewDetector
    BY <1>2 DEF Launch, Quit, Kill, Stop
  <2> QED BY <2>1, NoBuffer DEF NewDetector
<1>3. CASE ProcessFrame
  <2>1. PICK f : /\ Take(f) /\ f.id \in Nat /\ f.goals \in AnyGoals
                 /\ \/ IgnoreFrame(f)
                    \/ IsFrame(f) /\ (WaitForCommand(f) \/ StartEpisode(f) \/ ContinueEpisode(f)
                                      \/ EndEpisode(f))
    BY <1>3, ProcessedFrame
  <2>2. CASE IgnoreFrame(f)
    BY <2>1, <2>2, IgnoreKeepsBuffer
  <2>3. CASE WaitForCommand(f)
    <3>1. detector' = [detector EXCEPT !.lastGoals = f.goals] /\ detector.start = 0
      BY <2>3 DEF WaitForCommand, InEpisode
    <3>2. detector'.start = 0
      BY <1>0, <3>1 DEF Detectors
    <3> QED BY <3>2, NoBuffer
  <2>4. CASE IsFrame(f) /\ StartEpisode(f)
    BY <2>4, StartKeepsBuffer
  <2>5. CASE IsFrame(f) /\ ContinueEpisode(f)
    <3>1. InEpisode(detector) /\ detector' = Continue(detector, f)
      BY <2>5 DEF ContinueEpisode
    <3> QED BY <2>1, <2>5, <3>1, ContinueKeepsBuffer
  <2>6. CASE IsFrame(f) /\ EndEpisode(f)
    <3>1. InEpisode(detector)
          /\ \/ detector' = Continue(detector, f)
             \/ detector' = Reset(Discard(Continue(detector, f)))
      BY <2>6 DEF EndEpisode
    <3>2. CASE detector' = Continue(detector, f)
      BY <2>1, <2>6, <3>1, <3>2, ContinueKeepsBuffer
    <3>3. CASE detector' = Reset(Discard(Continue(detector, f)))
      <4>1. Continue(detector, f) \in Detectors
        BY <1>0, <2>6, <3>1, ContinueFields
      <4>2. detector'.start = 0
        BY <3>3, <4>1, DiscardFields, ResetFields
      <4> QED BY <4>2, NoBuffer
    <3> QED BY <3>1, <3>2, <3>3
  <2> QED BY <2>1, <2>2, <2>3, <2>4, <2>5, <2>6
<1>4. CASE \/ CreateFile \/ NothingToMerge \/ MergeFails \/ OpenParts \/ CreateOutput \/ CopyRows
           \/ RemoveFile \/ CleanupEnds
  <2>1. UNCHANGED <<detector, handled>>
    BY <1>4 DEF CreateFile, CreatePart, notSaving, NothingToMerge, MergeFails, OpenParts,
       CreateOutput, CopyRows, RemoveFile, CleanupEnds, Succeed, notMerging, detectorVars,
       CreateMerged, WriteMerged, RemovePart
  <2> QED BY <2>1, SameBuffer
<1>5. CASE CreateFileFails \/ WriteFile \/ WriteFileFails \/ Finalize
  <2>1. handled' = handled
        /\ detector' \in {detector, Saved(detector), Reset(detector), Reset(Saved(detector)),
                          Discard(detector)}
    BY <1>5 DEF CreateFileFails, WriteFile, WriteFileFails, AfterSave, Finalize, notSaving
  <2>2. CASE detector' \in {detector, Saved(detector), Discard(detector)}
    <3>1. /\ detector'.start = detector.start /\ detector'.buffer = detector.buffer
          /\ detector'.skip = detector.skip
      BY <1>0, <2>2, SavedFields, DiscardFields
    <3> QED BY <2>1, <3>1, SameBuffer
  <2>3. CASE detector' \in {Reset(detector), Reset(Saved(detector))}
    <3>1. detector'.start = 0
      BY <1>0, <2>3, SavedFields, ResetFields
    <3> QED BY <3>1, NoBuffer
  <2> QED BY <2>1, <2>2, <2>3
<1> QED BY <1>1, <1>2, <1>3, <1>4, <1>5 DEF Next, Generate, GeneratorNext, Worker

(* An episode that is not marked for skip has all of its frames, whatever  *)
(* frames without images, damaged entries and late commands are between.   *)
THEOREM BuffersAreComplete == Spec => []BufferMissesNoFrame
<1>1. Init => BufferInv
  <2> SUFFICES ASSUME Init PROVE BufferInv
    OBVIOUS
  <2>1. detector.start = 0
    BY DEF Init, GeneratorInit, NewDetector
  <2> QED BY <2>1 DEF BufferInv, InEpisode
<1>2. DetectorInv /\ BufferInv => BufferMissesNoFrame
  <2> SUFFICES ASSUME DetectorInv, BufferInv, InEpisode(detector)
               PROVE  /\ detector.buffer # <<>>
                      /\ ~detector.skip => {detector.buffer[i].id : i \in DOMAIN detector.buffer}
                                 = {handled[j].id : j \in Imaged(detector.buffer[1].id)}
    BY DEF BufferMissesNoFrame
  <2>1. detector.buffer # <<>>
    BY DEF DetectorInv, Episode, Smooth
  <2>2. FramesFrom(handled, detector.buffer[1].id)
          = {handled[j].id : j \in Imaged(detector.buffer[1].id)}
    BY DEF FramesFrom, Imaged
  <2> QED BY <2>1, <2>2 DEF BufferInv, MissesNoFrame, Buffered
<1> QED BY <1>1, <1>2, BufferNext, BoundsInvariance, StreamInvariance, DetectorInvariance, PTL DEF Spec

-----------------------------------------------------------------------------

Screens == [saved : Nat, discarded : Nat, summary : {"none", "complete", "failed"}]

IsEpisode(rows) == rows \in Seq(Rows) /\ Smooth(rows)

PartsAreOK ==
    /\ IsFiniteSet(DOMAIN parts) /\ DOMAIN parts \subseteq Nat
    /\ \A i \in DOMAIN parts :
          parts[i] = Torn \/ \E rows : IsEpisode(rows) /\ parts[i] = Whole(<<rows>>)

MergedIsOK ==
    /\ DOMAIN merged.groups = 1 .. Len(merged.groups) /\ Len(merged.groups) \in Nat
    /\ \A k \in 1 .. Len(merged.groups) : IsEpisode(merged.groups[k])
    /\ OneRun(merged.groups)

(* The label of the episode in the part with a number.                     *)
LabelOf(i) == parts[i].groups[1][1].episode

(* Every reported episode has a whole part of its own, in the order they   *)
(* were recorded.                                                          *)
PartsHold ==
    /\ \A i \in 0 .. screen.saved - 1 :
          i \in DOMAIN parts /\ parts[i] # Torn /\ LabelOf(i)[1] = run
    /\ \A i, j \in 0 .. screen.saved - 1 : i < j => LabelOf(i)[2] < LabelOf(j)[2]

(* Every reported episode is in the merged file.                           *)
MergedHolds ==
    /\ Len(merged.groups) = screen.saved
    /\ \A k \in 1 .. screen.saved : merged.groups[k][1].episode[1] = run

(* The reported episodes are older than the open one.                      *)
Collecting == pc \in {"stream", "save", "write", "finalSave", "finalWrite"}
AllOlder ==
    \A i \in 0 .. screen.saved - 1 :
        /\ LabelOf(i)[2] <= detector.started
        /\ Collecting /\ InEpisode(detector) => LabelOf(i)[2] < detector.started

FilesInv ==
    /\ screen \in Screens /\ PartsAreOK /\ MergedIsOK
    /\ PartsHold \/ MergedHolds
    /\ Running => detector.index = screen.saved
    /\ Running /\ pc # "cleanup" => PartsHold /\ AllOlder
    /\ pc = "cleanup" => MergedHolds

(* What a part that is not torn holds.                                     *)
LEMMA PartFacts ==
  ASSUME PartsAreOK, NEW i \in DOMAIN parts, parts[i] # Torn
  PROVE  /\ parts[i].whole /\ DOMAIN parts[i].groups = {1} /\ IsEpisode(parts[i].groups[1])
         /\ LabelOf(i)[1] \in Nat /\ LabelOf(i)[2] \in Nat
<1>1. PICK rows : IsEpisode(rows) /\ parts[i] = Whole(<<rows>>)
  BY DEF PartsAreOK
<1>2. parts[i].whole /\ parts[i].groups = <<rows>>
  BY <1>1 DEF Whole
<1>3. DOMAIN parts[i].groups = {1} /\ parts[i].groups[1] = rows
  BY <1>2
<1>4. rows[1] \in Rows
  BY <1>1 DEF IsEpisode, Smooth
<1>5. rows[1].episode[1] \in Nat /\ rows[1].episode[2] \in Nat
  BY <1>4 DEF Rows, Labels
<1> QED BY <1>1, <1>2, <1>3, <1>5 DEF LabelOf

LEMMA MergedFacts ==
  ASSUME MergedIsOK, NEW k \in 1 .. Len(merged.groups)
  PROVE  /\ merged.groups[k][1].episode[1] \in Nat /\ merged.groups[k][1].episode[2] \in Nat
<1>1. merged.groups[k] \in Seq(Rows) /\ merged.groups[k] # <<>>
  BY DEF MergedIsOK, IsEpisode, Smooth
<1>2. merged.groups[k][1] \in Rows
  BY <1>1
<1> QED BY <1>2 DEF Rows, Labels

(* A torn part is none that holds an episode.                              *)
LEMMA TornIsNotWhole == Torn.whole = FALSE /\ Torn.groups = <<>>
BY DEF Torn

-----------------------------------------------------------------------------

LEMMA PartsKept ==
  ASSUME UNCHANGED <<parts, run>>, screen'.saved = screen.saved
  PROVE  PartsAreOK' = PartsAreOK /\ PartsHold' = PartsHold
<1>1. PartsAreOK' = PartsAreOK
  BY DEF PartsAreOK
<1>2. PartsHold' = PartsHold
  BY DEF PartsHold, LabelOf
<1> QED BY <1>1, <1>2

LEMMA MergedKept ==
  ASSUME UNCHANGED <<merged, run>>, screen'.saved = screen.saved
  PROVE  MergedIsOK' = MergedIsOK /\ MergedHolds' = MergedHolds
<1>1. MergedIsOK' = MergedIsOK
  BY DEF MergedIsOK
<1>2. MergedHolds' = MergedHolds
  BY DEF MergedHolds
<1> QED BY <1>1, <1>2

(* Steps that touch no file.                                               *)
LEMMA OtherKeepsFiles ==
  ASSUME FilesInv, UNCHANGED <<parts, merged, run>>, screen' \in Screens,
         screen'.saved = screen.saved, detector \in Detectors, detector' \in Detectors,
         Running' => Running /\ detector'.index = detector.index
                             /\ (pc' = "cleanup" <=> pc = "cleanup"),
         Running' => \/ detector'.started = detector.started
                        /\ (InEpisode(detector)' /\ Collecting' => InEpisode(detector) /\ Collecting)
                     \/ detector'.started = detector.started + 1,
         pc' = "cleanup" => pc = "cleanup"
  PROVE  FilesInv'
<1>1. PartsAreOK' /\ MergedIsOK' /\ PartsHold' = PartsHold /\ MergedHolds' = MergedHolds
  BY PartsKept, MergedKept DEF FilesInv
<1>2. ASSUME Running', pc' # "cleanup"
      PROVE  PartsHold' /\ AllOlder'
  <2>1. PartsHold /\ AllOlder
    BY <1>2 DEF FilesInv
  <2>2. ASSUME NEW i \in 0 .. screen.saved - 1
        PROVE  /\ LabelOf(i)[2] <= detector'.started
               /\ Collecting' /\ InEpisode(detector)' => LabelOf(i)[2] < detector'.started
    <3>1. /\ LabelOf(i)[2] <= detector.started
          /\ Collecting /\ InEpisode(detector) => LabelOf(i)[2] < detector.started
      BY <2>1, <2>2 DEF AllOlder
    <3>2. LabelOf(i)[2] \in Nat
      BY <2>1, <2>2, PartFacts DEF PartsHold, FilesInv
    <3>3. detector.started \in Nat /\ detector'.started \in Nat
      BY DEF Detectors
    <3>4. CASE detector'.started = detector.started
               /\ (InEpisode(detector)' /\ Collecting' => InEpisode(detector) /\ Collecting)
      BY <3>1, <3>4
    <3>5. CASE detector'.started = detector.started + 1
      BY <3>1, <3>2, <3>3, <3>5
    <3> QED BY <1>2, <3>4, <3>5
  <2>3. AllOlder'
    BY <2>2 DEF AllOlder, LabelOf
  <2> QED BY <1>1, <2>1, <2>3
<1>3. (PartsHold \/ MergedHolds)'
  BY <1>1 DEF FilesInv
<1>4. Running' => detector'.index = screen'.saved
  BY DEF FilesInv
<1>5. pc' = "cleanup" => MergedHolds'
  BY <1>1 DEF FilesInv
<1> QED BY <1>1, <1>2, <1>3, <1>4, <1>5 DEF FilesInv

(* A run starts with no episode reported.                                  *)
LEMMA LaunchKeepsFiles ==
  ASSUME FilesInv, Launch
  PROVE  FilesInv'
<1>1. /\ parts' = parts /\ merged' = merged /\ screen' = NewScreen /\ detector' = NewDetector
      /\ pc' = "bounds"
  BY DEF Launch
<1>2. screen'.saved = 0 /\ screen' \in Screens /\ detector'.index = 0
  BY <1>1 DEF NewScreen, Screens, NewDetector
<1>3. PartsAreOK'
  BY <1>1 DEF PartsAreOK, FilesInv
<1>4. MergedIsOK'
  BY <1>1 DEF MergedIsOK, FilesInv
<1>5. PartsHold' /\ AllOlder'
  BY <1>2 DEF PartsHold, AllOlder
<1> QED BY <1>1, <1>2, <1>3, <1>4, <1>5 DEF FilesInv

(* A file of the next number, which is none that was reported.             *)
LEMMA NewPart ==
  ASSUME PartsAreOK, PartsHold, detector.index = screen.saved, screen.saved \in Nat,
         NEW file, file = Torn \/ \E rows : IsEpisode(rows) /\ file = Whole(<<rows>>),
         parts' = WithPart(detector.index, file)
  PROVE  /\ PartsAreOK' /\ parts'[screen.saved] = file /\ screen.saved \in DOMAIN parts'
         /\ \A i \in 0 .. screen.saved - 1 : i \in DOMAIN parts' /\ parts'[i] = parts[i]
<1>1. DOMAIN parts' = DOMAIN parts \cup {screen.saved}
      /\ \A i \in DOMAIN parts' : parts'[i] = IF i = screen.saved THEN file ELSE parts[i]
  BY DEF WithPart
<1>2. IsFiniteSet(DOMAIN parts')
  BY <1>1, FS_AddElement DEF PartsAreOK
<1>3. PartsAreOK'
  BY <1>1, <1>2 DEF PartsAreOK
<1>4. \A i \in 0 .. screen.saved - 1 : i \in DOMAIN parts
  BY DEF PartsHold
<1> QED BY <1>1, <1>3, <1>4

LEMMA CreateKeepsFiles ==
  ASSUME FilesInv, Running, Collecting, CreatePart, UNCHANGED <<screen, run>>,
         pc' \in {"write", "finalWrite"}
  PROVE  FilesInv'
<1>1. /\ PartsAreOK /\ MergedIsOK /\ PartsHold /\ AllOlder /\ detector.index = screen.saved
      /\ screen \in Screens /\ screen.saved \in Nat
  BY DEF FilesInv, Collecting, Screens
<1>2. parts' = WithPart(detector.index, Torn) /\ UNCHANGED <<detector, merged>>
  BY DEF CreatePart
<1>3. PartsAreOK' /\ \A i \in 0 .. screen.saved - 1 : i \in DOMAIN parts' /\ parts'[i] = parts[i]
  BY <1>1, <1>2, NewPart
<1>4. MergedIsOK'
  BY <1>1, <1>2, MergedKept
<1>5. \A i \in 0 .. screen.saved - 1 : LabelOf(i)' = LabelOf(i)
  BY <1>3 DEF LabelOf
<1>6. PartsHold'
  BY <1>1, <1>3, <1>5 DEF PartsHold
<1>7. AllOlder'
  BY <1>1, <1>2, <1>5 DEF AllOlder, InEpisode, Collecting
<1> QED BY <1>1, <1>2, <1>3, <1>4, <1>6, <1>7 DEF FilesInv

(* The episode is written: it is the last one reported.                    *)
LEMMA WriteKeepsFiles ==
  ASSUME FilesInv, DetectorInv, WriteFile
  PROVE  FilesInv'
<1>1. /\ PartsAreOK /\ MergedIsOK /\ PartsHold /\ AllOlder /\ detector.index = screen.saved
      /\ screen \in Screens /\ screen.saved \in Nat /\ Collecting
  BY DEF FilesInv, WriteFile, Writing, Running, Screens, Collecting
<1>2. parts' = WithPart(detector.index, Whole(<<detector.buffer>>)) /\ merged' = merged
      /\ run' = run
  BY DEF WriteFile, WritePart, notSaving
<1>3. detector \in Detectors /\ InEpisode(detector) /\ Episode(detector)
  BY DEF DetectorInv, WriteFile
<1>4. screen' \in Screens /\ screen'.saved = screen.saved + 1
  BY <1>1 DEF WriteFile, Screens
<1>5. /\ detector'.index = detector.index + 1 /\ detector'.started = detector.started
      /\ \/ pc' = "merge"
         \/ pc' = "stream" /\ detector'.start = 0
  <2>1. \/ detector' = Saved(detector) /\ pc' = "merge"
        \/ detector' = Reset(Saved(detector)) /\ pc' = "stream"
    BY DEF WriteFile, AfterSave
  <2> QED BY <1>3, <2>1, SavedFields, ResetFields
<1>6. IsEpisode(detector.buffer)
  BY <1>3 DEF IsEpisode, Episode, Detectors
<1>7. /\ PartsAreOK' /\ screen.saved \in DOMAIN parts'
      /\ parts'[screen.saved] = Whole(<<detector.buffer>>)
      /\ \A i \in 0 .. screen.saved - 1 : i \in DOMAIN parts' /\ parts'[i] = parts[i]
  BY <1>1, <1>2, <1>6, NewPart
<1>8. MergedIsOK'
  BY <1>1, <1>2 DEF MergedIsOK
<1>9. ASSUME NEW i \in 0 .. screen.saved - 1
      PROVE  /\ i \in DOMAIN parts' /\ parts'[i] # Torn /\ parts'[i].groups[1][1].episode[1] = run
             /\ parts'[i].groups[1][1].episode[2] = LabelOf(i)[2]
             /\ LabelOf(i)[2] < detector.started
  BY <1>1, <1>3, <1>7 DEF PartsHold, AllOlder, LabelOf
<1>10. /\ parts'[screen.saved] # Torn
       /\ parts'[screen.saved].groups[1][1].episode[1] = run
       /\ parts'[screen.saved].groups[1][1].episode[2] = detector.started
  <2>1. Whole(<<detector.buffer>>).whole = TRUE /\ Whole(<<detector.buffer>>).groups = <<detector.buffer>>
    BY DEF Whole
  <2>2. detector.buffer[1].episode = <<run, detector.started>>
    <3>1. Len(detector.buffer) \in Nat /\ detector.buffer # <<>>
      BY <1>6 DEF IsEpisode, Smooth
    <3>2. 1 \in 1 .. Len(detector.buffer)
      BY <1>6, <3>1 DEF IsEpisode
    <3> QED BY <1>3, <3>2 DEF Episode
  <2>3. parts'[screen.saved].groups[1] = detector.buffer
    BY <1>7, <2>1
  <2> QED BY <1>7, <2>1, <2>2, <2>3, TornIsNotWhole
<1>11. \A i \in 0 .. screen'.saved - 1 : i \in 0 .. screen.saved - 1 \/ i = screen.saved
  BY <1>1, <1>4
<1>12. \A i \in 0 .. screen'.saved - 1 :
          /\ i \in DOMAIN parts' /\ parts'[i] # Torn /\ parts'[i].groups[1][1].episode[1] = run
          /\ parts'[i].groups[1][1].episode[2] <= detector.started
  <2>1. detector.started \in Nat /\ \A i \in 0 .. screen.saved - 1 : LabelOf(i)[2] \in Nat
    BY <1>1, <1>3, PartFacts DEF Detectors, PartsHold
  <2> QED BY <1>7, <1>9, <1>10, <1>11, <2>1
<1>13. \A i, j \in 0 .. screen'.saved - 1 :
          i < j => parts'[i].groups[1][1].episode[2] < parts'[j].groups[1][1].episode[2]
  <2> SUFFICES ASSUME NEW i \in 0 .. screen'.saved - 1, NEW j \in 0 .. screen'.saved - 1, i < j
               PROVE  parts'[i].groups[1][1].episode[2] < parts'[j].groups[1][1].episode[2]
    OBVIOUS
  <2>1. i \in 0 .. screen.saved - 1
    BY <1>1, <1>11
  <2>2. CASE j \in 0 .. screen.saved - 1
    BY <1>1, <1>9, <2>1, <2>2 DEF PartsHold
  <2>3. CASE j = screen.saved
    BY <1>9, <1>10, <2>1, <2>3
  <2> QED BY <1>11, <2>2, <2>3
<1>14. PartsHold'
  BY <1>2, <1>12, <1>13 DEF PartsHold, LabelOf
<1>15. ~(Collecting /\ InEpisode(detector))'
  BY <1>5 DEF Collecting, InEpisode
<1>16. AllOlder'
  BY <1>5, <1>12, <1>15 DEF AllOlder, LabelOf
<1> QED BY <1>1, <1>4, <1>5, <1>7, <1>8, <1>14, <1>16 DEF FilesInv

(* The merged file is created, which empties the one there was: the parts  *)
(* still hold what was reported.                                           *)
LEMMA OutputKeepsFiles ==
  ASSUME FilesInv, Running, pc # "cleanup", CreateMerged, UNCHANGED <<screen, run>>, pc' = "copy"
  PROVE  FilesInv'
<1>1. /\ PartsAreOK /\ PartsHold /\ AllOlder /\ detector.index = screen.saved /\ screen \in Screens
  BY DEF FilesInv
<1>2. merged' = Torn /\ UNCHANGED <<detector, parts>>
  BY DEF CreateMerged
<1>3. MergedIsOK'
  <2>1. merged'.groups = <<>>
    BY <1>2, TornIsNotWhole
  <2> QED BY <2>1 DEF MergedIsOK, OneRun
<1>4. PartsAreOK' /\ PartsHold'
  BY <1>1, <1>2, PartsKept
<1>5. AllOlder'
  BY <1>1, <1>2 DEF AllOlder, LabelOf, Collecting
<1> QED BY <1>1, <1>2, <1>3, <1>4, <1>5 DEF FilesInv

(* Every part is copied: from here on the merged file holds it as well.    *)
LEMMA CopyKeepsFiles ==
  ASSUME FilesInv, Running, pc # "cleanup", WriteMerged, UNCHANGED <<screen, run>>, pc' = "cleanup"
  PROVE  FilesInv'
<1>1. /\ PartsAreOK /\ PartsHold /\ detector.index = screen.saved /\ screen \in Screens
      /\ screen.saved \in Nat
  BY DEF FilesInv, Screens
<1>2. merged' = Whole(Merge) /\ UNCHANGED <<detector, parts>>
  BY DEF WriteMerged
<1>3. Cardinality(ToMerge) = screen.saved
  <2>1. ToMerge = 0 .. screen.saved - 1
    BY <1>1 DEF ToMerge
  <2>2. 0 \in Int /\ screen.saved - 1 \in Int
    BY <1>1
  <2>3. Cardinality(0 .. screen.saved - 1)
          = IF 0 > screen.saved - 1 THEN 0 ELSE screen.saved - 1 - 0 + 1
    BY <2>2, FS_Interval
  <2> QED BY <1>1, <2>1, <2>3
<1> DEFINE g == [i \in 1 .. screen.saved |-> parts[i - 1].groups[1]]
<1>4. merged'.groups = g
  BY <1>2, <1>3 DEF Whole, Merge
<1>5. ASSUME NEW k \in 1 .. screen.saved
      PROVE  /\ IsEpisode(g[k]) /\ g[k][1].episode[1] = run
             /\ g[k][1].episode[2] = LabelOf(k - 1)[2] /\ k - 1 \in 0 .. screen.saved - 1
  <2>1. k - 1 \in 0 .. screen.saved - 1
    BY <1>1
  <2>2. k - 1 \in DOMAIN parts /\ parts[k - 1] # Torn /\ LabelOf(k - 1)[1] = run
    BY <1>1, <2>1 DEF PartsHold
  <2>3. IsEpisode(parts[k - 1].groups[1])
    BY <1>1, <2>2, PartFacts
  <2> QED BY <2>1, <2>2, <2>3 DEF LabelOf
<1>6. Len(g) = screen.saved /\ DOMAIN g = 1 .. Len(g)
  <2> DEFINE E == {g[k] : k \in 1 .. screen.saved}
  <2>1. DOMAIN g = 1 .. screen.saved /\ \A k \in 1 .. screen.saved : g[k] \in E
    OBVIOUS
  <2>2. g = [k \in 1 .. screen.saved |-> g[k]]
    OBVIOUS
  <2> HIDE DEF E, g
  <2>3. g \in [1 .. screen.saved -> E]
    BY <2>1, <2>2
  <2>4. g \in Seq(E)
    BY <1>1, <2>3
  <2> QED BY <1>1, <2>1, <2>4
<1> HIDE DEF g
<1>7. ASSUME NEW i \in DOMAIN g, NEW j \in DOMAIN g, i < j
      PROVE  g[i][1].episode[1] = g[j][1].episode[1] /\ g[i][1].episode[2] < g[j][1].episode[2]
  <2>1. i \in 1 .. screen.saved /\ j \in 1 .. screen.saved /\ i - 1 < j - 1
    BY <1>1, <1>6, <1>7
  <2>2. i - 1 \in 0 .. screen.saved - 1 /\ j - 1 \in 0 .. screen.saved - 1
    BY <1>5, <2>1
  <2>3. LabelOf(i - 1)[2] < LabelOf(j - 1)[2]
    BY <1>1, <2>1, <2>2 DEF PartsHold
  <2> QED BY <1>5, <2>1, <2>3
<1>8. OneRun(g)
  BY <1>7 DEF OneRun
<1>9. MergedIsOK'
  BY <1>1, <1>4, <1>5, <1>6, <1>8 DEF MergedIsOK
<1>10. MergedHolds'
  BY <1>1, <1>4, <1>5, <1>6 DEF MergedHolds
<1>11. PartsAreOK'
  BY <1>1, <1>2, PartsKept
<1> QED BY <1>1, <1>2, <1>9, <1>10, <1>11 DEF FilesInv

LEMMA RemoveKeepsFiles ==
  ASSUME FilesInv, RemoveFile
  PROVE  FilesInv'
<1>1. /\ MergedIsOK /\ MergedHolds /\ PartsAreOK /\ screen \in Screens
      /\ detector.index = screen.saved
  BY DEF FilesInv, RemoveFile, Running
<1>2. pc = "cleanup" /\ UNCHANGED <<pc, screen, run, merged, detector>>
      /\ (parts' = WithoutPart(removing) \/ parts' = parts)
  BY DEF RemoveFile, RemovePart, notMerging, detectorVars
<1>3. PartsAreOK'
  <2>1. CASE parts' = parts
    BY <1>1, <2>1 DEF PartsAreOK
  <2>2. CASE parts' = WithoutPart(removing)
    <3>1. DOMAIN parts' = DOMAIN parts \ {removing} /\ \A i \in DOMAIN parts' : parts'[i] = parts[i]
      BY <2>2 DEF WithoutPart
    <3>2. IsFiniteSet(DOMAIN parts')
      BY <1>1, <3>1, FS_RemoveElement DEF PartsAreOK
    <3> QED BY <1>1, <3>1, <3>2 DEF PartsAreOK
  <2> QED BY <1>2, <2>1, <2>2
<1>4. MergedIsOK' /\ MergedHolds'
  BY <1>1, <1>2, MergedKept
<1> QED BY <1>1, <1>2, <1>3, <1>4 DEF FilesInv

-----------------------------------------------------------------------------

LEMMA FilesInit == Init => FilesInv
<1> SUFFICES ASSUME Init PROVE FilesInv
  OBVIOUS
<1>1. /\ parts = [i \in {} |-> Torn] /\ merged = recording.dataset /\ screen = NewScreen
      /\ pc = "off" /\ chosen \in DOMAIN Recordings
  BY DEF Init, GeneratorInit
<1>2. screen.saved = 0 /\ screen \in Screens
  BY <1>1 DEF NewScreen, Screens
<1>3. PartsAreOK
  BY <1>1, FS_EmptySet DEF PartsAreOK
<1>4. merged \in Files /\ OneRun(merged.groups)
      /\ \A i \in DOMAIN merged.groups : Smooth(merged.groups[i])
  BY <1>1, GeneratorAssumption DEF recording
<1>5. MergedIsOK
  <2>1. merged.groups \in Seq(Seq(Rows))
    BY <1>4 DEF Files
  <2>2. DOMAIN merged.groups = 1 .. Len(merged.groups) /\ Len(merged.groups) \in Nat
        /\ \A k \in 1 .. Len(merged.groups) : merged.groups[k] \in Seq(Rows)
    BY <2>1
  <2> QED BY <1>4, <2>2 DEF MergedIsOK, IsEpisode
<1>6. PartsHold
  BY <1>2 DEF PartsHold
<1> QED BY <1>1, <1>2, <1>3, <1>5, <1>6 DEF FilesInv, Running

LEMMA ScreenFields ==
  ASSUME screen \in Screens
  PROVE  /\ [screen EXCEPT !.discarded = @ + 1] \in Screens
         /\ [screen EXCEPT !.discarded = @ + 1].saved = screen.saved
         /\ \A summary \in {"none", "complete", "failed"} :
               /\ [screen EXCEPT !.summary = summary] \in Screens
               /\ [screen EXCEPT !.summary = summary].saved = screen.saved
BY DEF Screens

(* A frame touches no file and no count of saved episodes.                 *)
LEMMA FrameKeepsFiles ==
  ASSUME BoundsInv, StreamInv, DetectorInv, DetectorInv', FilesInv, ProcessFrame
  PROVE  FilesInv'
<1>1. PICK f : /\ Take(f)
               /\ \/ IgnoreFrame(f)
                  \/ IsFrame(f) /\ (WaitForCommand(f) \/ StartEpisode(f) \/ ContinueEpisode(f)
                                    \/ EndEpisode(f))
  BY ProcessedFrame
<1>2. detector \in Detectors /\ detector' \in Detectors /\ screen \in Screens /\ run \in Nat
  BY DEF DetectorInv, FilesInv
<1>3. UNCHANGED <<parts, merged, run>> /\ pc = "stream"
  BY <1>1 DEF Take
<1>4. pc' \in {"stream", "save"} /\ screen' \in {screen, [screen EXCEPT !.discarded = @ + 1]}
  BY <1>1, <1>3 DEF IgnoreFrame, WaitForCommand, StartEpisode, ContinueEpisode, EndEpisode
<1>5. screen' \in Screens /\ screen'.saved = screen.saved
  BY <1>2, <1>4, ScreenFields
<1> DEFINE DetectorKept == /\ detector'.index = detector.index
                           /\ \/ detector'.started = detector.started
                                 /\ (InEpisode(detector)' => InEpisode(detector))
                              \/ detector'.started = detector.started + 1
<1>6. DetectorKept
  <2>1. CASE IgnoreFrame(f)
    <3>1. detector' = detector
      BY <2>1 DEF IgnoreFrame
    <3> QED BY <3>1 DEF InEpisode
  <2>2. CASE IsFrame(f) /\ WaitForCommand(f)
    <3>1. detector' = [detector EXCEPT !.lastGoals = f.goals]
      BY <2>2 DEF WaitForCommand
    <3>2. /\ detector'.index = detector.index /\ detector'.started = detector.started
          /\ detector'.start = detector.start
      BY <1>2, <3>1 DEF Detectors
    <3> QED BY <3>2 DEF InEpisode
  <2>3. CASE IsFrame(f) /\ StartEpisode(f)
    <3>1. detector' = Start(detector, f, <<run, detector.started + 1>>)
      BY <2>3 DEF StartEpisode
    <3>2. <<run, detector.started + 1>> \in Labels
      <4>1. detector.started \in Nat /\ run \in Nat
        BY DEF DetectorInv, Detectors
      <4> QED BY <4>1 DEF Labels
    <3>3. detector'.index = detector.index /\ detector'.started = detector.started + 1
      BY <1>2, <2>3, <3>1, <3>2, StartFields
    <3> QED BY <3>3
  <2>4. CASE IsFrame(f) /\ (ContinueEpisode(f) \/ EndEpisode(f))
    <3>1. InEpisode(detector)
      BY <2>4 DEF ContinueEpisode, EndEpisode
    <3>2. \/ detector' = Continue(detector, f)
          \/ detector' = Reset(Discard(Continue(detector, f)))
      <4>1. CASE ContinueEpisode(f)
        BY <4>1 DEF ContinueEpisode
      <4>2. CASE EndEpisode(f)
        BY <4>2 DEF EndEpisode
      <4> QED BY <2>4, <4>1, <4>2
    <3>3. /\ Continue(detector, f) \in Detectors
          /\ Continue(detector, f).index = detector.index
          /\ Continue(detector, f).started = detector.started
      BY <1>2, <2>4, <3>1, ContinueFields
    <3>4. detector'.index = detector.index /\ detector'.started = detector.started
      BY <3>2, <3>3, DiscardFields, ResetFields
    <3> QED BY <3>1, <3>4
  <2> QED BY <1>1, <2>1, <2>2, <2>3, <2>4
<1>7. Running /\ Running' /\ Collecting
  BY <1>3, <1>4 DEF Running, Collecting
<1> QED BY <1>2, <1>3, <1>4, <1>5, <1>6, <1>7, OtherKeepsFiles

LEMMA FilesNext ==
  BoundsInv /\ StreamInv /\ DetectorInv /\ DetectorInv' /\ FilesInv /\ [Next]_vars => FilesInv'
<1> SUFFICES ASSUME BoundsInv, StreamInv, DetectorInv, DetectorInv', FilesInv, [Next]_vars
             PROVE  FilesInv'
  OBVIOUS
<1>0. /\ detector \in Detectors /\ detector' \in Detectors
      /\ screen \in Screens
  BY DEF DetectorInv, FilesInv
<1>1. ASSUME UNCHANGED <<parts, merged, run, detector>>, screen' \in Screens,
             screen'.saved = screen.saved, Running' => Running, Collecting' => Collecting,
             pc' = "cleanup" => pc = "cleanup",
             Running' => (pc' = "cleanup" <=> pc = "cleanup")
      PROVE  FilesInv'
  <2>1. InEpisode(detector)' = InEpisode(detector)
    BY <1>1 DEF InEpisode
  <2> QED BY <1>0, <1>1, <2>1, OtherKeepsFiles
<1>2. CASE UNCHANGED vars \/ MakeVideo \/ Video \/ FindBounds \/ StreamStep
  <2>1. UNCHANGED <<parts, merged, run, detector, screen, pc>>
    BY <1>2 DEF vars, MakeVideo, Video, FindBounds, StreamStep, generatorVars, detectorVars
  <2>2. Running' = Running /\ Collecting' = Collecting
    BY <2>1 DEF Running, Collecting
  <2> QED BY <1>0, <1>1, <2>1, <2>2
<1>3. CASE Launch
  BY <1>3, LaunchKeepsFiles
<1>4. CASE BoundsFail \/ StreamFails \/ NothingToMerge \/ MergeFails \/ CleanupEnds
  <2>1. UNCHANGED <<parts, merged, run, detector>> /\ pc' \in {"failed", "done"}
        /\ \E summary \in {"complete", "failed"} : screen' = [screen EXCEPT !.summary = summary]
    BY <1>4 DEF BoundsFail, StreamFails, NothingToMerge, MergeFails, CleanupEnds, Succeed, Finish,
       notMerging, detectorVars
  <2>2. screen' \in Screens /\ screen'.saved = screen.saved
    BY <1>0, <2>1, ScreenFields
  <2>3. ~Running' /\ ~Collecting' /\ pc' # "cleanup"
    BY <2>1 DEF Running, Collecting
  <2> QED BY <1>1, <2>1, <2>2, <2>3
<1>5. CASE OpenStream
  <2>1. UNCHANGED <<parts, merged, run, detector, screen>> /\ pc' = "stream" /\ pc = "bounds"
    BY <1>5 DEF OpenStream, detectorVars
  <2>2. ~InEpisode(detector) /\ ~InEpisode(detector)'
    <3>1. detector.start = 0
      BY <2>1 DEF DetectorInv, NewDetector
    <3> QED BY <2>1, <3>1 DEF InEpisode
  <2>3. Running /\ pc # "cleanup" /\ pc' # "cleanup" /\ screen' \in Screens
        /\ screen'.saved = screen.saved
    BY <1>0, <2>1 DEF Running
  <2> QED BY <1>0, <2>1, <2>2, <2>3, OtherKeepsFiles
<1>6. CASE ProcessFrame
  BY <1>6, FrameKeepsFiles
<1>7. CASE CreateFile
  <2>1. /\ CreatePart /\ UNCHANGED <<screen, run>> /\ pc' \in {"write", "finalWrite"}
        /\ pc \in {"save", "finalSave"}
    BY <1>7 DEF CreateFile, Saving, notSaving
  <2> QED BY <2>1, CreateKeepsFiles DEF Running, Collecting
<1>8. CASE WriteFile
  BY <1>8, WriteKeepsFiles
<1>9. CASE CreateFileFails \/ WriteFileFails
  <2>1. /\ UNCHANGED <<parts, merged, run, screen>> /\ Collecting /\ Running /\ pc # "cleanup"
        /\ \/ detector' = detector /\ pc' = "merge"
           \/ detector' = Reset(detector) /\ pc' = "stream"
    BY <1>9 DEF CreateFileFails, WriteFileFails, AfterSave, notSaving, Saving, Writing, Collecting,
       Running
  <2>2. CASE detector' = detector /\ pc' = "merge"
    BY <1>0, <1>1, <2>1, <2>2 DEF Collecting
  <2>3. CASE detector' = Reset(detector) /\ pc' = "stream"
    <3>1. /\ detector'.index = detector.index /\ detector'.started = detector.started
          /\ detector'.start = 0
      BY <1>0, <2>3, ResetFields
    <3>2. ~InEpisode(detector)'
      BY <3>1 DEF InEpisode
    <3>3. screen' \in Screens /\ screen'.saved = screen.saved
      BY <1>0, <2>1
    <3> QED BY <1>0, <2>1, <2>3, <3>1, <3>2, <3>3, OtherKeepsFiles
  <2> QED BY <2>1, <2>2, <2>3
<1>10. CASE Finalize
  <2>1. /\ UNCHANGED <<parts, merged, run>> /\ pc = "stream" /\ pc' \in {"merge", "finalSave"}
        /\ detector' \in {detector, Discard(detector)}
        /\ screen' \in {screen, [screen EXCEPT !.discarded = @ + 1]}
    BY <1>10 DEF Finalize, StreamOver
  <2>2. screen' \in Screens /\ screen'.saved = screen.saved
    BY <1>0, <2>1, ScreenFields
  <2>3. /\ detector'.index = detector.index /\ detector'.started = detector.started
        /\ detector'.start = detector.start
    BY <1>0, <2>1, DiscardFields
  <2>4. InEpisode(detector)' = InEpisode(detector) /\ Running /\ Collecting /\ pc # "cleanup"
        /\ pc' # "cleanup"
    BY <2>1, <2>3 DEF InEpisode, Running, Collecting
  <2> QED BY <1>0, <2>1, <2>2, <2>3, <2>4, OtherKeepsFiles
<1>11. CASE OpenParts
  <2>1. UNCHANGED <<parts, merged, run, detector, screen>> /\ pc' = "create" /\ pc = "merge"
    BY <1>11 DEF OpenParts, notMerging, detectorVars
  <2>2. Running /\ ~Collecting' /\ pc # "cleanup" /\ pc' # "cleanup"
    BY <2>1 DEF Running, Collecting
  <2> QED BY <1>0, <1>1, <2>1, <2>2
<1>12. CASE CreateOutput
  <2>1. CreateMerged /\ UNCHANGED <<screen, run>> /\ pc' = "copy" /\ pc = "create"
    BY <1>12 DEF CreateOutput, notMerging
  <2> QED BY <2>1, OutputKeepsFiles DEF Running
<1>13. CASE CopyRows
  <2>1. WriteMerged /\ UNCHANGED <<screen, run>> /\ pc' = "cleanup" /\ pc = "copy"
    BY <1>13 DEF CopyRows, notMerging
  <2> QED BY <2>1, CopyKeepsFiles DEF Running
<1>14. CASE RemoveFile
  BY <1>14, RemoveKeepsFiles
<1>15. CASE Quit \/ Kill
  <2>1. UNCHANGED <<parts, merged, run>> /\ pc' = "off"
        /\ \E summary \in {"none", "complete"} : screen' = [screen EXCEPT !.summary = summary]
    BY <1>15 DEF Quit, Kill, Stop, Finish
  <2>2. screen' \in Screens /\ screen'.saved = screen.saved
    BY <1>0, <2>1, ScreenFields
  <2>3. ~Running' /\ ~Collecting' /\ pc' # "cleanup"
    BY <2>1 DEF Running, Collecting
  <2> QED BY <1>0, <2>1, <2>2, <2>3, OtherKeepsFiles
<1> QED BY <1>2, <1>3, <1>4, <1>5, <1>6, <1>7, <1>8, <1>9, <1>10, <1>11, <1>12, <1>13, <1>14, <1>15
        DEF Next, Generate, GeneratorNext, Worker

(* What the files hold against what was reported, in every state: while a  *)
(* run collects it is in the parts, while they are removed in the merged   *)
(* file, and after a run that ended anywhere in one of the two.            *)
THEOREM FilesInvariance == Spec => []FilesInv
BY BoundsInvariance, StreamInvariance, DetectorInvariance, FilesInit, FilesNext, PTL DEF Spec

-----------------------------------------------------------------------------

(* No step of the clock back and no gap is in an episode on disk, whatever *)
(* the clock of the station did between two frames.                        *)
THEOREM SmoothEpisodes == Spec => []EpisodesAreSmooth
<1>1. FilesInv => EpisodesAreSmooth
  <2> SUFFICES ASSUME FilesInv, NEW rows \in OnDisk PROVE Smooth(rows)
    BY DEF EpisodesAreSmooth
  <2>1. CASE rows \in Range(merged.groups)
    BY <2>1 DEF Range, FilesInv, MergedIsOK, IsEpisode
  <2>2. CASE rows \in UNION {Range(parts[i].groups) : i \in DOMAIN parts}
    <3>1. PICK i \in DOMAIN parts : rows \in Range(parts[i].groups)
      BY <2>2
    <3>2. PICK k \in DOMAIN parts[i].groups : rows = parts[i].groups[k]
      BY <3>1 DEF Range
    <3>3. parts[i] # Torn
      BY <3>2, TornIsNotWhole
    <3>4. k = 1 /\ IsEpisode(parts[i].groups[1])
      BY <3>2, <3>3, PartFacts DEF FilesInv
    <3> QED BY <3>2, <3>4 DEF IsEpisode
  <2> QED BY <2>1, <2>2 DEF OnDisk
<1> QED BY <1>1, FilesInvariance, PTL

(* The merged file never mixes the episodes of two runs, whatever files    *)
(* earlier runs left behind.                                               *)
THEOREM MergedFileIsOneRun == Spec => []MergedIsOneRun
<1>1. FilesInv => MergedIsOneRun
  BY DEF FilesInv, MergedIsOK, MergedIsOneRun
<1> QED BY <1>1, FilesInvariance, PTL

-----------------------------------------------------------------------------

LabelsOnDisk == {rows[1].episode : rows \in OnDisk}
OfThisRun == {label \in LabelsOnDisk : label[1] = run}

LEMMA LabelsAreFinite ==
  ASSUME PartsAreOK, MergedIsOK
  PROVE  IsFiniteSet(LabelsOnDisk)
<1> DEFINE K == 1 .. Len(merged.groups)
           fromMerged == [k \in K |-> merged.groups[k][1].episode]
           fromParts == [i \in DOMAIN parts |-> LabelOf(i)]
           A == {fromMerged[k] : k \in K}
           B == {fromParts[i] : i \in DOMAIN parts}
<1>1. IsFiniteSet(K)
  <2>1. 1 \in Int /\ Len(merged.groups) \in Int
    BY DEF MergedIsOK
  <2> QED BY <2>1, FS_Interval
<1>2. IsFiniteSet(A)
  <2>1. fromMerged \in Surjection(K, A)
    BY DEF Surjection
  <2> QED BY <1>1, <2>1, FS_Surjection
<1>3. IsFiniteSet(B)
  <2>1. fromParts \in Surjection(DOMAIN parts, B)
    BY DEF Surjection
  <2> QED BY <2>1, FS_Surjection DEF PartsAreOK
<1>4. LabelsOnDisk \subseteq A \cup B
  <2> SUFFICES ASSUME NEW rows \in OnDisk PROVE rows[1].episode \in A \cup B
    BY DEF LabelsOnDisk
  <2>1. CASE rows \in Range(merged.groups)
    <3>1. PICK k \in K : rows = merged.groups[k]
      BY <2>1 DEF Range, MergedIsOK
    <3> QED BY <3>1
  <2>2. CASE rows \in UNION {Range(parts[i].groups) : i \in DOMAIN parts}
    <3>1. PICK i \in DOMAIN parts : rows \in Range(parts[i].groups)
      BY <2>2
    <3>2. PICK k \in DOMAIN parts[i].groups : rows = parts[i].groups[k]
      BY <3>1 DEF Range
    <3>3. parts[i] # Torn
      BY <3>2, TornIsNotWhole
    <3>4. k = 1
      BY <3>2, <3>3, PartFacts
    <3>5. rows[1].episode = fromParts[i]
      BY <3>2, <3>4 DEF LabelOf
    <3> QED BY <3>5
  <2> QED BY <2>1, <2>2 DEF OnDisk
<1>5. IsFiniteSet(A \cup B)
  BY <1>2, <1>3, FS_Union
<1> HIDE DEF A, B
<1> QED BY <1>4, <1>5, FS_Subset

LEMMA ReportedFromInv ==
  ASSUME FilesInv
  PROVE  Cardinality(OfThisRun) >= screen.saved
<1>1. PartsAreOK /\ MergedIsOK /\ screen.saved \in Nat /\ (PartsHold \/ MergedHolds)
  BY DEF FilesInv, Screens
<1>2. IsFiniteSet(OfThisRun)
  BY <1>1, LabelsAreFinite, FS_Subset DEF OfThisRun
<1>3. CASE PartsHold
  <2> DEFINE f == [i \in 0 .. screen.saved - 1 |-> LabelOf(i)]
  <2>1. ASSUME NEW i \in 0 .. screen.saved - 1
        PROVE  LabelOf(i) \in OfThisRun /\ LabelOf(i)[2] \in Nat
    <3>1. i \in DOMAIN parts /\ parts[i] # Torn /\ LabelOf(i)[1] = run
      BY <1>3 DEF PartsHold
    <3>2. DOMAIN parts[i].groups = {1} /\ LabelOf(i)[2] \in Nat
      BY <1>1, <3>1, PartFacts
    <3>3. parts[i].groups[1] \in Range(parts[i].groups)
      BY <3>2 DEF Range
    <3>4. parts[i].groups[1] \in OnDisk
      BY <3>1, <3>3 DEF OnDisk
    <3> QED BY <3>1, <3>2, <3>4 DEF LabelOf, OfThisRun, LabelsOnDisk
  <2>2. f \in [0 .. screen.saved - 1 -> OfThisRun]
    BY <2>1
  <2>3. \A i, j \in 0 .. screen.saved - 1 : i < j => f[i] # f[j]
    BY <1>3, <2>1 DEF PartsHold
  <2> HIDE DEF f
  <2>4. 0 \in Int /\ screen.saved - 1 \in Int
    BY <1>1
  <2>5. Cardinality(OfThisRun) \in Nat
        /\ (0 <= screen.saved - 1 => screen.saved - 1 - 0 + 1 <= Cardinality(OfThisRun))
    BY <1>2, <2>2, <2>3, <2>4, OneLabelEach
  <2> QED BY <1>1, <2>5
<1>4. CASE MergedHolds
  <2> DEFINE f == [k \in 1 .. screen.saved |-> merged.groups[k][1].episode]
  <2>1. ASSUME NEW k \in 1 .. screen.saved
        PROVE  /\ merged.groups[k][1].episode \in OfThisRun
               /\ merged.groups[k][1].episode[2] \in Nat /\ k \in DOMAIN merged.groups
    <3>1. k \in DOMAIN merged.groups /\ k \in 1 .. Len(merged.groups)
          /\ merged.groups[k][1].episode[1] = run
      BY <1>1, <1>4 DEF MergedHolds, MergedIsOK
    <3>2. merged.groups[k] \in OnDisk
      BY <3>1 DEF OnDisk, Range
    <3> QED BY <1>1, <3>1, <3>2, MergedFacts DEF OfThisRun, LabelsOnDisk
  <2>2. f \in [1 .. screen.saved -> OfThisRun]
    BY <2>1
  <2>3. ASSUME NEW i \in 1 .. screen.saved, NEW j \in 1 .. screen.saved, i < j
        PROVE  f[i] # f[j]
    <3>1. merged.groups[i][1].episode[2] < merged.groups[j][1].episode[2]
      BY <1>1, <2>1, <2>3 DEF MergedIsOK, OneRun
    <3>2. merged.groups[i][1].episode[2] # merged.groups[j][1].episode[2]
      BY <2>1, <3>1
    <3> QED BY <3>2
  <2> HIDE DEF f
  <2>4. 1 \in Int /\ screen.saved \in Int
    BY <1>1
  <2>5. Cardinality(OfThisRun) \in Nat
        /\ (1 <= screen.saved => screen.saved - 1 + 1 <= Cardinality(OfThisRun))
    BY <1>2, <2>2, <2>3, <2>4, OneLabelEach
  <2> QED BY <1>1, <2>5
<1> QED BY <1>1, <1>3, <1>4

(* No episode that was reported as saved is lost: not to a failing file    *)
(* operation, not while the files are merged and removed, and not when the *)
(* process ends at any point of that.                                      *)
THEOREM ReportedEpisodesAreOnDisk == Spec => []ReportedIsOnDisk
<1>1. FilesInv => ReportedIsOnDisk
  <2> SUFFICES ASSUME FilesInv PROVE ReportedIsOnDisk
    OBVIOUS
  <2>1. OfThisRun = {label \in {rows[1].episode : rows \in OnDisk} : label[1] = run}
    BY DEF OfThisRun, LabelsOnDisk
  <2> QED BY <2>1, ReportedFromInv DEF ReportedIsOnDisk
<1> QED BY <1>1, FilesInvariance, PTL

=============================================================================
