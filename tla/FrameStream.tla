----------------------------- MODULE FrameStream -----------------------------
(***************************************************************************)
(* The goroutine of StreamFrames (source.go): it reads the recorded queue  *)
(* in batches of readBatchSize, sends the frames that parse into a bounded *)
(* channel and closes it at the end of the bounds.  An error goes into a   *)
(* channel of its own, which the consumer reads only after the other one   *)
(* is closed and empty.                                                    *)
(***************************************************************************)
EXTENDS QueueBounds

CONSTANTS
    BATCH,    \* readBatchSize, 10000 in the code
    CHANNEL   \* the capacity of the frames channel, 1000 in the code

ASSUME StreamAssumption == BATCH \in Nat \ {0} /\ CHANNEL \in Nat \ {0}

VARIABLES
    source,    \* the goroutine: pc, cursor, and the batch it is reading
    frames,    \* the frames channel: the ids of the frames in it
    closed,    \* the frames channel is closed
    errChan    \* the error channel

streamVars == <<source, frames, closed, errChan>>

Sources == [pc : {"off", "read", "entry", "failing", "return", "end"}, cursor : Nat,
            next : Nat, first : Nat, last : Nat, broken : BOOLEAN]
NoBatch == [pc |-> "off", cursor |-> 0, next |-> 0, first |-> 0, last |-> 0, broken |-> FALSE]

StreamTypeOK ==
    /\ source \in Sources
    /\ frames \in Seq(1 .. recording.last) /\ Len(frames) <= CHANNEL
    /\ closed \in BOOLEAN
    /\ errChan \in {"none", "error"}

StartStream ==
    /\ source' = [NoBatch EXCEPT !.pc = "read", !.cursor = forward.at]
    /\ frames' = <<>> /\ closed' = FALSE /\ errChan' = "none"

ReadBatch ==
    /\ source.pc = "read"
    /\ \E r \in Replies(recording.last, source.cursor, BATCH) :
        source' = [source EXCEPT !.pc = "entry", !.next = r.first, !.first = r.first,
                                 !.last = r.last, !.broken = r.broken]
    /\ UNCHANGED <<frames, closed, errChan>>

(* The next entry of the batch: past the bounds it ends the stream, one    *)
(* that does not parse is passed over, and any other is sent as soon as    *)
(* there is room; only then does the cursor follow.                        *)
PassBounds ==
    /\ source.pc = "entry" /\ source.next <= source.last
    /\ source.next > backward.at
    /\ source' = [source EXCEPT !.pc = "return"]
    /\ UNCHANGED <<frames, closed, errChan>>

SkipDamaged ==
    /\ source.pc = "entry" /\ source.next <= source.last
    /\ source.next <= backward.at /\ source.next \in recording.damaged
    /\ source' = [source EXCEPT !.next = @ + 1]
    /\ UNCHANGED <<frames, closed, errChan>>

SendFrame ==
    /\ source.pc = "entry" /\ source.next <= source.last
    /\ source.next <= backward.at /\ source.next \notin recording.damaged
    /\ Len(frames) < CHANNEL
    /\ frames' = Append(frames, source.next)
    /\ source' = [source EXCEPT !.cursor = source.next, !.next = @ + 1]
    /\ UNCHANGED <<closed, errChan>>

(* A plausible bug: reading the last frame again.                          *)
NextCursorRereads(c) == c

NextCursor(c) == c + 1

(* The batch is used up.  The next one starts after the last frame sent:   *)
(* trailing damaged entries are read again, nothing is sent twice.         *)
Received == source.last - source.first + 1
EndBatch ==
    /\ source.pc = "entry" /\ source.next > source.last
    /\ source' = IF source.broken THEN [source EXCEPT !.pc = "failing"]
                 ELSE IF Received < BATCH \/ source.cursor >= backward.at
                      THEN [source EXCEPT !.pc = "return"]
                 ELSE [source EXCEPT !.pc = "read", !.cursor = NextCursor(@)]
    /\ UNCHANGED <<frames, closed, errChan>>

(* The error channel holds one error, so sending it never waits for the    *)
(* consumer, which is still busy with the frames.                          *)
SendError ==
    /\ source.pc = "failing"
    /\ errChan' = "error"
    /\ source' = [source EXCEPT !.pc = "return"]
    /\ UNCHANGED <<frames, closed>>

(* The deferred closes: first the error channel, then the frames channel.  *)
Return ==
    /\ source.pc = "return"
    /\ closed' = TRUE
    /\ source' = [NoBatch EXCEPT !.pc = "end"]
    /\ UNCHANGED <<frames, errChan>>

Stream == ReadBatch \/ PassBounds \/ SkipDamaged \/ SendFrame \/ EndBatch \/ SendError \/ Return

(* The frames to process, in order.                                        *)
InBounds == {i \in forward.at .. backward.at : i \notin recording.damaged}

=============================================================================
