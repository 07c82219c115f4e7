--------------------------- MODULE EpisodeDetector ---------------------------
(***************************************************************************)
(* Cutting the recorded frames into episodes, writing each to a parquet    *)
(* file and merging the files at the end (episodes.go).                    *)
(*                                                                         *)
(* An episode starts with a change of the joints' goals, buffers every     *)
(* frame with images and ends once it is long enough and nothing was       *)
(* commanded for a while.  Stamps are uint64 of the station's monotonic    *)
(* clock, which starts again when the station's host does.                 *)
(***************************************************************************)
EXTENDS Integers, Sequences, FiniteSets

CONSTANTS
    Goals,     \* the goals of all joints of a frame
    NoGoals,   \* those of a frame without joints: none
    WORD,      \* 2^64
    DURATION,  \* episode.duration
    GAP,       \* 500 ms
    STILL      \* 5 s

ASSUME DetectorAssumption ==
    /\ NoGoals \notin Goals
    /\ WORD \in Nat /\ DURATION \in Nat /\ GAP \in Nat /\ STILL \in Nat \ {0}
    /\ GAP < WORD

VARIABLES
    detector,  \* the EpisodeDetector struct
    parts,     \* the files <path>/<index>.parquet that exist
    merged     \* the file <path>.parquet

(* A plausible bug: signed stamps, whose difference may be negative.       *)
MinusSigned(a, b) == a - b

(* Unsigned subtraction, and its conversion to a time.Duration.            *)
Minus(a, b) == (a - b) % WORD
Signed(x) == IF x < WORD \div 2 THEN x ELSE x - WORD

(* A row of a file: the episode's start time, which tells episodes apart,  *)
(* the frame, its time since the start and its number of images.           *)
Row(label, f, since) == [episode |-> label, id |-> f.id, since |-> since, images |-> f.images]

NoLabel == <<0, 0>>
NewDetector ==
    [lastGoals |-> NoGoals, commands |-> 0, moved |-> 0, index |-> 0, start |-> 0, label |-> NoLabel,
     skip |-> FALSE, buffer |-> <<>>, started |-> 0, discarded |-> 0]

InEpisode(d) == d.start # 0
Changed(d, goals) == d.lastGoals # NoGoals /\ d.lastGoals # goals

(* A plausible bug: forgetting the goals with the episode.                 *)
ResetForgetsGoals(d) ==
    [d EXCEPT !.start = 0, !.label = NoLabel, !.skip = FALSE, !.commands = 0, !.buffer = <<>>,
              !.lastGoals = NoGoals]

Reset(d) == [d EXCEPT !.start = 0, !.label = NoLabel, !.skip = FALSE, !.commands = 0, !.buffer = <<>>]

(* A plausible bug: the first frame is not buffered.                       *)
StartUnbuffered(d, f, label) ==
    [d EXCEPT !.start = f.stamp, !.label = label, !.moved = f.stamp, !.commands = 1,
              !.started = @ + 1, !.lastGoals = f.goals]

(* startNewEpisode; time.Now never repeats, so the label is unique.        *)
Start(d, f, label) ==
    [d EXCEPT !.start = f.stamp, !.label = label, !.moved = f.stamp, !.commands = 1,
              !.started = @ + 1, !.buffer = <<Row(label, f, 0)>>, !.lastGoals = f.goals]

(* A frame in an episode: a command counts and restarts the wait for the   *)
(* end, a gap marks the episode for skip, and only then is it buffered.    *)
CountCommand(d, f) ==
    IF Changed(d, f.goals)
    THEN [d EXCEPT !.commands = @ + 1, !.lastGoals = f.goals, !.moved = f.stamp] ELSE d

Since(d, f) == Minus(f.stamp, d.start)

(* A plausible bug: a signed gap, which a restarted clock makes negative.  *)
GapTooLongSigned(d, f) ==
    d.buffer # <<>> /\ Signed(Minus(Since(d, f), d.buffer[Len(d.buffer)].since)) > GAP

GapTooLong(d, f) ==
    d.buffer # <<>> /\ Minus(Since(d, f), d.buffer[Len(d.buffer)].since) > GAP

MarkSkip(d, f) == IF GapTooLong(d, f) THEN [d EXCEPT !.skip = TRUE] ELSE d

Buffer(d, f) ==
    IF d.skip THEN d ELSE [d EXCEPT !.buffer = Append(@, Row(d.label, f, Since(d, f)))]

Continue(d, f) == Buffer(MarkSkip(CountCommand(d, f), f), f)

Over(d, f) ==
    /\ Signed(Since(d, f)) >= DURATION
    /\ Signed(Minus(f.stamp, d.moved)) >= STILL

(* trySaveCurrentEpisode refuses a skipped episode and one with too few    *)
(* commands; what is left goes to its file.                                *)
Refused(d, minCommands) == d.skip \/ d.commands < minCommands
Discard(d) == [d EXCEPT !.discarded = @ + 1]

(***************************************************************************)
(* Files.  One that was created and not written to its end has no footer   *)
(* and does not open as parquet.                                           *)
(***************************************************************************)
Torn == [whole |-> FALSE, groups |-> <<>>]
Whole(groups) == [whole |-> TRUE, groups |-> groups]

WithPart(i, file) == [j \in DOMAIN parts \cup {i} |-> IF j = i THEN file ELSE parts[j]]
WithoutPart(i) == [j \in DOMAIN parts \ {i} |-> parts[j]]

CreatePart ==
    /\ parts' = WithPart(detector.index, Torn)
    /\ UNCHANGED <<detector, merged>>

(* parquet.Write succeeded: the episode is counted and the index moves on. *)
Saved(d) == [d EXCEPT !.index = @ + 1]
WritePart ==
    /\ parts' = WithPart(detector.index, Whole(<<detector.buffer>>))
    /\ UNCHANGED merged

(* Plausible bugs: an index too few, and every file in the directory.      *)
ToMergeTooFew == 0 .. detector.index - 2
ToMergeDirectory == DOMAIN parts

(* The files of mergeParquetFiles: those of the episodes this run counted. *)
ToMerge == 0 .. detector.index - 1

AllOpen == \A i \in ToMerge : i \in DOMAIN parts /\ parts[i].whole
Merge == [i \in 1 .. Cardinality(ToMerge) |-> parts[i - 1].groups[1]]

CreateMerged == merged' = Torn /\ UNCHANGED <<detector, parts>>
WriteMerged == merged' = Whole(Merge) /\ UNCHANGED <<detector, parts>>

RemovePart(i) == parts' = WithoutPart(i) /\ UNCHANGED <<detector, merged>>

=============================================================================
