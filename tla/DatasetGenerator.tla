--------------------------- MODULE DatasetGenerator ---------------------------
(***************************************************************************)
(* dataset-generator as a process (dataset-generator.go and the terminal   *)
(* interface of internal/ui): runProcessing finds the bounds, consumes the *)
(* stream, feeds the detector and finalizes; the interface shows what it   *)
(* is told and may be quit at any moment, which ends the process where it  *)
(* stands.  The files outlive it, and the tool may be run again.           *)
(***************************************************************************)
EXTENDS FrameStream, EpisodeDetector, FiniteSets, Functions

CONSTANT LIFETIME  \* the latest stamp of the station's clock: 2^64 ns are 584 years

VARIABLES
    pc,       \* where runProcessing is
    clock,    \* the stamp of the last frame
    run,      \* the number of the run, which tells its episodes from older ones
    removing, \* the next file mergeParquetFiles removes
    screen,   \* what the interface counted, and the summary it printed
    handled   \* the frames given to ProcessFrame in this run, and whether an
              \* episode was open then (ghost)

detectorVars == <<detector, parts, merged>>
generatorVars == <<chosen, boundsVars, streamVars, detectorVars, pc, clock, run, removing,
                   screen, handled>>

Running == pc \notin {"off", "done", "failed"}
NewScreen == [saved |-> 0, discarded |-> 0, summary |-> "none"]

AnyGoals == Goals \cup {NoGoals}
Handled == [id : Nat, goals : AnyGoals, images : 0 .. 2, open : BOOLEAN]
Labels == Nat \X Nat
Rows == [episode : Labels, id : Nat, since : 0 .. WORD - 1, images : 1 .. 2]
Files == [whole : BOOLEAN, groups : Seq(Seq(Rows))]

(* A file of episodes is in order if each is smooth - one start time, the  *)
(* first frame at 0, never a step back or of more than GAP - and they are  *)
(* of one run, in the order in which they were started.                    *)
Smooth(rows) ==
    /\ rows # <<>> /\ rows[1].since = 0
    /\ \A i \in 1 .. Len(rows) - 1 : /\ rows[i + 1].episode = rows[i].episode
                                     /\ rows[i + 1].since - rows[i].since \in 0 .. GAP
OneRun(groups) ==
    \A i, j \in DOMAIN groups :
        i < j => /\ groups[i][1].episode[1] = groups[j][1].episode[1]
                 /\ groups[i][1].episode[2] < groups[j][1].episode[2]

(* What the frames of a recording may hold, and the file there was before. *)
ASSUME GeneratorAssumption ==
    /\ LIFETIME \in Nat \ {0} /\ LIFETIME + GAP < WORD
    /\ \A k \in DOMAIN Recordings :
          LET r == Recordings[k]
          IN /\ r.runs \in Nat /\ r.minCommands \in Nat
             /\ \A f \in r.frames : f.step \in Nat /\ f.goals \in AnyGoals /\ f.images \in 0 .. 2
             /\ r.dataset \in Files /\ OneRun(r.dataset.groups)
             /\ \A i \in DOMAIN r.dataset.groups : Smooth(r.dataset.groups[i])

GeneratorTypeOK ==
    /\ BoundsTypeOK /\ StreamTypeOK
    /\ detector \in [lastGoals : AnyGoals, commands : Nat, moved : Nat, index : Nat,
                     start : Nat, label : Labels, skip : BOOLEAN, buffer : Seq(Rows),
                     started : Nat, discarded : Nat]
    /\ DOMAIN parts \subseteq Nat /\ \A i \in DOMAIN parts : parts[i] \in Files
    /\ merged \in Files
    /\ pc \in {"off", "bounds", "stream", "save", "write", "finalSave", "finalWrite", "merge",
               "create", "copy", "cleanup", "done", "failed"}
    /\ clock \in Nat /\ run \in 0 .. recording.runs /\ removing \in Nat
    /\ screen \in [saved : Nat, discarded : Nat, summary : {"none", "complete", "failed"}]
    /\ handled \in Seq(Handled)

GeneratorInit ==
    /\ chosen \in DOMAIN Recordings
    /\ forward = NotFound /\ backward = NotFound
    /\ source = NoBatch /\ frames = <<>> /\ closed = FALSE /\ errChan = "none"
    /\ detector = NewDetector /\ parts = [i \in {} |-> Torn] /\ merged = recording.dataset
    /\ pc = "off" /\ clock = 0 /\ run = 0 /\ removing = 0
    /\ screen = NewScreen /\ handled = <<>>

(* A run, from the command line to StreamFrames.                           *)
Launch ==
    /\ ~Running /\ run < recording.runs
    /\ run' = run + 1
    /\ pc' = "bounds" /\ screen' = NewScreen /\ handled' = <<>> /\ clock' = 0
    /\ detector' = NewDetector /\ removing' = 0
    /\ StartSearch
    /\ source' = NoBatch /\ frames' = <<>> /\ closed' = FALSE /\ errChan' = "none"
    /\ UNCHANGED <<chosen, parts, merged>>

FindBounds ==
    /\ pc = "bounds" /\ Search
    /\ UNCHANGED <<chosen, streamVars, detectorVars, pc, clock, run, removing, screen, handled>>

Finish(status, summary) ==
    /\ pc' = status
    /\ screen' = [screen EXCEPT !.summary = summary]

BoundsFail ==
    /\ pc = "bounds" /\ SearchEnded /\ ~BoundsFound
    /\ Finish("failed", "failed")
    /\ UNCHANGED <<chosen, boundsVars, streamVars, detectorVars, clock, run, removing, handled>>

OpenStream ==
    /\ pc = "bounds" /\ BoundsFound
    /\ StartStream
    /\ pc' = "stream"
    /\ UNCHANGED <<chosen, boundsVars, detectorVars, clock, run, removing, screen, handled>>

StreamStep ==
    /\ Running /\ Stream
    /\ UNCHANGED <<chosen, boundsVars, detectorVars, pc, clock, run, removing, screen, handled>>

(***************************************************************************)
(* ProcessFrame.  What a frame holds is decided here: its stamp follows    *)
(* the last one, or starts again at 1.  generate_frame publishes the       *)
(* images it has also when it could not read the joints: no goals.         *)
(***************************************************************************)
Stamp(k) == IF k.step = 0 THEN 1 ELSE clock + k.step
Frames(id) ==
    {[id |-> id, stamp |-> Stamp(k), goals |-> k.goals, images |-> k.images] :
        k \in {k \in recording.frames : Stamp(k) <= LIFETIME}}

Entry(f) ==
    [id |-> f.id, goals |-> f.goals, images |-> f.images, open |-> InEpisode(detector)]

Take(f) ==
    /\ pc = "stream" /\ frames # <<>>
    /\ f.id = Head(frames)
    /\ frames' = Tail(frames)
    /\ clock' = f.stamp
    /\ handled' = Append(handled, Entry(f))
    /\ UNCHANGED <<chosen, boundsVars, source, closed, errChan, parts, merged, run, removing>>

IgnoreFrame(f) ==
    /\ Take(f) /\ f.images = 0
    /\ UNCHANGED <<detector, pc, screen>>

WaitForCommand(f) ==
    /\ Take(f) /\ f.images > 0 /\ ~InEpisode(detector) /\ ~Changed(detector, f.goals)
    /\ detector' = [detector EXCEPT !.lastGoals = f.goals]
    /\ UNCHANGED <<pc, screen>>

StartEpisode(f) ==
    /\ Take(f) /\ f.images > 0 /\ ~InEpisode(detector) /\ Changed(detector, f.goals)
    /\ detector' = Start(detector, f, <<run, detector.started + 1>>)
    /\ UNCHANGED <<pc, screen>>

ContinueEpisode(f) ==
    /\ Take(f) /\ f.images > 0 /\ InEpisode(detector)
    /\ ~Over(CountCommand(detector, f), f)
    /\ detector' = Continue(detector, f)
    /\ UNCHANGED <<pc, screen>>

EndEpisode(f) ==
    /\ Take(f) /\ f.images > 0 /\ InEpisode(detector)
    /\ Over(CountCommand(detector, f), f)
    /\ LET d == Continue(detector, f)
       IN IF Refused(d, recording.minCommands)
          THEN /\ detector' = Reset(Discard(d))
               /\ screen' = [screen EXCEPT !.discarded = @ + 1]
               /\ UNCHANGED pc
          ELSE detector' = d /\ pc' = "save" /\ UNCHANGED screen

ProcessFrame ==
    \E f \in UNION {Frames(frames[i]) : i \in 1 .. IF frames = <<>> THEN 0 ELSE 1} :
        IgnoreFrame(f) \/ WaitForCommand(f) \/ StartEpisode(f) \/ ContinueEpisode(f) \/ EndEpisode(f)

(***************************************************************************)
(* Saving.  A failure is logged and leaves both counts and the index; the  *)
(* detector is reset after a save in ProcessFrame and not in Finalize.     *)
(***************************************************************************)
Saving == pc \in {"save", "finalSave"}
Writing == pc \in {"write", "finalWrite"}
Final == pc \in {"finalSave", "finalWrite"}
AfterSave(d) ==
    IF Final THEN detector' = d /\ pc' = "merge" ELSE detector' = Reset(d) /\ pc' = "stream"

notSaving == <<chosen, boundsVars, streamVars, clock, run, removing, handled>>

CreateFile ==
    /\ Saving
    /\ CreatePart
    /\ pc' = IF Final THEN "finalWrite" ELSE "write"
    /\ UNCHANGED <<screen, notSaving>>

CreateFileFails ==
    /\ Saving
    /\ AfterSave(detector)
    /\ UNCHANGED <<parts, merged, screen, notSaving>>

WriteFile ==
    /\ Writing
    /\ WritePart
    /\ AfterSave(Saved(detector))
    /\ screen' = [screen EXCEPT !.saved = @ + 1]
    /\ UNCHANGED notSaving

WriteFileFails ==
    /\ Writing
    /\ AfterSave(detector)
    /\ UNCHANGED <<parts, merged, screen, notSaving>>

(***************************************************************************)
(* The end of the stream, Finalize and mergeParquetFiles.  An error of the *)
(* stream ends the run without either; a failing merge is only logged.     *)
(***************************************************************************)
StreamOver == pc = "stream" /\ closed /\ frames = <<>>

StreamFails ==
    /\ StreamOver /\ errChan = "error"
    /\ Finish("failed", "failed")
    /\ UNCHANGED <<chosen, boundsVars, streamVars, detectorVars, clock, run, removing, handled>>

Finalize ==
    /\ StreamOver /\ errChan = "none"
    /\ UNCHANGED <<chosen, boundsVars, streamVars, parts, merged, clock, run, removing, handled>>
    /\ IF InEpisode(detector)
       THEN IF Refused(detector, recording.minCommands)
            THEN /\ detector' = Discard(detector)
                 /\ screen' = [screen EXCEPT !.discarded = @ + 1]
                 /\ pc' = "merge"
            ELSE pc' = "finalSave" /\ UNCHANGED <<detector, screen>>
       ELSE pc' = "merge" /\ UNCHANGED <<detector, screen>>

notMerging == <<chosen, boundsVars, streamVars, clock, run, handled>>

Succeed == Finish("done", "complete") /\ UNCHANGED <<detectorVars, removing, notMerging>>

NothingToMerge == pc = "merge" /\ detector.index = 0 /\ Succeed
MergeFails == pc \in {"merge", "create", "copy"} /\ detector.index > 0 /\ Succeed

OpenParts ==
    /\ pc = "merge" /\ detector.index > 0 /\ AllOpen
    /\ pc' = "create"
    /\ UNCHANGED <<detectorVars, removing, screen, notMerging>>

CreateOutput ==
    /\ pc = "create" /\ CreateMerged
    /\ pc' = "copy"
    /\ UNCHANGED <<removing, screen, notMerging>>

CopyRows ==
    /\ pc = "copy" /\ WriteMerged
    /\ pc' = "cleanup"
    /\ UNCHANGED <<removing, screen, notMerging>>

(* os.Remove; its errors are ignored.                                      *)
RemoveFile ==
    /\ pc = "cleanup" /\ removing < detector.index
    /\ RemovePart(removing) \/ UNCHANGED detectorVars
    /\ removing' = removing + 1
    /\ UNCHANGED <<pc, screen, notMerging>>

CleanupEnds == pc = "cleanup" /\ removing = detector.index /\ Succeed

Worker ==
    \/ FindBounds \/ BoundsFail \/ OpenStream
    \/ ProcessFrame
    \/ CreateFile \/ CreateFileFails \/ WriteFile \/ WriteFileFails
    \/ StreamFails \/ Finalize
    \/ NothingToMerge \/ MergeFails \/ OpenParts \/ CreateOutput \/ CopyRows
    \/ RemoveFile \/ CleanupEnds

(* The interface is quit, which prints the summary of a complete run, or   *)
(* the process is killed, which prints nothing.  Every goroutine is gone.  *)
Stop(summary) ==
    /\ Running
    /\ Finish("off", summary)
    /\ detector' = NewDetector /\ removing' = 0 /\ handled' = <<>> /\ clock' = 0
    /\ forward' = NotFound /\ backward' = NotFound
    /\ source' = NoBatch /\ frames' = <<>> /\ closed' = FALSE /\ errChan' = "none"
    /\ UNCHANGED <<chosen, parts, merged, run>>
Quit == Stop("complete")
Kill == Stop("none")

GeneratorNext == Launch \/ Worker \/ StreamStep \/ Quit \/ Kill

-----------------------------------------------------------------------------

(* Every frame within the bounds that parses is given to the detector once *)
(* and in order, and all of them before anything is finalized: batches,    *)
(* damaged entries and the bounded channel lose or repeat none.            *)
Finalized == pc \in {"finalSave", "finalWrite", "merge", "create", "copy", "cleanup", "done"}
FramesOnceInOrder ==
    LET n == Len(handled)
    IN /\ \A i \in 1 .. n : /\ handled[i].id \in InBounds
                            /\ Cardinality({j \in InBounds : j <= handled[i].id}) = i
       /\ Finalized => n = Cardinality(InBounds)

(* An open episode always has a frame, so the error paths that look at its *)
(* first and last one do not panic; and unless it is marked for skip, it   *)
(* holds every frame with images since its start, in order.                *)
Imaged(i) == {j \in DOMAIN handled : handled[j].id >= i /\ handled[j].images > 0}
BufferMissesNoFrame ==
    InEpisode(detector) =>
        /\ detector.buffer # <<>>
        /\ ~detector.skip => {detector.buffer[i].id : i \in DOMAIN detector.buffer}
                                 = {handled[j].id : j \in Imaged(detector.buffer[1].id)}

(* The episodes on disk are smooth: one start time, the first frame at 0,  *)
(* and never a step back or of more than 500 ms from a frame to the next,  *)
(* also when the station's monotonic clock started again in between.       *)
OnDisk == Range(merged.groups) \cup UNION {Range(parts[i].groups) : i \in DOMAIN parts}
EpisodesAreSmooth == \A rows \in OnDisk : Smooth(rows)

(* What was reported as saved is on disk, whole, at every moment: while    *)
(* the files are merged and removed, when any file operation fails, and    *)
(* after the process was ended at any point.                               *)
ReportedIsOnDisk ==
    Cardinality({label \in {rows[1].episode : rows \in OnDisk} : label[1] = run}) >= screen.saved

(* A merged file is one run's: its episodes are in the order they were     *)
(* recorded, each once, and none is left over from an earlier run.         *)
MergedIsOneRun == OneRun(merged.groups)

(* The last two frames with images, the newest being one, have joints and  *)
(* differ in their goals.                                                  *)
Commanded(h) ==
    LET n == Len(h)
    IN \E i \in 1 .. n - 1 :
          /\ h[i].images > 0 /\ h[n].images > 0 /\ \A k \in i + 1 .. n - 1 : h[k].images = 0
          /\ h[i].goals # h[n].goals /\ NoGoals \notin {h[i].goals, h[n].goals}

(* A frame without joints empties lastGoals, which hasCommandsChanged then *)
(* takes for the first frame's: nothing is tracked until a frame comes     *)
(* outside of an episode.                                                  *)
Blind(h) ==
    \E i \in DOMAIN h :
        /\ h[i].images > 0 /\ h[i].goals = NoGoals
        /\ \A k \in i + 1 .. Len(h) : h[k].images > 0 => h[k].open

(* No command is lost, within an episode or between two: whenever the      *)
(* goals change from one frame with images to the next, the episode counts *)
(* one command more, or a new one starts with it.  Only the rest of an     *)
(* episode loses its commands once a frame of it had no joints, or it      *)
(* started with such a frame (Blind).                                      *)
CommandsAreCounted ==
    [][Commanded(handled') /\ ~Blind(handled)
          => detector'.commands = detector.commands + 1]_handled

=============================================================================
