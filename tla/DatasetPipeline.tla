--------------------------- MODULE DatasetPipeline ---------------------------
(***************************************************************************)
(* The way of a recording to a video: dataset-generator writes the merged  *)
(* file, dataset-mp4 reads it once the generator is not running.  The two  *)
(* programs share nothing else.                                            *)
(*                                                                         *)
(* A recording also tells how often the generator is run, whether a video  *)
(* is made of the result, and the merged file there was before.            *)
(***************************************************************************)
EXTENDS DatasetGenerator, GridRenderer

vars == <<generatorVars, rendererVars>>

TypeOK == GeneratorTypeOK /\ RendererTypeOK

Init == GeneratorInit /\ RendererInit

(* dataset-mp4 is started on the merged file.                              *)
MakeVideo ==
    /\ recording.video /\ run = recording.runs /\ ~Running
    /\ Open(merged)
    /\ UNCHANGED generatorVars

Generate ==
    /\ stage = "idle" /\ GeneratorNext
    /\ UNCHANGED rendererVars

Video == RendererNext /\ UNCHANGED generatorVars

Next == Generate \/ MakeVideo \/ Video

(* The runtime lets some goroutine go on as long as any of them can;       *)
(* nothing makes the user start a program, or stop it.                     *)
Goroutines == ((Worker \/ StreamStep) /\ UNCHANGED rendererVars) \/ Video
Spec == Init /\ [][Next]_vars /\ WF_vars(Goroutines)

-----------------------------------------------------------------------------

(* If no frame failed, the video plays exactly the episodes of the file    *)
(* that have two images in every frame, numbered in the file's order: each *)
(* in one cell, from its first frame to its last without interruption, and *)
(* every other cell of every frame is black.                               *)
Playable ==
    {g \in DOMAIN merged.groups :
        \A k \in DOMAIN merged.groups[g] : merged.groups[g][k].images = 2}
Number(g) == Cardinality({h \in Playable : h <= g})
Plays(g, from, i) ==
    \A k \in DOMAIN merged.groups[g] :
        /\ from + k \in video
        /\ plan[from + k][i] = [num |-> Number(g), row |-> merged.groups[g][k]]
ToShow == UNION {{g} \X DOMAIN merged.groups[g] : g \in Playable}
Shown == {at \in video \X (1 .. cells) : plan[at[1]][at[2]] # Blank}
VideoPlaysEveryEpisode ==
    stage = "done" /\ collector.errors = 0 =>
        /\ \A g \in Playable : \E from \in 0 .. sent, i \in 1 .. cells : Plays(g, from, i)
        /\ Cardinality(Shown) = Cardinality(ToShow)

(* Both programs come to an end: the search for the bounds terminates, and *)
(* no goroutine waits for ever at a full or an empty channel.              *)
Rendering == stage \notin {"idle", "done", "failed"}
ProgramsEnd == Running \/ Rendering ~> ~Running /\ ~Rendering

=============================================================================
