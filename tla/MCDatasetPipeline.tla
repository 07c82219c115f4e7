-------------------------- MODULE MCDatasetPipeline --------------------------
(***************************************************************************)
(* Small recordings for TLC, each family for one part of the pipeline.     *)
(***************************************************************************)
EXTENDS DatasetPipeline

CONSTANTS w1, w2, t1, g1, g2

TwoWorkers == {w1, w2}
OneRenderer == {t1}
Kind(step, goals, images) == [step |-> step, goals |-> goals, images |-> images]
NoImages == {Kind(2, g1, 0)}

(* One episode length after the start is a frame of two ticks: it is long  *)
(* enough (DURATION), not a gap (GAP) and still (STILL).                   *)
Base == [states |-> <<1, 4>>, from |-> 1, to |-> 2, last |-> 5, damaged |-> {}, frames |-> NoImages,
         minCommands |-> 1, runs |-> 1, video |-> FALSE, dataset |-> Torn]

(* Gaps, clock restarts and idle arms, in two runs over the same files.    *)
Motion(minCommands) ==
    [Base EXCEPT !.frames = {Kind(2, g1, 2), Kind(2, g2, 2), Kind(3, g1, 2), Kind(0, g2, 2)},
                 !.runs = 3 - minCommands, !.minCommands = minCommands]

(* A failed read of the bus, before, in and after an episode.              *)
Unread ==
    [Base EXCEPT !.states[2] = 5, !.last = 6, !.minCommands = 2,
                 !.frames = {Kind(1, g1, 2), Kind(1, g2, 2), Kind(1, NoGoals, 2)}]

(* Any five states of the station, written in base 3, and ranges that end  *)
(* in or before them.                                                      *)
Digit(n, i) == (n \div 3 ^ (i - 1)) % 3
Sorted == {n \in 0 .. 3 ^ 5 - 1 :
             \A i, j \in 1 .. 5 : i <= j /\ Digit(n, i) # 0 /\ Digit(n, j) # 0 => Digit(n, i) <= Digit(n, j)}
Range5(n, from, to) ==
    [Base EXCEPT !.states = [i \in 1 .. 5 |-> Digit(n, i)], !.from = from, !.to = to, !.last = 2]

(* Entries that do not parse, anywhere.                                    *)
Damaged(n, last) ==
    [Base EXCEPT !.damaged = {i \in 1 .. 5 : (n \div 2 ^ (i - 1)) % 2 = 1}, !.states[2] = 5, !.last = last]

(* Frames with one image, recorded and then made into a video.             *)
Filmed ==
    [Base EXCEPT !.states[2] = 3, !.last = 3, !.video = TRUE,
                 !.frames = {Kind(2, g1, 2), Kind(2, g2, 2), Kind(2, g2, 1)}]

(* A dataset of four episodes of an earlier use, one of which has a frame  *)
(* with one image.                                                         *)
Episode(n, images) ==
    [k \in DOMAIN images |-> [episode |-> <<0, n>>, id |-> k, since |-> 2 * (k - 1), images |-> images[k]]]
Dataset ==
    [Base EXCEPT !.runs = 0, !.video = TRUE,
                 !.dataset = Whole(<<Episode(1, <<2>>), Episode(2, <<2, 1>>), Episode(3, <<2, 2>>),
                                     Episode(4, <<2>>)>>)]

Names ==
    ({"motion"} \X {1, 2} \X {0} \X {0}) \cup ({"range"} \X Sorted \X {1, 4} \X {4, 5})
    \cup ({"damaged"} \X (0 .. 31) \X {5, 6} \X {0}) \cup ({"filmed", "dataset", "unread"} \X {0} \X {0} \X {0})
AllRecordings ==
    [k \in Names |->
        CASE k[1] = "motion" -> Motion(k[2])
          [] k[1] = "range" -> Range5(k[2], k[3], k[4])
          [] k[1] = "damaged" -> Damaged(k[2], k[3])
          [] k[1] = "filmed" -> Filmed
          [] k[1] = "dataset" -> Dataset
          [] k[1] = "unread" -> Unread]

=============================================================================
