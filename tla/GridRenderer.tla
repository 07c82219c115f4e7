----------------------------- MODULE GridRenderer -----------------------------
(***************************************************************************)
(* dataset-mp4: a recorded dataset as a video of a grid of episodes.  The  *)
(* main goroutine collects the episodes, sends one job per grid frame to a *)
(* pool of workers, and closes the channels stage by stage; a worker asks  *)
(* a pool of 3D renderers for a picture per cell of its frame and waits    *)
(* for them; a collector counts the results.  Channels are bounded, every  *)
(* send and every receive may have to wait.                                *)
(*                                                                         *)
(* Drawing is abstracted to which row of which episode a cell shows and    *)
(* under which number.                                                     *)
(***************************************************************************)
EXTENDS Integers, Sequences, FiniteSetsExt, SequencesExt

CONSTANTS
    Workers,       \* the worker goroutines
    Renderers,     \* the 3D render goroutines
    JOB_ROOM,      \* capacity of jobs and of results: twice the workers
    REQUEST_ROOM,  \* capacity of render3DService: twice the renderers
    GridCells      \* the grid sizes it may be given

ASSUME RendererAssumption ==
    /\ JOB_ROOM \in Nat \ {0} /\ REQUEST_ROOM \in Nat \ {0}
    /\ Workers # {} /\ Renderers # {}
    /\ GridCells \subseteq Nat \ {0}

VARIABLES
    cells,     \* grid-cols * grid-rows
    render3d,  \* renders are asked for: -render-state, and eight joints
    plan,      \* the frames of all grids, by what each cell shows
    stage,     \* where the main goroutine is
    sent,      \* the jobs it has sent
    jobs, jobsClosed,
    results, resultsClosed,
    service, serviceClosed,
    worker,    \* each worker: pc, its frame, and the next cell to see to
    response,  \* the response channels of each worker, by cell
    renderer,  \* the request each 3D renderer works on
    collector, \* what the collector has counted; it ends with the results
    pngs,      \* the frames written to the temporary directory
    video      \* the frames in the video

rendererVars == <<cells, render3d, plan, stage, sent, jobs, jobsClosed, results, resultsClosed,
                  service, serviceClosed, worker, response, renderer, collector, pngs, video>>

(***************************************************************************)
(* collectEpisodes, a row at a time: an episode ends where the start time  *)
(* changes, and a row without exactly two images makes all of it invalid.  *)
(***************************************************************************)
Kept(c) ==
    IF c.rows = <<>> THEN c.done
    ELSE Append(c.done, [num |-> c.num, rows |-> c.rows])
AddRow(c, row) ==
    IF row.images # 2 THEN [c EXCEPT !.valid = FALSE, !.rows = <<>>]
    ELSE IF c.valid THEN [c EXCEPT !.rows = Append(@, row)]
    ELSE c
Begin(c, row) ==
    IF row.episode = c.start THEN c
    ELSE [start |-> row.episode, valid |-> TRUE, rows |-> <<>>, done |-> Kept(c),
          num |-> Len(Kept(c)) + 1]
CollectEpisodes(rows) ==
    LET c[i \in 0 .. Len(rows)] ==
            IF i = 0 THEN [start |-> <<>>, valid |-> FALSE, rows |-> <<>>, done |-> <<>>, num |-> 0]
            ELSE AddRow(Begin(c[i - 1], rows[i]), rows[i])
    IN Kept(c[Len(rows)])

(***************************************************************************)
(* The jobs: the episodes are dealt into grids, and a grid has as many     *)
(* frames as its longest episode.                                          *)
(***************************************************************************)
Blank == [num |-> 0, row |-> <<>>]
Plan(episodes, n) ==
    LET grids == (Len(episodes) + n - 1) \div n
        OfGrid(g) == SubSeq(episodes, (g - 1) * n + 1, Min({g * n, Len(episodes)}))
        maxFrames(g) == Max({Len(OfGrid(g)[e].rows) : e \in DOMAIN OfGrid(g)} \cup {0})
        Job(g, k) ==
            [i \in 1 .. n |->
                IF i <= Len(OfGrid(g)) /\ k <= Len(OfGrid(g)[i].rows)
                THEN [num |-> OfGrid(g)[i].num, row |-> OfGrid(g)[i].rows[k]]
                ELSE Blank]
    IN FlattenSeq([g \in 1 .. grids |-> [k \in 1 .. maxFrames(g) |-> Job(g, k)]])

(* The cells of a frame a render is asked for.                             *)
Wanted(f) == IF render3d THEN {i \in 1 .. cells : plan[f][i] # Blank} ELSE {}
From(f, i) == {j \in Wanted(f) : j >= i}

-----------------------------------------------------------------------------

IdleWorker == [pc |-> "idle", frame |-> 0, cell |-> 1, ok |-> TRUE]
NoRequest == <<>>
NoResponses == [i \in {} |-> "none"]

RendererTypeOK ==
    /\ cells \in GridCells \cup {0} /\ render3d \in BOOLEAN
    /\ stage \in {"idle", "send", "workers", "collector", "renderers", "video", "done", "failed"}
    /\ sent \in 0 .. Len(plan)
    /\ jobs \in Seq(1 .. sent) /\ Len(jobs) <= JOB_ROOM
    /\ results \in Seq([frame : 1 .. sent, ok : BOOLEAN]) /\ Len(results) <= JOB_ROOM
    /\ service \in Seq(Workers \X (1 .. cells)) /\ Len(service) <= REQUEST_ROOM
    /\ {jobsClosed, resultsClosed, serviceClosed} \subseteq BOOLEAN
    /\ worker \in [Workers -> [pc : {"idle", "ask", "wait", "report", "gone"},
                               frame : 0 .. sent, cell : Nat, ok : BOOLEAN]]
    /\ \A w \in Workers : \A i \in DOMAIN response[w] :
          response[w][i] \in {"pending", "image", "failed"}
    /\ renderer \in [Renderers -> {<<"idle">>, <<"gone">>}
                                     \cup (Workers \X (1 .. cells) \X {"image", "failed"})]
    /\ collector \in [rendered : Nat, errors : Nat, done : BOOLEAN]
    /\ pngs \subseteq 1 .. sent
    /\ video \subseteq 1 .. Len(plan)

RendererInit ==
    /\ cells = 0 /\ render3d = FALSE /\ plan = <<>>
    /\ stage = "idle" /\ sent = 0
    /\ jobs = <<>> /\ results = <<>> /\ service = <<>>
    /\ jobsClosed = FALSE /\ resultsClosed = FALSE /\ serviceClosed = FALSE
    /\ worker = [w \in Workers |-> IdleWorker]
    /\ response = [w \in Workers |-> NoResponses]
    /\ renderer = [t \in Renderers |-> <<"idle">>]
    /\ collector = [rendered |-> 0, errors |-> 0, done |-> FALSE]
    /\ pngs = {} /\ video = {}

options == <<cells, render3d, plan>>
pools == <<worker, response, renderer, collector, pngs>>
jobQueue == <<jobs, jobsClosed>>
resultQueue == <<results, resultsClosed>>
serviceQueue == <<service, serviceClosed>>

(***************************************************************************)
(* The main goroutine.                                                     *)
(***************************************************************************)

(* The command line, and the file; one that was not written to its end     *)
(* does not open, and ends the program.                                    *)
Open(file) ==
    /\ stage = "idle"
    /\ cells' \in GridCells /\ render3d' \in BOOLEAN
    /\ IF file.whole
       THEN plan' = Plan(CollectEpisodes(FlattenSeq(file.groups)), cells') /\ stage' = "send"
       ELSE stage' = "failed" /\ UNCHANGED plan
    /\ UNCHANGED <<sent, jobQueue, resultQueue, serviceQueue, pools, video>>

SendJob ==
    /\ stage = "send" /\ sent < Len(plan)
    /\ Len(jobs) < JOB_ROOM
    /\ sent' = sent + 1
    /\ jobs' = Append(jobs, sent')
    /\ UNCHANGED <<options, stage, jobsClosed, resultQueue, serviceQueue, pools, video>>

CloseJobs ==
    /\ stage = "send" /\ sent = Len(plan)
    /\ jobsClosed' = TRUE /\ stage' = "workers"
    /\ UNCHANGED <<options, sent, jobs, resultQueue, serviceQueue, pools, video>>

(* A plausible bug: the results are closed without waiting for the workers. *)
CloseResultsEarly ==
    /\ stage = "workers"
    /\ resultsClosed' = TRUE /\ stage' = "collector"
    /\ UNCHANGED <<options, sent, jobQueue, results, serviceQueue, pools, video>>

CloseResults ==
    /\ stage = "workers" /\ \A w \in Workers : worker[w].pc = "gone"
    /\ resultsClosed' = TRUE /\ stage' = "collector"
    /\ UNCHANGED <<options, sent, jobQueue, results, serviceQueue, pools, video>>

CloseService ==
    /\ stage = "collector" /\ collector.done
    /\ serviceClosed' = TRUE /\ stage' = "renderers"
    /\ UNCHANGED <<options, sent, jobQueue, resultQueue, service, pools, video>>

RenderersEnd ==
    /\ stage = "renderers" /\ \A t \in Renderers : renderer[t] = <<"gone">>
    /\ stage' = "video"
    /\ UNCHANGED <<options, sent, jobQueue, resultQueue, serviceQueue, pools, video>>

(* ffmpeg starts at one of the first five numbers and stops at the first   *)
(* frame that is not there; if it fails, the program exits with an error.  *)
GenerateVideo ==
    /\ stage = "video"
    /\ \/ LET starts == pngs \cap 1 .. 5
          IN /\ starts # {}
             /\ video' = {n \in pngs : Min(starts) .. n \subseteq pngs}
             /\ stage' = "done"
       \/ stage' = "failed" /\ UNCHANGED video
    /\ UNCHANGED <<options, sent, jobQueue, resultQueue, serviceQueue, pools>>

Main == SendJob \/ CloseJobs \/ CloseResults \/ CloseService \/ RenderersEnd \/ GenerateVideo

(***************************************************************************)
(* A worker, and renderGridFrame: first every request is sent, then the    *)
(* responses are received in order, then the frame is drawn and saved.     *)
(***************************************************************************)
notWorkers == <<options, stage, sent, jobsClosed, resultsClosed, serviceClosed, renderer, collector,
                video>>

Set(w, state) == worker' = [worker EXCEPT ![w] = state]

TakeJob(w) ==
    /\ worker[w].pc = "idle" /\ jobs # <<>>
    /\ jobs' = Tail(jobs)
    /\ Set(w, [pc |-> "ask", frame |-> Head(jobs), cell |-> 1, ok |-> TRUE])
    /\ UNCHANGED <<notWorkers, results, service, response, pngs>>

(* A plausible bug: leaving as soon as the channel is closed, whatever is  *)
(* still in it.                                                            *)
LeaveWorkerEarly(w) ==
    /\ worker[w].pc = "idle" /\ jobsClosed
    /\ Set(w, [IdleWorker EXCEPT !.pc = "gone"])
    /\ UNCHANGED <<notWorkers, jobs, results, service, response, pngs>>

LeaveWorker(w) ==
    /\ worker[w].pc = "idle" /\ jobs = <<>> /\ jobsClosed
    /\ Set(w, [IdleWorker EXCEPT !.pc = "gone"])
    /\ UNCHANGED <<notWorkers, jobs, results, service, response, pngs>>

AskRender(w) ==
    LET left == From(worker[w].frame, worker[w].cell)
    IN /\ worker[w].pc = "ask" /\ left # {}
       /\ Len(service) < REQUEST_ROOM
       /\ service' = Append(service, <<w, Min(left)>>)
       /\ response' = [response EXCEPT ![w] =
                          [i \in DOMAIN @ \cup {Min(left)} |-> IF i \in DOMAIN @ THEN @[i] ELSE "pending"]]
       /\ Set(w, [worker[w] EXCEPT !.cell = Min(left) + 1])
       /\ UNCHANGED <<notWorkers, jobs, results, pngs>>

Asked(w) ==
    /\ worker[w].pc = "ask" /\ From(worker[w].frame, worker[w].cell) = {}
    /\ Set(w, [worker[w] EXCEPT !.pc = "wait", !.cell = 1])
    /\ UNCHANGED <<notWorkers, jobs, results, service, response, pngs>>

Receive(w) ==
    LET left == From(worker[w].frame, worker[w].cell)
    IN /\ worker[w].pc = "wait" /\ left # {}
       /\ response[w][Min(left)] # "pending"
       /\ Set(w, [worker[w] EXCEPT !.cell = Min(left) + 1])
       /\ UNCHANGED <<notWorkers, jobs, results, service, response, pngs>>

Draw(w) ==
    /\ worker[w].pc = "wait" /\ From(worker[w].frame, worker[w].cell) = {}
    /\ response' = [response EXCEPT ![w] = NoResponses]
    /\ \/ /\ pngs' = pngs \cup {worker[w].frame}
          /\ Set(w, [worker[w] EXCEPT !.pc = "report"])
       \/ /\ Set(w, [worker[w] EXCEPT !.pc = "report", !.ok = FALSE])
          /\ UNCHANGED pngs
    /\ UNCHANGED <<notWorkers, jobs, results, service>>

Report(w) ==
    /\ worker[w].pc = "report" /\ Len(results) < JOB_ROOM
    /\ results' = Append(results, [frame |-> worker[w].frame, ok |-> worker[w].ok])
    /\ Set(w, IdleWorker)
    /\ UNCHANGED <<notWorkers, jobs, service, response, pngs>>

Work(w) ==
    TakeJob(w) \/ LeaveWorker(w) \/ AskRender(w) \/ Asked(w) \/ Receive(w) \/ Draw(w) \/ Report(w)

(***************************************************************************)
(* The collector and the 3D renderers.  A response channel has room for    *)
(* the one picture, so a renderer never waits for the worker; a failed     *)
(* request closes it empty.                                                *)
(***************************************************************************)
notPools == <<options, stage, sent, jobQueue, resultsClosed, serviceClosed, worker, pngs, video>>

CollectResult ==
    /\ results # <<>>
    /\ results' = Tail(results)
    /\ collector' = IF Head(results).ok THEN [collector EXCEPT !.rendered = @ + 1]
                    ELSE [collector EXCEPT !.errors = @ + 1]
    /\ UNCHANGED <<notPools, service, response, renderer>>

CollectorEnds ==
    /\ results = <<>> /\ resultsClosed /\ ~collector.done
    /\ collector' = [collector EXCEPT !.done = TRUE]
    /\ UNCHANGED <<notPools, results, service, response, renderer>>

Collect == CollectResult \/ CollectorEnds

TakeRequest(t) ==
    /\ renderer[t] = <<"idle">> /\ service # <<>>
    /\ service' = Tail(service)
    /\ \E picture \in {"image", "failed"} :
          renderer' = [renderer EXCEPT ![t] = Append(Head(service), picture)]
    /\ UNCHANGED <<notPools, results, response, collector>>

(* A plausible bug: response channels without room, so that a picture      *)
(* waits for the worker to receive it.                                     *)
AnswerUnbuffered(t) ==
    LET w == renderer[t][1]
        i == renderer[t][2]
    IN /\ Len(renderer[t]) = 3
       /\ renderer[t][3] = "image" =>
             worker[w].pc = "wait" /\ From(worker[w].frame, worker[w].cell) # {}
             /\ i = Min(From(worker[w].frame, worker[w].cell))
       /\ response' = [response EXCEPT ![w][i] = renderer[t][3]]
       /\ renderer' = [renderer EXCEPT ![t] = <<"idle">>]
       /\ UNCHANGED <<notPools, results, service, collector>>

Answer(t) ==
    LET w == renderer[t][1]
        i == renderer[t][2]
    IN /\ Len(renderer[t]) = 3
       /\ response' = [response EXCEPT ![w][i] = renderer[t][3]]
       /\ renderer' = [renderer EXCEPT ![t] = <<"idle">>]
       /\ UNCHANGED <<notPools, results, service, collector>>

LeaveRenderer(t) ==
    /\ renderer[t] = <<"idle">> /\ service = <<>> /\ serviceClosed
    /\ renderer' = [renderer EXCEPT ![t] = <<"gone">>]
    /\ UNCHANGED <<notPools, results, service, response, collector>>

Render(t) == TakeRequest(t) \/ Answer(t) \/ LeaveRenderer(t)

RendererNext ==
    \/ Main \/ Collect
    \/ \E w \in Workers : Work(w)
    \/ \E t \in Renderers : Render(t)

-----------------------------------------------------------------------------

(* The channels are closed from one stage to the next: results and the     *)
(* render service only when no worker is left that could send on them,     *)
(* which would panic, and ffmpeg is started only when every frame of the   *)
(* plan is on disk or was counted as an error: none is left in a channel   *)
(* or with a worker, and none was dropped when one was closed.             *)
FramesAreDrawn ==
    /\ resultsClosed \/ serviceClosed => \A w \in Workers : worker[w].pc = "gone"
    /\ stage \in {"video", "done"} /\ collector.errors = 0 => pngs = 1 .. Len(plan)

=============================================================================
