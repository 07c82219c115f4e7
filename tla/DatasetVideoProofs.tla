-------------------------- MODULE DatasetVideoProofs --------------------------
(***************************************************************************)
(* Proofs about the video dataset-mp4 makes of the merged file, for every  *)
(* file, every grid, any number of workers and renderers and any capacity  *)
(* of the channels between them.                                           *)
(***************************************************************************)
EXTENDS DatasetGeneratorProofs, FunctionTheorems

(***************************************************************************)
(* The frames of the video.  A frame that was sent is in the channel, with *)
(* a worker, on disk, or its error is on the way to the collector.         *)
(***************************************************************************)

Busy == {"ask", "wait"}
Workings == [pc : {"idle", "report", "gone"} \cup Busy, frame : Nat, cell : Nat, ok : BOOLEAN]

FrameTypes ==
    /\ cells \in Nat /\ sent \in Nat
    /\ jobs \in Seq(1 .. sent)
    /\ results \in Seq([frame : Nat, ok : BOOLEAN])
    /\ worker \in [Workers -> Workings]
    /\ \A w \in Workers : worker[w].pc \in Busy \cup {"report"} => worker[w].frame \in 1 .. sent
    /\ collector \in [rendered : Nat, errors : Nat, done : BOOLEAN]
    /\ pngs \subseteq 1 .. sent

Queued(n) == \E i \in 1 .. Len(jobs) : jobs[i] = n
Worked(n) == \E w \in Workers : worker[w].pc \in Busy /\ worker[w].frame = n
ErrorReported ==
    \/ collector.errors > 0
    \/ \E i \in 1 .. Len(results) : ~results[i].ok
    \/ \E w \in Workers : worker[w].pc = "report" /\ ~worker[w].ok
Accounted == ErrorReported \/ \A n \in 1 .. sent : Queued(n) \/ Worked(n) \/ n \in pngs

(* What is over once a channel is closed.                                  *)
JobsOver == jobsClosed => stage \notin {"idle", "send"} /\ sent = Len(plan)
WorkersOver == \A w \in Workers : worker[w].pc = "gone" => jobsClosed /\ jobs = <<>>
ResultsOver == resultsClosed => jobsClosed /\ \A w \in Workers : worker[w].pc = "gone"
CollectorOver == collector.done => resultsClosed /\ results = <<>>
ServiceOver == serviceClosed => resultsClosed

Stages ==
    /\ stage = "idle" => sent = 0
    /\ stage = "workers" => jobsClosed
    /\ stage = "collector" => resultsClosed
    /\ stage \in {"renderers", "video", "done"} => collector.done

FramesInv ==
    /\ FrameTypes /\ Accounted /\ Stages
    /\ JobsOver /\ WorkersOver /\ ResultsOver /\ CollectorOver /\ ServiceOver

LEMMA FramesInit == Init => FramesInv
<1> SUFFICES ASSUME Init PROVE FramesInv
  OBVIOUS
<1> USE DEF Init, RendererInit
<1>1. FrameTypes
  BY DEF FrameTypes, IdleWorker, Workings, Busy
<1>2. Accounted
  BY <1>1 DEF Accounted
<1>3. JobsOver /\ WorkersOver /\ ResultsOver /\ CollectorOver /\ ServiceOver /\ Stages
  BY DEF JobsOver, WorkersOver, ResultsOver, CollectorOver, ServiceOver, Stages, IdleWorker
<1> QED BY <1>1, <1>2, <1>3 DEF FramesInv

(* Steps of the generator and of the 3D renderers.                         *)
LEMMA FramesUntouched ==
  ASSUME FramesInv, UNCHANGED <<cells, plan, stage, sent, jobQueue, resultQueue, serviceClosed,
                                worker, collector, pngs>>
  PROVE  FramesInv'
<1> USE DEF jobQueue, resultQueue
<1>1. FrameTypes' /\ Accounted' /\ Stages'
  BY DEF FramesInv, FrameTypes, Accounted, ErrorReported, Queued, Worked, Stages
<1>2. JobsOver' /\ WorkersOver' /\ ResultsOver' /\ CollectorOver' /\ ServiceOver'
  BY DEF FramesInv, JobsOver, WorkersOver, ResultsOver, CollectorOver, ServiceOver
<1> QED BY <1>1, <1>2 DEF FramesInv

LEMMA MainKeepsFrames ==
  ASSUME FramesInv, Main \/ \E file : Open(file)
  PROVE  FramesInv'
<1> USE DEF jobQueue, resultQueue, serviceQueue, pools, options
<1> FrameTypes /\ Accounted /\ Stages
    /\ JobsOver /\ WorkersOver /\ ResultsOver /\ CollectorOver /\ ServiceOver
  BY DEF FramesInv
<1>1. ASSUME NEW file, Open(file) PROVE FramesInv'
  <2>1. stage = "idle" /\ stage' \in {"send", "failed"} /\ cells' \in Nat
        /\ UNCHANGED <<sent, jobQueue, resultQueue, serviceQueue, pools>>
    BY <1>1, RendererAssumption DEF Open
  <2>2. FrameTypes' /\ Accounted'
    BY <2>1 DEF FrameTypes, Accounted, ErrorReported, Queued, Worked
  <2>3. ~jobsClosed /\ ~resultsClosed /\ ~serviceClosed
    BY <2>1 DEF JobsOver, ResultsOver, ServiceOver
  <2>4. JobsOver' /\ WorkersOver' /\ ResultsOver' /\ CollectorOver' /\ ServiceOver' /\ Stages'
    BY <2>1, <2>3 DEF JobsOver, WorkersOver, ResultsOver, CollectorOver, ServiceOver, Stages
  <2> QED BY <2>2, <2>4 DEF FramesInv
<1>2. CASE SendJob
  <2>1. /\ stage = "send" /\ sent' = sent + 1 /\ jobs' = Append(jobs, sent + 1)
        /\ UNCHANGED <<options, stage, jobsClosed, resultQueue, serviceQueue, pools>>
    BY <1>2 DEF SendJob
  <2>2. sent \in Nat /\ jobs \in Seq(1 .. sent + 1) /\ 1 .. sent \subseteq 1 .. sent + 1
    BY DEF FrameTypes
  <2>3. FrameTypes'
    <3>1. jobs' \in Seq(1 .. sent')
      BY <2>1, <2>2
    <3> QED BY <2>1, <2>2, <3>1 DEF FrameTypes
  <2>4. Accounted'
    <3>1. SUFFICES ASSUME ~ErrorReported', NEW n \in 1 .. sent'
                   PROVE  Queued(n)' \/ Worked(n)' \/ n \in pngs'
      BY DEF Accounted
    <3>2. ~ErrorReported
      BY <2>1, <3>1 DEF ErrorReported
    <3>3. /\ Len(jobs') = Len(jobs) + 1 /\ Len(jobs) \in Nat /\ jobs'[Len(jobs) + 1] = sent + 1
          /\ \A i \in 1 .. Len(jobs) : jobs'[i] = jobs[i]
      BY <2>1, <2>2
    <3>4. CASE n = sent + 1
      BY <3>3, <3>4 DEF Queued
    <3>5. CASE n \in 1 .. sent
      <4>1. Queued(n) \/ Worked(n) \/ n \in pngs
        BY <3>2, <3>5 DEF Accounted
      <4>2. Queued(n) => Queued(n)'
        BY <3>3 DEF Queued
      <4>3. Worked(n) => Worked(n)'
        BY <2>1 DEF Worked
      <4> QED BY <2>1, <4>1, <4>2, <4>3
    <3> QED BY <2>1, <2>2, <3>1, <3>4, <3>5
  <2>5. ~jobsClosed /\ ~resultsClosed /\ ~serviceClosed
    BY <2>1 DEF JobsOver, ResultsOver, ServiceOver
  <2>6. JobsOver' /\ WorkersOver' /\ ResultsOver' /\ CollectorOver' /\ ServiceOver' /\ Stages'
    BY <2>1, <2>5 DEF JobsOver, WorkersOver, ResultsOver, CollectorOver, ServiceOver, Stages
  <2> QED BY <2>3, <2>4, <2>6 DEF FramesInv
<1>3. CASE CloseJobs \/ CloseResults \/ CloseService \/ RenderersEnd \/ GenerateVideo
  <2>1. /\ UNCHANGED <<options, sent, jobs, results, pools>>
        /\ stage \notin {"idle", "failed"}
    BY <1>3 DEF CloseJobs, CloseResults, CloseService, RenderersEnd, GenerateVideo
  <2>2. FrameTypes' /\ Accounted'
    BY <2>1 DEF FrameTypes, Accounted, ErrorReported, Queued, Worked
  <2>3. JobsOver' /\ WorkersOver' /\ ResultsOver' /\ CollectorOver' /\ ServiceOver' /\ Stages'
    <3>1. CASE CloseJobs
      BY <3>1 DEF CloseJobs, JobsOver, WorkersOver, ResultsOver, CollectorOver, ServiceOver, Stages
    <3>2. CASE CloseResults
      BY <3>2 DEF CloseResults, JobsOver, WorkersOver, ResultsOver, CollectorOver, ServiceOver, Stages
    <3>3. CASE CloseService
      BY <3>3 DEF CloseService, JobsOver, WorkersOver, ResultsOver, CollectorOver, ServiceOver, Stages
    <3>4. CASE RenderersEnd
      BY <3>4 DEF RenderersEnd, JobsOver, WorkersOver, ResultsOver, CollectorOver, ServiceOver, Stages
    <3>5. CASE GenerateVideo
      BY <3>5 DEF GenerateVideo, JobsOver, WorkersOver, ResultsOver, CollectorOver, ServiceOver, Stages
    <3> QED BY <1>3, <3>1, <3>2, <3>3, <3>4, <3>5
  <2> QED BY <2>2, <2>3 DEF FramesInv
<1> QED BY <1>1, <1>2, <1>3 DEF Main

(* What a worker's step leaves to show: its own state, and that what it    *)
(* had is still somewhere.                                                 *)
LEMMA WorkersStep ==
  ASSUME FramesInv, NEW w \in Workers, NEW state \in Workings, Set(w, state), notWorkers' = notWorkers,
         worker[w].pc # "gone",
         state.pc \in Busy \cup {"report"} => state.frame \in 1 .. sent,
         jobs' \in Seq(1 .. sent), jobs' # <<>> => jobs # <<>>,
         results' \in Seq([frame : Nat, ok : BOOLEAN]),
         pngs' \subseteq 1 .. sent,
         state.pc = "gone" => jobsClosed /\ jobs' = <<>>,
         ErrorReported => ErrorReported',
         ~ErrorReported' =>
             \A n \in 1 .. sent : Queued(n) \/ Worked(n) \/ n \in pngs
                                  => Queued(n)' \/ Worked(n)' \/ n \in pngs'
  PROVE  FramesInv'
<1> USE DEF notWorkers, options
<1>1. FrameTypes /\ Accounted /\ Stages
      /\ JobsOver /\ WorkersOver /\ ResultsOver /\ CollectorOver /\ ServiceOver
  BY DEF FramesInv
<1>2. worker' = [worker EXCEPT ![w] = state] /\ worker \in [Workers -> Workings]
  BY <1>1 DEF Set, FrameTypes
<1>3. worker' \in [Workers -> Workings] /\ worker'[w] = state
      /\ \A v \in Workers \ {w} : worker'[v] = worker[v]
  BY <1>2
<1>4. FrameTypes'
  <2>1. \A v \in Workers : worker'[v].pc \in Busy \cup {"report"} => worker'[v].frame \in 1 .. sent
    BY <1>1, <1>3 DEF FrameTypes
  <2> QED BY <1>1, <1>3, <2>1 DEF FrameTypes
<1>5. Accounted'
  BY <1>1 DEF Accounted
<1>6. ~resultsClosed /\ ~serviceClosed /\ ~collector.done
  BY <1>1 DEF ResultsOver, CollectorOver, ServiceOver
<1>7. JobsOver' /\ ResultsOver' /\ CollectorOver' /\ ServiceOver' /\ Stages'
  BY <1>1, <1>6 DEF JobsOver, ResultsOver, CollectorOver, ServiceOver, Stages
<1>8. WorkersOver'
  BY <1>1, <1>3 DEF WorkersOver
<1> QED BY <1>4, <1>5, <1>7, <1>8 DEF FramesInv

LEMMA WorkKeepsFrames ==
  ASSUME FramesInv, NEW w \in Workers, Work(w)
  PROVE  FramesInv'
<1>1. FrameTypes /\ worker \in [Workers -> Workings] /\ worker[w] \in Workings
      /\ sent \in Nat /\ jobs \in Seq(1 .. sent) /\ results \in Seq([frame : Nat, ok : BOOLEAN])
  BY DEF FramesInv, FrameTypes
<1>2. worker[w].pc \in Busy \cup {"report"} => worker[w].frame \in 1 .. sent
  BY <1>1 DEF FrameTypes
<1>3. pngs \subseteq 1 .. sent /\ cells \in Nat
  BY <1>1 DEF FrameTypes
<1>4. ASSUME NEW state \in Workings, Set(w, state)
      PROVE  worker'[w] = state /\ \A v \in Workers \ {w} : worker'[v] = worker[v]
  BY <1>1, <1>4 DEF Set
<1>5. CASE TakeJob(w)
  <2> DEFINE state == [pc |-> "ask", frame |-> Head(jobs), cell |-> 1, ok |-> TRUE]
  <2>1. /\ worker[w].pc = "idle" /\ jobs # <<>> /\ jobs' = Tail(jobs) /\ Set(w, state)
        /\ UNCHANGED <<notWorkers, results, pngs>>
    BY <1>5 DEF TakeJob
  <2>2. Head(jobs) \in 1 .. sent /\ Tail(jobs) \in Seq(1 .. sent) /\ Head(jobs) = jobs[1]
        /\ Len(jobs) \in Nat /\ Len(Tail(jobs)) = Len(jobs) - 1
        /\ \A i \in 2 .. Len(jobs) : i - 1 \in 1 .. Len(Tail(jobs)) /\ Tail(jobs)[i - 1] = jobs[i]
    BY <1>1, <2>1
  <2>3. state \in Workings /\ state.pc = "ask" /\ state.frame = jobs[1]
    BY <1>1, <2>2 DEF Workings, Busy
  <2> HIDE DEF state
  <2>4. worker'[w] = state /\ \A v \in Workers \ {w} : worker'[v] = worker[v]
    BY <1>4, <2>1, <2>3
  <2>5. ErrorReported => ErrorReported'
    BY <2>1, <2>4 DEF ErrorReported, notWorkers
  <2>6. ASSUME NEW n \in 1 .. sent, Queued(n) PROVE Queued(n)' \/ Worked(n)'
    <3>1. PICK i \in 1 .. Len(jobs) : jobs[i] = n
      BY <2>6 DEF Queued
    <3>2. CASE i = 1
      BY <2>3, <2>4, <3>1, <3>2 DEF Worked, Busy
    <3>3. CASE i \in 2 .. Len(jobs)
      BY <2>1, <2>2, <3>1, <3>3 DEF Queued
    <3> QED BY <3>2, <3>3
  <2>7. ASSUME NEW n \in 1 .. sent, Worked(n) PROVE Worked(n)'
    BY <2>1, <2>4, <2>7 DEF Worked, Busy
  <2>8. \A n \in 1 .. sent : Queued(n) \/ Worked(n) \/ n \in pngs
                             => Queued(n)' \/ Worked(n)' \/ n \in pngs'
    BY <2>1, <2>6, <2>7
  <2> QED BY <1>1, <1>3, <2>1, <2>2, <2>3, <2>5, <2>8, WorkersStep DEF Busy
<1>6. CASE LeaveWorker(w)
  <2> DEFINE state == [IdleWorker EXCEPT !.pc = "gone"]
  <2>1. /\ worker[w].pc = "idle" /\ jobs = <<>> /\ jobsClosed /\ Set(w, state)
        /\ UNCHANGED <<notWorkers, jobs, results, pngs>>
    BY <1>6 DEF LeaveWorker
  <2>2. state \in Workings /\ state.pc = "gone"
    BY DEF IdleWorker, Workings
  <2> HIDE DEF state
  <2>3. worker'[w] = state /\ \A v \in Workers \ {w} : worker'[v] = worker[v]
    BY <1>4, <2>1, <2>2
  <2>4. ErrorReported => ErrorReported'
    BY <2>1, <2>3 DEF ErrorReported, notWorkers
  <2>5. \A n \in 1 .. sent : Queued(n) \/ Worked(n) \/ n \in pngs
                             => Queued(n)' \/ Worked(n)' \/ n \in pngs'
    BY <2>1, <2>3 DEF Queued, Worked, Busy
  <2> QED BY <1>1, <1>3, <2>1, <2>2, <2>4, <2>5, WorkersStep DEF Busy
<1>7. CASE AskRender(w) \/ Asked(w) \/ Receive(w)
  <2>1. PICK state : /\ state \in Workings /\ Set(w, state)
                     /\ state.pc \in Busy /\ worker[w].pc \in Busy /\ state.frame = worker[w].frame
    <3> DEFINE left == From(worker[w].frame, worker[w].cell)
               next == [worker[w] EXCEPT !.cell = Min(left) + 1]
    <3>1. left \in SUBSET Nat
      BY <1>3 DEF From, Wanted
    <3>2. left # {} => next \in Workings /\ next.pc = worker[w].pc /\ next.frame = worker[w].frame
      <4>1. ASSUME NEW c \in Nat
            PROVE  /\ [worker[w] EXCEPT !.cell = c + 1] \in Workings
                   /\ [worker[w] EXCEPT !.cell = c + 1].pc = worker[w].pc
                   /\ [worker[w] EXCEPT !.cell = c + 1].frame = worker[w].frame
        <5> DEFINE state == worker[w]
                   P == {"idle", "report", "gone"} \cup Busy
        <5>1. state \in [pc : P, frame : Nat, cell : Nat, ok : BOOLEAN]
          BY <1>1 DEF Workings
        <5> HIDE DEF state, P
        <5>2. [state EXCEPT !.cell = c + 1] \in [pc : P, frame : Nat, cell : Nat, ok : BOOLEAN]
              /\ [state EXCEPT !.cell = c + 1].pc = state.pc
              /\ [state EXCEPT !.cell = c + 1].frame = state.frame
          BY <5>1
        <5> QED BY <5>2 DEF state, P, Workings
      <4>2. left # {} => Min(left) \in Nat
        BY <3>1, MinIsLeast
      <4> HIDE DEF left
      <4> QED BY <4>1, <4>2
    <3>3. CASE AskRender(w)
      <4>1. left # {} /\ worker[w].pc = "ask" /\ Set(w, next)
        BY <3>3 DEF AskRender
      <4> HIDE DEF next
      <4> QED BY <3>2, <4>1 DEF Busy
    <3>4. CASE Receive(w)
      <4>1. left # {} /\ worker[w].pc = "wait" /\ Set(w, next)
        BY <3>4 DEF Receive
      <4> HIDE DEF next
      <4> QED BY <3>2, <4>1 DEF Busy
    <3>5. CASE Asked(w)
      <4> DEFINE asked == [worker[w] EXCEPT !.pc = "wait", !.cell = 1]
      <4>1. worker[w].pc = "ask" /\ Set(w, asked)
        BY <3>5 DEF Asked
      <4>2. asked \in Workings /\ asked.pc = "wait" /\ asked.frame = worker[w].frame
        BY <1>1 DEF Workings, Busy
      <4> HIDE DEF asked
      <4> QED BY <4>1, <4>2 DEF Busy
    <3> QED BY <1>7, <3>3, <3>4, <3>5
  <2>2. UNCHANGED <<notWorkers, jobs, results, pngs>>
    BY <1>7 DEF AskRender, Asked, Receive
  <2>3. worker'[w] = state /\ \A v \in Workers \ {w} : worker'[v] = worker[v]
    BY <1>4, <2>1
  <2>4. ErrorReported => ErrorReported'
    BY <2>1, <2>2, <2>3 DEF ErrorReported, notWorkers, Busy
  <2>5. \A n \in 1 .. sent : Queued(n) \/ Worked(n) \/ n \in pngs
                             => Queued(n)' \/ Worked(n)' \/ n \in pngs'
    BY <2>1, <2>2, <2>3 DEF Queued, Worked
  <2> QED BY <1>1, <1>2, <1>3, <2>1, <2>2, <2>4, <2>5, WorkersStep DEF Busy
<1>8. CASE Draw(w)
  <2>1. worker[w].pc = "wait" /\ UNCHANGED <<notWorkers, jobs, results>>
    BY <1>8 DEF Draw
  <2>2. PICK ok \in BOOLEAN : /\ Set(w, [worker[w] EXCEPT !.pc = "report", !.ok = worker[w].ok /\ ok])
                              /\ pngs' = IF ok THEN pngs \cup {worker[w].frame} ELSE pngs
    <3>1. [worker[w] EXCEPT !.pc = "report"]
            = [worker[w] EXCEPT !.pc = "report", !.ok = worker[w].ok /\ TRUE]
      BY <1>1 DEF Workings
    <3>2. [worker[w] EXCEPT !.pc = "report", !.ok = FALSE]
            = [worker[w] EXCEPT !.pc = "report", !.ok = worker[w].ok /\ FALSE]
      OBVIOUS
    <3> QED BY <1>8, <3>1, <3>2 DEF Draw
  <2> DEFINE state == [worker[w] EXCEPT !.pc = "report", !.ok = worker[w].ok /\ ok]
  <2>3. state \in Workings /\ state.pc = "report" /\ state.frame = worker[w].frame
        /\ (~ok => ~state.ok)
    BY <1>1 DEF Workings
  <2>4. Set(w, state)
    BY <2>2
  <2> HIDE DEF state
  <2>5. worker'[w] = state /\ \A v \in Workers \ {w} : worker'[v] = worker[v]
    BY <1>4, <2>3, <2>4
  <2>6. ErrorReported => ErrorReported'
    BY <2>1, <2>5 DEF ErrorReported, notWorkers
  <2>7. worker[w].frame \in 1 .. sent /\ pngs' \subseteq 1 .. sent
    BY <1>2, <1>3, <2>1, <2>2 DEF Busy
  <2>8. ASSUME ~ErrorReported', NEW n \in 1 .. sent, Queued(n) \/ Worked(n) \/ n \in pngs
        PROVE  Queued(n)' \/ Worked(n)' \/ n \in pngs'
    <3>1. ok
      BY <2>3, <2>5, <2>8 DEF ErrorReported
    <3> QED BY <2>1, <2>2, <2>5, <2>8, <3>1 DEF Queued, Worked
  <2> QED BY <1>1, <2>1, <2>3, <2>4, <2>6, <2>7, <2>8, WorkersStep
<1>9. CASE Report(w)
  <2> DEFINE r == [frame |-> worker[w].frame, ok |-> worker[w].ok]
  <2>1. /\ worker[w].pc = "report" /\ Set(w, IdleWorker) /\ results' = Append(results, r)
        /\ UNCHANGED <<notWorkers, jobs, pngs>>
    BY <1>9 DEF Report
  <2>2. IdleWorker \in Workings /\ IdleWorker.pc = "idle"
    BY DEF IdleWorker, Workings
  <2>3. worker'[w] = IdleWorker /\ \A v \in Workers \ {w} : worker'[v] = worker[v]
    BY <1>4, <2>1, <2>2
  <2>4. r \in [frame : Nat, ok : BOOLEAN] /\ r.ok = worker[w].ok
    BY <1>1 DEF Workings
  <2> HIDE DEF r
  <2>5. /\ results' \in Seq([frame : Nat, ok : BOOLEAN])
        /\ Len(results) \in Nat /\ Len(results') = Len(results) + 1 /\ results'[Len(results) + 1] = r
        /\ \A i \in 1 .. Len(results) : results'[i] = results[i]
    BY <1>1, <2>1, <2>4
  <2>6. ASSUME ErrorReported PROVE ErrorReported'
    <3>1. CASE collector.errors > 0
      BY <2>1, <3>1 DEF ErrorReported, notWorkers
    <3>2. CASE \E i \in 1 .. Len(results) : ~results[i].ok
      BY <2>5, <3>2 DEF ErrorReported
    <3>3. ASSUME NEW v \in Workers, worker[v].pc = "report" /\ ~worker[v].ok
          PROVE  ErrorReported'
      <4>1. CASE v = w
        BY <2>4, <2>5, <3>3, <4>1 DEF ErrorReported
      <4>2. CASE v # w
        BY <2>3, <3>3, <4>2 DEF ErrorReported
      <4> QED BY <4>1, <4>2
    <3> QED BY <2>6, <3>1, <3>2, <3>3 DEF ErrorReported
  <2>7. \A n \in 1 .. sent : Queued(n) \/ Worked(n) \/ n \in pngs
                             => Queued(n)' \/ Worked(n)' \/ n \in pngs'
    BY <2>1, <2>3 DEF Queued, Worked, Busy
  <2> QED BY <1>1, <1>3, <2>1, <2>2, <2>5, <2>6, <2>7, WorkersStep DEF Busy
<1> QED BY <1>5, <1>6, <1>7, <1>8, <1>9 DEF Work

LEMMA CollectKeepsFrames ==
  ASSUME FramesInv, Collect
  PROVE  FramesInv'
<1> USE DEF notPools, options, jobQueue
<1>1. FrameTypes /\ Accounted /\ Stages
      /\ JobsOver /\ WorkersOver /\ ResultsOver /\ CollectorOver /\ ServiceOver
  BY DEF FramesInv
<1>2. collector \in [rendered : Nat, errors : Nat, done : BOOLEAN]
      /\ results \in Seq([frame : Nat, ok : BOOLEAN])
  BY <1>1 DEF FrameTypes
<1>3. CASE CollectResult
  <2>1. /\ results # <<>> /\ results' = Tail(results) /\ UNCHANGED notPools
        /\ collector' = IF Head(results).ok THEN [collector EXCEPT !.rendered = @ + 1]
                        ELSE [collector EXCEPT !.errors = @ + 1]
    BY <1>3 DEF CollectResult
  <2>2. /\ Head(results) = results[1] /\ Tail(results) \in Seq([frame : Nat, ok : BOOLEAN])
        /\ Len(results) \in Nat /\ Len(Tail(results)) = Len(results) - 1
        /\ \A i \in 2 .. Len(results) :
              i - 1 \in 1 .. Len(Tail(results)) /\ Tail(results)[i - 1] = results[i]
    <3> DEFINE R == [frame : Nat, ok : BOOLEAN]
    <3>1. results \in Seq(R) /\ results # <<>>
      BY <1>2, <2>1
    <3> HIDE DEF R
    <3>2. /\ Head(results) = results[1] /\ Tail(results) \in Seq(R)
          /\ Len(results) \in Nat /\ Len(Tail(results)) = Len(results) - 1
          /\ \A i \in 2 .. Len(results) :
                i - 1 \in 1 .. Len(Tail(results)) /\ Tail(results)[i - 1] = results[i]
      BY <3>1
    <3> QED BY <3>2 DEF R
  <2>3. /\ collector' \in [rendered : Nat, errors : Nat, done : BOOLEAN]
        /\ collector'.done = collector.done /\ collector'.errors >= collector.errors
        /\ (~results[1].ok => collector'.errors > 0)
    <3> DEFINE ok == results[1].ok
    <3>1. collector' = IF ok THEN [collector EXCEPT !.rendered = @ + 1]
                       ELSE [collector EXCEPT !.errors = @ + 1]
      BY <2>1, <2>2
    <3> HIDE DEF ok
    <3>2. /\ collector' \in [rendered : Nat, errors : Nat, done : BOOLEAN]
          /\ collector'.done = collector.done /\ collector'.errors >= collector.errors
          /\ (~ok => collector'.errors > 0)
      <4>1. CASE ok
        BY <1>2, <3>1, <4>1
      <4>2. CASE ~ok
        <5>1. collector \in [rendered : Nat, errors : Nat, done : BOOLEAN]
              /\ collector' = [collector EXCEPT !.errors = @ + 1]
          BY <1>2, <3>1, <4>2
        <5>2. collector' = [rendered |-> collector.rendered, errors |-> collector.errors + 1,
                            done |-> collector.done]
          BY <5>1
        <5>3. collector.errors \in Nat /\ collector.rendered \in Nat /\ collector.done \in BOOLEAN
          BY <5>1
        <5>4. collector.errors + 1 \in Nat /\ collector.errors + 1 >= collector.errors
              /\ collector.errors + 1 > 0
          BY <5>3
        <5> QED BY <5>2, <5>3, <5>4
      <4> QED BY <4>1, <4>2
    <3> QED BY <3>2 DEF ok
  <2>4. FrameTypes'
    BY <1>1, <2>1, <2>2, <2>3 DEF FrameTypes
  <2>5. ErrorReported => ErrorReported'
    <3>1. CASE collector.errors > 0
      BY <1>2, <2>3, <3>1 DEF ErrorReported
    <3>2. ASSUME NEW i \in 1 .. Len(results), ~results[i].ok PROVE ErrorReported'
      <4>1. CASE i = 1
        BY <2>3, <3>2, <4>1 DEF ErrorReported
      <4>2. CASE i \in 2 .. Len(results)
        BY <2>1, <2>2, <3>2, <4>2 DEF ErrorReported
      <4> QED BY <4>1, <4>2
    <3>3. ASSUME NEW v \in Workers, worker[v].pc = "report" /\ ~worker[v].ok PROVE ErrorReported'
      BY <2>1, <3>3 DEF ErrorReported
    <3> QED BY <3>1, <3>2, <3>3 DEF ErrorReported
  <2>6. Accounted'
    BY <1>1, <2>1, <2>5 DEF Accounted, Queued, Worked
  <2>7. JobsOver' /\ WorkersOver' /\ ResultsOver' /\ CollectorOver' /\ ServiceOver' /\ Stages'
    BY <1>1, <2>1, <2>3 DEF JobsOver, WorkersOver, ResultsOver, CollectorOver, ServiceOver, Stages
  <2> QED BY <2>4, <2>6, <2>7 DEF FramesInv
<1>4. CASE CollectorEnds
  <2>1. /\ results = <<>> /\ resultsClosed /\ UNCHANGED <<notPools, results>>
        /\ collector' = [collector EXCEPT !.done = TRUE]
    BY <1>4 DEF CollectorEnds
  <2>2. /\ collector' \in [rendered : Nat, errors : Nat, done : BOOLEAN]
        /\ collector'.done /\ collector'.errors = collector.errors
    BY <1>2, <2>1
  <2>3. FrameTypes' /\ Accounted'
    BY <1>1, <2>1, <2>2 DEF FrameTypes, Accounted, ErrorReported, Queued, Worked
  <2>4. JobsOver' /\ WorkersOver' /\ ResultsOver' /\ CollectorOver' /\ ServiceOver' /\ Stages'
    BY <1>1, <2>1, <2>2 DEF JobsOver, WorkersOver, ResultsOver, CollectorOver, ServiceOver, Stages
  <2> QED BY <2>3, <2>4 DEF FramesInv
<1> QED BY <1>3, <1>4 DEF Collect

LEMMA FramesNext == FramesInv /\ [Next]_vars => FramesInv'
<1> SUFFICES ASSUME FramesInv, [Next]_vars PROVE FramesInv'
  OBVIOUS
<1> USE DEF jobQueue, resultQueue
<1>1. CASE UNCHANGED rendererVars
  BY <1>1, FramesUntouched DEF rendererVars
<1>2. CASE MakeVideo
  BY <1>2, MainKeepsFrames DEF MakeVideo
<1>3. CASE Video
  <2>1. CASE Main
    BY <2>1, MainKeepsFrames
  <2>2. CASE Collect
    BY <2>2, CollectKeepsFrames
  <2>3. ASSUME NEW w \in Workers, Work(w) PROVE FramesInv'
    BY <2>3, WorkKeepsFrames
  <2>4. ASSUME NEW t \in Renderers, Render(t) PROVE FramesInv'
    <3>1. UNCHANGED <<notPools, results, collector>>
      BY <2>4 DEF Render, TakeRequest, Answer, LeaveRenderer
    <3> QED BY <3>1, FramesUntouched DEF notPools, options
  <2> QED BY <1>3, <2>1, <2>2, <2>3, <2>4 DEF Video, RendererNext
<1> QED BY <1>1, <1>2, <1>3 DEF Next, Generate, vars

THEOREM FramesInvariance == Spec => []FramesInv
BY FramesInit, FramesNext, PTL DEF Spec

LEMMA DrawnFromInv ==
  ASSUME FramesInv
  PROVE  FramesAreDrawn
<1>1. FrameTypes /\ Accounted /\ Stages
      /\ JobsOver /\ WorkersOver /\ ResultsOver /\ CollectorOver /\ ServiceOver
  BY DEF FramesInv
<1>2. resultsClosed \/ serviceClosed => \A w \in Workers : worker[w].pc = "gone"
  BY <1>1 DEF ResultsOver, ServiceOver
<1>3. ASSUME stage \in {"video", "done"}, collector.errors = 0
      PROVE  pngs = 1 .. Len(plan)
  <2>1. collector.done /\ resultsClosed /\ results = <<>> /\ jobsClosed /\ sent = Len(plan)
    BY <1>1, <1>3 DEF Stages, CollectorOver, ResultsOver, JobsOver
  <2>2. \A w \in Workers : worker[w].pc = "gone"
    BY <1>1, <2>1 DEF ResultsOver
  <2>3. ~ErrorReported
    BY <1>3, <2>1, <2>2 DEF ErrorReported
  <2>4. ASSUME NEW n \in 1 .. sent PROVE n \in pngs
    <3>1. Queued(n) \/ Worked(n) \/ n \in pngs
      BY <1>1, <2>3, <2>4 DEF Accounted
    <3>2. ~Worked(n)
      BY <2>2 DEF Worked, Busy
    <3>3. ~Queued(n)
      <4>1. CASE Workers = {}
        BY <4>1, RendererAssumption
      <4>2. CASE Workers # {}
        <5>1. jobs = <<>>
          BY <1>1, <2>2, <4>2 DEF WorkersOver
        <5> QED BY <5>1 DEF Queued
      <4> QED BY <4>1, <4>2
    <3> QED BY <3>1, <3>2, <3>3
  <2> QED BY <1>1, <2>1, <2>4 DEF FrameTypes
<1> QED BY <1>2, <1>3 DEF FramesAreDrawn

(* dataset-mp4 closes no channel under a sender, and starts ffmpeg only    *)
(* when every frame of the plan is on disk or was counted as an error,     *)
(* whatever the number of its goroutines and the room in its channels.     *)
THEOREM EveryFrameIsDrawn == Spec => []FramesAreDrawn
BY DrawnFromInv, FramesInvariance, PTL

-----------------------------------------------------------------------------

(* The episodes of a file dataset-mp4 shows, and which of them one is.     *)
PlayableIn(groups) == {g \in DOMAIN groups : \A k \in DOMAIN groups[g] : groups[g][k].images = 2}
Rank(S, g) == Cardinality({h \in S : h <= g})

LEMMA RankFacts ==
  ASSUME NEW n \in Nat, NEW S \in SUBSET (1 .. n)
  PROVE  /\ \A g \in 0 .. n : Rank(S, g) \in Nat
         /\ Rank(S, 0) = 0
         /\ \A g \in 1 .. n : Rank(S, g) = IF g \in S THEN Rank(S, g - 1) + 1 ELSE Rank(S, g - 1)
         /\ \A g, h \in 0 .. n : g <= h => Rank(S, g) <= Rank(S, h)
         /\ \A h \in S, g \in 0 .. n : g < h => Rank(S, g) < Rank(S, h)
<1> DEFINE U(g) == {h \in S : h <= g}
<1>0. \A h \in S : h \in Int /\ 1 <= h /\ h <= n
  OBVIOUS
<1>1. IsFiniteSet(S)
  <2>1. IsFiniteSet(1 .. n)
    BY FS_Interval
  <2> QED BY <2>1, FS_Subset
<1>2. ASSUME NEW g \in 0 .. n PROVE IsFiniteSet(U(g)) /\ Cardinality(U(g)) \in Nat
  BY <1>1, FS_Subset, FS_CardinalityType
<1>3. Rank(S, 0) = 0
  <2>1. \A h \in S : ~(h <= 0)
    BY <1>0
  <2>2. U(0) = {}
    BY <2>1, Zenon
  <2> QED BY <2>2, FS_EmptySet DEF Rank
<1>4. ASSUME NEW g \in 1 .. n
      PROVE  Rank(S, g) = IF g \in S THEN Rank(S, g - 1) + 1 ELSE Rank(S, g - 1)
  <2>0. g - 1 \in 0 .. n
    OBVIOUS
  <2>1. \A h \in S : (h <= g <=> h <= g - 1 \/ h = g) /\ ~(g <= g - 1) /\ g <= g
    BY <1>0
  <2>2. CASE g \in S
    <3>1. U(g) = U(g - 1) \cup {g} /\ g \notin U(g - 1)
      BY <2>1, <2>2
    <3>2. IsFiniteSet(U(g - 1))
      BY <1>2, <2>0
    <3> HIDE DEF U
    <3>3. Cardinality(U(g)) = Cardinality(U(g - 1)) + 1
      BY <3>1, <3>2, FS_AddElement
    <3> QED BY <2>2, <3>3 DEF Rank, U
  <2>3. CASE g \notin S
    <3>1. U(g) = U(g - 1)
      BY <2>1, <2>3
    <3> QED BY <2>3, <3>1 DEF Rank
  <2> QED BY <2>2, <2>3
<1>5. ASSUME NEW g \in 0 .. n, NEW h \in 0 .. n, g <= h PROVE Rank(S, g) <= Rank(S, h)
  <2>1. \A e \in S : e <= g => e <= h
    BY <1>0, <1>5
  <2>2. U(g) \in SUBSET U(h)
    BY <2>1
  <2>3. IsFiniteSet(U(h))
    BY <1>2
  <2> HIDE DEF U
  <2>4. Cardinality(U(g)) <= Cardinality(U(h))
    BY <2>2, <2>3, FS_Subset
  <2> QED BY <2>4 DEF Rank, U
<1>6. \A g \in 0 .. n : Rank(S, g) \in Nat
  BY <1>2 DEF Rank
<1>7. ASSUME NEW h \in S, NEW g \in 0 .. n, g < h PROVE Rank(S, g) < Rank(S, h)
  <2>1. h \in 1 .. n /\ h - 1 \in 0 .. n /\ g <= h - 1
    BY <1>7
  <2>2. Rank(S, h) = Rank(S, h - 1) + 1
    BY <1>4, <2>1
  <2>3. Rank(S, g) <= Rank(S, h - 1) /\ Rank(S, g) \in Nat /\ Rank(S, h - 1) \in Nat
    BY <1>5, <1>6, <2>1
  <2> QED BY <2>2, <2>3
<1> QED BY <1>3, <1>4, <1>5, <1>6, <1>7

-----------------------------------------------------------------------------

Shots == [num : Nat, rows : Seq(Rows)]
Collectors == [start : Labels \cup {<<>>}, valid : BOOLEAN, rows : Seq(Rows), done : Seq(Shots),
               num : Nat]

(* Within an episode, after some of its rows.                              *)
Imageful(group, k) == \A j \in 1 .. k : group[j].images = 2
Within(done, group, k) ==
    [start |-> group[1].episode, valid |-> Imageful(group, k),
     rows |-> IF Imageful(group, k) THEN SubSeq(group, 1, k) ELSE <<>>,
     done |-> done, num |-> Len(done) + 1]

(* AddRow, by what it makes of the fields.                                 *)
LEMMA AddedRow ==
  ASSUME NEW start, NEW valid \in BOOLEAN, NEW rows, NEW done, NEW num, NEW row
  PROVE  AddRow([start |-> start, valid |-> valid, rows |-> rows, done |-> done, num |-> num], row)
           = [start |-> start, valid |-> valid /\ row.images = 2,
              rows |-> IF row.images # 2 THEN <<>> ELSE IF valid THEN Append(rows, row) ELSE rows,
              done |-> done, num |-> num]
BY DEF AddRow

(* What is kept of the rows of an episode grows with them.                 *)
LEMMA RowsSoFar ==
  ASSUME NEW group \in Seq(Rows), NEW k \in 1 .. Len(group)
  PROVE  /\ Imageful(group, k) <=> Imageful(group, k - 1) /\ group[k].images = 2
         /\ Append(SubSeq(group, 1, k - 1), group[k]) = SubSeq(group, 1, k)
<1>1. \A j \in 1 .. k : j \in 1 .. k - 1 \/ j = k
  OBVIOUS
<1>2. \A j \in 1 .. k - 1 : j \in 1 .. k
  OBVIOUS
<1>3. k \in 1 .. k
  OBVIOUS
<1>4. Imageful(group, k) <=> Imageful(group, k - 1) /\ group[k].images = 2
  BY <1>1, <1>2, <1>3 DEF Imageful
<1>5. Append(SubSeq(group, 1, k - 1), group[k]) = SubSeq(group, 1, k)
  <2> DEFINE R == Rows
  <2>1. group \in Seq(R)
    OBVIOUS
  <2> HIDE DEF R
  <2> QED BY <2>1
<1> QED BY <1>4, <1>5

LEMMA FirstRow ==
  ASSUME NEW b, NEW group \in Seq(Rows), group # <<>>, b.start # group[1].episode
  PROVE  AddRow(Begin(b, group[1]), group[1]) = Within(Kept(b), group, 1)
<1> DEFINE row == group[1]
           num == Len(Kept(b)) + 1
<1>1. 1 \in 1 .. Len(group) /\ 1 - 1 = 0
  OBVIOUS
<1>2. Begin(b, row)
        = [start |-> row.episode, valid |-> TRUE, rows |-> <<>>, done |-> Kept(b), num |-> num]
  BY DEF Begin
<1>3. Imageful(group, 0) /\ SubSeq(group, 1, 0) = <<>>
  BY DEF Imageful
<1>4. /\ Imageful(group, 1) <=> row.images = 2
      /\ Append(<<>>, row) = SubSeq(group, 1, 1)
  BY <1>1, <1>3, RowsSoFar
<1>5. AddRow([start |-> row.episode, valid |-> TRUE, rows |-> <<>>, done |-> Kept(b),
              num |-> num], row)
        = [start |-> row.episode, valid |-> row.images = 2,
           rows |-> IF row.images = 2 THEN Append(<<>>, row) ELSE <<>>,
           done |-> Kept(b), num |-> num]
  <2> HIDE DEF row, num
  <2>1. CASE row.images = 2
    BY <2>1 DEF AddRow
  <2>2. CASE row.images # 2
    BY <2>2 DEF AddRow
  <2> QED BY <2>1, <2>2
<1>6. Within(Kept(b), group, 1)
        = [start |-> row.episode, valid |-> row.images = 2,
           rows |-> IF row.images = 2 THEN Append(<<>>, row) ELSE <<>>,
           done |-> Kept(b), num |-> num]
  <2>1. (IF Imageful(group, 1) THEN SubSeq(group, 1, 1) ELSE <<>>)
          = IF row.images = 2 THEN Append(<<>>, row) ELSE <<>>
    BY <1>4
  <2>2. Imageful(group, 1) = (row.images = 2)
    BY <1>4 DEF Imageful
  <2> HIDE DEF row
  <2> QED BY <2>1, <2>2 DEF Within, row
<1>7. AddRow(Begin(b, row), row) = Within(Kept(b), group, 1)
  <2> HIDE DEF row, num
  <2> QED BY <1>2, <1>5, <1>6, Zenon
<1> QED BY <1>7

LEMMA NextRow ==
  ASSUME NEW done, NEW group \in Seq(Rows), NEW k \in 2 .. Len(group),
         group[k].episode = group[1].episode
  PROVE  AddRow(Begin(Within(done, group, k - 1), group[k]), group[k]) = Within(done, group, k)
<1> DEFINE row == group[k]
           start == group[1].episode
           valid == Imageful(group, k - 1)
           rows == IF valid THEN SubSeq(group, 1, k - 1) ELSE <<>>
           num == Len(done) + 1
<1>1. Begin(Within(done, group, k - 1), row) = Within(done, group, k - 1)
  BY DEF Begin, Within
<1>2. k \in 1 .. Len(group)
  OBVIOUS
<1>3. /\ Imageful(group, k) <=> valid /\ row.images = 2
      /\ Append(SubSeq(group, 1, k - 1), row) = SubSeq(group, 1, k)
  BY <1>2, RowsSoFar
<1>4. valid \in BOOLEAN
  BY DEF Imageful
<1>5. Within(done, group, k - 1)
        = [start |-> start, valid |-> valid, rows |-> rows, done |-> done, num |-> num]
  BY DEF Within
<1>6. (IF row.images # 2 THEN <<>> ELSE IF valid THEN Append(rows, row) ELSE rows)
        = IF valid /\ row.images = 2 THEN Append(SubSeq(group, 1, k - 1), row) ELSE <<>>
  OBVIOUS
<1>7. AddRow([start |-> start, valid |-> valid, rows |-> rows, done |-> done, num |-> num], row)
        = [start |-> start, valid |-> valid /\ row.images = 2,
           rows |-> IF row.images # 2 THEN <<>> ELSE IF valid THEN Append(rows, row) ELSE rows,
           done |-> done, num |-> num]
  <2> HIDE DEF row, start, valid, rows, num
  <2> QED BY <1>4, AddedRow
<1>8. Within(done, group, k)
        = [start |-> start, valid |-> valid /\ row.images = 2,
           rows |-> IF valid /\ row.images = 2 THEN Append(SubSeq(group, 1, k - 1), row) ELSE <<>>,
           done |-> done, num |-> num]
  <2>1. (IF Imageful(group, k) THEN SubSeq(group, 1, k) ELSE <<>>)
          = IF valid /\ row.images = 2 THEN Append(SubSeq(group, 1, k - 1), row) ELSE <<>>
    BY <1>3
  <2>2. Imageful(group, k) = (valid /\ row.images = 2)
    BY <1>3 DEF Imageful
  <2> HIDE DEF row, valid
  <2> QED BY <2>1, <2>2 DEF Within
<1>9. AddRow(Begin(Within(done, group, k - 1), row), row) = Within(done, group, k)
  <2> HIDE DEF row, start, valid, rows, num
  <2> QED BY <1>1, <1>5, <1>6, <1>7, <1>8, Zenon
<1> QED BY <1>9

-----------------------------------------------------------------------------

(* Every number up to a rank is the rank of one of the set.                *)
LEMMA RankReached ==
  ASSUME NEW n \in Nat, NEW S \in SUBSET (1 .. n), NEW g \in 0 .. n, NEW m \in 1 .. Rank(S, g)
  PROVE  \E h \in S : h <= g /\ Rank(S, h) = m
<1> DEFINE T == {e \in 0 .. n : m <= Rank(S, e) => \E h \in S : h <= e /\ Rank(S, h) = m}
<1>0. \A h \in S : h \in Int /\ 1 <= h /\ h <= n
  OBVIOUS
<1>1. /\ \A e \in 0 .. n : Rank(S, e) \in Nat
      /\ Rank(S, 0) = 0
      /\ \A e \in 1 .. n : Rank(S, e) = IF e \in S THEN Rank(S, e - 1) + 1 ELSE Rank(S, e - 1)
  BY RankFacts
<1>2. m \in Nat /\ 1 <= m
  BY <1>1
<1>3. 0 \in T
  BY <1>1, <1>2
<1>4. ASSUME NEW e \in 1 .. n, e - 1 \in T PROVE e \in T
  <2> SUFFICES ASSUME m <= Rank(S, e) PROVE \E h \in S : h <= e /\ Rank(S, h) = m
    OBVIOUS
  <2>1. e - 1 \in 0 .. n /\ e \in 0 .. n
    OBVIOUS
  <2>2. CASE m <= Rank(S, e - 1)
    <3>1. PICK h \in S : h <= e - 1 /\ Rank(S, h) = m
      BY <1>4, <2>2
    <3>2. h <= e
      BY <1>0, <3>1
    <3> QED BY <3>1, <3>2
  <2>3. CASE ~(m <= Rank(S, e - 1))
    <3>1. e \in S /\ Rank(S, e) = Rank(S, e - 1) + 1
      BY <1>1, <1>2, <2>1, <2>3
    <3>2. Rank(S, e) = m /\ e <= e
      BY <1>1, <1>2, <2>1, <2>3, <3>1
    <3> QED BY <3>1, <3>2
  <2> QED BY <2>2, <2>3
<1> HIDE DEF T
<1>5. 0 .. n \subseteq T
  BY <1>3, <1>4, UpTo
<1>6. g \in T
  BY <1>5
<1> QED BY <1>6 DEF T

-----------------------------------------------------------------------------

(* What the groups of a merged file are for collectEpisodes: no two next   *)
(* to each other have one label.                                           *)
Episodic(groups) ==
    /\ groups \in Seq(Seq(Rows))
    /\ \A g \in 1 .. Len(groups) :
          /\ groups[g] # <<>>
          /\ \A k \in 1 .. Len(groups[g]) : groups[g][k].episode = groups[g][1].episode
    /\ \A g \in 2 .. Len(groups) : groups[g - 1][1].episode # groups[g][1].episode

(* The episodes collected of the first groups.                             *)
Listed(list, groups, g) ==
    /\ list \in Seq(Shots) /\ Len(list) = Rank(PlayableIn(groups), g)
    /\ \A h \in PlayableIn(groups) :
          h <= g => list[Rank(PlayableIn(groups), h)]
                      = [num |-> Rank(PlayableIn(groups), h), rows |-> groups[h]]

LEMMA KeptWithin ==
  ASSUME NEW done, NEW group \in Seq(Rows), group # <<>>
  PROVE  Kept(Within(done, group, Len(group)))
           = IF \A k \in 1 .. Len(group) : group[k].images = 2
             THEN Append(done, [num |-> Len(done) + 1, rows |-> group]) ELSE done
<1> DEFINE all == Imageful(group, Len(group))
           kept == IF all THEN SubSeq(group, 1, Len(group)) ELSE <<>>
           w == [start |-> group[1].episode, valid |-> all, rows |-> kept, done |-> done,
                 num |-> Len(done) + 1]
<1>1. Within(done, group, Len(group)) = w
  BY DEF Within
<1>2. SubSeq(group, 1, Len(group)) = group
  <2> DEFINE R == Rows
  <2>1. group \in Seq(R)
    OBVIOUS
  <2> HIDE DEF R
  <2> QED BY <2>1, SubSeqFull
<1>3. w.rows = kept /\ w.done = done /\ w.num = Len(done) + 1
  OBVIOUS
<1>4. all <=> \A k \in 1 .. Len(group) : group[k].images = 2
  BY DEF Imageful
<1> HIDE DEF w, all
<1>5. CASE all
  <2>1. kept = group
    BY <1>2, <1>5
  <2>2. Kept(w) = Append(done, [num |-> Len(done) + 1, rows |-> group])
    BY <1>3, <2>1 DEF Kept
  <2> QED BY <1>1, <1>4, <1>5, <2>2
<1>6. CASE ~all
  <2>1. Kept(w) = done
    BY <1>3, <1>6 DEF Kept
  <2> QED BY <1>1, <1>4, <1>6, <2>1
<1> QED BY <1>5, <1>6

LEMMA ListedStep ==
  ASSUME NEW groups, Episodic(groups), NEW g \in 1 .. Len(groups), NEW done,
         Listed(done, groups, g - 1)
  PROVE  Listed(Kept(Within(done, groups[g], Len(groups[g]))), groups, g)
<1> DEFINE P == PlayableIn(groups)
           group == groups[g]
           rank == Rank(P, g - 1)
           shot == [num |-> Len(done) + 1, rows |-> group]
           next == Kept(Within(done, group, Len(group)))
<1>1. group \in Seq(Rows) /\ group # <<>>
  BY DEF Episodic
<1>2. P \in SUBSET (1 .. Len(groups)) /\ Len(groups) \in Nat
      /\ (g \in P <=> \A k \in 1 .. Len(group) : group[k].images = 2)
  <2>1. DOMAIN groups = 1 .. Len(groups) /\ DOMAIN group = 1 .. Len(group) /\ Len(groups) \in Nat
    BY <1>1 DEF Episodic
  <2> QED BY <2>1 DEF PlayableIn
<1>3. next = IF g \in P THEN Append(done, shot) ELSE done
  <2> HIDE DEF P, group
  <2> QED BY <1>1, <1>2, KeptWithin
<1>4. done \in Seq(Shots) /\ Len(done) = rank /\ rank \in Nat /\ g - 1 \in 0 .. Len(groups)
      /\ \A h \in P : h <= g - 1 => done[Rank(P, h)] = [num |-> Rank(P, h), rows |-> groups[h]]
  <2>1. done \in Seq(Shots) /\ Len(done) = rank
        /\ \A h \in P : h <= g - 1 => done[Rank(P, h)] = [num |-> Rank(P, h), rows |-> groups[h]]
    BY DEF Listed
  <2>2. g - 1 \in 0 .. Len(groups)
    OBVIOUS
  <2>3. rank \in Nat
    <3> HIDE DEF P
    <3> QED BY <1>2, <2>2, RankFacts
  <2> QED BY <2>1, <2>2, <2>3
<1> HIDE DEF P, group, next
<1>5. Rank(P, g) = IF g \in P THEN rank + 1 ELSE rank
  BY <1>2, RankFacts
<1>6. \A h \in P : h \in Int /\ 1 <= h /\ h <= Len(groups) /\ (h <= g <=> h <= g - 1 \/ h = g)
  BY <1>2
<1>7. CASE g \in P
  <2>1. shot \in Shots
    BY <1>1, <1>4 DEF Shots
  <2> DEFINE SH == Shots
  <2>2. done \in Seq(SH) /\ shot \in SH /\ next = Append(done, shot)
    BY <1>3, <1>4, <1>7, <2>1
  <2> HIDE DEF shot, SH
  <2>3. /\ next \in Seq(SH) /\ Len(next) = rank + 1 /\ next[rank + 1] = shot
        /\ \A i \in 1 .. rank : next[i] = done[i]
    BY <1>4, <2>2, AppendProperties
  <2>4. ASSUME NEW h \in P, h <= g
        PROVE  next[Rank(P, h)] = [num |-> Rank(P, h), rows |-> groups[h]]
    <3>1. CASE h = g
      BY <1>4, <1>5, <1>7, <2>3, <3>1 DEF shot, group
    <3>2. CASE h <= g - 1
      <4>1. Rank(P, h) <= rank /\ Rank(P, h) \in Nat /\ 1 <= Rank(P, h)
        <5>1. h \in 0 .. Len(groups) /\ h \in 1 .. Len(groups) /\ h - 1 \in 0 .. Len(groups)
          BY <1>2, <1>6
        <5>2. Rank(P, h) <= rank /\ Rank(P, h) \in Nat /\ Rank(P, h - 1) \in Nat
              /\ Rank(P, h) = Rank(P, h - 1) + 1
          BY <1>2, <1>4, <3>2, <5>1, RankFacts
        <5> QED BY <5>2
      <4>2. done[Rank(P, h)] = [num |-> Rank(P, h), rows |-> groups[h]]
        BY <1>4, <3>2
      <4> QED BY <1>4, <2>3, <4>1, <4>2
    <3> QED BY <1>6, <2>4, <3>1, <3>2
  <2> QED BY <1>5, <1>7, <2>3, <2>4 DEF Listed, SH, P, next, group
<1>8. CASE g \notin P
  <2>1. \A h \in P : h <= g => h <= g - 1
    BY <1>6, <1>8
  <2> QED BY <1>3, <1>4, <1>5, <1>8, <2>1 DEF Listed, P, next, group
<1> QED BY <1>7, <1>8

LEMMA CollectedRow ==
  ASSUME NEW b \in Collectors, NEW row \in Rows
  PROVE  Kept(b) \in Seq(Shots) /\ AddRow(Begin(b, row), row) \in Collectors
<1> DEFINE L == Labels \cup {<<>>}
           R == Rows
           SH == Shots
<1>1. Collectors = [start : L, valid : BOOLEAN, rows : Seq(R), done : Seq(SH), num : Nat]
  BY DEF Collectors
<1>2. row.episode \in L /\ row \in R
  BY DEF Rows
<1>3. \A n \in Nat, rs \in Seq(R) : [num |-> n, rows |-> rs] \in SH
  BY DEF Shots
<1> HIDE DEF L, R, SH
<1>4. Kept(b) \in Seq(SH) /\ Len(Kept(b)) \in Nat
  <2>1. b.done \in Seq(SH) /\ b.num \in Nat /\ b.rows \in Seq(R)
    BY <1>1
  <2>2. [num |-> b.num, rows |-> b.rows] \in SH
    BY <1>3, <2>1
  <2> QED BY <2>1, <2>2 DEF Kept
<1>5. PICK c \in Collectors : c = Begin(b, row)
  <2>1. CASE row.episode = b.start
    BY <2>1 DEF Begin
  <2>2. CASE row.episode # b.start
    <3> DEFINE new == [start |-> row.episode, valid |-> TRUE, rows |-> <<>>, done |-> Kept(b),
                       num |-> Len(Kept(b)) + 1]
    <3>1. Begin(b, row) = new
      BY <2>2 DEF Begin
    <3>2. new \in [start : L, valid : BOOLEAN, rows : Seq(R), done : Seq(SH), num : Nat]
      BY <1>2, <1>4
    <3> QED BY <1>1, <3>1, <3>2
  <2> QED BY <2>1, <2>2
<1>6. AddRow(c, row) \in Collectors
  <2>1. PICK start \in L, valid \in BOOLEAN, rows \in Seq(R), done \in Seq(SH), num \in Nat :
           c = [start |-> start, valid |-> valid, rows |-> rows, done |-> done, num |-> num]
    <3>1. /\ c.start \in L /\ c.valid \in BOOLEAN /\ c.rows \in Seq(R) /\ c.done \in Seq(SH)
          /\ c.num \in Nat
          /\ c = [start |-> c.start, valid |-> c.valid, rows |-> c.rows, done |-> c.done,
                  num |-> c.num]
      BY <1>1
    <3> QED BY <3>1
  <2>2. CASE row.images # 2
    <3>1. AddRow(c, row) = [start |-> start, valid |-> FALSE, rows |-> <<>>, done |-> done,
                            num |-> num]
      BY <2>1, <2>2 DEF AddRow
    <3> QED BY <1>1, <3>1
  <2>3. CASE row.images = 2 /\ valid
    <3>1. AddRow(c, row) = [start |-> start, valid |-> valid, rows |-> Append(rows, row),
                            done |-> done, num |-> num]
      BY <2>1, <2>3 DEF AddRow
    <3>2. Append(rows, row) \in Seq(R)
      BY <1>2
    <3> QED BY <1>1, <3>1, <3>2
  <2>4. CASE row.images = 2 /\ ~valid
    <3>1. AddRow(c, row) = c
      BY <2>1, <2>4 DEF AddRow
    <3> QED BY <3>1
  <2> QED BY <2>2, <2>3, <2>4
<1> QED BY <1>4, <1>5, <1>6 DEF SH

(* collectEpisodes, from the first row of a group to its last.             *)
FollowsRows(c, flat) == \A i \in 1 .. Len(flat) : c[i] = AddRow(Begin(c[i - 1], flat[i]), flat[i])

LEMMA GroupCollected ==
  ASSUME NEW groups, Episodic(groups), NEW off, Offsets(off, groups), NEW flat,
         Flat(flat, off, groups, Len(groups)), NEW c, FollowsRows(c, flat),
         NEW g \in 1 .. Len(groups), c[off[g - 1]].start # groups[g][1].episode
  PROVE  c[off[g]] = Within(Kept(c[off[g - 1]]), groups[g], Len(groups[g]))
<1> DEFINE group == groups[g]
           from == off[g - 1]
           done == Kept(c[from])
           n == Len(group)
           T == {k \in 0 .. n : k # 0 => c[from + k] = Within(done, group, k)}
<1>1. group \in Seq(Rows) /\ group # <<>> /\ n \in Nat /\ n # 0
      /\ \A k \in 1 .. n : group[k].episode = group[1].episode
  BY DEF Episodic
<1>2. from \in Nat /\ off[g] = from + n
  <2>1. g - 1 \in 0 .. Len(groups)
    BY DEF Episodic
  <2> QED BY <2>1 DEF Offsets
<1>3. ASSUME NEW k \in 1 .. n
      PROVE  c[from + k] = AddRow(Begin(c[from + (k - 1)], group[k]), group[k])
  <2>1. from + k \in 1 .. Len(flat) /\ flat[from + k] = group[k]
    BY DEF Flat
  <2> DEFINE at == from + k
             before == from + (k - 1)
  <2>2. at - 1 = before
    BY <1>2
  <2> HIDE DEF group, from, n, at, before
  <2>3. c[at] = AddRow(Begin(c[at - 1], flat[at]), flat[at])
    BY <2>1 DEF FollowsRows, at
  <2>4. c[at] = AddRow(Begin(c[at - 1], group[k]), group[k])
    BY <2>1, <2>3 DEF at
  <2>5. c[at] = AddRow(Begin(c[before], group[k]), group[k])
    BY <2>2, <2>4
  <2> QED BY <2>5 DEF at, before
<1>4. 0 \in T
  BY <1>1
<1>5. ASSUME NEW k \in 1 .. n, k - 1 \in T PROVE k \in T
  <2>1. CASE k = 1
    <3>1. from + (1 - 1) = from /\ 1 \in 1 .. n
      BY <1>1, <1>2
    <3> HIDE DEF group, from, n
    <3>2. c[from + 1] = AddRow(Begin(c[from], group[1]), group[1])
      BY <1>3, <3>1
    <3>3. AddRow(Begin(c[from], group[1]), group[1]) = Within(done, group, 1)
      BY <1>1, FirstRow DEF group, from
    <3> QED BY <2>1, <3>2, <3>3
  <2>2. CASE k # 1
    <3>1. k - 1 # 0 /\ k - 1 \in 0 .. n /\ k \in 2 .. n
      BY <2>2
    <3>2. c[from + (k - 1)] = Within(done, group, k - 1)
      BY <1>5, <3>1
    <3> HIDE DEF group, from, done
    <3>3. AddRow(Begin(Within(done, group, k - 1), group[k]), group[k]) = Within(done, group, k)
      BY <1>1, <3>1, NextRow
    <3> QED BY <1>3, <3>2, <3>3
  <2> QED BY <2>1, <2>2
<1>6. n \in T
  <2> HIDE DEF T, n
  <2>1. 0 .. n \subseteq T
    BY <1>1, <1>4, <1>5, UpTo
  <2> QED BY <1>1, <2>1
<1> QED BY <1>1, <1>2, <1>6

LEMMA EpisodesCollected ==
  ASSUME NEW groups, Episodic(groups)
  PROVE  Listed(CollectEpisodes(FlattenSeq(groups)), groups, Len(groups))
<1> DEFINE R == Rows
           flat == FlattenSeq(groups)
           n == Len(flat)
           base == [start |-> <<>>, valid |-> FALSE, rows |-> <<>>, done |-> <<>>, num |-> 0]
           P == PlayableIn(groups)
<1>1. groups \in Seq(Seq(R)) /\ Len(groups) \in Nat
  BY DEF Episodic
<1>2. PICK off : Offsets(off, groups)
  <2> HIDE DEF R
  <2> QED BY <1>1, OffsetsExist
<1>3. flat \in Seq(R) /\ Flat(flat, off, groups, Len(groups))
  <2> HIDE DEF R
  <2> QED BY <1>1, <1>2, FlattenFacts
<1>4. n \in Nat /\ \A i \in 1 .. n : flat[i] \in R
  <2> HIDE DEF R, flat
  <2> QED BY <1>3
<1>5. base \in Collectors
  BY DEF Collectors
<1> DEFINE Eq(f) == f = [i \in 0 .. n |->
                           IF i = 0 THEN base ELSE AddRow(Begin(f[i - 1], flat[i]), flat[i])]
           c == CHOOSE f : Eq(f)
           step == [i \in 1 .. n |-> [b \in Collectors |-> AddRow(Begin(b, flat[i]), flat[i])]]
<1>6. \E f : Eq(f)
  <2> HIDE DEF base, flat
  <2>1. step \in [1 .. n -> [Collectors -> Collectors]]
    BY <1>4, CollectedRow
  <2>2. \E f : Computes(f, Collectors, base, n, step)
    <3> HIDE DEF n, step
    <3> QED BY <1>4, <1>5, <2>1, StepsExist
  <2>3. PICK f : Computes(f, Collectors, base, n, step)
    BY <2>2
  <2>4. f[0] = base
    BY <2>3 DEF Computes
  <2>5. ASSUME NEW i \in 1 .. n PROVE f[i] = AddRow(Begin(f[i - 1], flat[i]), flat[i])
    <3>1. f[i - 1] \in Collectors /\ f[i] = step[i][f[i - 1]]
      <4> HIDE DEF n, step
      <4> QED BY <1>4, <2>3, ComputedStep
    <3> QED BY <3>1
  <2> DEFINE h == [i \in 0 .. n |-> f[i]]
  <2>6. \A i \in 0 .. n : i # 0 => i \in 1 .. n /\ i - 1 \in 0 .. n
    BY <1>4
  <2> HIDE DEF n
  <2>7. \A i \in 0 .. n : h[i] = IF i = 0 THEN base ELSE AddRow(Begin(h[i - 1], flat[i]), flat[i])
    BY <2>4, <2>5, <2>6
  <2>8. Eq(h)
    BY <2>7
  <2> QED BY <2>8
<1>7. Eq(c)
  <2> HIDE DEF Eq
  <2> QED BY <1>6
<1>8. CollectEpisodes(flat) = Kept(c[n])
  BY DEF CollectEpisodes
<1> HIDE DEF c, base, flat
<1>9. c[0] = base /\ FollowsRows(c, flat)
  <2>1. 0 \in 0 .. n /\ \A i \in 1 .. n : i \in 0 .. n /\ i # 0
    BY <1>4
  <2>2. \A i \in 0 .. n : c[i] = IF i = 0 THEN base ELSE AddRow(Begin(c[i - 1], flat[i]), flat[i])
    BY <1>7
  <2> QED BY <2>1, <2>2 DEF FollowsRows
<1> DEFINE G == Len(groups)
           T == {g \in 0 .. G : /\ Listed(Kept(c[off[g]]), groups, g)
                                /\ c[off[g]].start = IF g = 0 THEN <<>> ELSE groups[g][1].episode}
<1>10. off[0] = 0 /\ off[G] = n
  BY <1>2, <1>3 DEF Offsets, Flat
<1>11. 0 \in T
  <2>1. c[off[0]] = base
    BY <1>9, <1>10
  <2>2. base.start = <<>> /\ Kept(base) = <<>>
    BY DEF base, Kept
  <2>3. P \in SUBSET (1 .. G)
    BY <1>1 DEF PlayableIn
  <2>4. Rank(P, 0) = 0 /\ \A h \in P : ~(h <= 0)
    <3>1. \A h \in P : h \in 1 .. G
      BY <2>3
    <3>2. \A h \in P : ~(h <= 0)
      BY <3>1
    <3> HIDE DEF P, G
    <3> QED BY <1>1, <2>3, <3>2, RankFacts DEF G
  <2>5. Listed(<<>>, groups, 0)
    BY <2>4 DEF Listed
  <2>6. 0 \in 0 .. G
    BY <1>1
  <2> QED BY <2>1, <2>2, <2>5, <2>6
<1>12. ASSUME NEW g \in 1 .. G, g - 1 \in T PROVE g \in T
  <2>1. g \in 0 .. G /\ g # 0
    OBVIOUS
  <2>2. c[off[g - 1]].start # groups[g][1].episode
    <3>1. groups[g] \in Seq(R) /\ groups[g] # <<>>
      BY DEF Episodic
    <3>2. groups[g][1] \in Rows
      BY <3>1
    <3>3. groups[g][1].episode \in Nat \X Nat
      BY <3>2 DEF Rows, Labels
    <3>4. CASE g - 1 = 0
      <4>1. c[off[g - 1]].start = <<>>
        BY <1>12, <3>4
      <4>2. \A l \in Nat \X Nat : l # <<>>
        OBVIOUS
      <4> QED BY <3>3, <4>1, <4>2
    <3>5. CASE g - 1 # 0
      <4>1. g \in 2 .. Len(groups)
        BY <3>5
      <4> QED BY <1>12, <3>5, <4>1 DEF Episodic
    <3> QED BY <3>4, <3>5
  <2>3. c[off[g]] = Within(Kept(c[off[g - 1]]), groups[g], Len(groups[g]))
    <3> HIDE DEF T
    <3> QED BY <1>2, <1>3, <1>9, <2>2, GroupCollected
  <2>4. c[off[g]].start = groups[g][1].episode
    BY <2>3 DEF Within
  <2>5. Listed(Kept(c[off[g - 1]]), groups, g - 1)
    BY <1>12
  <2>6. Listed(Kept(c[off[g]]), groups, g)
    <3> HIDE DEF T
    <3> QED BY <2>3, <2>5, ListedStep
  <2> QED BY <2>1, <2>4, <2>6
<1>13. G \in T
  <2> HIDE DEF T, G
  <2>1. G \in Nat
    BY <1>1 DEF G
  <2>2. 0 .. G \subseteq T
    BY <1>11, <1>12, <2>1, UpTo
  <2> QED BY <2>1, <2>2
<1>14. Listed(Kept(c[n]), groups, G)
  BY <1>10, <1>13
<1> QED BY <1>8, <1>14 DEF flat

-----------------------------------------------------------------------------

(* The grids the episodes are dealt into: none is empty, and every episode *)
(* has its cell in one of them.                                            *)
LEMMA GridFacts ==
  ASSUME NEW n \in Nat \ {0}, NEW l \in Nat, NEW grids, grids = (l + n - 1) \div n
  PROVE  /\ grids \in Nat
         /\ \A g \in 1 .. grids : (g - 1) * n \in Nat /\ g * n \in Nat /\ (g - 1) * n < l
                                  /\ g * n = (g - 1) * n + n
         /\ \A e \in 1 .. l : /\ (e - 1) \div n + 1 \in 1 .. grids
                              /\ ((e - 1) % n) + 1 \in 1 .. n
                              /\ e = ((e - 1) \div n) * n + (((e - 1) % n) + 1)
<1> DEFINE a == l + n - 1
<1>1. a \in Nat
  OBVIOUS
<1>2. a \div n \in Nat /\ a % n \in 0 .. n - 1 /\ a = (a \div n) * n + (a % n)
  BY <1>1, DivMod
<1>3. grids \in Nat /\ grids * n <= l + n - 1 /\ grids * n >= l
  <2> DEFINE r == a % n
  <2>1. grids \in Nat /\ r \in 0 .. n - 1 /\ a = grids * n + r
    BY <1>2
  <2> HIDE DEF r
  <2> QED BY <2>1
<1>4. ASSUME NEW g \in 1 .. grids
      PROVE  (g - 1) * n \in Nat /\ g * n \in Nat /\ (g - 1) * n < l /\ g * n = (g - 1) * n + n
  <2>1. g * n <= grids * n
    BY <1>3
  <2>2. (g - 1) * n \in Nat /\ g * n \in Nat /\ g * n = (g - 1) * n + n
    BY <1>3
  <2> QED BY <1>3, <2>1, <2>2
<1>5. ASSUME NEW e \in 1 .. l
      PROVE  /\ (e - 1) \div n + 1 \in 1 .. grids /\ ((e - 1) % n) + 1 \in 1 .. n
             /\ e = ((e - 1) \div n) * n + (((e - 1) % n) + 1)
  <2> DEFINE q == (e - 1) \div n
             r == (e - 1) % n
  <2>1. e - 1 \in Nat
    OBVIOUS
  <2>2. q \in Nat /\ r \in 0 .. n - 1 /\ e - 1 = q * n + r
    BY <2>1, DivMod
  <2> HIDE DEF q, r
  <2>3. r + 1 \in 1 .. n /\ e = q * n + (r + 1)
    BY <2>2
  <2>4. q < grids
    <3>1. SUFFICES ASSUME grids <= q PROVE FALSE
      BY <1>3, <2>2
    <3>2. grids * n <= q * n
      BY <1>3, <2>2, <3>1
    <3> QED BY <1>3, <2>2, <3>2
  <2>5. q + 1 \in 1 .. grids
    BY <1>3, <2>2, <2>4
  <2> QED BY <2>3, <2>5 DEF q, r
<1> QED BY <1>3, <1>4, <1>5

(* No episode has more frames than some number.                            *)
LEMMA LongestRows ==
  ASSUME NEW E \in Seq(Shots)
  PROVE  \E b \in Nat : \A e \in 1 .. Len(E) : Len(E[e].rows) <= b
<1> DEFINE n == Len(E)
           T == {m \in 0 .. n : \E b \in Nat : \A e \in 1 .. m : Len(E[e].rows) <= b}
<1>1. n \in Nat /\ \A e \in 1 .. n : Len(E[e].rows) \in Nat
  <2>1. \A e \in 1 .. n : E[e] \in Shots
    OBVIOUS
  <2> QED BY <2>1 DEF Shots
<1>2. 0 \in T
  BY <1>1
<1>3. ASSUME NEW m \in 1 .. n, m - 1 \in T PROVE m \in T
  <2>1. PICK b \in Nat : \A e \in 1 .. m - 1 : Len(E[e].rows) <= b
    BY <1>3
  <2> DEFINE x == Len(E[m].rows)
             c == IF x <= b THEN b ELSE x
  <2>2. c \in Nat /\ b <= c /\ x <= c
    BY <1>1
  <2> HIDE DEF c
  <2>3. \A e \in 1 .. m : Len(E[e].rows) <= c
    <3> TAKE e \in 1 .. m
    <3>1. CASE e = m
      BY <2>2, <3>1
    <3>2. CASE e # m
      <4>1. e \in 1 .. m - 1 /\ e \in 1 .. n
        BY <3>2
      <4>2. Len(E[e].rows) <= b /\ Len(E[e].rows) \in Nat
        BY <1>1, <2>1, <4>1
      <4> QED BY <2>2, <4>2
    <3> QED BY <3>1, <3>2
  <2>4. \E d \in Nat : \A e \in 1 .. m : Len(E[e].rows) <= d
    BY <2>2, <2>3, Zenon
  <2>5. m \in 0 .. n
    BY <1>1
  <2> QED BY <2>4, <2>5
<1>4. n \in T
  <2> HIDE DEF T, n
  <2>1. 0 .. n \subseteq T
    BY <1>1, <1>2, <1>3, UpTo
  <2> QED BY <1>1, <2>1
<1> QED BY <1>4

-----------------------------------------------------------------------------

(* What a cell of a frame shows; and where the episodes are in the frames: *)
(* each in one cell from one frame on, and nothing else is shown.          *)
Cells == [num : Nat, row : Rows \cup {<<>>}]
Dealt(all, E, n, from, cell) ==
    /\ all \in Seq([1 .. n -> Cells])
    /\ from \in [1 .. Len(E) -> Nat] /\ cell \in [1 .. Len(E) -> 1 .. n]
    /\ \A e \in 1 .. Len(E) : \A k \in 1 .. Len(E[e].rows) :
          /\ from[e] + k \in 1 .. Len(all)
          /\ all[from[e] + k][cell[e]] = [num |-> E[e].num, row |-> E[e].rows[k]]
    /\ \A p \in 1 .. Len(all), i \in 1 .. n :
          all[p][i] # Blank => \E e \in 1 .. Len(E) : \E k \in 1 .. Len(E[e].rows) :
                                  p = from[e] + k /\ i = cell[e]

LEMMA EpisodesDealt ==
  ASSUME NEW n \in Nat \ {0}, NEW E \in Seq(Shots)
  PROVE  \E from, cell : Dealt(Plan(E, n), E, n, from, cell)
<1> DEFINE l == Len(E)
           grids == (l + n - 1) \div n
           OfGrid(g) == SubSeq(E, (g - 1) * n + 1, Min({g * n, l}))
           maxFrames(g) == Max({Len(OfGrid(g)[e].rows) : e \in DOMAIN OfGrid(g)} \cup {0})
           Job(g, k) ==
              [i \in 1 .. n |->
                  IF i <= Len(OfGrid(g)) /\ k <= Len(OfGrid(g)[i].rows)
                  THEN [num |-> OfGrid(g)[i].num, row |-> OfGrid(g)[i].rows[k]]
                  ELSE Blank]
           strips == [g \in 1 .. grids |-> [k \in 1 .. maxFrames(g) |-> Job(g, k)]]
           first(g) == (g - 1) * n
           last(g) == Min({g * n, l})
           grid(e) == (e - 1) \div n + 1
           place(e) == ((e - 1) % n) + 1
<1>1. Plan(E, n) = FlattenSeq(strips)
  BY DEF Plan
<1>2. /\ l \in Nat /\ grids \in Nat
      /\ \A g \in 1 .. grids : first(g) \in Nat /\ g * n \in Nat /\ first(g) < l
                               /\ g * n = first(g) + n
      /\ \A e \in 1 .. l : /\ grid(e) \in 1 .. grids /\ place(e) \in 1 .. n
                           /\ e = (grid(e) - 1) * n + place(e)
  <2>1. l \in Nat
    OBVIOUS
  <2>2. /\ grids \in Nat
        /\ \A g \in 1 .. grids : (g - 1) * n \in Nat /\ g * n \in Nat /\ (g - 1) * n < l
                                 /\ g * n = (g - 1) * n + n
        /\ \A e \in 1 .. l : /\ (e - 1) \div n + 1 \in 1 .. grids
                             /\ ((e - 1) % n) + 1 \in 1 .. n
                             /\ e = ((e - 1) \div n) * n + (((e - 1) % n) + 1)
    <3> HIDE DEF l
    <3> QED BY <2>1, GridFacts
  <2>3. ASSUME NEW e \in 1 .. l PROVE e = (grid(e) - 1) * n + place(e)
    <3> DEFINE q == (e - 1) \div n
    <3>1. e = q * n + place(e) /\ q + 1 \in 1 .. grids
      BY <2>2
    <3>2. q \in Int /\ q + 1 - 1 = q
      BY <2>1, DivMod
    <3> HIDE DEF q
    <3>3. e = (q + 1 - 1) * n + place(e)
      BY <3>1, <3>2
    <3> QED BY <3>3 DEF q
  <2> QED BY <2>1, <2>2, <2>3
<1>3. ASSUME NEW g \in 1 .. grids
      PROVE  /\ last(g) \in Nat /\ first(g) < last(g) /\ last(g) <= l /\ last(g) <= first(g) + n
             /\ last(g) = l \/ last(g) = first(g) + n
  <2> DEFINE a == g * n
             f == first(g)
             S == {a, l}
  <2>1. a \in Nat /\ l \in Nat /\ f \in Nat /\ f < l /\ a = f + n
    BY <1>2
  <2> HIDE DEF a, f, l
  <2>2. S \in SUBSET Nat /\ S # {}
    BY <2>1
  <2>3. Min(S) \in S /\ Min(S) <= a /\ Min(S) <= l
    BY <2>2, MinIsLeast
  <2>4. /\ Min(S) \in Nat /\ f < Min(S) /\ Min(S) <= l /\ Min(S) <= f + n
        /\ Min(S) = l \/ Min(S) = f + n
    BY <2>1, <2>3
  <2> QED BY <2>4 DEF a, f, l
<1> DEFINE SH == Shots
<1>4. E \in Seq(SH) /\ \A i \in 1 .. l : E[i] \in SH
  OBVIOUS
<1>5. \A s \in SH : s.num \in Nat /\ s.rows \in Seq(Rows) /\ Len(s.rows) \in Nat
                    /\ \A k \in 1 .. Len(s.rows) : s.rows[k] \in Rows
  BY DEF Shots
<1> HIDE DEF grids, first, last, grid, place, l, SH
<1>6. ASSUME NEW g \in 1 .. grids
      PROVE  /\ OfGrid(g) \in Seq(SH) /\ Len(OfGrid(g)) = last(g) - first(g)
             /\ DOMAIN OfGrid(g) = 1 .. Len(OfGrid(g))
             /\ \A i \in 1 .. Len(OfGrid(g)) : /\ first(g) + i \in 1 .. l
                                               /\ OfGrid(g)[i] = E[first(g) + i]
  <2> DEFINE from == first(g) + 1
             to == last(g)
             s == SubSeq(E, from, to)
  <2>1. from \in Int /\ to \in Int /\ first(g) \in Nat /\ from <= to /\ to <= l /\ l \in Nat
    BY <1>2, <1>3
  <2>2. \A i \in from .. to : E[i] \in SH
    BY <1>2, <1>4, <2>1
  <2>3. /\ s \in Seq(SH) /\ Len(s) = to - from + 1
        /\ \A i \in 1 .. to - from + 1 : s[i] = E[from + i - 1]
    <3> HIDE DEF from, to
    <3> QED BY <2>1, <2>2, SubSeqProperties
  <2>4. OfGrid(g) = s
    BY DEF first, last, l
  <2> HIDE DEF s, OfGrid
  <2>5. DOMAIN s = 1 .. Len(s)
    BY <2>3
  <2>6. ASSUME NEW i \in 1 .. Len(s)
        PROVE  first(g) + i \in 1 .. l /\ s[i] = E[first(g) + i]
    <3>1. from + i - 1 = first(g) + i /\ first(g) + i \in 1 .. l /\ i \in 1 .. to - from + 1
      BY <2>1, <2>3
    <3> HIDE DEF from, to
    <3>2. s[i] = E[from + i - 1]
      BY <2>3, <3>1
    <3> QED BY <3>1, <3>2
  <2>7. Len(s) = last(g) - first(g)
    BY <2>1, <2>3
  <2> QED BY <2>3, <2>4, <2>5, <2>6, <2>7
<1> HIDE DEF OfGrid
<1>7. PICK b \in Nat : \A e \in 1 .. l : Len(E[e].rows) <= b
  BY LongestRows DEF l
<1>8. ASSUME NEW g \in 1 .. grids
      PROVE  /\ maxFrames(g) \in Nat
             /\ \A i \in 1 .. Len(OfGrid(g)) : Len(OfGrid(g)[i].rows) <= maxFrames(g)
  <2> DEFINE S == {Len(OfGrid(g)[e].rows) : e \in DOMAIN OfGrid(g)} \cup {0}
  <2>1. \A e \in DOMAIN OfGrid(g) : Len(OfGrid(g)[e].rows) \in Nat /\ Len(OfGrid(g)[e].rows) <= b
    BY <1>4, <1>5, <1>6, <1>7
  <2>2. S \in SUBSET Nat /\ S # {} /\ \A y \in S : y <= b
    BY <2>1
  <2>3. \A i \in 1 .. Len(OfGrid(g)) : Len(OfGrid(g)[i].rows) \in S
    BY <1>6
  <2>4. Max(S) \in S /\ \A y \in S : Max(S) >= y
    <3> HIDE DEF S
    <3> QED BY <2>2, MaxIsGreatest
  <2>5. maxFrames(g) = Max(S)
    OBVIOUS
  <2> HIDE DEF S, maxFrames
  <2> QED BY <2>2, <2>3, <2>4, <2>5
<1> HIDE DEF maxFrames
<1> DEFINE C == Cells
           F == [1 .. n -> C]
<1>9. Blank \in C /\ \A s \in SH : \A k \in 1 .. Len(s.rows) : [num |-> s.num, row |-> s.rows[k]] \in C
  BY <1>5 DEF Cells, Blank
<1> HIDE DEF C
<1>10. ASSUME NEW g \in 1 .. grids, NEW k \in 1 .. maxFrames(g)
       PROVE  /\ Job(g, k) \in F
              /\ \A i \in 1 .. n :
                    Job(g, k)[i] = IF i <= Len(OfGrid(g)) /\ k <= Len(OfGrid(g)[i].rows)
                                   THEN [num |-> OfGrid(g)[i].num, row |-> OfGrid(g)[i].rows[k]]
                                   ELSE Blank
  <2>1. k \in Nat /\ 1 <= k /\ Len(OfGrid(g)) \in Nat
    BY <1>6, <1>8
  <2>2. ASSUME NEW i \in 1 .. n, i <= Len(OfGrid(g)), k <= Len(OfGrid(g)[i].rows)
        PROVE  [num |-> OfGrid(g)[i].num, row |-> OfGrid(g)[i].rows[k]] \in C
    <3>1. i \in 1 .. Len(OfGrid(g))
      BY <2>1, <2>2
    <3>2. OfGrid(g)[i] \in SH
      BY <1>6, <3>1
    <3>3. k \in 1 .. Len(OfGrid(g)[i].rows)
      BY <1>5, <2>1, <2>2, <3>2
    <3> QED BY <1>9, <3>2, <3>3
  <2> QED BY <1>9, <2>2
<1> HIDE DEF Job
<1>11. /\ strips \in Seq(Seq(F)) /\ Len(strips) = grids
       /\ \A g \in 1 .. grids : /\ Len(strips[g]) = maxFrames(g)
                                /\ \A k \in 1 .. maxFrames(g) : strips[g][k] = Job(g, k)
  <2> HIDE DEF F
  <2>1. \A g \in 1 .. grids : maxFrames(g) \in Nat /\ \A k \in 1 .. maxFrames(g) : Job(g, k) \in F
    BY <1>8, <1>10
  <2>2. \A g \in 1 .. grids : [k \in 1 .. maxFrames(g) |-> Job(g, k)] \in Seq(F)
    BY <2>1
  <2> DEFINE Q == Seq(F)
  <2>3. strips \in [1 .. grids -> Q] /\ \A g \in 1 .. grids : strips[g] = [k \in 1 .. maxFrames(g) |-> Job(g, k)]
    BY <2>2
  <2>4. \A g \in 1 .. grids : Len([k \in 1 .. maxFrames(g) |-> Job(g, k)]) = maxFrames(g)
    BY <2>1
  <2> HIDE DEF Q, strips
  <2>5. strips \in Seq(Q) /\ Len(strips) = grids
    BY <1>2, <2>3
  <2>6. \A g \in 1 .. grids : Len(strips[g]) = maxFrames(g)
    BY <2>3, <2>4
  <2>7. \A g \in 1 .. grids : \A k \in 1 .. maxFrames(g) : strips[g][k] = Job(g, k)
    BY <2>3
  <2> QED BY <2>5, <2>6, <2>7 DEF Q
<1> HIDE DEF F, strips
<1>12. PICK off : Offsets(off, strips)
  BY <1>11, OffsetsExist
<1> DEFINE all == FlattenSeq(strips)
           from == [e \in 1 .. l |-> off[grid(e) - 1]]
           cell == [e \in 1 .. l |-> place(e)]
<1>13. all \in Seq(F) /\ Flat(all, off, strips, grids)
  <2>1. all \in Seq(F) /\ Flat(all, off, strips, Len(strips))
    <3> HIDE DEF all
    <3> QED BY <1>11, <1>12, FlattenFacts DEF all
  <2> QED BY <1>11, <2>1
<1> HIDE DEF all
<1>14. ASSUME NEW e \in 1 .. l
       PROVE  /\ place(e) \in 1 .. Len(OfGrid(grid(e))) /\ OfGrid(grid(e))[place(e)] = E[e]
  <2> DEFINE g == grid(e)
             i == place(e)
  <2>1. g \in 1 .. grids /\ i \in 1 .. n /\ e = first(g) + i
    BY <1>2 DEF first
  <2> HIDE DEF g, i
  <2>2. /\ last(g) \in Nat /\ (last(g) = l \/ last(g) = first(g) + n)
        /\ first(g) \in Nat /\ l \in Nat
    BY <1>2, <1>3, <2>1
  <2>3. i \in 1 .. last(g) - first(g)
    BY <2>1, <2>2
  <2>4. i \in 1 .. Len(OfGrid(g)) /\ OfGrid(g)[i] = E[first(g) + i]
    BY <1>6, <2>1, <2>3
  <2> QED BY <2>1, <2>4 DEF g, i
<1>15. ASSUME NEW e \in 1 .. l, NEW k \in 1 .. Len(E[e].rows)
       PROVE  /\ from[e] + k \in 1 .. Len(all)
              /\ all[from[e] + k][cell[e]] = [num |-> E[e].num, row |-> E[e].rows[k]]
  <2> DEFINE g == grid(e)
             i == place(e)
  <2>1. g \in 1 .. grids /\ i \in 1 .. n
    BY <1>2
  <2>2. i \in 1 .. Len(OfGrid(g)) /\ OfGrid(g)[i] = E[e]
    BY <1>14
  <2>3. from[e] = off[g - 1] /\ cell[e] = i
    OBVIOUS
  <2> HIDE DEF g, i, from, cell
  <2>4. k \in 1 .. maxFrames(g) /\ k <= Len(E[e].rows) /\ i <= Len(OfGrid(g))
    <3>1. Len(E[e].rows) <= maxFrames(g) /\ maxFrames(g) \in Nat /\ Len(E[e].rows) \in Nat
      BY <1>4, <1>5, <1>8, <2>1, <2>2
    <3> QED BY <1>6, <2>1, <2>2, <3>1
  <2>5. Job(g, k)[i] = [num |-> E[e].num, row |-> E[e].rows[k]]
    BY <1>10, <2>1, <2>2, <2>4
  <2>6. off[g - 1] + k \in 1 .. Len(all) /\ all[off[g - 1] + k] = strips[g][k]
    BY <1>11, <1>13, <2>1, <2>4 DEF Flat
  <2>7. strips[g][k] = Job(g, k)
    BY <1>11, <2>1, <2>4
  <2> QED BY <2>3, <2>5, <2>6, <2>7
<1>16. ASSUME NEW p \in 1 .. Len(all), NEW i \in 1 .. n, all[p][i] # Blank
       PROVE  \E e \in 1 .. l : \E k \in 1 .. Len(E[e].rows) : p = from[e] + k /\ i = cell[e]
  <2>1. PICK g \in 1 .. grids : \E k \in 1 .. Len(strips[g]) : p = off[g - 1] + k
    BY <1>13 DEF Flat
  <2>2. PICK k \in 1 .. maxFrames(g) : p = off[g - 1] + k
    BY <1>11, <2>1
  <2>3. all[p] = Job(g, k)
    <3>1. k \in 1 .. Len(strips[g]) /\ strips[g][k] = Job(g, k)
      BY <1>11
    <3> QED BY <1>13, <2>2, <3>1 DEF Flat
  <2>4. i <= Len(OfGrid(g)) /\ k <= Len(OfGrid(g)[i].rows)
    <3>1. Job(g, k)[i] = IF i <= Len(OfGrid(g)) /\ k <= Len(OfGrid(g)[i].rows)
                         THEN [num |-> OfGrid(g)[i].num, row |-> OfGrid(g)[i].rows[k]]
                         ELSE Blank
      BY <1>10
    <3> QED BY <1>16, <2>3, <3>1
  <2>5. i \in 1 .. Len(OfGrid(g))
    BY <1>6, <2>4
  <2> DEFINE e == first(g) + i
  <2>6. e \in 1 .. l /\ OfGrid(g)[i] = E[e]
    BY <1>6, <2>5
  <2>7. k \in 1 .. Len(E[e].rows)
    <3>1. k \in Nat /\ 1 <= k
      BY <1>8
    <3>2. Len(E[e].rows) \in Nat
      BY <1>4, <1>5, <2>6
    <3> QED BY <2>4, <2>6, <3>1, <3>2
  <2>8. grid(e) = g /\ place(e) = i
    <3> DEFINE h == grid(e) - 1
               j == place(e)
               f == g - 1
    <3>1. e = f * n + i
      BY DEF first
    <3> HIDE DEF e
    <3>2. grid(e) \in 1 .. grids /\ j \in 1 .. n /\ e = h * n + j
      BY <1>2, <2>6
    <3>3. h \in Nat /\ f \in Nat /\ grid(e) = h + 1 /\ g = f + 1
      <4>1. grids \in Nat /\ grid(e) \in 1 .. grids
        BY <1>2, <3>2
      <4> QED BY <4>1
    <3> HIDE DEF h, j, f
    <3>4. f = h /\ i = j
      BY <3>1, <3>2, <3>3, OneWay
    <3> QED BY <3>3, <3>4 DEF j
  <2>9. from[e] = off[g - 1] /\ cell[e] = i
    BY <2>6, <2>8
  <2> HIDE DEF e, from, cell
  <2> QED BY <2>2, <2>6, <2>7, <2>9
<1>17. from \in [1 .. l -> Nat] /\ cell \in [1 .. l -> 1 .. n]
  <2>1. \A e \in 1 .. l : grid(e) - 1 \in 0 .. Len(strips)
    <3>1. \A g \in 1 .. grids : g - 1 \in 0 .. grids
      BY <1>2
    <3>2. \A e \in 1 .. l : grid(e) \in 1 .. grids
      BY <1>2
    <3> QED BY <1>11, <3>1, <3>2
  <2>2. \A e \in 1 .. l : off[grid(e) - 1] \in Nat
    BY <1>12, <2>1 DEF Offsets
  <2> QED BY <1>2, <2>2
<1> HIDE DEF from, cell
<1>18. Dealt(all, E, n, from, cell)
  BY <1>13, <1>15, <1>16, <1>17 DEF Dealt, F, C, l
<1> QED BY <1>1, <1>18 DEF all
-----------------------------------------------------------------------------

ToShowIn(groups) == UNION {{g} \X DOMAIN groups[g] : g \in PlayableIn(groups)}
ShownIn(all, n) == {at \in (1 .. Len(all)) \X (1 .. n) : all[at[1]][at[2]] # Blank}

(* What is known of the frames of the video, for the episodes of the file. *)
LEMMA PlacesOfEpisodes ==
  ASSUME NEW groups, Episodic(groups), NEW n \in Nat \ {0}, NEW E, Listed(E, groups, Len(groups)),
         NEW all, NEW from, NEW cell, Dealt(all, E, n, from, cell), NEW g \in PlayableIn(groups)
  PROVE  LET e == Rank(PlayableIn(groups), g)
         IN /\ g \in 1 .. Len(groups) /\ DOMAIN groups[g] = 1 .. Len(groups[g])
            /\ groups[g] # <<>> /\ Len(groups[g]) \in Nat
            /\ e \in 1 .. Len(E) /\ from[e] \in Nat /\ cell[e] \in 1 .. n
            /\ \A k \in 1 .. Len(groups[g]) :
                  /\ from[e] + k \in 1 .. Len(all)
                  /\ all[from[e] + k][cell[e]] = [num |-> e, row |-> groups[g][k]]
<1> DEFINE P == PlayableIn(groups)
           e == Rank(P, g)
<1>1. P \in SUBSET (1 .. Len(groups)) /\ Len(groups) \in Nat
  <2>1. DOMAIN groups = 1 .. Len(groups) /\ Len(groups) \in Nat
    BY DEF Episodic
  <2> QED BY <2>1 DEF PlayableIn
<1>2. g \in 1 .. Len(groups)
  BY <1>1
<1>3. groups[g] \in Seq(Rows) /\ groups[g] # <<>>
  BY <1>2 DEF Episodic
<1>4. DOMAIN groups[g] = 1 .. Len(groups[g]) /\ Len(groups[g]) \in Nat
  BY <1>3
<1>5. Len(E) = Rank(P, Len(groups)) /\ (g <= Len(groups) => E[e] = [num |-> e, rows |-> groups[g]])
  BY DEF Listed
<1>6. g <= Len(groups) /\ g - 1 \in 0 .. Len(groups) /\ g \in 0 .. Len(groups)
      /\ Len(groups) \in 0 .. Len(groups)
  BY <1>1, <1>2
<1> HIDE DEF P
<1>7. e \in 1 .. Len(E)
  <2>1. /\ Rank(P, g - 1) \in Nat /\ e = Rank(P, g - 1) + 1
        /\ e <= Rank(P, Len(groups)) /\ Rank(P, Len(groups)) \in Nat
    BY <1>1, <1>2, <1>6, RankFacts DEF P
  <2> QED BY <1>5, <2>1
<1> HIDE DEF e
<1>8. E[e].num = e /\ E[e].rows = groups[g]
  BY <1>5, <1>6
<1>9. from[e] \in Nat /\ cell[e] \in 1 .. n
  BY <1>7 DEF Dealt
<1>10. ASSUME NEW k \in 1 .. Len(groups[g])
       PROVE  /\ from[e] + k \in 1 .. Len(all)
              /\ all[from[e] + k][cell[e]] = [num |-> e, row |-> groups[g][k]]
  <2>1. k \in 1 .. Len(E[e].rows)
    BY <1>8
  <2>2. /\ from[e] + k \in 1 .. Len(all)
        /\ all[from[e] + k][cell[e]] = [num |-> E[e].num, row |-> E[e].rows[k]]
    BY <1>7, <2>1 DEF Dealt
  <2> QED BY <1>8, <2>2
<1> QED BY <1>2, <1>3, <1>4, <1>7, <1>9, <1>10 DEF e, P

(* A cell of a frame for each frame of an episode, and no other is used.   *)
LEMMA ShownOnce ==
  ASSUME NEW groups, Episodic(groups), NEW n \in Nat \ {0}, NEW E, Listed(E, groups, Len(groups)),
         NEW all, NEW from, NEW cell, Dealt(all, E, n, from, cell)
  PROVE  Cardinality(ShownIn(all, n)) = Cardinality(ToShowIn(groups))
<1> DEFINE P == PlayableIn(groups)
           rank(g) == Rank(P, g)
           f == [x \in ToShowIn(groups) |-> <<from[rank(x[1])] + x[2], cell[rank(x[1])]>>]
<1>1. ASSUME NEW g \in P
      PROVE  /\ g \in 1 .. Len(groups) /\ DOMAIN groups[g] = 1 .. Len(groups[g])
             /\ Len(groups[g]) \in Nat
             /\ rank(g) \in 1 .. Len(E) /\ from[rank(g)] \in Nat /\ cell[rank(g)] \in 1 .. n
             /\ \A k \in 1 .. Len(groups[g]) :
                   /\ from[rank(g)] + k \in 1 .. Len(all)
                   /\ all[from[rank(g)] + k][cell[rank(g)]]
                        = [num |-> rank(g), row |-> groups[g][k]]
  BY PlacesOfEpisodes
<1>2. P \in SUBSET (1 .. Len(groups)) /\ Len(groups) \in Nat
  BY <1>1 DEF Episodic
<1>3. \A x \in ToShowIn(groups) : /\ x[1] \in P /\ x[2] \in 1 .. Len(groups[x[1]])
                                  /\ x = <<x[1], x[2]>>
  <2> SUFFICES ASSUME NEW x \in ToShowIn(groups)
               PROVE  x[1] \in P /\ x[2] \in 1 .. Len(groups[x[1]]) /\ x = <<x[1], x[2]>>
    OBVIOUS
  <2>1. PICK g \in P : x \in {g} \X DOMAIN groups[g]
    BY DEF ToShowIn
  <2>2. DOMAIN groups[g] = 1 .. Len(groups[g])
    BY <1>1
  <2> HIDE DEF P
  <2> QED BY <2>1, <2>2
<1>4. \A g \in P : \A k \in 1 .. Len(groups[g]) : <<g, k>> \in ToShowIn(groups)
  <2> SUFFICES ASSUME NEW g \in P, NEW k \in 1 .. Len(groups[g]) PROVE <<g, k>> \in ToShowIn(groups)
    OBVIOUS
  <2>1. k \in DOMAIN groups[g]
    BY <1>1
  <2>2. <<g, k>> \in {g} \X DOMAIN groups[g]
    BY <2>1
  <2> QED BY <2>2 DEF ToShowIn
<1>5. \A g, h \in P : rank(g) = rank(h) => g = h
  <2> SUFFICES ASSUME NEW g \in P, NEW h \in P, rank(g) = rank(h) PROVE g = h
    OBVIOUS
  <2>1. g \in 0 .. Len(groups) /\ h \in 0 .. Len(groups)
    BY <1>2
  <2>2. rank(g) \in Nat /\ rank(h) \in Nat
    BY <1>1
  <2>3. ~(g < h) /\ ~(h < g)
    <3> HIDE DEF P
    <3>1. (g < h => rank(g) < rank(h)) /\ (h < g => rank(h) < rank(g))
      BY <1>2, <2>1, RankFacts
    <3> HIDE DEF rank
    <3> QED BY <2>2, <3>1
  <2> QED BY <2>1, <2>3
<1> HIDE DEF rank, P
<1>6. ASSUME NEW x \in ToShowIn(groups)
      PROVE  /\ f[x] \in ShownIn(all, n)
             /\ f[x] = <<from[rank(x[1])] + x[2], cell[rank(x[1])]>>
             /\ all[f[x][1]][f[x][2]].num = rank(x[1])
  <2>1. x[1] \in P /\ x[2] \in 1 .. Len(groups[x[1]])
    BY <1>3
  <2> DEFINE p == from[rank(x[1])] + x[2]
             i == cell[rank(x[1])]
             c == all[p][i]
  <2>2. p \in 1 .. Len(all) /\ i \in 1 .. n /\ c = [num |-> rank(x[1]), row |-> groups[x[1]][x[2]]]
    BY <1>1, <2>1
  <2>3. f[x] = <<p, i>>
    OBVIOUS
  <2>4. rank(x[1]) \in Nat /\ rank(x[1]) # 0
    BY <1>1, <2>1
  <2> HIDE DEF p, i, f
  <2>5. c.num = rank(x[1])
    BY <2>2
  <2>6. c # Blank
    BY <2>4, <2>5 DEF Blank
  <2> HIDE DEF c
  <2>7. <<p, i>> \in ShownIn(all, n)
    BY <2>2, <2>6 DEF ShownIn, c
  <2> QED BY <2>3, <2>5, <2>7 DEF p, i, c
<1>7. f \in [ToShowIn(groups) -> ShownIn(all, n)]
  BY <1>6
<1>8. ASSUME NEW x \in ToShowIn(groups), NEW y \in ToShowIn(groups), f[x] = f[y] PROVE x = y
  <2>1. x[1] = y[1]
    BY <1>3, <1>5, <1>6, <1>8
  <2>2. from[rank(x[1])] + x[2] = from[rank(x[1])] + y[2]
    BY <1>6, <1>8, <2>1
  <2>3. x[2] \in 1 .. Len(groups[x[1]]) /\ y[2] \in 1 .. Len(groups[x[1]])
        /\ from[rank(x[1])] \in Nat /\ Len(groups[x[1]]) \in Nat
    BY <1>1, <1>3, <2>1
  <2>4. x[2] = y[2]
    BY <2>2, <2>3
  <2> QED BY <1>3, <2>1, <2>4
<1>9. ASSUME NEW at \in ShownIn(all, n) PROVE \E x \in ToShowIn(groups) : f[x] = at
  <2>1. at[1] \in 1 .. Len(all) /\ at[2] \in 1 .. n /\ all[at[1]][at[2]] # Blank /\ at = <<at[1], at[2]>>
    BY DEF ShownIn
  <2>2. PICK e \in 1 .. Len(E) : \E k \in 1 .. Len(E[e].rows) : at[1] = from[e] + k /\ at[2] = cell[e]
    BY <2>1 DEF Dealt
  <2>3. PICK k \in 1 .. Len(E[e].rows) : at[1] = from[e] + k /\ at[2] = cell[e]
    BY <2>2
  <2>4. PICK g \in P : rank(g) = e
    <3>1. Len(E) = Rank(P, Len(groups))
      BY DEF Listed, P
    <3>2. Len(groups) \in 0 .. Len(groups) /\ e \in 1 .. Rank(P, Len(groups))
      BY <1>2, <3>1
    <3>3. \E h \in P : h <= Len(groups) /\ Rank(P, h) = e
      BY <1>2, <3>2, RankReached
    <3> QED BY <3>3 DEF rank
  <2>5. E[e].rows = groups[g]
    <3>1. g <= Len(groups)
      BY <1>2
    <3>2. E[rank(g)] = [num |-> rank(g), rows |-> groups[g]]
      BY <3>1 DEF Listed, P, rank
    <3> QED BY <2>4, <3>2
  <2>6. <<g, k>> \in ToShowIn(groups)
    BY <1>4, <2>3, <2>5
  <2>7. f[<<g, k>>] = at
    BY <2>1, <2>3, <2>4, <2>6
  <2> QED BY <2>6, <2>7
<1> HIDE DEF f
<1>10. ExistsBijection(ToShowIn(groups), ShownIn(all, n))
  <2>1. f \in Injection(ToShowIn(groups), ShownIn(all, n))
    BY <1>7, <1>8 DEF Injection, IsInjective
  <2>2. f \in Surjection(ToShowIn(groups), ShownIn(all, n))
    BY <1>7, <1>9 DEF Surjection
  <2> QED BY <2>1, <2>2 DEF ExistsBijection, Bijection
<1>11. IsFiniteSet(ShownIn(all, n))
  <2> DEFINE A == 1 .. Len(all)
             B == 1 .. n
  <2>1. Len(all) \in Nat
    BY DEF Dealt
  <2>2. IsFiniteSet(A) /\ IsFiniteSet(B)
    BY <2>1, FS_Interval
  <2> HIDE DEF A, B
  <2>3. IsFiniteSet(A \X B)
    BY <2>2, FS_Product
  <2>4. ShownIn(all, n) \subseteq A \X B
    BY DEF ShownIn, A, B
  <2> QED BY <2>3, <2>4, FS_Subset
<1>12. ExistsBijection(ShownIn(all, n), ToShowIn(groups))
  BY <1>10, Fun_ExistsBijSymmetric
<1> QED BY <1>11, <1>12, FS_Bijection
-----------------------------------------------------------------------------

(***************************************************************************)
(* The merged file is well typed, and dataset-mp4 plans its frames from    *)
(* the file as it stays.                                                   *)
(***************************************************************************)

MergedIsAFile == merged \in Files

LEMMA MergedInit == Init => MergedIsAFile
BY GeneratorAssumption DEF Init, GeneratorInit, recording, MergedIsAFile

LEMMA MergedNext == FilesInv' /\ MergedIsAFile /\ [Next]_vars => MergedIsAFile'
<1> SUFFICES ASSUME FilesInv', [Next]_vars, merged' # merged
             PROVE  merged' \in Files
  BY DEF MergedIsAFile
<1>1. CreateMerged \/ WriteMerged
  <2>1. ASSUME CreateFile \/ CreateFileFails \/ WriteFile \/ WriteFileFails PROVE merged' = merged
    BY <2>1 DEF CreateFile, CreateFileFails, WriteFile, WriteFileFails, CreatePart, WritePart
  <2>2. ASSUME ProcessFrame PROVE merged' = merged
    BY <2>2 DEF ProcessFrame, IgnoreFrame, WaitForCommand, StartEpisode, ContinueEpisode, EndEpisode,
       Take
  <2>3. ASSUME Launch \/ FindBounds \/ BoundsFail \/ OpenStream \/ StreamStep \/ StreamFails
               \/ Finalize \/ NothingToMerge \/ MergeFails \/ OpenParts \/ CleanupEnds
        PROVE  merged' = merged
    BY <2>3 DEF Launch, FindBounds, BoundsFail, OpenStream, StreamStep, StreamFails, Finalize,
       NothingToMerge, MergeFails, OpenParts, CleanupEnds, Succeed, detectorVars
  <2>4. ASSUME RemoveFile \/ Quit \/ Kill PROVE merged' = merged
    BY <2>4 DEF RemoveFile, RemovePart, Quit, Kill, Stop, detectorVars
  <2>5. ASSUME UNCHANGED vars \/ MakeVideo \/ Video PROVE merged' = merged
    BY <2>5 DEF vars, MakeVideo, Video, generatorVars, detectorVars
  <2> QED BY <2>1, <2>2, <2>3, <2>4, <2>5
          DEF Next, Generate, GeneratorNext, Worker, CreateOutput, CopyRows
<1>2. CASE CreateMerged
  BY <1>2 DEF CreateMerged, Torn, Files
<1>3. CASE WriteMerged
  <2> DEFINE n == Cardinality(ToMerge)
             g == [i \in 1 .. n |-> parts[i - 1].groups[1]]
             Q == Seq(Rows)
  <2>1. merged' = [whole |-> TRUE, groups |-> g]
    BY <1>3 DEF WriteMerged, Whole, Merge
  <2>2. MergedIsOK'
    BY DEF FilesInv
  <2>3. /\ DOMAIN g = 1 .. Len(g) /\ Len(g) \in Nat
        /\ \A k \in 1 .. Len(g) : g[k] \in Q
    BY <2>1, <2>2 DEF MergedIsOK, IsEpisode
  <2>4. g = [k \in DOMAIN g |-> g[k]]
    OBVIOUS
  <2> HIDE DEF g, Q
  <2>5. g \in [1 .. Len(g) -> Q]
    BY <2>3, <2>4
  <2>6. g \in Seq(Q)
    BY <2>3, <2>5
  <2> QED BY <2>1, <2>6 DEF Files, Q
<1> QED BY <1>1, <1>2, <1>3

(* The groups of a file that is in order are what collectEpisodes takes    *)
(* apart: one label each, and another one after it.                        *)
LEMMA MergedIsEpisodic ==
  ASSUME MergedIsOK, MergedIsAFile
  PROVE  Episodic(merged.groups)
<1> DEFINE groups == merged.groups
           n == Len(groups)
<1>1. groups \in Seq(Seq(Rows)) /\ n \in Nat /\ DOMAIN groups = 1 .. n
  BY DEF MergedIsAFile, Files, MergedIsOK
<1>2. ASSUME NEW g \in 1 .. n
      PROVE  /\ groups[g] \in Seq(Rows) /\ groups[g] # <<>>
             /\ \A k \in 1 .. Len(groups[g]) - 1 : groups[g][k + 1].episode = groups[g][k].episode
  BY <1>1 DEF MergedIsOK, IsEpisode, Smooth
<1>3. ASSUME NEW g \in 1 .. n, NEW k \in 1 .. Len(groups[g])
      PROVE  groups[g][k].episode = groups[g][1].episode
  <2> DEFINE rows == groups[g]
             m == Len(rows)
             T == {j \in 0 .. m : j # 0 => rows[j].episode = rows[1].episode}
  <2>1. m \in Nat /\ \A j \in 1 .. m - 1 : rows[j + 1].episode = rows[j].episode
    BY <1>2
  <2> HIDE DEF groups, rows, m
  <2>2. 0 \in T
    BY <2>1
  <2>3. ASSUME NEW j \in 1 .. m, j - 1 \in T PROVE j \in T
    <3>1. CASE j = 1
      BY <2>1, <3>1
    <3>2. CASE j # 1
      <4> DEFINE i == j - 1
      <4>1. i \in 1 .. m - 1 /\ i # 0 /\ i + 1 = j /\ j \in 0 .. m
        BY <2>1, <3>2
      <4>2. rows[i].episode = rows[1].episode
        BY <2>3, <4>1
      <4> HIDE DEF i
      <4>3. rows[i + 1].episode = rows[i].episode
        BY <2>1, <4>1
      <4> QED BY <4>1, <4>2, <4>3
    <3> QED BY <3>1, <3>2
  <2> HIDE DEF T
  <2>4. 0 .. m \subseteq T
    BY <2>1, <2>2, <2>3, UpTo
  <2>5. k \in T /\ k # 0
    BY <2>1, <2>4 DEF rows, m, groups
  <2> QED BY <2>5 DEF T, rows, groups
<1>4. ASSUME NEW g \in 2 .. n PROVE groups[g - 1][1].episode # groups[g][1].episode
  <2> DEFINE f == g - 1
  <2>1. f \in 1 .. n /\ g \in 1 .. n /\ f < g
    BY <1>1
  <2> HIDE DEF f
  <2>2. groups[f][1].episode[2] < groups[g][1].episode[2]
    BY <1>1, <2>1 DEF MergedIsOK, OneRun
  <2>3. groups[f][1].episode[2] \in Nat /\ groups[g][1].episode[2] \in Nat
    BY <2>1, MergedFacts
  <2>4. groups[f][1].episode[2] # groups[g][1].episode[2]
    BY <2>2, <2>3
  <2>5. groups[f][1].episode # groups[g][1].episode
    BY <2>4
  <2> QED BY <2>5 DEF f
<1> QED BY <1>1, <1>2, <1>3, <1>4 DEF Episodic

Planned == cells \in GridCells /\ plan = Plan(CollectEpisodes(FlattenSeq(merged.groups)), cells)
PlanInv ==
    /\ stage = "idle" => plan = <<>>
    /\ (plan = <<>> /\ stage = "failed") \/ stage = "idle" \/ Planned
    /\ stage = "done" /\ collector.errors = 0 => video = 1 .. Len(plan)

LEMMA PlanInit == Init => PlanInv
BY DEF Init, RendererInit, PlanInv

LEMMA PlanNext == FramesInv /\ PlanInv /\ [Next]_vars => PlanInv'
<1> SUFFICES ASSUME FramesInv, PlanInv, [Next]_vars PROVE PlanInv'
  OBVIOUS
<1>1. collector \in [rendered : Nat, errors : Nat, done : BOOLEAN]
  BY DEF FramesInv, FrameTypes
<1>2. CASE Generate
  BY <1>2 DEF Generate, rendererVars, PlanInv
<1>3. CASE MakeVideo
  <2>1. stage = "idle" /\ cells' \in GridCells /\ merged' = merged
        /\ \/ /\ plan' = Plan(CollectEpisodes(FlattenSeq(merged.groups)), cells')
              /\ stage' = "send"
           \/ stage' = "failed" /\ plan' = plan
    BY <1>3 DEF MakeVideo, Open, generatorVars, detectorVars
  <2> QED BY <2>1 DEF PlanInv, Planned
<1>4. ASSUME merged' = merged, UNCHANGED <<cells, plan>>, stage # "idle" => stage' # "idle",
             stage = "idle" => stage' = "idle", stage' = "failed" \/ stage # "failed",
             stage' = "done" /\ collector'.errors = 0 => video' = 1 .. Len(plan)
      PROVE  PlanInv'
  BY <1>4 DEF PlanInv, Planned
<1>5. CASE UNCHANGED vars
  <2>1. UNCHANGED <<merged, cells, plan, stage, collector, video>>
    BY <1>5 DEF vars, generatorVars, detectorVars, rendererVars
  <2> QED BY <2>1 DEF PlanInv, Planned
<1>6. CASE Video
  <2>1. merged' = merged
    BY <1>6 DEF Video, generatorVars, detectorVars
  <2>2. CASE SendJob \/ CloseJobs \/ CloseResults \/ CloseService \/ RenderersEnd
    <3>1. /\ UNCHANGED <<cells, plan>> /\ stage \notin {"idle", "failed", "done"}
          /\ stage' \notin {"idle", "failed", "done"}
      BY <2>2 DEF SendJob, CloseJobs, CloseResults, CloseService, RenderersEnd, options
    <3> QED BY <1>4, <2>1, <3>1
  <2>3. CASE GenerateVideo
    <3>1. UNCHANGED <<cells, plan, collector>> /\ stage = "video" /\ stage' \in {"done", "failed"}
      BY <2>3 DEF GenerateVideo, options, pools
    <3>2. ASSUME stage' = "done", collector.errors = 0 PROVE video' = 1 .. Len(plan)
      <4>1. pngs = 1 .. Len(plan)
        BY <3>1, <3>2, DrawnFromInv DEF FramesAreDrawn
      <4> DEFINE starts == pngs \cap 1 .. 5
                 n == Len(plan)
      <4>2. starts # {} /\ video' = {m \in pngs : Min(starts) .. m \subseteq pngs}
        BY <2>3, <3>2 DEF GenerateVideo
      <4>3. n \in Nat
        BY <3>1 DEF FramesInv, FrameTypes, Stages, CollectorOver, ResultsOver, JobsOver
      <4> HIDE DEF n
      <4>4. n >= 1 /\ 1 \in starts /\ starts \in SUBSET Nat
        BY <4>1, <4>2, <4>3 DEF n
      <4>5. Min(starts) = 1
        <5>1. Min(starts) \in starts /\ Min(starts) <= 1
          BY <4>4, MinIsLeast
        <5> HIDE DEF starts
        <5>2. \A m \in starts : m \in Nat /\ 1 <= m
          BY <4>1 DEF starts, n
        <5> QED BY <5>1, <5>2
      <4>6. \A m \in 1 .. n : 1 .. m \subseteq 1 .. n
        BY <4>3
      <4> QED BY <4>1, <4>2, <4>5, <4>6 DEF n
    <3> QED BY <1>4, <2>1, <3>1, <3>2
  <2>4. ASSUME UNCHANGED <<cells, plan, stage, video>>, collector'.errors = 0 => collector.errors = 0
        PROVE  PlanInv'
    BY <2>1, <2>4 DEF PlanInv, Planned
  <2>5. CASE Collect
    <3>1. UNCHANGED <<cells, plan, stage, video>>
      BY <2>5 DEF Collect, CollectResult, CollectorEnds, notPools, options
    <3>2. collector'.errors = 0 => collector.errors = 0
      BY <1>1, <2>5 DEF Collect, CollectResult, CollectorEnds
    <3> QED BY <2>4, <3>1, <3>2
  <2>6. ASSUME NEW w \in Workers, Work(w) PROVE PlanInv'
    <3>1. UNCHANGED notWorkers
      BY <2>6 DEF Work, TakeJob, LeaveWorker, AskRender, Asked, Receive, Draw, Report
    <3> QED BY <2>4, <3>1 DEF notWorkers, options
  <2>7. ASSUME NEW t \in Renderers, Render(t) PROVE PlanInv'
    <3>1. UNCHANGED <<notPools, collector>>
      BY <2>7 DEF Render, TakeRequest, Answer, LeaveRenderer
    <3> QED BY <2>4, <3>1 DEF notPools, options
  <2> QED BY <1>6, <2>2, <2>3, <2>5, <2>6, <2>7 DEF Video, RendererNext, Main
<1> QED BY <1>2, <1>3, <1>5, <1>6 DEF Next

LEMMA PlaysFromInv ==
  ASSUME FilesInv, FramesInv, PlanInv, MergedIsAFile
  PROVE  VideoPlaysEveryEpisode
<1> SUFFICES ASSUME stage = "done", collector.errors = 0
             PROVE  /\ \A g \in Playable : \E f \in 0 .. sent, i \in 1 .. cells : Plays(g, f, i)
                    /\ Cardinality(Shown) = Cardinality(ToShow)
  BY DEF VideoPlaysEveryEpisode
<1> DEFINE groups == merged.groups
           E == CollectEpisodes(FlattenSeq(groups))
           P == PlayableIn(groups)
<1>1. Episodic(groups)
  BY MergedIsEpisodic DEF FilesInv
<1>2. Listed(E, groups, Len(groups))
  BY <1>1, EpisodesCollected
<1>3. cells \in Nat \ {0} /\ plan = Plan(E, cells) /\ video = 1 .. Len(plan)
  <2>1. cells \in GridCells /\ plan = Plan(E, cells) /\ video = 1 .. Len(plan)
    BY DEF PlanInv, Planned
  <2> QED BY <2>1, RendererAssumption
<1>4. sent = Len(plan) /\ sent \in Nat
  BY DEF FramesInv, FrameTypes, Stages, CollectorOver, ResultsOver, JobsOver
<1> HIDE DEF E
<1>5. PICK from, cell : Dealt(plan, E, cells, from, cell)
  <2>1. E \in Seq(Shots)
    BY <1>2 DEF Listed
  <2> QED BY <1>3, <2>1, EpisodesDealt
<1>6. Playable = P /\ ToShow = ToShowIn(groups) /\ \A g : Number(g) = Rank(P, g)
  BY DEF Playable, PlayableIn, ToShow, ToShowIn, Number, Rank
<1>7. Shown = ShownIn(plan, cells)
  BY <1>3 DEF Shown, ShownIn
<1>8. ASSUME NEW g \in Playable
      PROVE  \E f \in 0 .. sent, i \in 1 .. cells : Plays(g, f, i)
  <2> DEFINE e == Rank(P, g)
             f == from[e]
             i == cell[e]
  <2>1. /\ DOMAIN groups[g] = 1 .. Len(groups[g]) /\ groups[g] # <<>> /\ Len(groups[g]) \in Nat
        /\ g \in 1 .. Len(groups) /\ f \in Nat /\ i \in 1 .. cells
        /\ \A k \in 1 .. Len(groups[g]) :
              /\ f + k \in 1 .. Len(plan)
              /\ plan[f + k][i] = [num |-> e, row |-> groups[g][k]]
    <3>1. g \in PlayableIn(groups)
      BY <1>6
    <3>2. /\ g \in 1 .. Len(groups) /\ DOMAIN groups[g] = 1 .. Len(groups[g])
          /\ groups[g] # <<>> /\ Len(groups[g]) \in Nat
          /\ e \in 1 .. Len(E) /\ from[e] \in Nat /\ cell[e] \in 1 .. cells
          /\ \A k \in 1 .. Len(groups[g]) :
                /\ from[e] + k \in 1 .. Len(plan)
                /\ plan[from[e] + k][cell[e]] = [num |-> e, row |-> groups[g][k]]
      <4> HIDE DEF groups
      <4> QED BY <1>1, <1>2, <1>3, <1>5, <3>1, PlacesOfEpisodes
    <3> HIDE DEF groups, e
    <3> QED BY <3>2
  <2>2. f \in 0 .. sent
    <3>1. groups[g] \in Seq(Rows)
      BY <1>1, <2>1 DEF Episodic
    <3>2. 1 \in 1 .. Len(groups[g])
      BY <2>1, <3>1
    <3>3. f + 1 \in 1 .. Len(plan)
      BY <2>1, <3>2
    <3> HIDE DEF f
    <3> QED BY <1>4, <2>1, <3>3
  <2>3. Number(g) = e
    BY <1>6
  <2> HIDE DEF e, f, i
  <2>4. Plays(g, f, i)
    BY <1>3, <2>1, <2>3 DEF Plays
  <2> QED BY <2>1, <2>2, <2>4
<1>9. Cardinality(Shown) = Cardinality(ToShow)
  <2>1. Cardinality(ShownIn(plan, cells)) = Cardinality(ToShowIn(groups))
    <3> HIDE DEF groups
    <3> QED BY <1>1, <1>2, <1>3, <1>5, ShownOnce
  <2> QED BY <1>6, <1>7, <2>1
<1> QED BY <1>8, <1>9

(* The video of a merged file shows its episodes, and nothing else: every  *)
(* episode with two images in each frame is played once, in one cell and   *)
(* from its first frame to its last, under its number.  For every file the *)
(* generator can leave behind, every grid and every schedule of the        *)
(* goroutines, unless a frame could not be drawn.                          *)
THEOREM EveryEpisodeIsPlayed == Spec => []VideoPlaysEveryEpisode
<1>1. Spec => []MergedIsAFile
  BY MergedInit, MergedNext, FilesInvariance, PTL DEF Spec
<1>2. Spec => []PlanInv
  BY PlanInit, PlanNext, FramesInvariance, PTL DEF Spec
<1> QED BY <1>1, <1>2, FilesInvariance, FramesInvariance, PlaysFromInv, PTL

-----------------------------------------------------------------------------

(***************************************************************************)
(* Types.  What the generator's other invariants leave open; and of        *)
(* dataset-mp4 the room in its channels, and what goes through them: a     *)
(* request names a cell of the grid that was chosen, so that no renderer   *)
(* may hold one before the file is opened.                                 *)
(***************************************************************************)
Places ==
    {"off", "bounds", "stream", "save", "write", "finalSave", "finalWrite", "merge",
     "create", "copy", "cleanup", "done", "failed"}
ChannelTypes == Len(frames) <= CHANNEL /\ closed \in BOOLEAN /\ errChan \in {"none", "error"}
RunTypes == run \in 0 .. recording.runs
PlaceTypes == pc \in Places /\ removing \in Nat
GeneratorRest == ChannelTypes /\ RunTypes /\ PlaceTypes

LEMMA FreshChannel ==
  ASSUME NEW queue, NEW isClosed, NEW error, queue = <<>>, isClosed = FALSE, error = "none"
  PROVE  Len(queue) <= CHANNEL /\ isClosed \in BOOLEAN /\ error \in {"none", "error"}
<1>1. Len(queue) = 0
  OBVIOUS
<1>2. 0 <= CHANNEL
  BY StreamAssumption
<1>3. Len(queue) <= CHANNEL
  BY <1>1, <1>2, Zenon
<1> QED BY <1>3

LEMMA RestInit == Init => GeneratorRest
<1> SUFFICES ASSUME Init PROVE GeneratorRest
  OBVIOUS
<1>1. chosen \in DOMAIN Recordings /\ frames = <<>> /\ closed = FALSE /\ errChan = "none"
      /\ pc = "off" /\ run = 0 /\ removing = 0
  BY DEF Init, GeneratorInit
<1>2. recording.runs \in Nat
  BY <1>1, GeneratorAssumption DEF recording
<1>3. ChannelTypes
  BY <1>1, FreshChannel DEF ChannelTypes
<1>4. RunTypes
  BY <1>1, <1>2 DEF RunTypes
<1>5. PlaceTypes
  BY <1>1 DEF PlaceTypes, Places
<1> QED BY <1>3, <1>4, <1>5 DEF GeneratorRest

LEMMA ChannelStep ==
  ASSUME StreamInv, ChannelTypes, Stream
  PROVE  ChannelTypes'
<1>1. frames \in Seq(Nat) /\ CHANNEL \in Nat
  BY StreamAssumption DEF StreamInv, StreamTypes
<1>2. CASE SendFrame
  <2>1. /\ Len(frames) < CHANNEL /\ frames' = Append(frames, source.next)
        /\ UNCHANGED <<closed, errChan>>
    BY <1>2 DEF SendFrame
  <2>2. Len(frames') = Len(frames) + 1 /\ Len(frames) \in Nat
    BY <1>1, <2>1
  <2> QED BY <1>1, <2>1, <2>2 DEF ChannelTypes
<1>3. CASE ReadBatch \/ PassBounds \/ SkipDamaged \/ EndBatch \/ SendError \/ Return
  <2>1. /\ frames' = frames /\ closed' \in {closed, TRUE} /\ errChan' \in {errChan, "error"}
    BY <1>3 DEF ReadBatch, PassBounds, SkipDamaged, EndBatch, SendError, Return
  <2> QED BY <2>1 DEF ChannelTypes
<1> QED BY <1>2, <1>3 DEF Stream

LEMMA RestNext == BoundsInv /\ StreamInv /\ DetectorInv /\ GeneratorRest /\ [Next]_vars => GeneratorRest'
<1> SUFFICES ASSUME BoundsInv, StreamInv, DetectorInv, GeneratorRest, [Next]_vars
             PROVE  GeneratorRest'
  OBVIOUS
<1>1. frames \in Seq(Nat) /\ run \in Nat /\ ChannelTypes /\ RunTypes /\ PlaceTypes
  BY DEF StreamInv, StreamTypes, DetectorInv, GeneratorRest
<1>2. ASSUME frames' = <<>>, closed' = FALSE, errChan' = "none" PROVE ChannelTypes'
  BY <1>2, FreshChannel DEF ChannelTypes
<1>3. ASSUME UNCHANGED streamVars PROVE ChannelTypes'
  BY <1>1, <1>3 DEF streamVars, ChannelTypes
<1>4. ASSUME UNCHANGED <<chosen, run>> PROVE RunTypes'
  BY <1>1, <1>4 DEF RunTypes, recording
<1>5. ASSUME pc' \in Places, removing' \in {removing, removing + 1, 0} PROVE PlaceTypes'
  BY <1>1, <1>5 DEF PlaceTypes
<1>6. CASE UNCHANGED generatorVars
  <2>1. UNCHANGED <<streamVars, chosen, run, pc, removing>>
    BY <1>6 DEF generatorVars
  <2> QED BY <1>1, <1>3, <1>4, <1>5, <2>1 DEF GeneratorRest, PlaceTypes
<1>7. CASE Launch
  <2>1. run < recording.runs /\ run' = run + 1 /\ chosen' = chosen /\ pc' = "bounds" /\ removing' = 0
        /\ frames' = <<>> /\ closed' = FALSE /\ errChan' = "none"
    BY <1>7 DEF Launch
  <2>2. RunTypes'
    <3>1. recording.runs \in Nat
      BY GeneratorAssumption DEF BoundsInv, BoundsTypeOK, recording
    <3>2. recording' = recording
      BY <2>1, RecordingStays
    <3>3. run + 1 \in 0 .. recording.runs
      BY <1>1, <2>1, <3>1
    <3> QED BY <2>1, <3>2, <3>3 DEF RunTypes
  <2>3. pc' \in Places
    BY <2>1 DEF Places
  <2> QED BY <1>2, <1>5, <2>1, <2>2, <2>3 DEF GeneratorRest
<1>8. CASE StreamStep
  <2>1. UNCHANGED <<chosen, pc, run, removing>> /\ Stream
    BY <1>8 DEF StreamStep
  <2> QED BY <1>1, <1>4, <1>5, <2>1, ChannelStep DEF GeneratorRest, PlaceTypes
<1>9. CASE Quit \/ Kill
  <2>1. UNCHANGED <<chosen, run>> /\ pc' = "off" /\ removing' = 0
        /\ frames' = <<>> /\ closed' = FALSE /\ errChan' = "none"
    BY <1>9 DEF Quit, Kill, Stop, Finish
  <2>2. pc' \in Places
    BY <2>1 DEF Places
  <2> QED BY <1>2, <1>4, <1>5, <2>1, <2>2 DEF GeneratorRest
<1>10. CASE ProcessFrame
  <2>1. PICK f : IgnoreFrame(f) \/ WaitForCommand(f) \/ StartEpisode(f) \/ ContinueEpisode(f)
                 \/ EndEpisode(f)
    BY <1>10 DEF ProcessFrame
  <2>2. Take(f) /\ pc' \in {pc, "save"}
    BY <2>1 DEF IgnoreFrame, WaitForCommand, StartEpisode, ContinueEpisode, EndEpisode
  <2>3. frames' = Tail(frames) /\ frames # <<>> /\ UNCHANGED <<chosen, closed, errChan, run, removing>>
    BY <2>2 DEF Take
  <2>4. Len(frames') = Len(frames) - 1 /\ Len(frames) \in Nat
    BY <1>1, <2>3
  <2>5. ChannelTypes'
    BY <1>1, <2>3, <2>4, StreamAssumption DEF ChannelTypes
  <2>6. pc' \in Places
    BY <1>1, <2>2 DEF PlaceTypes, Places
  <2> QED BY <1>4, <1>5, <2>3, <2>5, <2>6 DEF GeneratorRest
<1>11. ASSUME Worker, ~ProcessFrame PROVE GeneratorRest'
  <2>1. ASSUME UNCHANGED <<chosen, run>>, pc' \in Places, removing' \in {removing, removing + 1, 0},
               ChannelTypes'
        PROVE  GeneratorRest'
    BY <1>4, <1>5, <2>1 DEF GeneratorRest
  <2>2. pc \in Places
    BY <1>1 DEF PlaceTypes
  <2>3. CASE OpenStream
    <3>1. UNCHANGED <<chosen, run, removing>> /\ pc' = "stream"
          /\ frames' = <<>> /\ closed' = FALSE /\ errChan' = "none"
      BY <2>3 DEF OpenStream, StartStream
    <3>2. pc' \in Places
      BY <3>1 DEF Places
    <3> QED BY <1>2, <2>1, <3>1, <3>2
  <2>4. ASSUME UNCHANGED <<chosen, run, streamVars>>, removing' \in {removing, removing + 1},
               pc' \in {pc, "failed", "stream", "finalWrite", "write", "merge", "finalSave", "done",
                        "create", "copy", "cleanup"}
        PROVE  GeneratorRest'
    <3>1. pc' \in Places
      BY <2>2, <2>4 DEF Places
    <3> QED BY <1>3, <2>1, <2>4, <3>1
  <2>5. CASE FindBounds \/ BoundsFail \/ StreamFails \/ Finalize
    BY <2>4, <2>5 DEF FindBounds, BoundsFail, StreamFails, Finalize, Finish
  <2>6. CASE CreateFile \/ CreateFileFails \/ WriteFile \/ WriteFileFails
    BY <2>4, <2>6 DEF CreateFile, CreateFileFails, WriteFile, WriteFileFails, AfterSave, notSaving
  <2>7. CASE NothingToMerge \/ MergeFails \/ OpenParts \/ CreateOutput \/ CopyRows \/ RemoveFile
             \/ CleanupEnds
    BY <2>4, <2>7 DEF NothingToMerge, MergeFails, OpenParts, CreateOutput, CopyRows, RemoveFile,
       CleanupEnds, Succeed, Finish, notMerging
  <2> QED BY <1>11, <2>3, <2>5, <2>6, <2>7 DEF Worker
<1> QED BY <1>6, <1>7, <1>8, <1>9, <1>10, <1>11 DEF Next, Generate, GeneratorNext, MakeVideo, Video, vars

LEMMA GeneratorTypes ==
  ASSUME BoundsInv, StreamInv, DetectorInv, FilesInv, MergedIsAFile, GeneratorRest
  PROVE  GeneratorTypeOK
<1>1. frames \in Seq(1 .. recording.last)
  <2>1. frames \in Seq(Nat) /\ Len(frames) \in Nat /\ Len(handled) \in Nat
    BY DEF StreamInv, StreamTypes
  <2>2. ASSUME NEW i \in 1 .. Len(frames) PROVE frames[i] \in 1 .. recording.last
    <3>1. source.pc # "off"
      BY <2>2 DEF StreamInv, NoStream
    <3> DEFINE j == Len(handled) + i
    <3>2. j \in 1 .. Total /\ ~(j <= Len(handled)) /\ j - Len(handled) = i
      BY <2>1 DEF Total
    <3> HIDE DEF j
    <3>3. Given(j) = frames[i] /\ Given(j) \in Sent
      <4>1. Given(j) = frames[i]
        BY <3>2 DEF Given
      <4>2. Given(j) \in Sent
        BY <3>2 DEF Sent
      <4> QED BY <4>1, <4>2
    <3>4. frames[i] \in InBounds /\ BoundsFound
      BY <3>1, <3>3 DEF StreamInv, SentInOrder
    <3> QED BY <3>4, FoundFacts DEF InBounds
  <2> DEFINE n == Len(frames)
             N == Nat
             S == 1 .. recording.last
  <2>3. frames \in Seq(N) /\ n \in Nat /\ \A i \in 1 .. n : frames[i] \in S
    BY <2>1, <2>2
  <2>4. frames = [i \in 1 .. n |-> frames[i]]
    <3> HIDE DEF N, S
    <3> QED BY <2>3
  <2> HIDE DEF n, N, S
  <2>5. [i \in 1 .. n |-> frames[i]] \in Seq(S)
    BY <2>3
  <2> QED BY <2>4, <2>5 DEF S
<1>2. \A i \in DOMAIN parts : parts[i] \in Files
  <2> SUFFICES ASSUME NEW i \in DOMAIN parts PROVE parts[i] \in Files
    OBVIOUS
  <2>1. CASE parts[i] = Torn
    BY <2>1 DEF Torn, Files
  <2>2. ASSUME NEW rows, IsEpisode(rows), parts[i] = Whole(<<rows>>) PROVE parts[i] \in Files
    <3>1. <<rows>> \in Seq(Seq(Rows))
      BY <2>2 DEF IsEpisode
    <3> QED BY <2>2, <3>1 DEF Whole, Files
  <2> QED BY <2>1, <2>2 DEF FilesInv, PartsAreOK
<1>3. BoundsTypeOK /\ StreamTypeOK
  BY <1>1 DEF BoundsInv, StreamInv, StreamTypes, StreamTypeOK, GeneratorRest,
       ChannelTypes
<1> QED BY <1>2, <1>3 DEF GeneratorTypeOK, DetectorInv, Detectors, FilesInv, PartsAreOK, Screens,
       MergedIsAFile, GeneratorRest, RunTypes, PlaceTypes, Places, StreamInv, StreamTypes

PlanIsSeq == Len(plan) \in Nat

LEMMA PlanHasALength ==
  ASSUME FilesInv, FramesInv, PlanInv, MergedIsAFile
  PROVE  PlanIsSeq
<1>1. CASE plan = <<>>
  BY <1>1 DEF PlanIsSeq
<1>2. CASE Planned
  <2> DEFINE E == CollectEpisodes(FlattenSeq(merged.groups))
  <2>1. Listed(E, merged.groups, Len(merged.groups))
    BY MergedIsEpisodic, EpisodesCollected DEF FilesInv
  <2>2. E \in Seq(Shots) /\ plan = Plan(E, cells) /\ cells \in Nat \ {0}
    BY <1>2, <2>1, RendererAssumption DEF Listed, Planned
  <2> HIDE DEF E
  <2>3. \E from, cell : Dealt(plan, E, cells, from, cell)
    BY <2>2, EpisodesDealt
  <2>4. plan \in Seq([1 .. cells -> Cells])
    BY <2>3 DEF Dealt
  <2> DEFINE S == [1 .. cells -> Cells]
  <2> HIDE DEF S
  <2>5. plan \in Seq(S)
    BY <2>4 DEF S
  <2> QED BY <2>5 DEF PlanIsSeq
<1> QED BY <1>1, <1>2 DEF PlanInv

StageNames == {"idle", "send", "workers", "collector", "renderers", "video", "done", "failed"}
Pictures == {"image", "failed"}
Resting == {<<"idle">>, <<"gone">>}
FlagTypes ==
    /\ render3d \in BOOLEAN /\ cells \in GridCells \cup {0} /\ stage \in StageNames
    /\ jobsClosed \in BOOLEAN /\ resultsClosed \in BOOLEAN /\ serviceClosed \in BOOLEAN
RoomTypes == Len(jobs) <= JOB_ROOM /\ Len(results) <= JOB_ROOM /\ Len(service) <= REQUEST_ROOM
FrameNumbers ==
    /\ sent \in 0 .. Len(plan) /\ video \subseteq 1 .. Len(plan)
    /\ results \in Seq([frame : 1 .. sent, ok : BOOLEAN])
    /\ \A w \in Workers : worker[w].frame \in 0 .. sent
    /\ stage = "idle" => video = {}
Requests ==
    /\ service \in Seq(Workers \X (1 .. cells))
    /\ renderer \in [Renderers -> Resting \cup (Workers \X (1 .. cells) \X Pictures)]
    /\ stage = "idle" => service = <<>> /\ \A t \in Renderers : renderer[t] \in Resting
Responses ==
    /\ DOMAIN response = Workers
    /\ \A w \in Workers : \A i \in DOMAIN response[w] : response[w][i] \in Pictures \cup {"pending"}
RenderInv == FlagTypes /\ RoomTypes /\ FrameNumbers /\ Requests /\ Responses

LEMMA RenderInit == Init => RenderInv
<1> SUFFICES ASSUME Init PROVE RenderInv
  OBVIOUS
<1> USE DEF Init, RendererInit
<1>1. FlagTypes
  BY DEF FlagTypes, StageNames
<1>2. RoomTypes
  <2>1. Len(jobs) = 0 /\ Len(results) = 0 /\ Len(service) = 0
    OBVIOUS
  <2>2. 0 <= JOB_ROOM /\ 0 <= REQUEST_ROOM
    BY RendererAssumption
  <2> QED BY <2>1, <2>2, Zenon DEF RoomTypes
<1>3. FrameNumbers
  <2>1. Len(plan) = 0 /\ sent = 0 /\ video = {}
    OBVIOUS
  <2>2. results \in Seq([frame : 1 .. sent, ok : BOOLEAN])
    OBVIOUS
  <2>3. \A w \in Workers : worker[w].frame = 0
    BY DEF IdleWorker
  <2> QED BY <2>1, <2>2, <2>3 DEF FrameNumbers
<1>4. Requests
  BY DEF Requests, Resting
<1>5. Responses
  BY DEF Responses, NoResponses
<1> QED BY <1>1, <1>2, <1>3, <1>4, <1>5 DEF RenderInv

LEMMA MainKeepsRender ==
  ASSUME FramesInv, RenderInv, PlanIsSeq, PlanIsSeq', Main \/ \E file : Open(file)
  PROVE  RenderInv'
<1> USE DEF jobQueue, resultQueue, serviceQueue, pools, options
<1>1. FlagTypes /\ RoomTypes /\ FrameNumbers /\ Requests /\ Responses
      /\ FrameTypes /\ Stages
  BY DEF RenderInv, FramesInv
<1>2. ASSUME NEW file, Open(file) PROVE RenderInv'
  <2>1. /\ stage = "idle" /\ stage' \in {"send", "failed"} /\ cells' \in GridCells
        /\ render3d' \in BOOLEAN
        /\ UNCHANGED <<sent, jobQueue, resultQueue, serviceQueue, pools, video>>
    BY <1>2 DEF Open
  <2>2. FlagTypes' /\ RoomTypes' /\ Responses'
    BY <1>1, <2>1 DEF FlagTypes, RoomTypes, Responses, StageNames
  <2>3. FrameNumbers'
    <3>1. sent = 0 /\ video = {} /\ Len(plan') \in Nat
      BY <1>1, <2>1 DEF Stages, FrameNumbers, PlanIsSeq
    <3> QED BY <1>1, <2>1, <3>1 DEF FrameNumbers
  <2>4. Requests'
    <3>1. service = <<>> /\ \A t \in Renderers : renderer[t] \in Resting
      BY <1>1, <2>1 DEF Requests
    <3>2. service' \in Seq(Workers \X (1 .. cells'))
      BY <2>1, <3>1
    <3>3. renderer \in [Renderers -> Resting]
      BY <1>1, <3>1 DEF Requests
    <3>4. renderer' \in [Renderers -> Resting \cup (Workers \X (1 .. cells') \X Pictures)]
      <4> DEFINE A == Workers \X (1 .. cells') \X Pictures
      <4> HIDE DEF A
      <4>1. renderer' \in [Renderers -> Resting \cup A]
        BY <2>1, <3>3
      <4> QED BY <4>1 DEF A
    <3> QED BY <2>1, <3>1, <3>2, <3>4 DEF Requests
  <2> QED BY <2>2, <2>3, <2>4 DEF RenderInv
<1>4. CASE SendJob
  <2>1. /\ stage = "send" /\ sent < Len(plan) /\ Len(jobs) < JOB_ROOM
        /\ sent' = sent + 1 /\ jobs' = Append(jobs, sent + 1)
        /\ UNCHANGED <<options, stage, jobsClosed, resultQueue, serviceQueue, pools, video>>
    BY <1>4 DEF SendJob
  <2>2. jobs \in Seq(1 .. sent) /\ sent \in Nat /\ Len(jobs) \in Nat /\ Len(plan) \in Nat
    BY <1>1 DEF FrameTypes, PlanIsSeq
  <2>3. Len(jobs') = Len(jobs) + 1
    BY <2>1, <2>2
  <2>4. FlagTypes' /\ Responses' /\ Requests'
    BY <1>1, <2>1 DEF FlagTypes, Responses, Requests
  <2>5. RoomTypes'
    <3>1. Len(jobs') <= JOB_ROOM
      BY <2>1, <2>2, <2>3, RendererAssumption
    <3> QED BY <1>1, <2>1, <3>1 DEF RoomTypes
  <2>6. FrameNumbers'
    <3>1. sent' \in 0 .. Len(plan')
      BY <2>1, <2>2
    <3>2. 1 .. sent \subseteq 1 .. sent + 1 /\ 0 .. sent \subseteq 0 .. sent + 1
      BY <2>2
    <3>3. results' \in Seq([frame : 1 .. sent', ok : BOOLEAN])
      <4> DEFINE A == [frame : 1 .. sent, ok : BOOLEAN]
                 B == [frame : 1 .. sent', ok : BOOLEAN]
      <4>1. A \subseteq B
        BY <2>1, <3>2
      <4>2. results \in Seq(A) /\ results' = results
        BY <1>1, <2>1 DEF FrameNumbers
      <4> HIDE DEF A, B
      <4>3. results' \in Seq(B)
        BY <4>1, <4>2
      <4> QED BY <4>3 DEF B
    <3>4. \A w \in Workers : worker'[w].frame \in 0 .. sent'
      BY <1>1, <2>1, <3>2 DEF FrameNumbers
    <3> QED BY <1>1, <2>1, <3>1, <3>3, <3>4 DEF FrameNumbers
  <2> QED BY <2>4, <2>5, <2>6 DEF RenderInv
<1>5. CASE CloseJobs \/ CloseResults \/ CloseService \/ RenderersEnd
  <2>1. /\ stage # "idle" /\ stage' \in StageNames \ {"idle"}
        /\ UNCHANGED <<options, sent, jobs, results, service, pools, video>>
        /\ jobsClosed' \in {jobsClosed, TRUE} /\ resultsClosed' \in {resultsClosed, TRUE}
        /\ serviceClosed' \in {serviceClosed, TRUE}
    BY <1>5 DEF CloseJobs, CloseResults, CloseService, RenderersEnd, StageNames
  <2>2. FlagTypes'
    BY <1>1, <2>1 DEF FlagTypes
  <2>3. RoomTypes' /\ FrameNumbers' /\ Requests' /\ Responses'
    BY <1>1, <2>1 DEF RoomTypes, FrameNumbers, Requests, Responses
  <2> QED BY <2>2, <2>3 DEF RenderInv
<1>6. CASE GenerateVideo
  <2>1. /\ stage = "video" /\ stage' \in {"done", "failed"}
        /\ UNCHANGED <<options, sent, jobQueue, resultQueue, serviceQueue, pools>>
        /\ video' = video \/ video' \subseteq pngs
    BY <1>6 DEF GenerateVideo
  <2>2. FlagTypes' /\ RoomTypes' /\ Requests' /\ Responses'
    BY <1>1, <2>1 DEF FlagTypes, RoomTypes, Requests, Responses, StageNames
  <2>3. 1 .. sent \subseteq 1 .. Len(plan)
    BY <1>1 DEF FrameNumbers, PlanIsSeq
  <2>4. video' \subseteq 1 .. Len(plan)
    BY <1>1, <2>1, <2>3 DEF FrameNumbers, FrameTypes
  <2>5. FrameNumbers'
    BY <1>1, <2>1, <2>4 DEF FrameNumbers
  <2> QED BY <2>2, <2>5 DEF RenderInv
<1> QED BY <1>2, <1>4, <1>5, <1>6 DEF Main

(* The least of the cells left, and that it is one of the grid.            *)
LEMMA LeastLeft ==
  ASSUME NEW f, NEW i, From(f, i) # {}
  PROVE  Min(From(f, i)) \in 1 .. cells
<1>1. From(f, i) \in SUBSET Nat /\ From(f, i) \subseteq 1 .. cells
  BY DEF From, Wanted
<1> QED BY <1>1, MinIsLeast

(* A step of a worker that leaves the options and the stage alone.         *)
LEMMA WorkerKeepsRender ==
  ASSUME FramesInv, RenderInv, NEW w \in Workers, NEW state, Set(w, state), UNCHANGED notWorkers,
         state.frame \in 0 .. sent, RoomTypes', Responses',
         results' \in Seq([frame : 1 .. sent, ok : BOOLEAN]),
         service' \in Seq(Workers \X (1 .. cells)), stage = "idle" => service' = <<>>
  PROVE  RenderInv'
<1> USE DEF notWorkers, options
<1>1. FlagTypes /\ RoomTypes /\ FrameNumbers /\ Requests /\ Responses
      /\ worker \in [Workers -> Workings]
  BY DEF RenderInv, FramesInv, FrameTypes
<1>2. FlagTypes'
  BY <1>1 DEF FlagTypes
<1>3. Requests'
  BY <1>1 DEF Requests
<1>4. FrameNumbers'
  <2>1. worker' = [worker EXCEPT ![w] = state]
    BY DEF Set
  <2>2. \A v \in Workers : worker'[v].frame \in 0 .. sent
    BY <1>1, <2>1 DEF FrameNumbers
  <2> QED BY <1>1, <2>2 DEF FrameNumbers
<1> QED BY <1>2, <1>3, <1>4 DEF RenderInv

LEMMA WorkKeepsRender ==
  ASSUME FramesInv, RenderInv, NEW w \in Workers, Work(w)
  PROVE  RenderInv'
<1>1. FlagTypes /\ RoomTypes /\ FrameNumbers /\ Requests /\ Responses
      /\ FrameTypes /\ Stages /\ worker[w] \in Workings
  BY DEF RenderInv, FramesInv, FrameTypes
<1>2. sent \in Nat /\ worker[w].frame \in 0 .. sent /\ jobs \in Seq(1 .. sent)
      /\ results \in Seq([frame : 1 .. sent, ok : BOOLEAN])
      /\ service \in Seq(Workers \X (1 .. cells)) /\ (stage = "idle" => service = <<>>)
  BY <1>1 DEF FrameNumbers, FrameTypes, Requests
<1>3. ASSUME UNCHANGED <<jobs, results, service>> PROVE RoomTypes'
  BY <1>1, <1>3 DEF RoomTypes
<1>4. ASSUME UNCHANGED response PROVE Responses'
  BY <1>1, <1>4 DEF Responses
<1>5. CASE TakeJob(w)
  <2> DEFINE state == [pc |-> "ask", frame |-> Head(jobs), cell |-> 1, ok |-> TRUE]
  <2>1. /\ jobs # <<>> /\ jobs' = Tail(jobs) /\ Set(w, state)
        /\ UNCHANGED <<notWorkers, results, service, response>>
    BY <1>5 DEF TakeJob
  <2>2. state.frame \in 0 .. sent /\ Len(jobs') = Len(jobs) - 1 /\ Len(jobs) \in Nat
    BY <1>2, <2>1
  <2>3. RoomTypes'
    <3>1. Len(jobs') <= JOB_ROOM
      BY <1>1, <2>2, RendererAssumption DEF RoomTypes
    <3> QED BY <1>1, <2>1, <3>1 DEF RoomTypes
  <2> HIDE DEF state
  <2> QED BY <1>2, <1>4, <2>1, <2>2, <2>3, WorkerKeepsRender
<1>6. CASE LeaveWorker(w)
  <2> DEFINE state == [IdleWorker EXCEPT !.pc = "gone"]
  <2>1. Set(w, state) /\ UNCHANGED <<notWorkers, jobs, results, service, response>>
    BY <1>6 DEF LeaveWorker
  <2>2. state.frame \in 0 .. sent
    BY <1>2 DEF IdleWorker
  <2> HIDE DEF state
  <2> QED BY <1>2, <1>3, <1>4, <2>1, <2>2, WorkerKeepsRender
<1>7. CASE AskRender(w)
  <2> DEFINE least == Min(From(worker[w].frame, worker[w].cell))
             state == [worker[w] EXCEPT !.cell = least + 1]
             mine == response[w]
             asked == [i \in DOMAIN mine \cup {least} |-> IF i \in DOMAIN mine THEN mine[i] ELSE "pending"]
  <2>1. /\ worker[w].pc = "ask" /\ From(worker[w].frame, worker[w].cell) # {}
        /\ Len(service) < REQUEST_ROOM /\ service' = Append(service, <<w, least>>)
        /\ response' = [response EXCEPT ![w] = asked]
        /\ Set(w, state) /\ UNCHANGED <<notWorkers, jobs, results>>
    BY <1>7 DEF AskRender
  <2>2. least \in 1 .. cells
    BY <2>1, LeastLeft
  <2>3. state.frame \in 0 .. sent
    BY <1>1, <1>2 DEF Workings
  <2> HIDE DEF least, state, asked, mine
  <2>4. /\ service' \in Seq(Workers \X (1 .. cells)) /\ Len(service') = Len(service) + 1
        /\ Len(service) \in Nat
    <3> DEFINE A == Workers \X (1 .. cells)
               r == <<w, least>>
    <3>1. r \in A /\ service \in Seq(A) /\ service' = Append(service, r)
      BY <1>2, <2>1, <2>2
    <3> HIDE DEF A, r
    <3>2. service' \in Seq(A) /\ Len(service') = Len(service) + 1 /\ Len(service) \in Nat
      BY <3>1
    <3> QED BY <3>2 DEF A
  <2>5. stage # "idle"
    BY <1>1, <2>1 DEF FrameTypes, Stages, Busy
  <2>6. RoomTypes'
    <3>1. Len(service') <= REQUEST_ROOM
      BY <2>1, <2>4, RendererAssumption
    <3> QED BY <1>1, <2>1, <3>1 DEF RoomTypes
  <2>7. Responses'
    <3>1. DOMAIN response = Workers
          /\ \A v \in Workers : \A i \in DOMAIN response[v] : response[v][i] \in Pictures \cup {"pending"}
      BY <1>1 DEF Responses
    <3>2. DOMAIN response' = Workers /\ response'[w] = asked
          /\ \A v \in Workers \ {w} : response'[v] = response[v]
      BY <2>1, <3>1
    <3>3. \A i \in DOMAIN asked : asked[i] \in Pictures \cup {"pending"}
      BY <3>1 DEF asked, mine
    <3> QED BY <3>1, <3>2, <3>3 DEF Responses
  <2> QED BY <1>2, <2>1, <2>3, <2>4, <2>5, <2>6, <2>7, WorkerKeepsRender
<1>8. CASE Asked(w) \/ Receive(w)
  <2>1. \E c : \E p : Set(w, [worker[w] EXCEPT !.pc = p, !.cell = c])
        /\ UNCHANGED <<notWorkers, jobs, results, service, response>>
    <3>1. CASE Asked(w)
      BY <3>1 DEF Asked
    <3>2. CASE Receive(w)
      <4> DEFINE c == Min(From(worker[w].frame, worker[w].cell)) + 1
      <4>1. Set(w, [worker[w] EXCEPT !.cell = c])
            /\ UNCHANGED <<notWorkers, jobs, results, service, response>>
        BY <3>2 DEF Receive
      <4> HIDE DEF c
      <4>2. [worker[w] EXCEPT !.cell = c] = [worker[w] EXCEPT !.pc = worker[w].pc, !.cell = c]
        BY <1>1 DEF Workings
      <4> QED BY <4>1, <4>2
    <3> QED BY <1>8, <3>1, <3>2
  <2>2. PICK c, p : Set(w, [worker[w] EXCEPT !.pc = p, !.cell = c])
        /\ UNCHANGED <<notWorkers, jobs, results, service, response>>
    BY <2>1
  <2> DEFINE state == [worker[w] EXCEPT !.pc = p, !.cell = c]
  <2>3. state.frame \in 0 .. sent
    BY <1>1, <1>2 DEF Workings
  <2> HIDE DEF state
  <2>4. Set(w, state)
    BY <2>2 DEF state
  <2> QED BY <1>2, <1>3, <1>4, <2>2, <2>3, <2>4, WorkerKeepsRender
<1>9. CASE Draw(w)
  <2>1. /\ response' = [response EXCEPT ![w] = NoResponses]
        /\ UNCHANGED <<notWorkers, jobs, results, service>>
        /\ \E ok : Set(w, [worker[w] EXCEPT !.pc = "report", !.ok = ok])
    <3>1. [worker[w] EXCEPT !.pc = "report"] = [worker[w] EXCEPT !.pc = "report", !.ok = worker[w].ok]
      BY <1>1 DEF Workings
    <3> QED BY <1>9, <3>1 DEF Draw
  <2>2. PICK ok : Set(w, [worker[w] EXCEPT !.pc = "report", !.ok = ok])
    BY <2>1
  <2> DEFINE state == [worker[w] EXCEPT !.pc = "report", !.ok = ok]
  <2>3. state.frame \in 0 .. sent
    BY <1>1, <1>2 DEF Workings
  <2> HIDE DEF state
  <2>4. Set(w, state)
    BY <2>2 DEF state
  <2>5. Responses'
    <3>1. DOMAIN response = Workers
          /\ \A v \in Workers : \A i \in DOMAIN response[v] : response[v][i] \in Pictures \cup {"pending"}
      BY <1>1 DEF Responses
    <3>2. DOMAIN response' = Workers /\ response'[w] = NoResponses
          /\ \A v \in Workers \ {w} : response'[v] = response[v]
      BY <2>1, <3>1
    <3>3. DOMAIN NoResponses = {}
      BY DEF NoResponses
    <3> QED BY <3>1, <3>2, <3>3 DEF Responses
  <2> QED BY <1>2, <1>3, <2>1, <2>3, <2>4, <2>5, WorkerKeepsRender
<1>10. CASE Report(w)
  <2> DEFINE r == [frame |-> worker[w].frame, ok |-> worker[w].ok]
  <2>1. /\ worker[w].pc = "report" /\ Len(results) < JOB_ROOM /\ results' = Append(results, r)
        /\ Set(w, IdleWorker) /\ UNCHANGED <<notWorkers, jobs, service, response>>
    BY <1>10 DEF Report
  <2>2. r \in [frame : 1 .. sent, ok : BOOLEAN]
    <3>1. worker[w].frame \in 1 .. sent /\ worker[w].ok \in BOOLEAN
      BY <1>1, <2>1 DEF FrameTypes, Workings
    <3> QED BY <3>1
  <2> HIDE DEF r
  <2>3. /\ results' \in Seq([frame : 1 .. sent, ok : BOOLEAN])
        /\ Len(results') = Len(results) + 1 /\ Len(results) \in Nat
    <3> DEFINE A == [frame : 1 .. sent, ok : BOOLEAN]
    <3>1. r \in A /\ results \in Seq(A)
      BY <1>2, <2>2
    <3> HIDE DEF A
    <3>2. results' \in Seq(A) /\ Len(results') = Len(results) + 1 /\ Len(results) \in Nat
      BY <2>1, <3>1
    <3> QED BY <3>2 DEF A
  <2>4. RoomTypes'
    <3>1. Len(results') <= JOB_ROOM
      BY <2>1, <2>3, RendererAssumption
    <3> QED BY <1>1, <2>1, <3>1 DEF RoomTypes
  <2>5. IdleWorker.frame \in 0 .. sent
    BY <1>2 DEF IdleWorker
  <2> QED BY <1>2, <1>4, <2>1, <2>3, <2>4, <2>5, WorkerKeepsRender
<1> QED BY <1>5, <1>6, <1>7, <1>8, <1>9, <1>10 DEF Work

LEMMA PairAppended ==
  ASSUME NEW a, NEW b, NEW c
  PROVE  Append(<<a, b>>, c) = <<a, b, c>>
<1> DEFINE S == {a, b, c}
           s == <<a, b>>
           r == Append(s, c)
<1>1. s \in Seq(S) /\ Len(s) = 2 /\ s[1] = a /\ s[2] = b /\ c \in S
  OBVIOUS
<1> HIDE DEF S, s
<1>2. r \in Seq(S) /\ Len(r) = 3 /\ r[1] = a /\ r[2] = b /\ r[3] = c
  <2> DEFINE n == Len(s)
  <2>1. r \in Seq(S) /\ Len(r) = n + 1 /\ r[n + 1] = c /\ \A i \in 1 .. n : r[i] = s[i]
    BY <1>1
  <2>2. n = 2
    BY <1>1
  <2> HIDE DEF n, r
  <2> QED BY <1>1, <2>1, <2>2
<1> HIDE DEF r
<1>3. r = <<a, b, c>>
  BY <1>2
<1> QED BY <1>3 DEF r, s

(* A step of the collector, which leaves the requests alone, or of a 3D    *)
(* renderer, which leaves the results alone.                               *)
LEMMA CollectKeepsRender ==
  ASSUME FramesInv, RenderInv, Collect
  PROVE  RenderInv'
<1> USE DEF notPools, options, jobQueue
<1>1. FlagTypes /\ RoomTypes /\ FrameNumbers /\ Requests /\ Responses
  BY DEF RenderInv
<1>2. UNCHANGED <<notPools, service, response, renderer>>
      /\ (results' = results \/ (results # <<>> /\ results' = Tail(results)))
  BY DEF Collect, CollectResult, CollectorEnds
<1>3. FlagTypes' /\ Requests' /\ Responses'
  BY <1>1, <1>2 DEF FlagTypes, Requests, Responses
<1>4. results' \in Seq([frame : 1 .. sent, ok : BOOLEAN]) /\ Len(results') <= Len(results)
      /\ Len(results) \in Nat /\ Len(results') \in Nat
  <2> DEFINE A == [frame : 1 .. sent, ok : BOOLEAN]
  <2>1. results \in Seq(A)
    BY <1>1 DEF FrameNumbers
  <2> HIDE DEF A
  <2>2. results' \in Seq(A) /\ Len(results') <= Len(results)
        /\ Len(results) \in Nat /\ Len(results') \in Nat
    BY <1>2, <2>1
  <2> QED BY <2>2 DEF A
<1>5. RoomTypes'
  <2>1. Len(results') <= JOB_ROOM
    BY <1>1, <1>4, RendererAssumption DEF RoomTypes
  <2> QED BY <1>1, <1>2, <2>1 DEF RoomTypes
<1>6. FrameNumbers'
  BY <1>1, <1>2, <1>4 DEF FrameNumbers
<1> QED BY <1>3, <1>5, <1>6 DEF RenderInv

LEMMA RendererKeepsRender ==
  ASSUME FramesInv, RenderInv, NEW t \in Renderers, Render(t)
  PROVE  RenderInv'
<1> USE DEF notPools, options, jobQueue
<1> DEFINE C == 1 .. cells
           A == Workers \X C
           B == Workers \X C \X Pictures
<1>1. FlagTypes /\ RoomTypes /\ FrameNumbers /\ Requests /\ Responses
  BY DEF RenderInv
<1>2. service \in Seq(A) /\ renderer \in [Renderers -> Resting \cup B]
  BY <1>1 DEF Requests
<1>3. UNCHANGED <<notPools, results>>
  BY DEF Render, TakeRequest, Answer, LeaveRenderer
<1>4. FlagTypes' /\ FrameNumbers'
  BY <1>1, <1>3 DEF FlagTypes, FrameNumbers
<1>5. CASE TakeRequest(t)
  <2>1. PICK picture \in Pictures :
           /\ service # <<>> /\ service' = Tail(service) /\ response' = response
           /\ renderer' = [renderer EXCEPT ![t] = Append(Head(service), picture)]
    BY <1>5 DEF TakeRequest, Pictures
  <2>2. Head(service) \in A /\ service' \in Seq(A) /\ Len(service') <= Len(service)
        /\ Len(service) \in Nat /\ Len(service') \in Nat
    <3> HIDE DEF A
    <3> QED BY <1>2, <2>1
  <2>3. Append(Head(service), picture) \in B
    <3>1. PICK w \in Workers, i \in C : Head(service) = <<w, i>>
      BY <2>2
    <3>2. Append(Head(service), picture) = <<w, i, picture>>
      BY <3>1, PairAppended, Zenon
    <3>3. <<w, i, picture>> \in B
      OBVIOUS
    <3> QED BY <3>2, <3>3
  <2>4. stage # "idle"
    BY <1>1, <2>1 DEF Requests
  <2>5. renderer' \in [Renderers -> Resting \cup B]
    <3> DEFINE r == Append(Head(service), picture)
    <3>1. r \in B /\ renderer' = [renderer EXCEPT ![t] = r]
      BY <2>1, <2>3
    <3> HIDE DEF B, r
    <3> QED BY <1>2, <3>1
  <2>6. Requests'
    BY <1>3, <2>2, <2>4, <2>5 DEF Requests
  <2>7. RoomTypes' /\ Responses'
    <3>1. Len(service') <= REQUEST_ROOM
      BY <1>1, <2>2, RendererAssumption DEF RoomTypes
    <3> QED BY <1>1, <1>3, <2>1, <3>1 DEF RoomTypes, Responses
  <2> QED BY <1>4, <2>6, <2>7 DEF RenderInv
<1>6. CASE Answer(t)
  <2> DEFINE w == renderer[t][1]
             i == renderer[t][2]
             p == renderer[t][3]
  <2>1. /\ Len(renderer[t]) = 3 /\ response' = [response EXCEPT ![w][i] = p]
        /\ renderer' = [renderer EXCEPT ![t] = <<"idle">>] /\ service' = service
    BY <1>6 DEF Answer
  <2>2. renderer[t] \in B
    <3>1. renderer[t] \in Resting \cup B
      <4> HIDE DEF B
      <4> QED BY <1>2
    <3>2. Len(<<"idle">>) = 1 /\ Len(<<"gone">>) = 1
      OBVIOUS
    <3> QED BY <2>1, <3>1, <3>2 DEF Resting
  <2>3. p \in Pictures
    BY <2>2
  <2> HIDE DEF w, i, p
  <2>4. RoomTypes' /\ Requests'
    <3>1. <<"idle">> \in Resting
      BY DEF Resting
    <3>2. renderer' \in [Renderers -> Resting \cup B]
      <4> HIDE DEF B
      <4> QED BY <1>2, <2>1, <3>1
    <3>3. stage = "idle" => \A u \in Renderers : renderer'[u] \in Resting
      <4> HIDE DEF B
      <4> QED BY <1>1, <1>2, <2>1, <3>1 DEF Requests
    <3> QED BY <1>1, <1>3, <2>1, <3>2, <3>3 DEF RoomTypes, Requests
  <2>5. Responses'
    <3>1. DOMAIN response = Workers
          /\ \A v \in Workers : \A j \in DOMAIN response[v] : response[v][j] \in Pictures \cup {"pending"}
      BY <1>1 DEF Responses
    <3> DEFINE mine == response[w]
               answered == [mine EXCEPT ![i] = p]
    <3>2. response' = [response EXCEPT ![w] = answered]
      BY <2>1
    <3>3. DOMAIN answered = DOMAIN mine
          /\ \A j \in DOMAIN mine : answered[j] = p \/ answered[j] = mine[j]
      OBVIOUS
    <3>4. w \in Workers => \A j \in DOMAIN mine : mine[j] \in Pictures \cup {"pending"}
      BY <3>1
    <3> HIDE DEF mine, answered
    <3>5. DOMAIN response' = Workers
          /\ \A v \in Workers : response'[v] = IF v = w THEN answered ELSE response[v]
      BY <3>1, <3>2
    <3> QED BY <2>3, <3>1, <3>3, <3>4, <3>5 DEF Responses
  <2> QED BY <1>4, <2>4, <2>5 DEF RenderInv
<1>7. CASE LeaveRenderer(t)
  <2>1. renderer' = [renderer EXCEPT ![t] = <<"gone">>] /\ UNCHANGED <<service, response>>
    BY <1>7 DEF LeaveRenderer
  <2>2. <<"gone">> \in Resting
    BY DEF Resting
  <2>3. renderer' \in [Renderers -> Resting \cup B]
        /\ (stage = "idle" => \A u \in Renderers : renderer'[u] \in Resting)
    <3> HIDE DEF B
    <3> QED BY <1>1, <1>2, <2>1, <2>2 DEF Requests
  <2>4. RoomTypes' /\ Requests' /\ Responses'
    BY <1>1, <1>3, <2>1, <2>3 DEF RoomTypes, Requests, Responses
  <2> QED BY <1>4, <2>4 DEF RenderInv
<1> QED BY <1>5, <1>6, <1>7 DEF Render

LEMMA RenderNext ==
  FramesInv /\ RenderInv /\ PlanIsSeq /\ PlanIsSeq' /\ [Next]_vars => RenderInv'
<1> SUFFICES ASSUME FramesInv, RenderInv, PlanIsSeq, PlanIsSeq', [Next]_vars PROVE RenderInv'
  OBVIOUS
<1>1. CASE UNCHANGED rendererVars
  BY <1>1 DEF rendererVars, RenderInv, FlagTypes, RoomTypes, FrameNumbers, Requests, Responses
<1>2. CASE MakeVideo
  BY <1>2, MainKeepsRender DEF MakeVideo
<1>3. CASE Video
  BY <1>3, MainKeepsRender, CollectKeepsRender, WorkKeepsRender, RendererKeepsRender
  DEF Video, RendererNext
<1> QED BY <1>1, <1>2, <1>3 DEF Next, Generate, vars

LEMMA RendererTypes ==
  ASSUME FramesInv, RenderInv
  PROVE  RendererTypeOK
<1>1. FlagTypes /\ RoomTypes /\ FrameNumbers /\ Requests /\ Responses /\ FrameTypes
  BY DEF RenderInv, FramesInv
<1>2. worker \in [Workers -> [pc : {"idle", "ask", "wait", "report", "gone"},
                             frame : 0 .. sent, cell : Nat, ok : BOOLEAN]]
  <2> DEFINE S == [pc : {"idle", "ask", "wait", "report", "gone"},
                   frame : 0 .. sent, cell : Nat, ok : BOOLEAN]
  <2>1. worker \in [Workers -> Workings] /\ \A w \in Workers : worker[w].frame \in 0 .. sent
    BY <1>1 DEF FrameTypes, FrameNumbers
  <2>2. ASSUME NEW w \in Workers PROVE worker[w] \in S
    BY <2>1 DEF Workings, Busy
  <2> HIDE DEF S
  <2>3. worker \in [Workers -> S]
    BY <2>1, <2>2
  <2> QED BY <2>3 DEF S
<1>3. renderer \in [Renderers -> {<<"idle">>, <<"gone">>}
                                    \cup (Workers \X (1 .. cells) \X {"image", "failed"})]
  BY <1>1 DEF Requests, Resting, Pictures
<1>4. \A w \in Workers : \A i \in DOMAIN response[w] : response[w][i] \in {"pending", "image", "failed"}
  BY <1>1 DEF Responses, Pictures
<1>5. {jobsClosed, resultsClosed, serviceClosed} \subseteq BOOLEAN
  BY <1>1 DEF FlagTypes
<1> QED BY <1>1, <1>2, <1>3, <1>4, <1>5
    DEF FlagTypes, RoomTypes, FrameNumbers, Requests, FrameTypes, RendererTypeOK, StageNames

(* Both programs keep to their types: no channel ever holds more than its  *)
(* room, a request names a cell of the grid and a result a frame that was  *)
(* sent, and a file that opens holds rows of images.                       *)
THEOREM PipelineTypes == Spec => []TypeOK
<1>1. Spec => []MergedIsAFile
  BY MergedInit, MergedNext, FilesInvariance, PTL DEF Spec
<1>2. Spec => []PlanInv
  BY PlanInit, PlanNext, FramesInvariance, PTL DEF Spec
<1>3. Spec => []PlanIsSeq
  BY <1>1, <1>2, FilesInvariance, FramesInvariance, PlanHasALength, PTL
<1>4. Spec => []RenderInv
  BY <1>3, RenderInit, RenderNext, FramesInvariance, PTL DEF Spec
<1>5. Spec => []GeneratorRest
  BY RestInit, RestNext, BoundsInvariance, StreamInvariance, DetectorInvariance, PTL DEF Spec
<1>6. GeneratorTypeOK /\ RendererTypeOK => TypeOK
  BY DEF TypeOK
<1> QED BY <1>1, <1>4, <1>5, <1>6, BoundsInvariance, StreamInvariance, DetectorInvariance,
       FilesInvariance, FramesInvariance, GeneratorTypes, RendererTypes, PTL

=============================================================================
