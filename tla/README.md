# Verification of the NormaCore station

TLA+ models of the station software (Rust, under `src/software`), of the tools
that turn its recordings into datasets and videos (Go, under
`src/software/station/bin/dataset-*`) and of the wire format they all speak
(`src/shared/gremlin_go`): what tasks, callbacks, threads and goroutines may do
in any order, what is left when one of them fails or is killed, and what is read
back of what was written. Checked with TLC on small instances and proved with
TLAPS for all of them.
`PROJECT.json` holds the machine-readable side: which lines every
definition stands for, the runs, the mutants that show each property can fail,
the hazards and the theorems.

Contents: [the system](#the-system), [its parts](#the-parts),
[the models](#the-models), [the runs](#the-runs), [fairness](#fairness),
[the proofs](#the-proofs), [what the checks found](#what-the-checks-found),
[what is not modelled](#what-is-not-modelled), [plan](#plan).

## The system

The *station* (`src/software/station/bin/station`) is one process on a robot's
computer. Drivers talk to hardware, to clients and to each other through the
queues of an embedded engine, NormFS, which is not part of the repository: a
queue is an ordered, persistent log of entries with ids; `enqueue` appends or
refuses, and a subscription is called back for every later entry, in order,
from a thread of the engine. Everything else is shared memory of one process:
`Arc`s behind locks, channels, atomics.

```
 clients ── commands ──> driver subscription ── st3215/tx ──> port worker (one per bus)
                                                                 │  frames to and from servos
                                                                 v
 st3215/rx <── every envelope of every bus ── send_rx ── table of buses and motors
     │                                                           │
     v                                                           v
 calibration watcher (one per bus)                        st3215/inference
     │  bounds, stop flag, status                                │
     └── automatic calibration runs ── st3215/tx                 v
                                           inference feed ── inference-states ──> clients
```

What the station has recorded is turned into training data by two programs that
run one after the other and share only files. Every message on the way is
encoded and decoded by code that `gremlinc` generates over the Go runtime:

```
 inference-states ── bounds: two searches ──┐
                                            v
 recorded queue ── stream goroutine ── frames channel ── detector ── <path>/<n>.parquet
                                                                          │ merge
                                                                          v
 ffmpeg <── frames <── workers <── jobs ── main goroutine <── <path>.parquet
                        │   ^                (dataset-mp4)
             requests   v   │ pictures
                   3D renderers
```

Hard behaviours, in the order the plan takes them: a worker that is preempted
by commands in the middle of a scan; answers that must come once, in order, on
every error path; caches and tables kept by several writers; runs that overlap,
supersede each other and are stopped; a condition variable between callbacks
and a worker; publication under a chain of locks; hot-plugged adapters and
motors; a search from both ends in batches; a bounded channel whose consumer
looks at errors last; files that must survive a failure or a kill at any step;
five kinds of goroutines that shut down in stages; sizes that are computed
before the bytes; timeouts and late replies; restarts that restore from the last
record.

## The parts

State, operations, interactions and what makes each part correct. The last
column names the module, or the one planned.

| Part (source) | State it keeps | Operations | Interacts through | Correct when | Module |
|---|---|---|---|---|---|
| port worker (`st3215/src/port.rs`) | command channel, `command_waiting`, EEPROM cache, `last_seen_motors`, grace timestamps | receive and execute a command, scan, search, exit | `st3215/tx` callback, servo bus, `send_rx` | commands are answered once and in order, preemption never sticks, a motor is neither lost early nor kept for ever, the cache is fresh | `PortWorker` |
| published state (`state.rs`, `errors.rs`) | table of buses, motors and last commands; bounds; calibration stop flags | update from each envelope, publish | every worker, watcher, run and the driver | the published table is the table; entries match what is served | `PortWorker` (one bus), `BusDriver` (all buses), `Calibration` (status, bounds, flags) |
| driver (`driver.rs`) | the set of managed ports | look for ports, connect, spawn, remove; copy station commands to `st3215/tx` | `ports` lock, `send_rx` | a plugged adapter is served, an unplugged one given back, one task per port | `BusDriver` |
| automatic calibration (`auto_calibrate/`) | stop flag and step of each run | start, supersede, step, fail, stop, save, mark, end | `set_/get_/clear_calibration_stop`, status, `st3215/tx` | one run at a time, every stop reaches the run, the status ends | `Calibration` |
| calibration watcher (`port_meta.rs`) | points per motor, `freezed` | track, freeze, reset, stop, restore | `st3215/rx`, `st3215/meta`, bounds | never panics, bounds follow the motors, restored after a restart | `Calibration`, planned: `CalibrationMeta` |
| inference feed (`inference/mod.rs`) | latest pointer per queue, flag, condition variable | register, store, signal, rebuild, publish, shut down | callbacks of all queues, `inference-states` | no update is lost, none taken back, shutdown ends it | `StationInference` |
| arcs (`calibrate.rs`) | none (pure) | smallest arc around observed positions | watcher | the arc contains every position and no shorter one does | planned: `CalibrationArc` |
| wire protocol (`protocol/`, `port.rs`) | serial input buffer | request, reply, retry, drain | servo bus | a reply is taken for its own request | planned: `SerialLink` |
| motors mirroring (`motors-mirroring/`) | `from_to`, `to_from`, modes, protection per motor | start, stop, mirror loop, restore modes, torque tasks | `commands`, `st3215/inference` | the two maps agree, a stopped follower is released, a blocked direction stays blocked | planned: `Mirroring`, `MirrorMotion` |
| video driver (`usbvideo/`) | capture state, instances | start, capture, stop | threads, station shutdown | stop ends every thread | planned: `UsbVideoShutdown` |
| shared-memory writer (`inferences/`) | frame ring | write frame, reader | shared memory | a reader never sees a torn frame | planned: `ShmRing` |
| python client, MCP server (`station_py`, `mcp`) | pending requests, session | request, reply, reconnect | TCP | every request ends | planned: `StationClient` |
| dataset generator (`dataset-generator/`) | bounds, cursor, channels, the open episode, the files of episodes | search, stream, process a frame, save, finalize, merge, quit | NormFS reads, parquet files, the terminal interface | every frame within the bounds is processed once and in order, episodes are smooth and complete, what was reported as saved is on disk | `QueueBounds`, `FrameStream`, `EpisodeDetector`, `DatasetGenerator` |
| dataset mp4 (`dataset-mp4/`) | jobs, results and render requests in channels, pictures on disk | collect episodes, deal them into grids, render, count, close, run ffmpeg | the merged file, channels | it ends, nothing is sent on a closed channel, every episode is played whole | `GridRenderer`; both tools: `DatasetPipeline` |
| gremlin runtime (`gremlin_go/*.go`) | buffer, offsets | append, size, read, skip | generated code | sizes are exact, unknown fields are skipped | `GremlinWire` |
| generated messages (`gremlinc/internal/generators/golang`) | struct; reader with offsets and decoded fields | size, marshal, unmarshal, getters | runtime | what is read is what was written, also between versions | `GremlinMessage` |
| gremlinc parser and resolver (`gremlinc/internal`) | the parsed files | parse, import, resolve, rename | — | names resolve as protoc resolves them | not modelled |
| viewer, AI, vision, presets, examples | — | offline or UI | — | — | not modelled |

## The models

Conventions: a variable has its source's name or says in its comment which one
it stands for; an action is what one task does without letting go of the lock or
channel operation it is in; outcomes of I/O are nondeterministic; definitions
called "Mutant" are the deliberate errors of `PROJECT.json` and take no part in
the specifications.

### `PortWorker` and `CommandService` — the worker of one bus

`CommandService` is what a client is promised: a command may be submitted, the
service takes commands in order, answers each with `command` and then one
result, and may end. `PortWorker` is the worker itself.

* `Notify`/`Deliver`/`Unsubscribe`: the subscription callback of `open()`, which
  raises `command_waiting` and then sends (two actions, as the worker may run in
  between).
* `ReceiveCommand`, `HandleCommand`, `ProcessCommand` (unicast, sync write,
  calibration, other), `FinishOk`/`FinishError`/`FinishFatal`: one turn of the
  command branch of `select!`, from the flag to the result envelope, with cache
  invalidation and the removal of an old id in the code's order.
* `BeginScan`, `PreemptScan`, `ReadOk`/`ReadServoError`/`ReadFailed`, `EndScan`,
  `PingFound`/`PingSilent`/`PingGarbled`/`PingIoError`, `EndPing`, `Announce`,
  `EndSearch`: the scan branch, motor by motor, with both preemption points.
* `Plug`, `Unplug`, `AdapterLost`, `Elapse`, `RxEnqueueFails`: motors, adapter,
  time and the rx queue.

Data: a command is its kind and targets; EEPROM content is the number of the
command that wrote it, by a plain write, a `sync_write` (which may write any
address as well), an action, a reset or a calibration. Ids are changed by plain
writes only, the one command whose address the code compares with the id
register; a sync_write or a staged write to that register is left out. Time is counted in ticks; the code compares
an `elapsed()` without limit, `Older` stops at the longest period a guard
compares, which changes no guard and keeps TLC's states finite.

### `Calibration` — automatic runs and the watcher of one bus

Three kinds of actor share the stop flag of the bus, the bounds and the
published status: the port worker (`FindRobot`, `SpawnRun`, `StoreFlag`: the
steps of `auto_calibrate::calibrate` between which other tasks run), the runs
(`ResetBounds`, `Begin`, `NextStep`, `StepFails`, `NoticeStop`,
`ReportStopped`, `Save`, `Mark`, `ClearFlag`) and the watcher (`WatchReset`,
`Wipe`, `WatchFreeze`, `Release`, `Hide`, `WatchStop`, `DropFlag`,
`WatchState`). What a run does to the motors is abstracted to whether a step
succeeds and when it looks at its flag; ranges to none, tracked or frozen.

### `BusDriver` — ports, buses and publication

The scanner (`Look`, `Lock`, `PassOver`, `Connect`, `Manage`, `Finish`) and a
task per port (`OpenOk`, `OpenFails`, `Report`, `Fill`, `ServeEnds`, `Abandon`,
`Left`, `Remove`). Every signal runs through `send_rx` in its critical sections:
`Send` (rx queue, may refuse), `Change` and `Stamp` (write lock), `Read` and
`Enqueue` (read lock held from one to the other; `Writable` is the lock). How a
worker ends is `PortWorker`'s matter: there a lost adapter ends it at the next
ping or at a command to a motor, and on a bus whose eight ids have all been seen
nothing is pinged. `BusDriver` keeps that apart: `Fill` puts a port into `full`
when its last id was found, for good, as no scan drops a motor again;
`ServeEnds` follows the loss of the adapter of a port that is not in `full`, and
may or may not follow it for one that is, as a command may or may not come. What
was found (`found`) is older than what is plugged in by
the time it is used, as in the code.

### `StationInference` and `LatestFeed` — the inference feed

`LatestFeed` is the promise: every published state holds, per queue, an entry
that was its latest at some moment, and never an older one than before; updates
may be conflated. `StationInference` is `Inference`: the callbacks (`Store`,
then `Signal` under the mutex), the worker (`Sleep`, `Begin`, `Read` per map
entry in any order, `Publish`, `Exit`) and `shutdown()` in its two steps. It
implements `LatestFeed` with `latest` mapped to `pointers`.

### `QueueBounds`, `FrameStream`, `EpisodeDetector`, `DatasetGenerator`

The dataset generator, in the order of its data.

* `QueueBounds` is `bounds.go`. `StartSearch` starts two goroutines; each first
  tries the entry it was given (`TryForward`, `TryBackward`) and then searches in
  batches (`SearchForward`, `SearchBackward`), one action per read, whose answer
  (`Replies`) may be cut short by the end of the queue or by an error. The
  backward search reads forwards, so `BatchStart`, `Closest` and `NextBackward`
  are its arithmetic as the code has it, with the step back of one entry.
* `FrameStream` is the goroutine and the two channels of `source.go`: `ReadBatch`,
  then entry by entry `SendFrame`, `SkipDamaged` or `PassBounds`, and `EndBatch`
  where the next cursor is computed; `SendError` and `Return` with its deferred
  closes.
* `EpisodeDetector` is the struct of `episodes.go`: `Start`, `Continue` (with
  `CountCommand`, `MarkSkip`, `Buffer`), `Over`, `Refused`, `Reset`, and the file
  operations. Differences of stamps are unsigned words and durations signed ones
  (`Minus`, `Signed`), because the station's clock may start again.
* `DatasetGenerator` is the process: `runProcessing` from `Launch` to `Finish`,
  with `pc` saying where it is. Creating, writing and merging files succeed or
  fail, a file that was not written to its end is `Torn`, `RemoveFile` may be
  ignored. `Quit` and `Kill` end it anywhere, and `Launch` starts it again over
  the files that are there. A frame's content is chosen when it is processed:
  stamp, goals and number of images are all the code looks at. Frames come from
  `generate_frame` (`normvla.rs`), which publishes the images it has also when
  the joints could not be read: such a frame has no goals (`NoGoals`).

`handled` (the frames processed in this run, `Entry`) is the one ghost variable.

### `GridRenderer` and `DatasetPipeline`

`GridRenderer` is dataset-mp4: `CollectEpisodes` and `Plan` are its pure part,
written as a fold over the rows; the main goroutine goes from `stage` to `stage`
(`SendJob`, `CloseJobs`, `CloseResults`, `CloseService`, `RenderersEnd`,
`GenerateVideo`), a worker takes a job, asks for a picture per cell, waits for
all of them in order, draws and reports (`TakeJob`, `AskRender`, `Asked`,
`Receive`, `Draw`, `Report`, `LeaveWorker`), a 3D renderer answers
(`TakeRequest`, `Answer`, `LeaveRenderer`) and the collector counts. Channels are
sequences with the code's capacities; a wait group is the condition that all of
its goroutines are gone. Drawing may fail, and ffmpeg may.

`DatasetPipeline` puts the two programs one after the other: dataset-mp4 reads
the merged file that the generator left, whole or torn.

### `GremlinWire` and `GremlinMessage` — the wire format

`GremlinWire` has the runtime's encodings as operators: `VarInt`, `FixedInt`,
zigzag, tags and their sizes; their readers; and `Skip` (`SkipData`), with
groups. The widths are constants in the code's proportions, so that a varint of
the longest form holds exactly a word. `GremlinMessage` is what the templates
generate: `ContentSize`, one `Marshal` action per field in the order of the
`.proto` (map entries in any order), one `Unmarshal` action per turn of its
loop, a `Get` per getter, in any order. An exchange has the writer's version of
a message and the reader's, which may know fewer fields at either level;
`MarshalElsewhere` is another library's encoder that repeats fields, splits
packed lists or writes groups. What is declared, and which structs there are, are
constants: `MessageAssumption` says that numbers are unique and in range and that
a struct holds what its fields are declared to, `SizeAssumption` that sizes
fit the word they are written as, and `VersionAssumption` that the versions of a
message which meet (`Versions`) give a number to one field only: the same shape,
type and default, as protobuf asks of a `.proto` that evolves; fields may come
and go. Where the generated functions call those of a nested message, the model
asks a function over all messages (`ContentSize`, `Bytes`) or over all depths
(`Nested`), and `Depth` says that messages nest only so deep: a message type that
contains itself is left out. A loop is as many turns as there are bytes
(`Loop`), as every turn that goes on takes a byte or more.

## The runs

`MC*.tla` name the model values; each `.cfg` is one question.

| Run | Instance | Checks |
|---|---|---|
| `port_commands` | 2 ids, 2 commands of the kinds that touch the table, any hot-plugging | `TypeOK`, `FlagMeansCommand`, `AnsweredInOrder`, `NothingLeftProcessing`, `ImplementsService` (safety of `CommandService`) |
| `port_liveness` | 2 ids, a command of the kinds that change EEPROM or fail in steps, timers; both ids have a motor as long as only plain writes are sent, one of them with the other kinds | `CacheStaleOnlyByBypass`, `AnswersEveryCommand` (`CommandService` with its fairness), `DroppedOnlyAfterGrace`, `MotorGetsSeen`, `AdapterLossEndsWorker` |
| `port_eviction`, `port_id_change` | as above | violated, see below |
| `calibration_runs` | 2 runs, 3 commands of all kinds, 1 unread entry | `TypeOK`, `ProgressHasRun`, `SignalsHitNewest`, `StartOrphansNobody`, `StopEndsRun` |
| `calibration_overlap`, `calibration_panic` | 3 runs; 1 run and a freeze | violated, see below |
| `bus_publication` | 2 ports, 1 adapter that moves between them | `PublishedCatchesUp` |
| `bus_lifecycle` | 1 port, 3 adapters, one without serial number | `TypeOK`, `ListingFollowsService`, `PluggedGetsServed`, `UnpluggedGetsReleased` |
| `inference_feed` | 2 queues, 3 entries each | `TypeOK`, `NoLostUpdate`, `NoMissedWakeup`, `EveryUpdatePublished`, `ShutdownEndsWorker`, `ImplementsFeed` |
| `dataset_pipeline` | 517 small recordings: every placement of a queue in five states, every pattern of damaged entries, clock restarts and gaps over two runs, frames with one image, frames without joints, four episodes in grids of one and two | `TypeOK`, `BoundsAreNearest`, `FramesOnceInOrder`, `BufferMissesNoFrame`, `EpisodesAreSmooth`, `CommandsAreCounted`, `ReportedIsOnDisk`, `MergedIsOneRun`, `FramesAreDrawn`, `VideoPlaysEveryEpisode`, `ProgramsEnd` |
| `gremlin_message` | every value of every scalar type in a small word, lists up to three, messages, lists and maps of messages between versions | `SizeIsExact`, `OffsetsAreFieldStarts`, `ReadsWhatWasWritten` |

What the properties say is in the comment above each. Why the bounds are enough:
every property is about two of something at a time. Two commands show order, a
missed answer and a flag left by the first. A cache entry goes stale by one
command between two reads, which is why `CacheStaleOnlyByBypass` is checked with
one; its proof is for any number. `port_liveness` attaches every id there is, so
that the bus fills: with one id left over, the case in which nothing is pinged
would not occur. Its `LiveSpec` restricts the environment only, to keep the
state space small: the second motor is not on the bus together with a command
other than a plain write. Two runs show supersession and whose flag is
stored, three that a flag may be gone when the third starts. Two ports show two
publishers and an adapter that moves; a port's own history does not depend on
other ports except through the lock of `ports`, so one is enough for its life.
Two queues show a copy of no single moment; a third entry, an update during the
rebuild of an update. In the dataset run `STEP`, `BATCH` and `CHANNEL` are
smaller than the recordings, so that batches are cut, overlap and end at the
bounds, and the channel fills. `DURATION`, `GAP` and `STILL` are two ticks: a
frame after three is a gap and one after two is not, an arm that is moved in
every frame is never still, and a clock that starts again makes a signed
difference negative and an unsigned one huge. `LIFETIME` stays below `WORD` by
more than `GAP`, as 2^64 ns are 584 years. Each family of recordings is for one
part and is plain in the others, because the parts only share what the
properties between them name: the bounds, the frames that were handled, the
files. Two workers and one renderer fill a channel of one request while its only
reader waits for one of them. In the wire format a limb is one bit and a word
six: all values of all types are written, so every length of a varint and every
sign. `GRACE`, `SEARCH_DELAY` and `SEARCH_GAP` keep only the order of the
periods. Counters that the code does not bound (`MaxCmds`, `MaxRuns`,
`MaxRequests`, `MaxPending`, `MaxId`) are bounded in guards, which is why runs
with them say `CHECK_DEADLOCK FALSE`: there the model stops at its bounds.
`dataset_pipeline` and `gremlin_message` say it too, as these programs end.
`BusDriver` has no bounds and is checked for deadlock. The proofs hold for every
value of all of them.

## Fairness

* `PortWorker`: the worker and the callback run (weak). `select!` chooses at
  random among ready branches, so a ready command and a due scan are both taken
  in the end (strong fairness of `ReceiveCommand`, `BeginScan`). A motor that
  stays on the bus answers some pings (strong fairness of `PingFound`).
* `Calibration`: the worker, the runs and the watcher run. A run that waits for
  inference updates gets them: `wait_for_stall` has no timeout of its own, so
  `StopEndsRun` does not hold of a bus that is no longer published.
* `BusDriver`: scanner and tasks run; tokio's `RwLock` is first come, first
  served (`Lock` waits for tasks that wait); parking_lot's does not starve
  writers; an adapter that stays plugged in is created and opened at some attempt
  (strong fairness of `Connect`, `OpenOk`). A task whose adapter is gone ends
  (`TaskProceeds`) unless its bus is full: then only a command ends it, and
  nothing makes a client send one. `PluggedGetsServed` and
  `UnpluggedGetsReleased` say so with `Unnoticed`.
* `StationInference`: a callback that has stored goes on to signal, the worker
  runs, `shutdown()` returns. Nothing is assumed of new entries or of `enqueue`
  succeeding.
* `DatasetPipeline`: some goroutine goes on as long as any can, `WF` of all of
  them together, which is what the Go runtime promises and less than fairness to
  each. Nothing makes the user start a program, quit or kill it.

## The proofs

`<Module>Proofs.tla`, checked by `tlapm`; nothing is assumed but the named
`ASSUME`s of the constants. Each proves an inductive invariant whose parts are
named, `Init => Inv` and `Inv /\ [Next]_vars => Inv'` with a step per action,
and the properties from it.

* `PortWorkerProofs`: `TypeCorrect`, `FlagCorrect`, `AnswersCorrect`,
  `NoProcessingLeft`, `CacheCorrect` (stale EEPROM is the work of a plain write, a
  sync_write, an action or an id change), `Implements` (safety of
  `CommandService`).
  The invariants come in layers: where the callback and the channel are (the
  channel holds exactly the commands not yet taken, in order), then what was
  answered, then which table entries may show `processing`, then which EEPROM
  versions the cache may hold. `GraceNeverExpires` proves the finding of
  `port_eviction` for every instance: with a grace window longer than zero no
  scan ever drops a motor; `DropsCorrect` follows.
* `CalibrationProofs`: `CalibrationTypes`, `ProgressCorrect`, `StopCorrect`,
  `StartCorrect`. The strengthening says which runs have been started and what
  state they are in before their flag is stored, so that the flag found by a new
  start or a stop is that of the newest stored run, and that a run past
  `Begin` still has the words that end `InProgress` before it. Between the spawn
  of a run and the storing of its flag the stored one is the superseded run's;
  `SupersededTold` says that this run was told already, so that a stop in the
  window signals nobody anew.
* `BusDriverProofs`: `BusTypes`, `PublicationCorrect`, `ListingCorrect`. A copy
  that waits to be enqueued is the table (the read lock), so whoever publishes
  last publishes the table; what is listed for a port is said signal by signal
  (`Listing`), because a property about service alone is not inductive.
* `StationInferenceProofs`: `InferenceTypes`, `UpdatesKept`, `WakeupsKept`,
  `FeedCorrect` (refinement). `CopyInOrder` orders published, copied and latest
  entries of a queue, which makes `Publish` a step of `LatestFeed`.
* `DatasetGeneratorProofs`, one part per module of the generator.
  `BoundsAreTheNearest`: each search carries what it has ruled out (`ForwardInv`,
  `BackwardInv`): the range it passed has no match. So what the forward search
  found is the first match and what the backward one found the last, and where
  both found one they are the ends of one set and in order; the property alone
  says nothing of a search under way. `FramesAreOnceInOrder`: `StreamInv` says
  that what was handled followed by what is in the channel is the enumeration of
  the frames within the bounds that parse, up to the goroutine's position; the
  cursor, which lags behind that position over damaged entries, never passes
  over a good one. `DetectorInv` says
  the open episode's rows are smooth so far and within the life of the clock,
  which is what makes an unsigned difference that wrapped larger than any gap;
  `BufferInv` relates the buffer to `handled` (`BuffersAreComplete`). `GoalsInv`
  says that the tracked goals are those of the last frame with images, unless a
  frame of the same episode had no joints (`Blind`); from it `CommandsCounted`, and no episode
  ends with a command, as nothing was still for `STILL` at its stamp. `SmoothEpisodes`,
  `MergedFileIsOneRun`, `ReportedEpisodesAreOnDisk`: `FilesInv` gives every
  reported episode a whole part of its own until the merged file holds it, and
  the merged file before any part is removed; counting labels then needs the
  library's theorems on cardinality.
* `DatasetVideoProofs`: `EveryFrameIsDrawn`, `EveryEpisodeIsPlayed`,
  `PipelineTypes`. `FramesInv` accounts for every frame that was sent (`Accounted`:
  in a channel, with a worker, on disk, or its error is on the way) and says for
  each stage of the main goroutine that what it waited for stays over. What the
  video plays is a fact about the two pure functions: by induction over the rows
  of a file `CollectEpisodes` cuts it into its runs of one label, and by
  arithmetic on quotients and remainders `Plan` deals the episodes into the cells
  of the grids, each episode to a stretch of frames and a cell of its own, the
  other cells blank. The types of the whole pipeline follow room by room: a
  picture is in at most one response, and a worker waits for as many as it asked.
* `GremlinProofs`, first of the wire format: `VarIntsAreRead`, `NoVarIntOverflows`, `SizesAreExact`,
  `ReadsWhatWasAppended`, `SkipLandsBehind`, `TagSizeIsExact`, `FieldIsRead`, for
  every width, the code's 7-bit limbs and 64-bit words among them, every value of
  every type and every position in a buffer. They rest on `DigitsJoin` (a number
  taken apart and put together again, for any base, so for limbs and for bytes)
  and on `Widths`: that a word is several halves, both are even, and the longest
  varint has room for one bit of its last limb. Then of messages: `BufferIsExact`
  and `UnmarshalStaysOnFields`, for every declaration and every struct. `IsField`
  says of some bytes that wherever they stand their tag is read and skipping leads
  to their end; every shape of field, and a group, whatever it holds, is one.
  `IInv` has the buffer as a `Chain` of them, of the size of the fields written so
  far, and Unmarshal at the start of one. That the sizes and the bytes of nested
  messages exist goes by induction over `Depth`, that a group ends by induction
  over the bytes that are left.
  Last, `WhatIsWrittenIsRead`. `Carries` says of the fields on the wire that one
  field was written as that any version of it reads the value back from them,
  wherever they stand; it is proved shape by shape (a packed list in one part, in
  several or element by element; a map in the order of its entries, each read by
  a loop of its own). `Written` says of the bytes so far that for every number
  the reader knows they hold such a `Block`, and `ScannedTo` that what Unmarshal
  has remembered is where its first fields are. `RInv`, over `IInv`, is these and
  that the values asked for are right. A nested message is read by the same
  lemmas, with induction over depth (`NestedIsRead`); it reads as nil exactly when
  it says nothing, as only then it has no bytes (`NoBytesSayNothing`).
* `Counting` has the lemmas these share. An induction is done with a set in
  place of a predicate: `UpTo` says that a set with 0 and, with every number
  below `n`, the next one, holds all of them; it follows from the library's
  theorem that inclusion of finite sets is well founded. `StepsExist` and
  `StepsForever` say that the functions exist which recursive definitions stand for.

Only model-checked: everything under fairness (`AnswersEveryCommand`,
`MotorGetsSeen`, `AdapterLossEndsWorker`, `StopEndsRun`, `PluggedGetsServed`,
`UnpluggedGetsReleased`, `EveryUpdatePublished`, `ShutdownEndsWorker`,
`ProgramsEnd`), which is out of the prover's reach. Every invariant the passing
runs check is a theorem, and so are their action properties and the safety of the
abstract specifications.

## What the checks found

* `port_eviction`: the scan clears the grace timestamps of the motors it keeps
  for grace (`port.rs:386-392`), so a motor unplugged for good is scanned for
  ever and never reported as disconnected.
* `port_id_change`: after an id change the old id is cleared from the table but
  still scanned; its timeout lists it again (`port.rs:235`, `errors.rs:132`).
* `calibration_overlap`: a run that ends, and a freeze, clear the stop flag of
  the bus whoever's it is (`so101.rs:62`, `port_meta.rs:321`); the next start
  finds no run to signal and two drive the motors.
* `calibration_panic`: a freeze after a run has reset the bounds unwraps bounds
  that are gone (`port_meta.rs:271`) and ends the watcher of the bus.

Met while modelling and kept as hazards; the first two are named exceptions of the
properties that meet them:

* On a bus with a motor under each of the eight ids (an ElRobot, `presets.rs:30`)
  nothing is pinged and failed reads are swallowed (`port.rs:326-328`, `457-464`).
  When its adapter is pulled the worker goes on, the port stays managed, and the
  adapter that is plugged in again is not served until a client sends a command
  (`AdapterLossEndsWorker`; `Unnoticed` in `BusDriver`).
* A frame whose joints could not be read is published with its images
  (`normvla.rs:139-202`). It counts as a command and empties `lastGoals`, and
  `hasCommandsChanged` then answers false for the rest of the episode
  (`episodes.go:262`): its commands are lost (`Blind` in `CommandsAreCounted`).
* A reset, and a stop, raise the flag they find and clear whatever flag is stored
  some steps later (`port_meta.rs:194`, `331-334`), as the end of a run does; a run
  started in between loses its flag, and the next stop or reset tells nobody.

Others, of which no document says what should happen: a bus that fails to open stays listed and lends its serial number to the next
adapter under the same port name; commands left in the channel when a worker
exits are never answered; a timed-out sync write lists motor 254. Of the Go
tools: the interface prints "Processing complete!" also when it is quit in the
middle (`ui/model.go:77`); a frame that cannot be drawn leaves a hole at which
ffmpeg ends the video without an error; a message that was set but says nothing
reads as nil, and a float -0.0 counts as unset.

## What is not modelled

Of the station: bytes on the servo wire, register encodings and positions (pure;
`SerialLink` and `CalibrationArc` are planned for what is hard in them). The
steps inside one calibration command and inside one run's movement, abstracted
to success or failure. The copying of station commands to `st3215/tx`. Restart
of the station and the records in `st3215/meta`; more than one watcher per bus.
NormFS itself. The remaining drivers, clients and tools as listed in the table
and in `PROJECT.json`.

Of the Go code: most of its 102,040 lines are generated (`*.pb.go`, `*.pb2.go`,
`bench_data.go`): one message after another from the templates that
`GremlinMessage` models once, so the map names the templates and not their
output, and covers a small share of all Go lines. Drawing, forward kinematics,
progress and log lines of the dataset tools. In the templates `Copy`, `ToStruct`,
tags, names and the text of defaults; in the runtime the reuse of a reader for a
second message.

`gremlinc`'s parser and resolver are one sequential pass without state that
outlives it. Reading them showed that their result depends on the order in which
files are listed, which a future module `ProtoResolver` should state: `imports.go`
adds one level of public imports, which is more or fewer depending on which file
was processed first, and makes public imports of non-public imports visible;
`resolving.go` takes the first import that has a name, and looks a name up under
the target's package; a base message that a local extension replaces is gone for
files processed later; and an extension's extra scope is the base message's own
name, so that a nested type of it can resolve to the extension itself.

## Plan

Done, in this order: `CommandService`, `PortWorker` (+ proofs), `Calibration`
(+ proofs), `LatestFeed`, `StationInference` (+ proofs), `BusDriver` (+ proofs),
`QueueBounds`, `FrameStream`, `EpisodeDetector`, `DatasetGenerator`,
`GridRenderer`, `DatasetPipeline` (+ proofs in two modules), `GremlinWire`
and `GremlinMessage` (+ proofs).

Next:

1. `Mirroring`: `from_to`/`to_from` under start and stop, the torque tasks they
   spawn, the mirror loop with its copy of the map, restored modes. Abstract
   specification: one leader per follower. Bounds: 3 buses, 3 commands. To
   prove: the two maps are inverse. `MirrorMotion`: the protection of one motor.
2. `CalibrationMeta`: bounds and records across restarts and reconnects, several
   watchers; extends `Calibration`'s watcher. Bounds: 2 motors, 2 restarts.
3. `CalibrationArc`: the arc against a reference definition on small circles.
4. `SerialLink`: requests, late replies, drain and retries. Bounds: 2 motors, 3
   requests, 1 late reply.
5. `UsbVideoShutdown`, `ShmRing`, `StationClient`: shutdown, tearing, reconnect.
6. `ProtoResolver`: imports and names for every order of the files, against the
   resolution protoc documents.
7. Proofs: for each of these the type invariant and its main safety property.
