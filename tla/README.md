# MOEnet in TLA+

MOEnet runs on a coprocessor of a robot. A main process reads AI cameras through
one worker process per camera, fuses what they see, serves web pages and talks to the
robot over NetworkTables. This directory models the server and its robot client,
checks the models with TLC and proves the main results with TLAPS.

Paths below are relative to `src/server/` unless they start with `src/`.

## 1. The system

| Part | Code | State | Operations |
|---|---|---|---|
| Main loop | `moenet.py`, `__main__.py`, `util/interrupt.py` | `_status`, `sleeping`, `camera_workers`, configuration | `poll`, `update_config`, `pose_override`, `run`, `cleanup` |
| Worker supervision | `worker/controller.py`, `util/subproc.py` | per camera: process, two queues, required and last flush id, restart count, last known state | `start`, `poll`, `_handle_*`, `handle_default`, `handle_dead`, `flush`, `stop`, `close` |
| Watchdog | `util/watchdog.py` | `start`, `_start`, `min`, `max` | `has_remaining`, `block_args` |
| Camera worker | `worker/worker.py`, `worker/msg.py` | worker state, pipeline, device, tries | `__enter__`, `find_oak`, `attach_oak`, `process_command`, `poll`, `__exit__` |
| Worker configuration | `worker/config_resolver.py`, `typedef/apriltag.py` | resolved presets | `_resolve_*`, `process_one`; `convert`, `load`, `store` of a field of tags |
| Camera pipeline | `worker/pipeline.py`, `worker/node/` | stages, runtimes, output queues, events | `build`, `start`, `broadcast`, `poll`, and `handle` and `poll` of each runtime |
| NetworkTables | `comms.py`, `wpi_compat/nt/dynamic.py` | publishers, subscribers, `_read_queue`, `_fresh_data` | `update`, `tx_*`, `set`, `set_fresh`, `readQueue`, `get_fresh`, `enabled` |
| Robot client | `src/MOEnet-client/` | cached configuration, last timestamps | `getConfig`, `getState`, `isConnected`, `send*`, `get*`, `setSleeping` |
| Web server | `web/web_srv.py`, `web/app.py`, `web/msg.py`, `worker/node/web.py` | pending responses, jobs, streams, tracks | `request`, `run`, `_respond`, `get_stream`, `read_frame` |
| Estimator | `estimator/pose_simple.py` and the rest of `estimator/` | pose buffers, last correction | `record_*`, `odom_to_robot`, `clear` |
| Replay filters | `estimator/util/` | measurement queue, histories, tracked values | `observe`, `predict`, `revert_to`, `clear`; `add`, `track`, `refresh` |
| Time mapping | `util/timemap.py`, `util/timestamp.py`, `util/clock.py`, `worker/time.py` | table of conversions | `register`, `get_conversion`, `localize` |
| NavX | `navx/ahrs.py`, `navx/trackers.py`, `util/navx.py` | yaw, its history and offset, crossings of the angle, who listens | the packet handlers, `zero_yaw`, `yaw`, `angle` |
| Pose filters, types, web pages | `estimator/pose/`, `typedef/`, `src/` elsewhere | | see section 7 |

How they interact:

* The main process is one thread. `MoeNet.poll` first handles the input from
  NetworkTables, then the web server, then polls every `WorkerHandle` in turn,
  and goes round again while any of them had a packet.
* Main and worker share nothing but two unbounded queues, `cmd_queue` and
  `msg_queue`. Both belong to the handle and outlive the worker: a restarted
  worker reads on where the last one stopped.
* A worker may end at any moment. Then a suffix of what it wrote to `msg_queue`
  may be lost, because `multiprocessing.Queue` writes from a background thread.
* The workers look for their devices at the same time, each for itself.
* The web process has two bounded queues of its own and the queue of video frames,
  which the workers fill. Four threads share its tables.
* The thread of the NavX board handles its packets while the main thread asks for the yaw,
  sets it to zero or registers a clock that listens.
* MOEnet is a client of NetworkTables and may come and go; the robot holds the
  server, which keeps the last value of each topic.

What is hard: crashes and restarts on queues that survive them; packets from
before a pose override that are still under way; the order of "is it alive" and "is
the queue empty"; hanging devices; exceptions out of the middle of a round; an answer
that races its timeout; retained values of a run that is over; stages that require
each other and may fail; devices that several workers list and one boots; and, in the
estimator, measurements that come out of order and cached values that go stale.
`PROJECT.json` lists each of these at its line, with the properties that cover it or
the reason why none does.

The modules of the server do not import at this commit (`estimator/__init__.py`
imports `MsgAprilTagPoses`, which `worker/msg.py` does not define). The models
translate the source text as it is written, with what each statement would do.

## 2. The modules

| Module | What it is |
|---|---|
| `WorkerProcess` | the camera worker: `main()` of `worker/worker.py` |
| `CameraSupervisor` | the main process over `WorkerProcess`: `moenet.py`, `worker/controller.py`, `util/subproc.py`; also its properties |
| `Supervision` | what the supervisor promises, without queues and polls |
| `CameraSupervisor_proof`, `_safety`, `_refinement` | type correctness; the safety invariants; `CameraSupervisor` implements `Supervision` |
| `NetworkLink` | MOEnet and the robot: `comms.py`, the status in `moenet.py`, `MoeNet.java` |
| `NetworkTopic` | one topic behind `wpi_compat/nt/dynamic.py` |
| `Network_proof` | theorems about `NetworkTopic` and `NetworkLink` |
| `WebServer`, `WebServer_proof` | `web/app.py`, `web/web_srv.py`, `worker/node/web.py`; its safety theorems |
| `ReplayFilter`, `CascadingReplayFilter` | the filter for measurements out of order, and for those that change later: `estimator/util/replay.py`, `heap.py`, `cascade_replay.py`, `cascade.py` |
| `Interpolation` | buffers, tracked and derived values: `estimator/util/interpolated.py`, `cascade.py` |
| `SimplePoseEstimator` | `estimator/pose_simple.py` |
| `NavX` | the yaw of the board: `navx/ahrs.py`, `navx/trackers.py`, `util/navx.py` |
| `Estimator_proof` | theorems about `NavX`, `Interpolation`, `SimplePoseEstimator`, `ReplayFilter`, `CascadingReplayFilter` |
| `TimeMap`, `TimeMap_proof` | the table of clock conversions and the search in it; theorems about both |
| `ConfigResolver` | `worker/config_resolver.py` |
| `CameraPipeline` | extends it: `build()` and `start()` of `worker/pipeline.py` and the builders in `worker/node/` |
| `CameraRuntime` | extends that: `poll()`, `broadcast()` and the runtimes |
| `DeviceManager` | several workers looking for their devices: `worker/worker.py` |
| `AprilTagField` | conversion of a field of tags: `typedef/apriltag.py` |
| `Camera_proof` | theorems about `CameraPipeline`, `CameraRuntime`, `DeviceManager` and `AprilTagField` |
| `MCCameraSupervisor`, `MCNetworkLink`, `MCWebServer`, `MCCascadingReplayFilter` | values for the constants of one module |
| `MCEstimation` | `ReplayFilter`, `Interpolation`, `SimplePoseEstimator`, `TimeMap`, `NetworkTopic` and `NavX` |
| `MCCameraPipeline` | `CameraRuntime`, `DeviceManager` and `AprilTagField` |

The last two check several components in one run. They do not interact: the
variable `part` of the first state says which one moves, and all others stay in one
initial state. `MCCameraPipeline`'s device and field parts stand behind a camera whose
selector is unknown, so that its pipeline fails at once.

### WorkerProcess

`wpc[w]` says where worker `w` is in `main()`: `boot` (process started), `enter`
(constructor done), `find` (looking for the camera), `loop`, `exit` (in
`__exit__`), `dead` (ended, not joined), `none` (`Subprocess.proc is None`).
`wst[w]` is `CameraWorker.state`. `cmds[w]` and `msgs[w]` are the two queues.

`SetState` is the property setter: it puts `MsgChangeState` if the state changes.
`ProcessCommand` is one turn of the loop that finds a command; a paused worker
blocks in `get()`, a running one goes on to `Poll`, so the two are separate
actions of a running worker and the only one of a paused worker. `Poll` puts a
packet; `PollError`, `NoOak` and `Crash` are the external failures, bounded by
`MaxFaults`. `Crash` leaves any prefix of `msgs[w]`, the part the feeder thread
had already written. An exception in `__exit__` is a `Crash` too.

Three variables are history and steer nothing: `flushed[w]` (id of the last flush
that was performed), `starts[w]` (processes started for `w`) and `faults`. Every
message carries `from`, the process that put it, and packets carry `gen`, the
last flush performed when they were produced.

`PipelineMethods` is a constant because `worker/worker.py` calls two methods of the
pipeline, `override_pose` and `flush`, of which `MoeNetPipeline` has neither: in the
code the set is empty, and a worker that is told to do either dies. `Sup_faults` takes
both, so that the protocol around a flush can be examined; the other runs take none.
`PacketKinds` are the packets that the pipeline yields: `pose`, `detections` (a
`MsgDetections` with objects in it), `empty` (one without), and `other` for the types
that the main process does not name. The search for the device is one step here and
`DeviceManager` takes it apart; `Poll` is one step here and `CameraRuntime` takes it
apart.

### CameraSupervisor and Supervision

`mpc` is the program counter of the main thread, split where another process can
act in between:

    top     MoeNet.poll up to the drain loop: one action, because the workers see
            only the commands that it puts (Update, OverrideRaises, RemoteConfig, Quit)
    begin   Subprocess.poll of handle cur is entered, or skipped without process
    alive   is_alive() is asked                          (CheckAlive)
    get     the queue is read: a message is handled (HandleChangeState, HandleFlush,
            SkipPacket, DeliverPacket, PacketRaises), or it is found empty and
            the process lives (EmptyAlive) or was seen dead (Restart, GiveUp,
            CameraLost, which are handle_dead)
    stop, close, join, done    cleanup()

`EmptyAlive` is possible with messages in the queue: `get()` waits for 1 ms, and a
message that was just put may still be with the feeder thread. `FoundDead`, by
contrast, requires an empty queue: a process that was seen dead has written all
it ever will.

`Inputs` picks any combination of the sleep flag, a pose override, a configuration that
does not validate and the web server's request for the streams, which ends `run()`
before the sleep transition (`web_srv.py:96`). `RaisingInputs` are those that end it.

What a packet does when the gate lets it through depends on the estimator. At this
commit it takes only a `MsgDetections` without objects, and only without a DataLog:
`Accepted`, by `DeliverPacket`. Every other packet ends `run()`, by `PacketRaises`
(section 5 says where).

A pose override would come from `Comms.update`, which reads it with `readQueue()`; that
wrapper returns a list it has just cleared (`wpi_compat/nt/dynamic.py:290-296`), so at
this commit none arrives. Were it to arrive, `observe_f2r_override` would raise before
any worker is told (`estimator/__init__.py:75`): `OverrideRaises`, with
`EstimatorObserves = FALSE`, which `Sup_live` has as an input. With
`EstimatorObserves = TRUE`, up to `MaxFlush` overrides reach the workers. Only
`Sup_faults` takes that, together with both methods of the pipeline: its behaviours
include those of the code and, beyond them, those of the flush protocol as it stands in
`controller.py`, `worker.py` and `subproc.py`, which the code at this commit never starts.
The invariants it checks hold in both.

`RestartTries`, `Optional` and `MainInputs` are configuration. `childState` is kept
because the code keeps it; no decision reads it.

`Supervision` states what `WorkerManager` promises to the program: of each camera
whether its process runs, is dead or is gone, how many processes it was given, and
whether the program is up, closing or closed. `Abstract` in `CameraSupervisor`
is the refinement mapping, `Supervised` the property.

### NetworkLink

MOEnet's side has `phase`, `status` and the configuration it was deployed with; a
restart may bring another one. `out` is what it has published, `seen` what the robot's
server has of that, `rio` what the robot published and `got` what MOEnet has of that:
a topic has only its last value. The link may be lost at any step; then the client
forgets the robot's values, and the server MOEnet's, but only when it notices
(`Unannounce`). After a reconnection every value arrives once more, and so does
a configuration that MOEnet has read already.

`runs` stands for the timestamp of a configuration and `poses` for that of a
correction; other values have no timestamp since nobody compares them. `IsNew`,
`Parsable`, `MaySend` and `MayGet` are the client's caches and checks. `Poll` is one
`MoeNet.poll`; `ApplyConfig` is the poll that finds a valid remote configuration,
which always raises (`MergeRaises`). `Logged` says whether the robot program gave the
client a DataLog: without one a read of the correction throws after it has taken the
timestamp (`MoeNet.java:238-239`), so the value is lost to the caller. `lastTf` is the
timestamp that the client has taken, `given` the latest that its caller got.

### NetworkTopic

`Factory` is the choice of a topic for a type, with the errors of the code: for
lists of booleans the factory asks for a method that no topic has, and the subscriber of
a protobuf has no `readQueue`. `Reset` is `Comms._reset`, which sets the `enabled`
of a publisher and a subscriber one after the other. `due` and `asked` are history: what
`get_fresh` owes its caller and what the publisher was asked for. At run
time `Comms` never disables a topic, because nobody calls its `update_config`; the
module takes the wrappers at their word and tries all of it.

### WebServer

`rpc[r]` is where the handler of request `r` is in `WebServer.request`, split at
every `await`. `jobs` and `busy` are the work queue and the one thread of the executor;
what the code submits, a `ResponseDispatcher.insert` with or without a future or a
`put`, is a job. `ReadAnswer` and `SetResult` are the two steps of the `read_cmd`
thread, between which the event loop can time out. `Timeout` cancels a put only if
it still waits. `Respond`, `ListStreams` and `StreamCtl` are the main process,
`Enable`, `RestartWorker` and `Frame` a camera worker, `ReadFrame` the `read_vid` thread
and `Offer`, `Leave` and `Recv` the viewers. The queues have the bounds that the code
gives them, as constants.

### ReplayFilter and CascadingReplayFilter

The variables are the attributes: `queue` is `_measurement_queue` (a set, from which
`InOrder` gives what the heap gives), `mhist` and `shist` the two histories, `filt`
the wrapped filter. Of the filter's state only the time and the sequence of integrated
measurements (`seen`) is kept: two states of the real filter agree if these agree.
A unit of time is a microsecond. `Observe`, `Predict`, `Clear` and `Enable` are the
operations; one thread calls them, so each is one action. `Predict` is composed of
`RevertTo`, `IntegrateDue`, `Project` and `Expire` in the order of the code; these
work on the record `Data` of the four variables.

`observed` and `late` are history. `late` becomes true when `revert_to`
returns False for a filter that has integrated something: the documented
approximation then replaces the exact result.

The wrapped filter is that of `replay_test.py`. It is taken to have a
`sensor_timeout`, which the base class declares without a value, and its `clear()`
does nothing, as that of `Filter`.

`CascadingReplayFilter` extends it. `cur` is the `value_next` of the one `PushValue` of
which the measurements in `Tracked` are derived; `val` of a measurement is the value
that `Derived` has cached. `Cascade` is the loop of `predict()` over the history: those
that are stale are taken out of it (`Without`) and queued with the value of now. A
measurement in the queue keeps the value it was observed with, as in the code: the
predict() after the one that integrates it puts it right.

### Interpolation, SimplePoseEstimator, TimeMap

`Interpolation` keeps an `InterpolatingBuffer` (`snapshots`, `modcount`), a
`TrackedInterpolation` per tracker with the bounds it has seen, and one `Derived` over
them. Values are not interpolated: a value stands for its two bounds, which decide it.
`AskFresh` is an action since `is_fresh` remembers that it compared.

`SimplePoseEstimator` keeps the times of the samples in the two buffers; a correction
is the time of the pair it relates. `latest` is the reference answer.

`TimeMap` has the table `conversions`, where a row is a dict and `at` the
place of a key in it, because the search visits neighbours in that order. `Register`
is `register()` for the next mapper; `Pop`, `Drained` and `Trace` are the loop of
`get_conversion()`, a step each. Within a turn the order of the neighbours matters only
through the goal, whose distance bounds the later ones: `Improving` is the set of mappers by
which the turn changes the table. `Move` assigns the offset of a `FixedOffsetClock`,
which changes its hash: `hidden` are the clocks that the dict no longer finds.

### NavX

`recent` and `nextRecent` are the ring of `OffsetTracker`, `yawOffset` its offset;
`lastAngle`, `crossings` and `lastRate` are the attributes of `ContinuousAngleTracker`,
`resets` the one capability flag that the yaw depends on. Each action of `Packet` is one
handler of `AHRSInternal`, in the thread of the port; `ZeroYaw` and `RegisterClock`
belong to the main thread. What the board sends is the environment: any yaw of `Angles`
in any packet. The average that becomes the offset is any angle of `Angles` between the
least and the greatest yaw of the history, which is more than the code can compute.
`SetAHRSData` and, once a clock listens, `SetAHRSPosData` end in an exception before they
come to the angle, see section 5.

### ConfigResolver, CameraPipeline, CameraRuntime

`ConfigResolver` resolves presets one by one and then the camera's own list into
`config`. An optional stage that has an error disappears, another one ends the program
(`ResolveStage`). `UnreadableChoices` says whose files cannot be read.

`CameraPipeline` keeps the recursive calls of `_build_stage` and `_start_stage` on
`stack`. A call works off what the stage requires (`MonoRequires`, ...), then builds
or starts. `Raise` unwinds to the next call for an optional stage. `source` says
whose camera node a stage uses, `links` what feeds what, `handlers` who gets the frames
of an `xout` stage.

`CameraRuntime` adds the device (`Arrive`), the queue of events and the loops of
`poll()`: at most two events are taken, each makes its runtime fetch one packet, and
then the polled stages have their turn. Of a frame only what the detector sees matters
(`Sightings`): a finite set of detections, of which several may be of one tag. `moved`
records that a timestamp was taken, which is what `SaiSlamRuntime.poll` stumbles over.

### DeviceManager, AprilTagField

`DeviceManager`: `Find` lists the devices that are not booted and picks one that
matches; `Attach` boots it, or finds that another worker was first. `InfoMatches` and
`Described` are the two ways in which the code reads a selector.

`AprilTagField`: a field is inline, in a file or named, in the format of WPILib or of
SpectacularAI. `Convert` is `_AprilTagField.convert` with `Load`, `AsInlineSai`,
`AsInlineWpi` and `Store`. A pose is which one it is and the direction it leads.
`FieldNamed`, `FieldInline`, `FieldRef` and `FieldFile` are the types that pydantic lets
through, and the assumption of the module says that fields and files are of these.

## 3. What is checked

| Run | Properties | Question | Bounds |
|---|---|---|---|
| `Sup_faults` | `GateOpenMeansFresh`, `FlushesInOrder`, `OwnMessages`, `StateAnnounced`, `StopsForCause` | across crashes and restarts, with every input, and overrides that reach the workers: does the flush gate hold, is what the handle knows true, does only a cause end the program? | 1 camera, 2 tries, 2 failures, 2 overrides, 3 messages, 3 commands |
| `Sup_two` | `NoOrphans`, `StopsForCause`, `Supervised` | two cameras, one optional, dying in turn: is the promise kept? | 2 cameras, 2 tries, 2 failures, no override, 1 message, 1 command |
| `Sup_healthy` | `SleepReached` | without failures, is a command to sleep obeyed? | 1 camera, no failure, 2 messages, 3 commands |
| `Sup_live` | `DeathNoticed`, `ShutdownCompletes` | is every death noticed, does cleanup() end? | 1 camera, 2 failures, an override (which raises), 2 messages, 2 commands |
| `Cascade_updates` | `UpdateReplaces`, `UpdatesApplied` | does every update reach the filter, and only once? | 3 measurements, 2 derived, times to 4, 2 updates |
| `Estimation` | `NothingLost`, `Exact`, `HistoryIsRecent`, `FreshIsCurrent`, `DerivedIsCurrent`, `LatestCommonPair`, `InverseInStep`, `CheapestConversion`, `NewestOnce`, `ShortestTurn` | does each measurement count once and in order; is what claims to be current so; is the cheapest conversion found; does a topic give the newest value once; does the angle follow the board? | see below |
| `Robot_link` | `OneWay`, `StatusSeen`, `SleepFollowed`, `ConfigFollowed`, `CorrectionReaches` | does what one side says reach the other, across restarts and losses of the link? | 2 starts or losses, 1 correction, 2 configurations, a client with a log |
| `Web_server` | `NothingLeftBehind`, `FramesHaveHandler`, `EveryRequestEnds`, `StreamStarts` | does every request end and leave nothing behind, does every stream start? | 2 requests, 2 viewers, 1 stream, queues of 1, 1 restart |
| `Camera_pipeline` | `DependenciesMet`, `OneOwner`, `WhatWasAsked`, `OptionalIsOptional`, `NoPacketStranded`, `RunsOn`, `GetsItsCamera`, `FieldIntact` | does a worker get the stages, the camera and the tags that were asked for, and does it run on? | see below |
| `Web_late_answer`, `Robot_odometry` | `DispatcherLives`, `OdometryHeard` | violated, see section 5 | |

All bounds are constants and guard only the environment and producers.

* **Supervisor.** `MaxFaults` external failures, `MaxFlush` overrides, `MaxMsgs` messages
  in `msg_queue` before a worker polls again, `MaxCmds` commands in `cmd_queue` before
  more are sent; both queues are unbounded in the code. With `MaxMsgs = 3` a queue
  holds packets from before and after a flush and its acknowledgement at once; with
  `MaxFaults = 2` a restarted worker can die as well, and `RestartTries = 2` is used up;
  with `MaxFlush = 2` one flush can be lost and the next one be asked for. `Sup_two`
  has a camera that may be lost and one that may not, in every order of their deaths.
  `Sup_live` has one camera on purpose: one that floods its queue starves the other,
  see section 5.
* **Filters.** Three measurements are enough for one that is late between two others, or
  two late in turn; with times to 4 and a history of 1 or 2, states expire while others
  are kept. `MaxUpdates = 2` lets an update be undone or overtaken by another.
* **Interpolation** has four keys, a history of one key, two tracked values and four
  changes: enough for a bound to be replaced, to be dropped and to return. **Poses** have
  times 1 to 5 and a history of 2, so that the buffers overlap, touch, and do not.
* **Time map**: three mappers between three clocks in every order, direction and use
  of `replace`; a chain and a diamond of four clocks with every mapper turned both
  ways, where a cheaper chain is found after a dearer one.
* **Topic**: storage and queue of 2 and four values, so both overflow.
* **NavX**: yaws of -180, -100, 0, 100 and 180, so that a sample goes over zero, over the
  opposite point, over both, or by exactly half a turn; a history of two and one full turn.
* **Link**: the two configurations differ in a direction, in being parsable by
  the client and in having cameras. With two starts or losses, each of a restart under
  another configuration and a loss of the link happens after values were exchanged.
* **Web**: with queues of 1 everything blocks or is dropped early; two requests
  compete for the executor, and two viewers for a stream.
* **Pipeline**: four sets of presets (none; inheritance; a preset before the one it
  inherits; two with one id) and eight cameras, among them one with no stages, an
  unknown selector and a slam stage that skips itself; at most one stage's files, `build()`
  or `start()` fail, each at a place where something depends on it. Three packets or slam
  outputs make a poll find more events than it takes. Three workers compete for four
  devices, with ordinals, names, wildcards and one or three tries.

The supervisor's properties:

* `GateOpenMeansFresh`: while `_last_flush_id >= _require_flush_id`, no packet in
  the queue is older than the last flush that was asked for.
* `FlushesInOrder`: flush ids rise through `cmd_queue`, the worker, `msg_queue`
  and the handle, and packets lie between the flushes they belong to.
* `OwnMessages`: what is in the queue was put by the present process.
* `StateAnnounced`: what the handle knows of a live worker is behind the truth only
  by what is in the queue.
* `NoOrphans`: no process is left when `cleanup()` returns.
* `StopsForCause` (of steps): the program ends for SIGINT, for the loss of a camera that is
  not optional and has had its tries (`Lost`), or for one of the exceptions of section 5,
  and then not for a packet that a flush or a restart has overtaken (`RaisingPacketDue`).
* `Supervised`: the refinement. A process is replaced only when it is dead and within
  its tries, a camera given up only without, and nothing is left at the end.
* `SleepReached`, `DeathNoticed`, `ShutdownCompletes`: liveness.

The filters':

* `NothingLost`: each measurement that was observed is integrated or waits in the queue.
* `Exact`: while the history reaches back, the result is that of a filter that got the
  measurements in the order of their timestamps.
* `HistoryIsRecent`: what `revert_to` relies on. Both histories are ordered, neither is
  there without the other, and together they end in the present state of the filter.
* `UpdateReplaces`: the same under updates, which take the place of the old value; with
  an exception, see section 5. `UpdatesApplied` (of steps): after `predict()` what was
  in the history counts with the present value.
* `FreshIsCurrent`, `DerivedIsCurrent`: a value that says it is fresh is what would be
  computed now, whoever asked or refreshed before.
* `LatestCommonPair`: the correction relates the latest two poses that both buffers cover.
* `InverseInStep`, `CheapestConversion`: the two directions of a conversion never
  disagree; a chain is found if there is one, none is cheaper, and it converts what
  one clock reads into what the other reads. The latter compares with all chains.
* `NewestOnce`: `get_fresh` gives the newest value and gives it once; `set_fresh`
  never drops a value that the topic does not have.
* `ShortestTurn` (of steps): no packet turns the accumulated angle by more than half a turn,
  whether the yaw goes over zero, over its range or over both.

The link's and the web server's:

* `OneWay` (of steps): the robot starts to publish only what MOEnet listens to.
* `StatusSeen`, `SleepFollowed`, `ConfigFollowed`, `CorrectionReaches`: while the link
  holds, each side comes to know what the other said; once MOEnet is gone the robot
  comes to know that. A correction is due to a caller only with a log (`Logged`).
* `NothingLeftBehind`: a request that ended left no future and no job.
* `FramesHaveHandler`: no frame is under way that nobody takes.
* `EveryRequestEnds`, `StreamStarts`: liveness, whatever is dropped or late.

The camera's:

* `DependenciesMet`, `OneOwner`: what a stage requires was built before it; a camera
  that the slam stage has is nobody else's, whichever was built first.
* `WhatWasAsked`: a worker that runs has every stage that was written and enabled, none
  that was not, and its consumers get frames. `OptionalIsOptional`: a worker fails only
  for something that was not optional. Both compare with a definition of what the user
  wrote (`Written`, `CanBuild`, `Reasons`) that shares nothing with the algorithm: the
  presets that count are the least set with those that its members inherit (`Reached`),
  which no order of resolving enters.
* `NoPacketStranded`: for every packet in an output queue there is an event to fetch it.
* `RunsOn` (of steps): only the stages it names ever end a worker that runs.
* `GetsItsCamera`: no two workers have one device, and who gives up had too few
  devices or tries.
* `FieldIntact`: the stage gets the tags that were configured, in the same places.

Each property has a mutated form of one definition under which TLC finds it violated.
Most stand beside what they mutate, with a comment that says what is wrong with them.

## 4. Fairness

* **Supervisor.** The main thread is never blocked for ever, so it takes weak fairness:
  its waits have timeouts or, in `Join`, end in `kill()`. A message that was put leaves
  the feeder thread in the end; `EmptyAlive` can otherwise be chosen for ever, so taking
  a message is strongly fair. A live worker moves on (weak fairness) wherever it waits
  for nothing. It is not fair in `find`: `Device()` may hang. `CameraFairSpec` adds that
  the search ends, which `find_oak` ensures when no call hangs; `Sup_live` does without
  it. Nothing is assumed of crashes, packets or inputs.
* **Link.** The main loop polls; NetworkTables delivers the last value of a topic while
  the link is up; time passes; the robot's periodic code calls the client at each turn.
  Starting MOEnet, connecting and everything the user does is not fair, so the properties
  speak of what happens while the link holds.
* **Web.** The event loop, the executor and the main process always go on, because each
  of their waits has a timeout or ends when another of them goes on; a worker takes its
  commands. The `read_cmd` and `read_vid` threads are not fair: `EveryRequestEnds` holds
  without them, by the timeout.

## 5. Disagreements found

Two runs expect a violation; each refutes one sentence of the code's own
comments, quoted in `PROJECT.json`.

| Run | Shows |
|---|---|
| `Web_late_answer` | an answer that comes when its request has timed out ends the thread that hands out answers: `set_result` raises on a cancelled future |
| `Robot_odometry` | odometry from the robot never reaches the estimator: `readQueue` returns the list that it has just cleared |

### Other defects

Met while modelling. The models contain those in the parts that they cover, as the
code has them, and the properties name them as exceptions where they need one.

Main loop and supervision:

* Almost every packet ends the main process. For a `MsgPose`, `moenet.py:204` passes a
  `Transform3d` as the camera whose `idx` `observe_f2r` reads (`estimator/__init__.py:81`).
  For a `MsgDetections` with an object, `getall` raises for a label that is not there
  (`tracker.py:68`), and with a DataLog any `MsgDetections` does, since it subtracts
  timestamps of two clocks (`estimator/__init__.py:156`). For any other type the next
  `isinstance` names `MsgAprilTagPoses` (`moenet.py:207`), which `worker.msg` does not
  define. All are steps of `PacketRaises`, and `StopsForCause` names them.
* A remote configuration that validates ends the main process: `merge()` reads
  `update.slam` (`typedef/cfg.py:219`), which `RemoteConfig` does not have. The
  value is retained, so a restarted MOEnet reads it again and ends again. That is also
  why the status INITIALIZING is never reached.
* After a sleep the status is READY and every worker stays paused: nobody sends RUNNING
  (`moenet.py:194`). A worker restarted during a sleep polls its camera (`moenet.py:191`).
* `Subprocess.poll` has no timeout: `Watchdog` sets `_start` and reads `start`
  (`util/watchdog.py:52,85`). A camera that fills its queue faster than it is read
  starves the others and the main loop. If it had one, a remaining time of exactly 0
  would be no timeout at all (`block_args`).
* A pose override ends the main process: `observe_f2r_override` reads an `observe` that
  `SimplePoseEstimator` does not have (`estimator/__init__.py:75`). What lies behind is
  latent, since no override arrives either (`Robot_odometry`). It would kill every worker,
  and so would a flush: the pipeline has neither `override_pose` nor `flush`
  (`worker/worker.py:285,298`), so that `SaiSlamRuntime.handle_command`
  (`worker/node/slam.py:87`) is never reached and `waitForPose` never ends. And a flush
  that is lost with a dead worker would close the gate for good, because `handle_dead`
  resets neither flush id.
* `Comms` never publishes a changed configuration; `tx_*` for the transform of field to
  robot publishes a `Pose3d` where the client subscribes a `PositionEstimate`.

Web server:

* `web_srv.py:96` iterates over a pipeline, which is a RootModel: the request for the
  streams ends the main process. The web properties except it (`~mainUp`), and it is an
  input of `CameraSupervisor` (`streams`).
* A restarted worker's streams are not enabled again (`worker/node/web.py:26`); viewers
  of one stream take frames from each other (`app.py:72`).
* `JsStatic` calls `endswith` on a `Path` (`app.py:89-99`); `app.py:415` and
  `worker.py:371` call their targets without arguments they require.
* In the browser, `RtcVideo.start` leaks the old connection, `stop` keeps it, and the
  Save button of the configuration has no handler.

Camera worker:

* `nn.py` reads `_device_require_ts`, which is never set: every packet of an object
  detector ends the worker.
* `slam.py:144` uses the result of `get_conversion` without a check. A
  `FixedOffsetClock` hashes by its offset, which `local_timestamp()` assigns to, so
  the dict of conversions usually misses it afterwards and a worker with slam and
  any stage that takes timestamps ends. `device_to_wall` returns seconds (`time.py:57`).
  `slam.py:136` takes the last tag, not the largest.
* Two clocks at one distance end `get_conversion` in a TypeError (`timemap.py:161`).
  `timemap.py:116` compares mappers that have no `__eq__`, which happens to be harmless.
* `apriltag.py`: poses are passed under a name that the message does not have
  (304-308); `_single_pnp` raises with `undistort` (134-149); the solver's "no
  solution" raises outside of the `try` (224); the device runtime does not filter by
  margin and Hamming distance, and `_multi_pnp`'s case of one tag is unreachable.
* "save" and "imu" stages are accepted by the configuration and have no factory. An
  error in `start()` is fatal for optional stages too (`pipeline.py:205,234`). A
  required slam stage with nothing to do ends the worker, since its `StageSkip` is caught
  as an error. An inherit of a later preset fails although the error lists
  that preset (`config_resolver.py:151-160`).
* `X_LINK_ANY_*` never match in `_info_matches`; an ordinal of 2 and more fails once
  another worker has booted its device, because only unbooted ones are listed
  (`worker.py:167`); 0 and 1 tries are the same (`worker.py:174-176`).
* `typedef/apriltag.py`: an inline SAI field is stored and nothing returned, so a
  slam stage whose field has to be converted runs without tags (as with the reference
  in `config/slam.json`); a SAI file and SAI tags cannot be converted at all; a named
  field has no `convert`.

Estimator:

* Measurements queued while a filter is disabled or before it is cleared are integrated
  later: `Heap.clear` is empty (`heap.py:27`).
* `revert_to` queues again what has a timestamp not below that of the restored state. If
  that is the oldest one, because the history is too short, the measurement that it
  was saved for counts twice (`replay.py:131`). `late` marks these behaviours.
* A derived measurement that is updated when its timestamp is the filter's own reverts
  nothing, because `replay.py:163` asks for `<`, and counts beside its old value.
  `doubled` marks these behaviours.
* Two derived measurements of one timestamp end in a TypeError, because `WrapTimestamp`
  compares `Tracked` values that have no order (`cascade_replay.py:15-18`). The model
  gives measurements of the cascading filter different timestamps.
* `ObjectTracker` raises a KeyError for the first object of a label (`tracker.py:68`)
  and compares a new object with itself (70); `DataFusion` calls `observe_*` and the
  tracker with wrong arguments, and `CamerasTracker.record_r2c` stores nothing;
  `comms.py` calls `observe_f2o`, which is `record_f2o`; `pose_simple.py:119` divides by
  an error that may be 0.

NavX:

* The angle hardly ever moves: `SetAHRSData` calls `_UpdateDisplacement`, which nothing
  defines, before it comes to `next_angle`; and `NavXClock` registers `update_offset`, whose
  arguments are in another order than the dispatcher passes them, so that with a clock
  every packet with a time ends in a TypeError.
* Where the yaw jumps from the bottom of its range to the top, the rate has the wrong
  sign: `360 - delta` (`trackers.py:100`). `first_sample` is never true, so the first
  sample counts as a turn from 0.
* The average of yaws on both sides of 180 points the other way (`trackers.py:13`).

NetworkTables wrappers and client:

* A list of booleans cannot be published, a protobuf cannot be read, and after an
  overflow `_read_queue_truncated` stays set, so `readQueue` of a disabled subscriber
  raises.
* `MoeNet.java` throws a NullPointerException without a log, after it has taken the
  timestamp (238-239), so that the value is lost; `CorrectionReaches` is for a client with
  one (`Logged`). `close` always throws; `RemoteConfig(FullConfig)` copies its own null.
  `RobotPositionStruct.getSize` leaves out 12 bytes.

## 6. What is proved

The theorems hold for any number of cameras, clocks or requests and any value of the
constants that the named assumptions of the modules admit.

* `TypeCorrect` (`CameraSupervisor_proof`): `Spec => []TypeOK`, one lemma per group of
  actions.

In `CameraSupervisor_safety`:

* `OwnMessagesHolds`. A message is put with the current value of `starts`, which
  changes only in `Restart`. `FoundDead` says that the queue is empty then, so the
  invariant is inductive with `TypeOK` alone. This is where the order of `is_alive()`
  and the queue read in `Subprocess.poll` is used.
* `RestartBudgetHolds`: `restart_tries` processes in all, and at least one. By the
  inductive `BudgetInv`: a worker was started once more than its handle counted
  restarts as long as it has a process, and at most as often once it was given up.
* `NoOrphansHolds`, by `ClosedSoFar`: in `close` and `join` all handles below `cur`
  have no process. The case of interest is the last handle, when `cur` returns to 1.
* `FlushesInOrderHolds`. `FlushesInOrder` is itself the inductive strengthening: to show
  that an acknowledgement arrives in order one needs the order of the packets
  before it in `msg_queue`, for which one needs that of the commands in `cmd_queue`,
  bounded below by `flushed` and above by `require`. A crash takes a suffix of
  one queue only, and a restart changes none of these.
* `GateOpenMeansFreshHolds` follows: when the gate is open, `last >= require`, so the
  chain `last <= gen <= flushed <= require` collapses.
* `StateAnnouncedHolds`. The actions of a worker fall into those that put nothing, those
  that put a message, those that change the state and announce it, and those that
  kill it; `Silent`, `Speaks`, `Dies` and `Effect` name these classes, and one lemma
  per class replaces one per action.

In `CameraSupervisor_refinement`:

* `Refinement`: `Spec => Supervised`. Besides `TypeOK` and `ClosedSoFar` the
  simulation needs `RefInv`: the processes are counted (`TriesCounted`), and a
  handle that is in its poll has a process, which is dead if it was seen dead
  (`DeathSeen`). `QuietSteps` collects the steps that stutter, and `RefStep` shows for each
  other one which step of `Supervision` it is.
* `StopsForCauseHolds`, for any value of the constants. `StopReasons` goes through the steps
  that lead to `cleanup()`. For the lost camera it takes `DeathSeen` and
  `TriesCounted`: the handle that gives up has a dead process, which was the last of its
  tries. For the packet it takes `KindsKnown` (what is in a queue was put by a state
  setter, a flush or the pipeline), `GateOpenMeansFresh` (it is not older than the flush
  last asked for) and `OwnMessages` (the present process put it). The theorem is about the
  exceptions that the model has: those that `MoeNet.poll` can meet at this commit up to the
  end of the drain loop, and that of an override. Odometry would be another
  (`comms.py` calls `observe_f2o`, section 5), but none is ever read (`Robot_odometry`).

In `TimeMap_proof`:

* `InverseInStepHolds`, by `TableInv`: the property together with the types of the
  table and `Placed`, which says that an entry belongs to its mapper. The argument is
  a case distinction on `Forward` and `Backward`, the two conditions of `register()`.
* `CheapestConversionHolds`, by `SearchInv`, for any finite set of clocks. The table of
  the search is a tree of mappers from the first clock (`TreeOK`): the distance of a
  clock is that of the one before it and the cost of the mapper. Nothing in the heap is
  shorter than what the table has for its clock, or than what the table was made from
  (`HeapOK`), so that a turn changes no clock of which others hang. A clock that was
  reached is in the heap with its distance, or no mapper from it leads to a shorter way
  (`Settled`), where a way is not shorter either if the goal was reached by one as short
  (`SeenTo`): this is the pruning by the goal, and the reason why the search may end
  with clocks that it never reached. The first clock has no distance in the table and
  may come into it and the heap by a detour; `DetourPop` shows that nothing comes of it.
  When the heap is empty, the partial sums of the costs of any other chain are not below
  the distances along it (`NoneCheaper`), and those of the chain that was found
  telescope (`TotalTelescopes`), with the distances and with what the clocks read.
  Induction along a chain is an argument about the least place where the claim fails
  (`UpwardTo`).

In `WebServer_proof`, for any number of requests, viewers and streams and any size of the
queues:

* `NothingLeftBehindHolds`, by `ExecInv`: for each place at which the handler of a request
  can be, `Pending` says which of its jobs the executor may have, and that it has none
  twice. The case of interest is a put that runs when its request times out: it cannot be
  cancelled, but the executor has one thread, so it ends before the pop that ends
  the request.
* `FramesHaveHandlerHolds`, by `StreamsInv`: a job, a message, a command, an enabled worker
  and a frame for a stream each come from the one before, and the first from an offer,
  which registers the stream.

In `Network_proof`:

* `NewestOnceHolds`, by `TopicInv`: at the publisher's end, what it remembers is what it was
  asked for and what the topic has; at the subscriber's end, the value that is due is the
  last unread one or, if none is unread, the one that was kept. The case of interest is a
  read of the queue, which moves the value due from one place to the other, and a queue that
  overflows, which drops the oldest value and so never the last.

* `OneWayHolds`, an action property, by `LinkInv`: every configuration that is
  published, under way or cached is of a run so far, and if it is of the present run it
  is the one MOEnet uses (`ConfigsKnown`). A start makes all that were published before
  old, and no value that the link repeats after a reconnection makes one young again.
  `CachedFacts` adds that what `getConfig` returns is what it has cached, also where it
  could not parse the new one.

In `Estimator_proof`:

* `YawInRangeHolds` and `ShortestTurnHolds`, for any yaws within -180 and 180, which is what
  the board sends and the assumption of `NavX` says. An offset lies between two yaws of the
  history, so `apply_offset` needs to correct by one turn only; and `TurnOfSample` goes
  through the places where the last and the new sample can be.
* `FreshIsCurrentHolds` and `DerivedIsCurrentHolds`, by `InterpInv`: a tracked value whose
  count is that of the buffer has the buffer's bounds, and no count is ahead, so that any
  change of the buffer makes every count an old one. The bounds are the next keys below and
  above; `LeastExists` and `GreatestExists` say that there are such.
* `LatestCommonPairHolds`, by `CorrectionIsLatest`: the two comparisons of `odom_to_robot`
  come down to the latest time that both histories cover.

Also in `Estimator_proof`, for any measurements, times, history length and options of the
replay filter:

* `NothingLostHolds`, `ExactHolds` and `HistoryIsRecentHolds`, by `ReplayInv`. None of
  the three is inductive: what `revert_to` does with a state depends on what the history
  has behind it. `Consistent` says what the two histories are: the measurements in
  `mhist` are the last ones integrated, each of their timestamps has a saved state, and
  a saved state lies between the measurements up to its timestamp and those from it on
  (`Saved`), where of states with one timestamp the last is behind all measurements with
  it.
* From this `RevertToState` shows the crucial point: cutting both histories at one time cuts
  them at one place, so what is queued again is just what the restored state lacks. Where
  the history does not reach back (`RevertToOldest`), the oldest state may have some of it
  already; nothing is lost, but measurements are integrated twice, which `late` records.
* `BaseKeeps` says that after reverting nothing in the queue is older than the histories, so
  `IntegrateDue` may append (`AppendKeeps`); `ExpireKeeps` that both histories lose the same
  timestamps. What was queued again is due at once, since predict times do not
  go back, so it never waits in the queue while it is integrated.
* `Exactly` adds for `Exact` that no state has integrated something younger than itself. It
  needs `smooth_lagged_data`: without it a late measurement is integrated where it comes,
  and `ExactHolds` says so by its hypothesis.
* The heap is `InOrder`, a sequence that `CHOOSE` takes; `OrderedExists` shows that a
  finite set with a strict total order has one, by the smallest subset without.

And for the cascading filter on top of it, with any updates in between:

* `UpdateReplacesHolds` and `UpdatesAppliedHolds`, by `CascadeInv`. Taking a measurement
  out of the middle of the history breaks what `ReplayInv` says: the saved states and
  the filter still have it. `CascadeInv` is true of a history with holes. A measurement
  waits or is in the history, once (`Separate`); each saved state is one that the filter
  went through (`Stages`); what the history has is in the states from its timestamp on,
  with its value (`Recorded`); and what a state lacks waits, or reverting to that state
  would queue it (`Requeues`). The last is what makes the next revert close the holes:
  the updated measurement is due and older than the filter, so that `predict()` goes
  back behind it. Removal is restated by the indexes of what is left (`WithoutKeeps`).
* `UpdateReplacesHolds` is for `smooth_lagged_data`, without which there is no history
  and a late measurement is integrated where it comes. `UpdatesAppliedHolds` needs no
  such hypothesis, nor `late` or `doubled`: a new value counts even where an old one
  counts as well.

In `Camera_proof`, for any presets, stages and failures, any number of packets, workers,
devices and tags:

* `DependenciesMetHolds` and `OneOwnerHolds`, by `BuildInv`. `StackOK` says of the
  recursion of `_build_stage` what it relies on: each call is for the first requirement
  that the next one has to do, and each requirement of a call is met or still to do,
  where a preference for slam is also met when slam cannot be built. `Raise` takes calls
  off the stack up to an optional one, whose caller goes on as if it were met
  (`RaiseLeaves`). `BuiltOK` says of what is built that it stands after what it
  requires, and that a camera which the slam stage has of its own is a node only if slam
  never comes: this is why the order in which slam and the camera are written does not
  matter. Below this lies the typing of what the resolver yields (`FlattenTyped`), shown
  by the least index at which it would fail.
* `WhatWasAskedHolds` and `OptionalIsOptionalHolds`, by `WholeInv`, which is `BuildInv`
  with what follows. `ResolvedInv`: each resolved preset has all that is required of it
  and nothing that was not written. A preset inherits only earlier ones, so that
  `Reached`, a least closed set, can be taken apart one preset at a time
  (`ReachedOfOne`). `ConfigGiven`: so has the list that the worker is given. `ChainInv`
  ties each call of `_build_stage` to the entry of the configuration for which it is
  made: what it builds is needed by that entry, and requirements go down in `Level`, so
  an exception that reaches the entry means that it cannot be built (`RaiseMeans`).
  `ProgressInv` counts the entries that are done. `StartInv` is the same for `start()`,
  with the handlers that a stage has attached itself to.
* `NoPacketStrandedHolds`, by `PacketInv`: the events of a stream that are queued or
  under way are at least as many as its packets. The lemmas on `Count` say what `Append` and
  `Tail` do to the number of events of a stream.
* `RunsOnHolds`, by `RunsInv`: a handler is that of a stage that was built, a stage that
  is polled is one with `do_poll`, a stream that is enabled was watched, and a timestamp
  was taken only by a stage that takes them. That a solution for many tags is only tried
  with two detections of known ones is a matter of cardinalities, since a sighting is a
  set.
* `GetsItsCameraHolds`, by `DevicesInv`, for finite sets of workers and devices. A try
  fails only because another worker got there first, and no worker has two devices, so
  if there are enough devices a worker has lost no more tries than there are workers
  with a camera (`TriesPaid`). A worker whose device was just taken has lost its try
  already, which `Collided` counts.
* `FieldIntactHolds`, by the cases of `Convert`. The proof found a flaw of the model:
  two guards of a CASE in `TagsWith` overlapped for an inline field, so that TLA+ left
  its value open where TLC took the first; it is an IF now.

The assumptions these add to what TLC uses are weak: sets of workers and devices are
finite (`DeviceAssumption`), an exception is neither a stage nor a list of stages
(`ResolverAssumption`), and fields and files are what pydantic accepts
(`FieldAssumption`). Names are taken from `Word`, the strings together with the names
that the code spells out, because the prover does not know that a string literal is in
`STRING`.

Only model-checked are the liveness properties and the fairness under them, which are out of
the prover's reach: `SleepReached`, `DeathNoticed`, `ShutdownCompletes`,
`EveryRequestEnds`, `StreamStarts`, `StatusSeen`, `SleepFollowed`, `ConfigFollowed` and
`CorrectionReaches`. Every safety property that a run checks is a theorem, some under the
hypotheses named above.

## 7. Not modelled

* `estimator/pose/` (`filter.py` and `ekf.py` do not parse; `base.py` is an unfinished
  translation of a Kalman filter, real-valued linear algebra), and the arithmetic of poses,
  covariances (`geom_cov.py`) and images everywhere.
* Of `navx/` the tables and the decoding of the protocol, the thread of the port
  (`serial_io.py` does not parse, lines 334 and 368), gyro data and the board's identity.
* `estimator/__init__.py` (`DataFusion`), which does not import, but for which of its
  methods raise (`CameraSupervisor`); `camera_tracker` and `ObjectTracker`, which never
  tracks anything; `fms.py`, which cannot be imported;
  `worker/session.py`, superseded and not imported by anything.
* Code that nothing calls: `get_configs`, `get_config` and `optional_stage` of the
  pipeline, `TimeMap.get_direct`, nested maps (`with mapper:`), `use_control` of the filter,
  `InlineWpi.store`, the Java classes for time; and the rebuilding of cameras after a
  configuration change, since `merge()` raises first.
* `MsgLog` and the forwarding of logs, the payloads of `tx_pose`, telemetry, detections
  and Field2d: one way, and nobody decides by them. The schemas of structs and protobufs.
* The arithmetic of `Watchdog`, which always has time left. The reader lock of a queue
  that a killed process may hold. The delay by which a full video queue slows a worker.
* The negotiation of WebRTC and the encoding of frames, static files, the web pages,
  the visualisation, the installation scripts and the example robot code (whose
  `Vision.java` does not compile).

## 8. Plan

The models cover the parts of the server with control of their own that can run. What
would come next:

1. An abstract pipeline that `CameraPipeline` implements, and an abstract estimator that the
   replay filter implements.
2. `DataFusion` and `ObjectTracker`, once they import.
3. The rebuilding of cameras, once a remote configuration can be merged.
