---------------------------- MODULE CameraRuntime ----------------------------
(***************************************************************************)
(* A camera worker at work: MoeNetPipeline.poll() and the runtimes of the  *)
(* stages that CameraPipeline built and started.                           *)
(*                                                                         *)
(* The device fills one output queue per stream and announces each packet  *)
(* by an event; a poll takes a few events and hands each to the runtime of *)
(* its stream, which takes one packet. Stages with do_poll are called in   *)
(* every poll. An exception in any of them ends the worker.                *)
(*                                                                         *)
(* Of a packet only what decides the control flow is kept: of a camera     *)
(* frame, the tags that the detector sees in it.                           *)
(***************************************************************************)
EXTENDS CameraPipeline

CONSTANTS
  TagIds,
  KnownTags,      \* the tags of the field layout
  Sightings,      \* what a detector may see in a frame: sets of Detection
  OptionChoices,  \* possible sets of flags of the apriltag and slam stages that are set
  MaxPackets      \* bound: packets that the device sends

Flags == {"undistort", "solvePNP", "doMultiTarget", "doSingleTargetAlways", "waitForPose"}

\* A detection: nth tells those of one tag apart; then whether its decision margin and
\* Hamming distance are good enough, and whether its corners give a homography.
Detection == [tag : TagIds, nth : Nat, clear : BOOLEAN, square : BOOLEAN]

ASSUME RuntimeAssumption ==
  /\ KnownTags \subseteq TagIds
  /\ \A raw \in Sightings : raw \subseteq Detection /\ IsFiniteSet(raw)
  /\ OptionChoices \subseteq SUBSET Flags
  /\ Error # {} /\ Error # "poses"
  /\ MaxPackets \in Nat

VARIABLES
  flags,        \* one of OptionChoices
  enabled,      \* the web stages, by target, whose stream is enabled
  watched,      \* history: those for which it ever was
  held,         \* packets in the output queue of each stream
  events,       \* the device's queue of events, by stream
  polling,      \* a poll() is under way
  serving,      \* its events that are still to be handled
  waiting,      \* its do_poll stages that are still to be called
  moved,        \* the offset of dev_clock was assigned to
  slamOutput,   \* outputs of the slam session that are not taken
  sent          \* bound: packets the device has sent

runtimeVars == <<flags, enabled, watched, held, events, polling, serving, waiting, moved,
                 slamOutput, sent>>
allPipelineVars == <<vars, runtimeVars>>

\* The stream of a runtime that reads one, and the size of its queue: XOutNode.start,
\* XOutRuntime.
StreamOf(n) ==
  CASE n[1] = "xout" -> n[2]
    [] n[1] = "telemetry" -> "sysinfo"
    [] OTHER -> n[1]

HasStream(n) ==
  \/ n[1] \in {"xout", "telemetry", "nn"}
  \/ n[1] = "apriltag" /\ ConfigForName(n).arg = "device"

QueueSize(stream) == IF stream = "apriltag" THEN 1 ELSE 4

\* event_targets and poll_stages.
EventTargets == {n \in runtimes : HasStream(n)}
PollStages == {n \in runtimes : n[1] \in {"slam", "show"}}

Streams == {"left", "right", "rgb", "depth", "sysinfo", "nn", "apriltag"}

RuntimeInit ==
  /\ PipelineInit
  /\ flags \in OptionChoices
  /\ enabled = {} /\ watched = {}
  /\ held = [s \in Streams |-> 0]
  /\ events = <<>>
  /\ polling = FALSE
  /\ serving = <<>>
  /\ waiting = {}
  /\ moved = FALSE
  /\ slamOutput = 0
  /\ sent = 0

\* The stages are built and started first; a worker that failed does nothing more.
Prepare == PipelineNext /\ UNCHANGED runtimeVars

-----------------------------------------------------------------------------
(* The device and the main process *)

\* A packet arrives; the oldest is lost if the queue is full.
Arrive(n) ==
  /\ phase = "running" /\ n \in EventTargets /\ sent < MaxPackets
  /\ LET s == StreamOf(n) IN
       /\ held' = [held EXCEPT ![s] = Min({@ + 1, QueueSize(s)})]
       /\ events' = Append(events, s)
  /\ sent' = sent + 1
  /\ UNCHANGED <<vars, flags, enabled, watched, polling, serving, waiting, moved, slamOutput>>

\* The slam session has an output. It has no tag: those are set by triggers, which only
\* commands that are never broadcast would add.
SlamOutput ==
  /\ phase = "running" /\ <<"slam", "">> \in runtimes /\ sent < MaxPackets
  /\ slamOutput' = slamOutput + 1
  /\ sent' = sent + 1
  /\ UNCHANGED <<vars, flags, enabled, watched, held, events, polling, serving, waiting, moved>>

\* broadcast() of a CmdEnableStream: every runtime gets it, and a web stage takes it if
\* the stream is its own.
HandlesCommand(n, target) == n = <<"web", target>>
Broadcast(target) == {n \in runtimes : HandlesCommand(n, target)}

\* The command comes between two polls.
EnableStream(target, enable) ==
  /\ phase = "running" /\ ~polling
  /\ Broadcast(target) # {}
  /\ enabled' = IF enable THEN enabled \cup {target} ELSE enabled \ {target}
  /\ watched' = watched \cup enabled'
  /\ UNCHANGED <<vars, flags, held, events, polling, serving, waiting, moved,
                 slamOutput, sent>>

-----------------------------------------------------------------------------
(* The runtimes *)

\* ShowStage.handle_frame
ShowsFrame(n) == n[1] = "show"

\* A mutated form of TakesTimestamp: the web stage takes it before it looks whether its
\* stream is enabled.
TakesTimestampEarly(n) == n[1] \in {"web", "show", "apriltag", "nn"}

\* The runtimes that call local_timestamp() for a packet, which assigns to the offset of
\* dev_clock.
TakesTimestamp(n) ==
  \/ ShowsFrame(n)
  \/ n[1] = "apriltag"
  \/ n[1] = "web" /\ n[2] \in enabled

\* _filter_detection
PassesFilter(det) == det.clear

\* _process_host filters what the detector found; it took the timestamp before.
ProcessHost(raw) == {det \in raw : PassesFilter(det)}

\* AprilTagDeviceRuntime.handle drops the tags that have no homography, and no others.
HandleDevice(raw) == {det \in raw : det.square}

\* The detections in the tags of the layout that the runtime made when it started.
Known(dets) == {det \in dets : det.tag \in KnownTags}

TagsOf(dets) == {det.tag : det \in dets}

\* What _multi_pnp may return: the tags that it used, or Error. It gives up quietly with
\* fewer than two known tags or if the solver raises or finds NaN, and raises if the
\* solver finds no solution.
MultiPnP(dets) ==
  IF Cardinality(Known(dets)) < 2 THEN {{}} ELSE {{}, TagsOf(Known(dets)), Error}

\* _homography_from_corners: None if the matrix for the corners is singular.
Homographies == {"H", "None"}

\* _single_pnp: the undistorted corners need a homography of their own, and None is none.
SinglePnP ==
  IF "undistort" \in flags THEN {IF H = "None" THEN Error ELSE "poses" : H \in Homographies}
  ELSE {"poses"}

\* _process_dets may raise. Tags that the multi-tag solution used are not solved alone.
ProcessingMayRaise(dets) ==
  /\ dets # {} /\ "solvePNP" \in flags
  /\ LET multi == IF "doMultiTarget" \in flags THEN MultiPnP(dets) ELSE {{}} IN
       \/ Error \in multi
       \/ Error \in SinglePnP
            /\ \/ "doSingleTargetAlways" \in flags
               \/ \E used \in multi \ {Error} : TagsOf(dets) \ used # {}

\* Whether a runtime may raise for a packet in which this is seen.
MayRaise(n, raw) ==
  \/ n[1] = "nn"
  \/ n[1] = "apriltag"
       /\ ProcessingMayRaise(IF HasStream(n) THEN HandleDevice(raw) ELSE ProcessHost(raw))

\* ObjectDetectionNode.handle reads a field that is never set.
MustRaise(n) == n[1] = "nn"

\* The runtimes that handle a packet of stage n: the handlers of an xout stage, or n.
Consumers(n) ==
  IF n[1] = "xout" THEN {h[2] : h \in {h \in handlers : h[1] = n}} ELSE {n}

Crash ==
  /\ phase' = "crashed"
  /\ UNCHANGED <<presets, camera, unreadable, pipelines, done, config, pipelineVars>>

-----------------------------------------------------------------------------
(* poll() *)

\* getQueueEvents returns at most two events, none if nothing comes in 10 ms.
PollBegin ==
  /\ phase = "running" /\ ~polling
  /\ LET taken == Min({2, Len(events)}) IN
       /\ serving' = SubSeq(events, 1, taken)
       /\ events' = SubSeq(events, taken + 1, Len(events))
  /\ polling' = TRUE
  /\ waiting' = PollStages
  /\ UNCHANGED <<vars, flags, enabled, watched, held, moved, slamOutput, sent>>

\* A mutated form of Served: a runtime that was polled already is not polled again.
ServedOnce == SelectSeq(Tail(serving), LAMBDA s : s # Head(serving))

\* The events that are left after the first.
Served == Tail(serving)

\* tryGet() of the output queue finds a packet.
HasPacket(stream) == held[stream] > 0

\* The first event: its runtime takes a packet, if there still is one. No stage that has
\* a stream is in poll_stages too, so already_polled does not matter to them.
PollEvent ==
  /\ phase = "running" /\ polling /\ serving # <<>>
  /\ serving' = Served
  /\ \E n \in {n \in EventTargets : StreamOf(n) = Head(serving)} :
       IF ~HasPacket(Head(serving)) THEN UNCHANGED <<vars, held, moved>>
       ELSE /\ held' = [held EXCEPT ![Head(serving)] = @ - 1]
            /\ moved' = (moved \/ \E c \in Consumers(n) : TakesTimestamp(c))
            /\ \E raw \in Sightings :
                 \/ (\A c \in Consumers(n) : ~MustRaise(c)) /\ UNCHANGED vars
                 \/ (\E c \in Consumers(n) : MayRaise(c, raw)) /\ Crash
  /\ UNCHANGED <<flags, enabled, watched, events, polling, waiting, slamOutput, sent>>

\* SaiSlamRuntime.poll: an output without tag is dropped while one with a tag is waited
\* for. device_to_wall() asks for the conversion of dev_clock, whose hash is another once
\* its offset was assigned to, so the table of conversions may not have it any more.
SlamPoll ==
  IF slamOutput = 0 THEN UNCHANGED <<vars, slamOutput>>
  ELSE /\ slamOutput' = slamOutput - 1
       /\ \/ UNCHANGED vars
          \/ moved /\ "waitForPose" \notin flags /\ Crash

\* The next of poll_stages, in whichever order they were started; show only waits for
\* its window.
PollStage(n) ==
  /\ phase = "running" /\ polling /\ serving = <<>> /\ n \in waiting
  /\ waiting' = waiting \ {n}
  /\ IF n[1] = "slam" THEN SlamPoll ELSE UNCHANGED <<vars, slamOutput>>
  /\ UNCHANGED <<flags, enabled, watched, held, events, polling, serving, moved, sent>>

PollEnd ==
  /\ phase = "running" /\ polling /\ serving = <<>> /\ waiting = {}
  /\ polling' = FALSE
  /\ UNCHANGED <<vars, flags, enabled, watched, held, events, serving, waiting, moved,
                 slamOutput, sent>>

RuntimeNext ==
  \/ Prepare
  \/ \E n \in runtimes : Arrive(n) \/ PollStage(n)
  \/ \E target \in {"left", "right", "rgb", "depth"}, enable \in BOOLEAN :
       EnableStream(target, enable)
  \/ SlamOutput \/ PollBegin \/ PollEvent \/ PollEnd

RuntimeSpec == RuntimeInit /\ [][RuntimeNext]_allPipelineVars
-----------------------------------------------------------------------------
(* Properties *)

\* Number of events for a stream that are still to be served.
Announced(s) ==
  Cardinality({i \in DOMAIN events : events[i] = s})
    + Cardinality({i \in DOMAIN serving : serving[i] = s})

\* No packet is stranded: for each packet in an output queue there is an event that will
\* make poll() fetch it, although events are taken two at a time, may be for the same
\* stream and may outlive their packet (poll, XOutNode.poll).
NoPacketStranded == phase = "running" => \A s \in Streams : held[s] <= Announced(s)

Runs(stage) == \E n \in runtimes : n[1] = stage

\* A worker that runs goes on running: what ends it is only ever an object detector, the
\* slam stage together with another that takes the timestamps of packets, or an apriltag
\* stage that undistorts, or that solves for many tags and may see two known ones at once
\* (or one of them twice). In particular web streams
\* that nobody watches, telemetry and frames without tags bring nothing down
\* (MoeNetPipeline.poll, handle_frame, _process_dets, SaiSlamRuntime.poll).
RunsOn ==
  [][phase = "running" /\ phase' = "crashed" =>
       \/ Runs("nn")
       \/ /\ Runs("slam") /\ "waitForPose" \notin flags
          /\ watched # {} \/ Runs("show") \/ Runs("apriltag")
       \/ /\ Runs("apriltag") /\ "solvePNP" \in flags
          /\ \/ "undistort" \in flags
             \/ "doMultiTarget" \in flags
                  /\ \E raw \in Sightings : Cardinality(Known(raw)) > 1]_allPipelineVars
=============================================================================
