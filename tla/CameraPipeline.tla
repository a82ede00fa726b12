--------------------------- MODULE CameraPipeline ---------------------------
(***************************************************************************)
(* worker/pipeline.py and the builders in worker/node: from the resolved   *)
(* configuration of a camera, the worker builds its pipeline, stage by     *)
(* stage with what each requires or prefers, and starts it on the device.  *)
(*                                                                         *)
(* A stage is named <<stage, target>>, "mono.left" in the code. The calls  *)
(* of _build_stage and _start_stage that are under way are a stack.        *)
(***************************************************************************)
EXTENDS ConfigResolver

CONSTANTS
  SlamCameras,        \* the cameras that a Spectacular AI pipeline has of its own
  BrokenChoices,      \* possible sets of stages whose build() raises
  UnstartableChoices  \* possible sets of stages whose start() raises

ASSUME PipelineAssumption ==
  SlamCameras \subseteq {<<"mono", "left">>, <<"mono", "right">>, <<"rgb", "">>}

VARIABLES
  broken, unstartable,  \* of those, the sets of this run
  next,        \* the loop over self.config in build(), over self.stages in start()
  stack,       \* calls under way, innermost first: [name, optional, requires, todo]
  stages,      \* self.stages, in order: [name, requires]
  source,      \* of each camera built: the stage that made its node
  links,       \* the device's pipeline: the stage whose output feeds a stage
  runtimes,    \* the keys of self.runtimes
  handlers     \* the handlers of xout stages: <<xout, consumer>>

pipelineVars == <<broken, unstartable, next, stack, stages, source, links, runtimes, handlers>>
vars == <<resolverVars, pipelineVars>>

Requires(stage, target) == [name |-> <<stage, target>>, optional |-> FALSE]
Prefers(stage, target) == [name |-> <<stage, target>>, optional |-> TRUE]

\* A mutated form of MonoRequires: left and right cameras do not look for slam.
MonoRequiresNothing == <<>>

\* The "requires" of the builders, in the order in which they are resolved.
MonoRequires == <<Prefers("slam", "")>>
RgbRequires == <<Prefers("slam", "")>>
DepthRequires == <<Requires("mono", "left"), Requires("mono", "right")>>
NNRequires == <<Requires("rgb", ""), Requires("depth", "")>>
XOutRequires(target) ==
  IF target \in {"left", "right"} THEN <<Requires("mono", target)>>
  ELSE <<Requires(target, "")>>
WebRequires(target) == <<Requires("xout", target)>>
ShowRequires(target) == <<Requires("xout", target)>>
AprilTagRequires(runtime, target) ==
  IF runtime = "host" THEN <<Requires("xout", target)>>
  ELSE IF target = "rgb" THEN <<Requires("rgb", "")>>
  ELSE <<Requires("mono", target)>>

\* register(): the stages with a factory. "save" and "imu" have none.
Factories == {"apriltag", "slam", "mono", "rgb", "depth", "telemetry", "nn", "xout",
              "web", "show"}

\* NodeBuilder.requires of the stage's builder; none if there is no builder.
StageRequires(s) ==
  CASE s.stage = "mono" -> MonoRequires
    [] s.stage = "rgb" -> RgbRequires
    [] s.stage = "depth" -> DepthRequires
    [] s.stage = "nn" -> NNRequires
    [] s.stage = "xout" -> XOutRequires(s.target)
    [] s.stage = "web" -> WebRequires(s.target)
    [] s.stage = "show" -> ShowRequires(s.target)
    [] s.stage = "apriltag" -> AprilTagRequires(s.arg, s.target)
    [] OTHER -> <<>>

\* BaseStageConfig.name; the camera of an apriltag stage is no target.
StageName(s) == <<s.stage, IF s.stage = "apriltag" THEN "" ELSE s.target>>

\* BaseStageConfig.infer
Inferable == {"mono", "rgb", "xout"}

\* _config_for_name: the first stage of that name, enabled or not, else one that is
\* inferred, else a RuntimeError.
ConfigForName(name) ==
  LET written == {i \in DOMAIN config : StageName(config[i]) = name} IN
    IF written # {} THEN config[Min(written)]
    ELSE IF name[1] \in Inferable
         THEN [stage |-> name[1], target |-> name[2], arg |-> "", enabled |-> TRUE,
               optional |-> FALSE]
         ELSE Error

Names(seq) == {seq[i].name : i \in DOMAIN seq}

\* _build_stage is called for a stage of the configuration.
Call(s, optional) ==
  [name |-> StageName(s), optional |-> optional, requires |-> StageRequires(s),
   todo |-> StageRequires(s)]

Top == stack[1]
Return == Tail(stack)

\* The caller goes on to its next requirement.
NextRequirement(calls) ==
  IF calls = <<>> THEN <<>>
  ELSE <<[calls[1] EXCEPT !.todo = Tail(@)]>> \o Tail(calls)

\* Mutated forms of Raise: the failed stage itself must be optional; every stage may
\* fail.
RaiseLocal ==
  IF Top.optional THEN stack' = NextRequirement(Tail(stack)) /\ UNCHANGED phase
  ELSE stack' = <<>> /\ phase' = "failed"

RaiseNothing == stack' = NextRequirement(Tail(stack)) /\ UNCHANGED phase

\* An exception in _build_stage leaves all calls up to the first for an optional
\* stage, which returns None; it ends the worker if there is none.
Raise ==
  LET optional == {i \in DOMAIN stack : stack[i].optional} IN
    IF optional = {} THEN stack' = <<>> /\ phase' = "failed"
    ELSE /\ stack' = NextRequirement(SubSeq(stack, Min(optional) + 1, Len(stack)))
         /\ UNCHANGED phase

PipelineInit ==
  /\ ResolverInit
  /\ broken \in BrokenChoices
  /\ unstartable \in UnstartableChoices
  /\ next = 1
  /\ stack = <<>>
  /\ stages = <<>>
  /\ source = [n \in {} |-> <<>>]
  /\ links = {}
  /\ runtimes = {}
  /\ handlers = {}

Resolve == ResolverNext /\ UNCHANGED pipelineVars

\* build: the next stage of the configuration, unless it is there already.
BuildEntry ==
  /\ phase = "build" /\ stack = <<>> /\ next <= Len(config)
  /\ next' = next + 1
  /\ stack' = IF StageName(config[next]) \in Names(stages) \/ ~config[next].enabled
              THEN <<>> ELSE <<Call(config[next], config[next].optional)>>
  /\ UNCHANGED <<resolverVars, broken, unstartable, stages, source, links, runtimes, handlers>>

\* _get_stage, for the next requirement of the stage: it is there, or built, or there
\* is no configuration for it.
GetStage ==
  /\ phase = "build" /\ stack # <<>> /\ Top.todo # <<>>
  /\ LET need == Head(Top.todo)
         s == ConfigForName(need.name) IN
       IF need.name \in Names(stages) \/ (s = Error /\ need.optional)
       THEN stack' = NextRequirement(stack) /\ UNCHANGED phase
       ELSE IF s = Error THEN Raise
       ELSE stack' = <<Call(s, need.optional)>> \o stack /\ UNCHANGED phase
  /\ UNCHANGED <<presets, camera, unreadable, pipelines, done, config, broken,
                 unstartable, next, stages, source, links, runtimes, handlers>>

\* MonoCameraNode.build and ColorCameraNode.build take the camera of the slam stage, if
\* that is built and has it, or make one.
CameraSource(name) ==
  IF <<"slam", "">> \in Names(stages) /\ name \in SlamCameras THEN <<"slam", "">> ELSE name

\* What build() links to the node of its own. The node of a camera is the slam stage's
\* if that has it.
DepthInputs == {<<"mono", "left">>, <<"mono", "right">>}
NNInputs == {<<"rgb", "">>, <<"depth", "">>}
XOutInputs(requires) == {requires[1].name}
TelemetryInputs == {}
AprilTagInputs(requires) ==
  IF requires[1].name[1] = "xout" THEN {} ELSE {requires[1].name}

Inputs(call) ==
  CASE call.name[1] = "depth" -> DepthInputs
    [] call.name[1] = "nn" -> NNInputs
    [] call.name[1] = "xout" -> XOutInputs(call.requires)
    [] call.name[1] = "telemetry" -> TelemetryInputs
    [] call.name[1] = "apriltag" -> AprilTagInputs(call.requires)
    [] OTHER -> {}

NodeOf(name) == IF name \in DOMAIN source THEN source[name] ELSE name

\* SlamBuilder.build skips a stage that has nothing to do, by an exception as any other.
SlamSkips(name) == name[1] = "slam" /\ ConfigForName(name).arg = "idle"

BuildRaises(name) == name[1] \notin Factories \/ name \in broken \/ SlamSkips(name)

\* The rest of _build_stage: build() with what was found.
BuildStage ==
  /\ phase = "build" /\ stack # <<>> /\ Top.todo = <<>>
  /\ IF BuildRaises(Top.name)
     THEN Raise /\ UNCHANGED <<stages, source, links>>
     ELSE /\ stages' = Append(stages, [name |-> Top.name, requires |-> Top.requires])
          /\ source' = IF Top.name[1] \in {"mono", "rgb"}
                       THEN [n \in DOMAIN source \cup {Top.name} |->
                               IF n = Top.name THEN CameraSource(n) ELSE source[n]]
                       ELSE source
          /\ links' = links \cup {<<NodeOf(n), Top.name>> : n \in Inputs(Top)}
          /\ stack' = Return
          /\ UNCHANGED phase
  /\ UNCHANGED <<presets, camera, unreadable, pipelines, done, config, broken,
                 unstartable, next, runtimes, handlers>>

\* build() returns and start() begins.
Built ==
  /\ phase = "build" /\ stack = <<>> /\ next > Len(config)
  /\ phase' = "start"
  /\ next' = 1
  /\ UNCHANGED <<presets, camera, unreadable, pipelines, done, config, broken,
                 unstartable, stack, stages, source, links, runtimes, handlers>>

\* start: the next of the stages that were built.
StartEntry ==
  /\ phase = "start" /\ stack = <<>> /\ next <= Len(stages)
  /\ next' = next + 1
  /\ stack' = IF stages[next].name \in runtimes THEN <<>>
              ELSE <<[name |-> stages[next].name, optional |-> FALSE,
                      requires |-> stages[next].requires, todo |-> stages[next].requires]>>
  /\ UNCHANGED <<resolverVars, broken, unstartable, stages, source, links, runtimes, handlers>>

\* _start_stage of the next requirement: it runs, or is started first, or is not there.
StartRequirement ==
  /\ phase = "start" /\ stack # <<>> /\ Top.todo # <<>>
  /\ LET need == Head(Top.todo)
         found == {i \in DOMAIN stages : stages[i].name = need.name} IN
       IF need.name \in runtimes \/ (found = {} /\ need.optional)
       THEN stack' = NextRequirement(stack) /\ UNCHANGED phase
       ELSE IF found = {} THEN stack' = <<>> /\ phase' = "failed"
       ELSE /\ stack' = <<[name |-> need.name, optional |-> need.optional,
                           requires |-> stages[Min(found)].requires,
                           todo |-> stages[Min(found)].requires]>> \o stack
            /\ UNCHANGED phase
  /\ UNCHANGED <<presets, camera, unreadable, pipelines, done, config, broken,
                 unstartable, next, stages, source, links, runtimes, handlers>>

\* AprilTagBuilder.start: the runtime that it makes may detect tags on the host.
OnHost(call) == call.name[1] = "apriltag" /\ call.requires[1].name[1] = "xout"

\* The consumers of frames add themselves to their xout stage when they start.
Attached(call) ==
  IF call.name[1] \in {"web", "show"} \/ OnHost(call)
  THEN {<<call.requires[1].name, call.name>>} ELSE {}

\* The rest of _start_stage: builder.start(). Its errors are fatal, also for a stage
\* that is optional.
StartStage ==
  /\ phase = "start" /\ stack # <<>> /\ Top.todo = <<>>
  /\ IF Top.name \in unstartable
     THEN /\ stack' = <<>> /\ phase' = "failed"
          /\ UNCHANGED <<runtimes, handlers>>
     ELSE /\ runtimes' = runtimes \cup {Top.name}
          /\ handlers' = handlers \cup Attached(Top)
          /\ stack' = Return
          /\ UNCHANGED phase
  /\ UNCHANGED <<presets, camera, unreadable, pipelines, done, config, broken,
                 unstartable, next, stages, source, links>>

\* start() returns.
Started ==
  /\ phase = "start" /\ stack = <<>> /\ next > Len(stages)
  /\ phase' = "running"
  /\ UNCHANGED <<presets, camera, unreadable, pipelines, done, config, pipelineVars>>

PipelineNext ==
  \/ Resolve \/ BuildEntry \/ GetStage \/ BuildStage \/ Built
  \/ StartEntry \/ StartRequirement \/ StartStage \/ Started

PipelineSpec == PipelineInit /\ [][PipelineNext]_vars
-----------------------------------------------------------------------------
\* What a stage requires, and what stages of these names do.
Required(s) ==
  {StageRequires(s)[i].name : i \in {j \in DOMAIN StageRequires(s) : ~StageRequires(s)[j].optional}}

RequiredBy(names) ==
  UNION {Required(ConfigForName(n)) : n \in {m \in names : ConfigForName(m) # Error}}

\* What a stage needs: everything that it requires, directly or not.
Needed(s) ==
  {StageName(s)} \cup Required(s) \cup RequiredBy(Required(s))
    \cup RequiredBy(RequiredBy(Required(s)))

\* A stage can be built: all that it needs is known, has a factory and is not broken.
CanBuild(s) ==
  \A n \in Needed(s) :
    /\ n = StageName(s) \/ ConfigForName(n) # Error
    /\ ~BuildRaises(n)

\* The stages that the user wrote for this camera: in its pipeline or the preset that it
\* names, and in the presets that those inherit; a preset sees the ones before it, and
\* the last one of an id counts. With "required", only through stages that must work.
LastPreset(id, before) ==
  LET those == {i \in 1 .. before : presets[i].id = id} IN
    IF those = {} THEN {} ELSE {Max(those)}

Taken(list, required) ==
  {list[i] : i \in {j \in DOMAIN list : list[j].enabled /\ (required => ~list[j].optional)}}

Inherited(list, before, required) ==
  UNION {LastPreset(s.arg, before) :
           s \in {s \in Taken(list, required) : s.stage = "inherit"}}

\* The presets that are taken in with those of "first": the least set that has what its
\* members inherit.
Closed(P, required) == \A i \in P : Inherited(presets[i].stages, i - 1, required) \subseteq P

Reached(first, required) ==
  {i \in DOMAIN presets :
     \A P \in SUBSET DOMAIN presets : first \subseteq P /\ Closed(P, required) => i \in P}

OfPresets(first, required) ==
  UNION {Taken(presets[i].stages, required) : i \in Reached(first, required)}

Written(required) ==
  {s \in CASE camera.pipeline = "stages" ->
                Taken(camera.stages, required)
                  \cup OfPresets(Inherited(camera.stages, Len(presets), required), required)
           [] camera.pipeline = "preset" ->
                OfPresets(LastPreset(camera.id, Len(presets)), required)
           [] OTHER -> {} :
     s.stage # "inherit"}

\* Everything that a stage requires was built before it, and so is there when the stage
\* is built and when it is started; and what its node is fed from is a node that was
\* built, also if the stage that was to make it failed or another made it
\* (_build_stage, _start_stage).
DependenciesMet ==
  /\ \A l \in links : l[1] \in Names(stages) /\ l[2] \in Names(stages)
  /\ \A i \in DOMAIN stages : \A j \in DOMAIN stages[i].requires :
       LET need == stages[i].requires[j] IN
         need.optional \/ \E k \in 1 .. (i - 1) : stages[k].name = need.name

\* No camera has two owners: once the slam stage is built, every camera that it has of
\* its own is the one that the other stages use, and that feeds them, whichever of them
\* came first (MonoCameraNode.build, ColorCameraNode.build; _get_stage prefers slam).
OneOwner ==
  <<"slam", "">> \in Names(stages) =>
    /\ \A n \in DOMAIN source \cap SlamCameras : source[n] = <<"slam", "">>
    /\ \A l \in links : l[1] \notin SlamCameras

\* The worker gets what the user asked for. One that runs has all that is enabled and not
\* optional, also through presets, and what is optional if it could be built; each
\* consumer of frames is attached to a stream that was started. And nothing that the
\* user disabled comes back because another stage asks for it: what is built was
\* written and enabled, or is inferred (process_one, _config_for_name, build, start).
\* No reference to a preset is left for the worker, which knows none.
WhatWasAsked ==
  /\ \A i \in DOMAIN config : config[i].stage \in WorkerStageNames
  /\ phase = "running" =>
       /\ \A s \in Written(TRUE) : StageName(s) \in runtimes
       /\ \A i \in DOMAIN config : CanBuild(config[i]) => StageName(config[i]) \in runtimes
       /\ \A n \in runtimes : n[1] \in {"web", "show"} =>
            <<"xout", n[2]>> \in runtimes /\ <<<<"xout", n[2]>>, n>> \in handlers
  /\ \A n \in Names(stages) :
       n[1] \in Inferable \/ \E s \in Written(FALSE) : StageName(s) = n

\* Something that must be there and cannot be: a stage of a preset or of the camera that
\* cannot be resolved, the selector, a stage that cannot be built, or one that cannot be
\* started.
CannotResolve(list, before) ==
  \E s \in Taken(list, TRUE) :
    s.stage \in unreadable \/ (s.stage = "inherit" /\ LastPreset(s.arg, before) = {})

CannotBuild(s) == ~s.optional /\ ~CanBuild(s)

Reasons ==
  \/ \E i \in DOMAIN presets : CannotResolve(presets[i].stages, i - 1)
  \/ CannotResolve(camera.stages, Len(presets))
  \/ ~SelectorKnown
  \/ \E i \in DOMAIN config : CannotBuild(config[i])
  \/ unstartable \cap Names(stages) # {}

\* What is optional brings nothing down: a worker that failed was asked for something
\* that cannot be read, found or built (_resolve_stage, optional_stage, _build_stage);
\* only an error in start() is fatal for any stage.
OptionalIsOptional == phase = "failed" => Reasons
=============================================================================
