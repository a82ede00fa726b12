--------------------------- MODULE ConfigResolver ---------------------------
(***************************************************************************)
(* worker/config_resolver.py: from the configuration file, where pipelines *)
(* inherit from presets and cameras name their selector and their preset,  *)
(* to the flat configuration of one camera worker.                         *)
(*                                                                         *)
(* A stage of the file is a record [stage, target, arg, enabled, optional].*)
(* "arg" is the preset of an inherit stage and the runtime of an apriltag  *)
(* stage; "target" is the camera or the stream, "" where there is none.    *)
(***************************************************************************)
EXTENDS Naturals, Sequences, SequencesExt, FiniteSets

CONSTANTS
  Error,             \* an exception
  PresetChoices,     \* possible config.pipelines: sequences of [id, stages]
  CameraChoices,     \* possible cameras: [selector, pipeline, id, stages], pipeline is
                     \* "none", "preset" (see id) or "stages" (see stages)
  SelectorIds,       \* the ids of config.camera_selectors
  UnreadableChoices  \* possible sets of stages whose files are missing or broken

\* PipelineStage and PipelineStageWorker: a worker knows all stages but "inherit".
StageNames == {"inherit", "rgb", "mono", "depth", "nn", "apriltag", "slam", "web", "save",
               "show", "imu", "telemetry"}
WorkerStageNames == StageNames \ {"inherit"}

\* VideoDisplayTarget, the target of a mono stage and the camera of an apriltag stage.
VideoTargets == {"left", "right", "rgb", "depth"}
TargetsOf(stage) ==
  CASE stage \in {"web", "save", "show"} -> VideoTargets
    [] stage = "mono" -> {"left", "right"}
    [] stage = "apriltag" -> {"left", "right", "rgb"}
    [] OTHER -> {""}

StageConfig ==
  {s \in [stage : StageNames, target : VideoTargets \cup {""}, arg : STRING,
          enabled : BOOLEAN, optional : BOOLEAN] : s.target \in TargetsOf(s.stage)}

\* The parts of LocalConfig: presets, cameras, and the selectors that cameras name.
PipelineDefinition == [id : STRING, stages : Seq(StageConfig)]
CameraConfig == [selector : STRING, pipeline : {"none", "preset", "stages"}, id : STRING,
                 stages : Seq(StageConfig)]
CameraSelectorDefinition == STRING

ASSUME ResolverAssumption ==
  /\ \A ps \in PresetChoices : ps \in Seq(PipelineDefinition)
  /\ CameraChoices \subseteq CameraConfig
  /\ SelectorIds \subseteq CameraSelectorDefinition
  /\ Error \notin StageConfig \cup Seq(StageConfig)
  /\ \A u \in UnreadableChoices : u \subseteq {"apriltag", "slam", "nn"}

VARIABLES
  presets,      \* LocalConfig.pipelines, as written
  camera,       \* one of LocalConfig.cameras
  unreadable,   \* the stages whose files cannot be resolved on this machine
  pipelines,    \* self.pipelines: the resolved presets by id
  done,         \* how many presets __init__ has resolved
  phase,        \* "presets", "camera"; of the worker "build", "start", "running",
                \* "crashed"; or "failed"
  config        \* WorkerInitConfig.pipeline

resolverVars == <<presets, camera, unreadable, pipelines, done, phase, config>>

\* _resolve_stage_slam, _resolve_stage_apriltag, _resolve_stage_nn: the files that a
\* stage names are found and read, or there is an exception.
ResolveFiles(s) == IF s.stage \in unreadable THEN Error ELSE <<s>>

\* The match of _resolve_stage.
StageResult(s) ==
  IF s.stage # "inherit" THEN ResolveFiles(s)
  ELSE IF s.arg \in DOMAIN pipelines THEN pipelines[s.arg] ELSE Error

\* A mutated form of ResolveStage: an error drops any stage.
ResolveStageLenient(s) ==
  IF ~s.enabled \/ StageResult(s) = Error THEN <<>> ELSE StageResult(s)

\* _resolve_stage: nothing for a disabled stage, and for an optional one that has an
\* error.
ResolveStage(s) ==
  IF ~s.enabled \/ (StageResult(s) = Error /\ s.optional) THEN <<>> ELSE StageResult(s)

\* _resolve_pipeline of a list of stages; the first error ends it.
ResolveStages(stages) ==
  IF \E i \in DOMAIN stages : ResolveStage(stages[i]) = Error THEN Error
  ELSE FlattenSeq([i \in DOMAIN stages |-> ResolveStage(stages[i])])

\* _resolve_pipeline of a camera: None, the id of a preset (one that does not exist is
\* None as well), or a list of stages. For None process_one takes no stages.
ResolvePipeline ==
  CASE camera.pipeline = "none" -> <<>>
    [] camera.pipeline = "preset" ->
         IF camera.id \in DOMAIN pipelines THEN pipelines[camera.id] ELSE <<>>
    [] camera.pipeline = "stages" -> ResolveStages(camera.stages)

\* _resolve_selector: a selector is written out, "", or one of config.camera_selectors.
SelectorKnown == camera.selector \in SelectorIds \cup {""}

ResolverInit ==
  /\ presets \in PresetChoices
  /\ camera \in CameraChoices
  /\ unreadable \in UnreadableChoices
  /\ pipelines = [id \in {} |-> <<>>]
  /\ done = 0
  /\ phase = "presets"
  /\ config = <<>>

\* One turn of the loop of __init__: a preset sees the ones before it, and replaces
\* one that has the same id. An error ends the program.
ResolvePreset ==
  /\ phase = "presets"
  /\ done < Len(presets)
  /\ LET preset == presets[done + 1]
         resolved == ResolveStages(preset.stages) IN
       IF resolved = Error
       THEN phase' = "failed" /\ UNCHANGED <<pipelines, done>>
       ELSE /\ pipelines' = [id \in DOMAIN pipelines \cup {preset.id} |->
                               IF id = preset.id THEN resolved ELSE pipelines[id]]
            /\ done' = done + 1
            /\ UNCHANGED phase
  /\ UNCHANGED <<presets, camera, unreadable, config>>

\* __iter__: all presets are resolved, and now the cameras.
PresetsResolved ==
  /\ phase = "presets"
  /\ done = Len(presets)
  /\ phase' = "camera"
  /\ UNCHANGED <<presets, camera, unreadable, pipelines, done, config>>

\* process_one, for the camera; the worker gets the result and starts to build.
ProcessOne ==
  /\ phase = "camera"
  /\ IF ~SelectorKnown \/ ResolvePipeline = Error
     THEN phase' = "failed" /\ UNCHANGED config
     ELSE phase' = "build" /\ config' = ResolvePipeline
  /\ UNCHANGED <<presets, camera, unreadable, pipelines, done>>

ResolverNext == ResolvePreset \/ PresetsResolved \/ ProcessOne
=============================================================================
