-------------------------- MODULE MCCameraPipeline --------------------------
(* From the configuration of a camera to its worker at work: the field of tags, *)
(* the device and the pipeline, for some configuration files with one thing     *)
(* wrong or none. A behaviour is one of the part that its first state chooses.   *)
EXTENDS CameraRuntime, DeviceManager, AprilTagField

CONSTANTS k1, k2, u1, w1, w2, w3, d1, d2, d3, d4, usb, pcie, name, any

Stage(stage, stream) ==
  [stage |-> stage, target |-> stream, arg |-> "", enabled |-> TRUE, optional |-> FALSE]
Optional(s) == [s EXCEPT !.optional = TRUE]
Disabled(s) == [s EXCEPT !.enabled = FALSE]
Inherit(id) == [Stage("inherit", "") EXCEPT !.arg = id]
AprilTag(runtime, stream) == [Stage("apriltag", stream) EXCEPT !.arg = runtime]
Slam == Stage("slam", "")
Mono == Stage("mono", "left")
NN == Stage("nn", "")

MCPresets == {
  << >>,
  <<[id |-> "video", stages |-> <<Optional(Slam), Disabled(Stage("rgb", "")), Mono>>],
    [id |-> "full", stages |-> <<Inherit("video"), Optional(NN), Stage("web", "rgb")>>]>>,
  <<[id |-> "full", stages |-> <<Optional(Inherit("video")), Stage("show", "depth")>>],
    [id |-> "video", stages |-> <<AprilTag("device", "left"), Slam>>]>>,
  <<[id |-> "video", stages |-> <<Disabled(Slam), NN>>],
    [id |-> "video", stages |-> <<Inherit("video"), Stage("telemetry", "")>>]>>}

Camera(list) == [selector |-> "", pipeline |-> "stages", id |-> "", stages |-> list]

MCCameras == {
  [selector |-> "", pipeline |-> "none", id |-> "", stages |-> << >>],
  [selector |-> "named", pipeline |-> "preset", id |-> "full", stages |-> << >>],
  [selector |-> "unknown", pipeline |-> "preset", id |-> "video", stages |-> << >>],
  Camera(<<Mono, Slam, Stage("depth", "")>>),
  Camera(<<Inherit("video"), Optional(Stage("web", "left")), Stage("web", "right")>>),
  Camera(<<AprilTag("host", "rgb"), Optional(Mono), Optional(Stage("show", "depth"))>>),
  Camera(<<Optional(Stage("save", "left")), Optional(Inherit("full")),
           Stage("rgb", ""), AprilTag("device", "rgb")>>),
  Camera(<<Optional([Slam EXCEPT !.arg = "idle"]), AprilTag("device", "left"), Stage("imu", "")>>)}

MCSlamCameras == {<<"mono", "left">>, <<"mono", "right">>, <<"rgb", "">>}
MCSelectors == {"named"}
MCUnreadable == {{}, {"slam"}, {"nn", "apriltag"}}
MCBroken == {{}} \cup {{n} : n \in MCSlamCameras \cup
  {<<"slam", "">>, <<"xout", "left">>, <<"web", "left">>, <<"nn", "">>, <<"depth", "">>}}
MCKnown == {k1, k2}
Seen(t, n, clear, square) == [tag |-> t, nth |-> n, clear |-> clear, square |-> square]
MCSightings == {
  {}, {Seen(u1, 1, TRUE, TRUE)}, {Seen(k1, 1, TRUE, TRUE), Seen(k2, 1, FALSE, FALSE)},
  {Seen(k1, 1, TRUE, FALSE), Seen(k2, 1, TRUE, TRUE), Seen(u1, 1, FALSE, TRUE)},
  {Seen(k1, 1, FALSE, TRUE), Seen(k1, 2, TRUE, TRUE), Seen(k2, 1, TRUE, TRUE)}}
MCOptions == {{"solvePNP"}, {"solvePNP", "doMultiTarget"}, {"doMultiTarget", "undistort"},
  {"solvePNP", "undistort", "doMultiTarget", "doSingleTargetAlways"},
  {"solvePNP", "waitForPose"}}
MCUnstartable == {{}, {<<"slam", "">>}, {<<"web", "rgb">>}}

MCWorkers == {w1, w2, w3}
MCDevices == {d1, d2, d3, d4}
MCAttributes == [d \in MCDevices |->
  CASE d = d3 -> {usb, name} [] d = d4 -> {pcie} [] OTHER -> {usb}]
Wanted(n, attributes) == [ordinal |-> n, wants |-> attributes]
MCDeviceSelectors == [MCWorkers -> {Wanted(0, {}), Wanted(1, {usb}), Wanted(2, {usb}),
  Wanted(0, {name}), Wanted(2, {any})}]
MCRetries == {[tries |-> 1, optional |-> FALSE], [tries |-> 3, optional |-> TRUE]}

Tag(n, inverse) == [id |-> n, pose |-> [of |-> n, inverse |-> inverse], family |-> "a"]
Tags(format) == {<<>>, <<Tag(1, format = "sai")>>, <<Tag(1, format = "sai"), Tag(2, format = "sai")>>}
Field(kind, format, tags, path) ==
  [kind |-> kind, format |-> format, tags |-> tags, path |-> path]
MCFields ==
  {Field("named", "wpi", <<>>, "")}
    \cup UNION {{Field("inline", f, t, "") : t \in Tags(f)} : f \in {"wpi", "sai"}}
    \cup {Field("ref", f, <<>>, p) : f \in {"wpi", "sai"}, p \in {"one", "two"}}
MCFiles == [{"one", "two"} ->
  {Invalid} \cup UNION {{[format |-> f, tags |-> t] : t \in Tags(f)} : f \in {"wpi", "sai"}}]

VARIABLE part

partVars == <<part, allPipelineVars, deviceVars, fieldVars>>

\* Only one part starts in each of its first states; the others come after a worker whose
\* configuration is refused.
CameraInit ==
  /\ part \in {"worker", "device", "field"}
  /\ RuntimeInit
  /\ part # "worker" =>
       /\ presets = <<>> /\ camera.selector = "unknown" /\ unreadable = {}
       /\ broken = {} /\ unstartable = {} /\ flags = {"solvePNP"}
  /\ DevicesInit
  /\ part # "device" => \A w \in MCWorkers : selector[w].wants = {} /\ retry[w].tries = 1
  /\ FieldInit
  /\ part # "field" => field.kind = "named" /\ \A p \in DOMAIN files : files[p] = Invalid

WorkerStep(step) == step /\ UNCHANGED <<part, deviceVars, fieldVars>>
DeviceStep ==
  part = "device" /\ phase = "failed" /\ DevicesNext /\ UNCHANGED <<part, allPipelineVars, fieldVars>>
FieldStep ==
  part = "field" /\ phase = "failed" /\ ResolveField /\ UNCHANGED <<part, allPipelineVars, deviceVars>>

CameraSpec == CameraInit /\ [][WorkerStep(RuntimeNext) \/ DeviceStep \/ FieldStep]_partVars
=============================================================================
