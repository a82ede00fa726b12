----------------------------- MODULE NetworkLink -----------------------------
(***************************************************************************)
(* MOEnet and the robot over NetworkTables: server/comms.py, the wrappers  *)
(* in wpi_compat/nt/dynamic.py and the status of server/moenet.py on one   *)
(* side, the robot's client MoeNet.java on the other.                      *)
(*                                                                         *)
(* NetworkTables gives each topic its last value.  MOEnet is the client    *)
(* and may be restarted, and the link may be lost, at any step; the robot  *)
(* holds the server and stays.  A value carries a timestamp only where the *)
(* code compares timestamps.                                               *)
(***************************************************************************)
EXTENDS Naturals

CONSTANTS
  Configs,      \* configurations that MOEnet may be deployed with
  None,
  Logged,       \* the robot's client is given a DataLog
  MaxRuns,      \* bound: starts of MOEnet and losses of the link
  MaxPoses      \* bound: corrections that MOEnet publishes

Transforms == {"tf_field_odom", "tf_odom_robot"}
Directions == {"sub", "pub", "disabled"}
Statuses   == {"NOT_READY", "INITIALIZING", "READY", "SLEEPING", "ERROR", "FATAL"}

ConfigType == [dir : [Transforms -> Directions], cameras : BOOLEAN, subscribeSleep : BOOLEAN]

ASSUME LinkAssumption ==
  /\ Configs \subseteq ConfigType
  /\ None \notin Statuses /\ None \notin BOOLEAN /\ None \notin {"valid", "invalid"}
  /\ None \notin 1..MaxPoses /\ None \notin Configs
  /\ None \notin [run : 1..MaxRuns, config : Configs]
  /\ Logged \in BOOLEAN
  /\ MaxRuns \in Nat /\ MaxPoses \in Nat

VARIABLES
  phase,      \* MOEnet: "down", "starting", "running" or "ending"
  runs,       \* starts so far: the timestamp of the configuration of this run
  status,     \* MoeNet._status
  config,     \* the configuration it is deployed with
  poses,      \* corrections so far: the timestamp of the last one
  out,        \* what MOEnet published last: status, config, correction
  link,       \* whether the client is connected
  drops,
  seen,       \* the values of MOEnet's topics at the robot
  ping,       \* age of the last ping at the robot: "none", "recent" or "old"
  rio,        \* what the robot published: sleep, config
  sent,       \* transforms that the robot has published
  got,        \* the values of the robot's topics at MOEnet
  queue,      \* unread in DynamicSubscriber: a configuration, odometry
  heard,      \* the pose estimator was given odometry
  cache,      \* lastConfig and lastConfigTimestamp in the robot
  lastTf,     \* lastOdomToRobotTs
  given       \* the last correction that the caller of getOdomToRobot was given

moeVars   == <<phase, runs, status, config, poses, heard>>
wireVars  == <<link, drops>>
seenVars  == <<seen, ping>>
rioVars   == <<rio, sent>>
gotVars   == <<got, queue>>
tfVars    == <<lastTf, given>>
readVars  == <<cache, tfVars>>
vars == <<moeVars, out, wireVars, seenVars, rioVars, gotVars, readVars>>

Nothing == [status |-> None, config |-> None, correction |-> None]
\* A topic without a value: get() is None, which counts as awake.
NoQueue    == [config |-> None, odom |-> {}]
NothingGot == [sleep |-> FALSE, config |-> None]

\* The robot's client is constructed: it has published and seen nothing.
RobotInit ==
  /\ seen = Nothing /\ ping = "none"
  /\ rio = NothingGot /\ sent = {}
  /\ cache = [run |-> 0, config |-> None]
  /\ lastTf = 0 /\ given = 0

LinkInit ==
  /\ RobotInit
  /\ phase = "down" /\ runs = 0 /\ status = "NOT_READY"
  /\ config \in Configs
  /\ poses = 0 /\ heard = FALSE
  /\ out = Nothing
  /\ link = FALSE /\ drops = 0
  /\ got = NothingGot
  /\ queue = NoQueue

-----------------------------------------------------------------------------
(* MOEnet: Comms and MoeNet *)

\* A mutated form of Published: _status is assigned before it is compared.
PublishedSwapped(s) == out.status

\* The setter of MoeNet.status publishes a change.
Published(s) == IF s # status THEN s ELSE out.status

\* tx_correction: it goes out if its topic is published.
TxCorrection == IF config.dir["tf_odom_robot"] = "pub" THEN poses' ELSE out.correction

\* Comms.__init__ publishes the configuration, MoeNet.__init__ the first status.
Start ==
  /\ phase = "down" /\ runs + drops < MaxRuns
  /\ phase' = "starting"
  /\ runs' = runs + 1
  /\ status' = "NOT_READY"
  /\ config' \in Configs
  /\ out' = [Nothing EXCEPT !.status = "NOT_READY",
                               !.config = [run |-> runs + 1, config |-> config']]
  /\ queue' = NoQueue
  /\ UNCHANGED <<poses, heard, wireVars, seenVars, rioVars, got, readVars>>

\* build_cameras and the reset of run: without a camera the status is an error.
Built ==
  /\ phase = "starting"
  /\ phase' = "running"
  /\ status' = IF config.cameras THEN "READY" ELSE "ERROR"
  /\ out' = [out EXCEPT !.status = Published(status')]
  /\ UNCHANGED <<runs, config, poses, heard, wireVars, seenVars, rioVars, gotVars, readVars>>

\* The timer (FATAL) or the cameras (ERROR) cannot be set up.
BuildFails ==
  /\ phase = "starting"
  /\ phase' = "ending"
  /\ status' \in {"ERROR", "FATAL"}
  /\ out' = [out EXCEPT !.status = Published(status')]
  /\ UNCHANGED <<runs, config, poses, heard, wireVars, seenVars, rioVars, gotVars, readVars>>

\* DynamicSubscriber.readQueue clears the list that it returns.
Returned(q) == q \ q

\* MoeNet.sleeping
Sleeping == config.subscribeSleep /\ got.sleep

\* A mutated form of NextStatus: an error is not left.
NextStatusErrorStays(s) ==
  IF Sleeping /\ s \in {"READY", "INITIALIZING", "NOT_READY"} THEN "SLEEPING"
  ELSE IF ~Sleeping /\ s \in {"SLEEPING", "INITIALIZING", "NOT_READY"} THEN "READY"
  ELSE s

\* The transitions in MoeNet.poll.
NextStatus(s) ==
  IF Sleeping /\ s \in {"READY", "INITIALIZING", "NOT_READY", "ERROR"} THEN "SLEEPING"
  ELSE IF ~Sleeping /\ s \in {"SLEEPING", "INITIALIZING", "NOT_READY"} THEN "READY"
  ELSE s

\* One MoeNet.poll: Comms.update, the transitions, and perhaps a correction.
Poll(correct) ==
  /\ phase = "running" /\ queue.config # "valid"
  /\ correct => poses < MaxPoses
  /\ status' = NextStatus(IF queue.config = "invalid" THEN "ERROR" ELSE status)
  /\ poses' = IF correct THEN poses + 1 ELSE poses
  /\ out' = [out EXCEPT !.status = Published(status'),
                         !.correction = IF correct THEN TxCorrection ELSE @]
  /\ heard' = (heard \/ Returned(queue.odom) # {})
  /\ queue' = NoQueue
  /\ UNCHANGED <<phase, runs, config, wireVars, seenVars, rioVars, got, readVars>>

\* A poll that finds a valid remote configuration: what LocalConfig.merge reads is not
\* all in a RemoteConfig, and the AttributeError ends MoeNet.run.
RemoteFields == {"cameras"}
MergeRaises == ~({"slam"} \subseteq RemoteFields)

ApplyConfig ==
  /\ phase = "running" /\ queue.config = "valid"
  /\ MergeRaises
  /\ phase' = "ending"
  /\ status' \in {"NOT_READY", "FATAL"}
  /\ out' = [out EXCEPT !.status = Published(status')]
  /\ queue' = [queue EXCEPT !.config = None]
  /\ UNCHANGED <<runs, config, poses, heard, wireVars, seenVars, rioVars, got, readVars>>

\* An interrupt ends run; cleanup sets the last status.
Stop ==
  /\ phase = "running"
  /\ phase' = "ending"
  /\ status' \in {"NOT_READY", "FATAL"}
  /\ out' = [out EXCEPT !.status = Published(status')]
  /\ UNCHANGED <<runs, config, poses, heard, wireVars, seenVars, rioVars, gotVars, readVars>>

\* The process is gone, with its end of the link.
Gone ==
  /\ phase' = "down" /\ link' = FALSE
  /\ out' = Nothing
  /\ got' = NothingGot
  /\ queue' = NoQueue
  /\ UNCHANGED <<runs, status, config, poses, heard, drops, seenVars, rioVars, readVars>>

Exit  == phase = "ending" /\ Gone
Crash == phase \in {"starting", "running"} /\ Gone

-----------------------------------------------------------------------------
(* NetworkTables *)

Connect ==
  /\ phase # "down" /\ ~link
  /\ link' = TRUE
  /\ UNCHANGED <<moeVars, out, drops, seenVars, rioVars, gotVars, readVars>>

\* The client forgets the robot's values when it loses the link ...
Disconnect ==
  /\ link /\ runs + drops < MaxRuns
  /\ link' = FALSE /\ drops' = drops + 1
  /\ got' = NothingGot
  /\ UNCHANGED <<moeVars, out, seenVars, rioVars, queue, readVars>>

\* ... and the server MOEnet's, when it notices that the client is gone.
Unannounce ==
  /\ ~link /\ <<seen, ping>> # <<Nothing, "none">>
  /\ seen' = Nothing /\ ping' = "none"
  /\ UNCHANGED <<moeVars, out, wireVars, rioVars, gotVars, readVars>>

\* The last value of a topic of MOEnet's arrives; after a reconnection again.
Arrive(topic) ==
  /\ link /\ seen[topic] # out[topic]
  /\ seen' = [seen EXCEPT ![topic] = out[topic]]
  /\ UNCHANGED <<moeVars, out, wireVars, ping, rioVars, gotVars, readVars>>

\* Every poll publishes a ping.
ArrivePing ==
  /\ link /\ phase = "running" /\ ping # "recent"
  /\ ping' = "recent"
  /\ UNCHANGED <<moeVars, out, wireVars, seen, rioVars, gotVars, readVars>>

\* TIMEOUT_US has passed since the last ping; a MOEnet that runs sends them
\* often enough.
PingAges ==
  /\ ping = "recent" /\ ~(link /\ phase = "running")
  /\ ping' = "old"
  /\ UNCHANGED <<moeVars, out, wireVars, seen, rioVars, gotVars, readVars>>

ArriveSleep ==
  /\ link /\ config.subscribeSleep /\ got.sleep # rio.sleep
  /\ got' = [got EXCEPT !.sleep = rio.sleep]
  /\ UNCHANGED <<moeVars, out, wireVars, seenVars, rioVars, queue, readVars>>

\* A configuration is read once, but it is retained: after a reconnection or a
\* restart it arrives as a new value.
ArriveConfig ==
  /\ link /\ got.config # rio.config
  /\ got' = [got EXCEPT !.config = rio.config]
  /\ queue' = [queue EXCEPT !.config = rio.config]
  /\ UNCHANGED <<moeVars, out, wireVars, seenVars, rioVars, readVars>>

\* _pull_queue: odometry for a subscriber that is enabled.
ArriveOdom ==
  /\ link /\ config.dir["tf_field_odom"] = "sub"
  /\ "tf_field_odom" \in sent /\ queue.odom = {}
  /\ queue' = [queue EXCEPT !.odom = {"pose"}]
  /\ UNCHANGED <<moeVars, out, wireVars, seenVars, rioVars, got, readVars>>

-----------------------------------------------------------------------------
(* The robot: MoeNet.java *)

\* The JSON has a member for DISABLED that TransformDirection lacks, and
\* CameraConfig cannot be constructed from JSON.
Parsable(c) == ~c.cameras /\ \A t \in Transforms : c.dir[t] # "disabled"

\* A mutated form of IsNew: the first configuration is kept.
IsNewOnce == seen.config # None /\ cache.run = 0

IsNew == seen.config # None /\ seen.config.run > cache.run

\* getConfig: the configuration, or None, ...
RobotConfig ==
  IF seen.config = None THEN None
  ELSE IF ~IsNew THEN cache.config
  ELSE IF Parsable(seen.config.config) THEN seen.config.config
  ELSE None

\* ... and the cache after the call.
Cached == IF IsNew /\ Parsable(seen.config.config) THEN seen.config ELSE cache

\* A mutated form of MaySend: without a configuration it uses the default.
MaySendUnknown(t) == RobotConfig # None => RobotConfig.dir[t] = "sub"

MaySend(t) == RobotConfig # None /\ RobotConfig.dir[t] = "sub"

\* A mutated form of MayGet: no configuration, no values.
MayGetKnown(t) == RobotConfig # None /\ RobotConfig.dir[t] = "pub"

MayGet(t) == RobotConfig # None => RobotConfig.dir[t] = "pub"

\* getState, whose subscriber has the default 0.
RobotState == IF seen.status = None THEN "NOT_READY" ELSE seen.status

IsConnected == ping = "recent"

Periodic ==
  /\ cache' = Cached
  /\ UNCHANGED <<moeVars, out, wireVars, seenVars, rioVars, gotVars, tfVars>>

\* sendFieldToOdom, sendOdomToRobot
Send(t) ==
  /\ MaySend(t)
  /\ sent' = sent \cup {t}
  /\ cache' = Cached
  /\ UNCHANGED <<moeVars, out, wireVars, seenVars, rio, gotVars, tfVars>>

\* getOdomToRobot: a value is returned once.  Its timestamp is taken before it is
\* logged, and without a log that throws: the value then never reaches the caller.
GetCorrection ==
  /\ MayGet("tf_odom_robot")
  /\ seen.correction # None /\ seen.correction > lastTf
  /\ lastTf' = seen.correction
  /\ given' = IF Logged THEN seen.correction ELSE given
  /\ cache' = Cached
  /\ UNCHANGED <<moeVars, out, wireVars, seenVars, rioVars, gotVars>>

SetSleeping(b) ==
  /\ rio' = [rio EXCEPT !.sleep = b]
  /\ UNCHANGED <<moeVars, out, wireVars, seenVars, sent, gotVars, readVars>>

SetConfig(kind) ==
  /\ rio.config = None
  /\ rio' = [rio EXCEPT !.config = kind]
  /\ UNCHANGED <<moeVars, out, wireVars, seenVars, sent, gotVars, readVars>>

-----------------------------------------------------------------------------

RunMoe == (\E correct \in BOOLEAN : Poll(correct)) \/ ApplyConfig

LinkNext ==
  \/ Start \/ Built \/ BuildFails \/ RunMoe \/ Stop \/ Exit \/ Crash
  \/ Connect \/ Disconnect \/ Unannounce
  \/ \E topic \in DOMAIN Nothing : Arrive(topic)
  \/ ArrivePing \/ PingAges \/ ArriveSleep \/ ArriveConfig \/ ArriveOdom
  \/ Periodic \/ GetCorrection
  \/ \E t \in Transforms : Send(t)
  \/ \E b \in BOOLEAN : SetSleeping(b)
  \/ \E kind \in {"valid", "invalid"} : SetConfig(kind)

\* The main loop polls; NetworkTables delivers the last values while the link
\* is up; time passes; the robot's loop reads at every turn.
LinkFairness ==
  /\ WF_vars(RunMoe)
  /\ \A topic \in DOMAIN Nothing : WF_vars(Arrive(topic))
  /\ WF_vars(PingAges) /\ WF_vars(ArriveSleep) /\ WF_vars(ArriveOdom)
  /\ WF_vars(Periodic) /\ WF_vars(GetCorrection)

LinkSpec == LinkInit /\ [][LinkNext]_vars /\ LinkFairness

-----------------------------------------------------------------------------
(* Properties *)

Linked == link /\ phase = "running"

\* The robot begins to publish only what MOEnet listens to in this run, so that
\* no topic has two publishers, unless all it knows is an earlier run's
\* configuration, from before MOEnet was deployed with another one.
OneWay ==
  [][\A t \in sent' \ sent : config.dir[t] = "sub" \/ cache'.run < runs]_vars

\* While the link holds, getState comes to show the status of MOEnet, also after
\* a reconnection and after a change that was undone before it was sent; when MOEnet
\* is gone, isConnected comes to say so, although the server keeps its values.
StatusSeen == []<>(IF Linked THEN RobotState = status ELSE ~IsConnected)

\* A request to sleep, or to wake up, is followed whatever state MOEnet was in,
\* an error included, and the robot sees it.
SleepFollowed ==
  []<>(Linked /\ config.subscribeSleep => (RobotState = "SLEEPING") = rio.sleep)

\* The robot comes to use the configuration of this run, if it can be parsed.
ConfigFollowed ==
  []<>(Linked /\ Parsable(config) => cache = [run |-> runs, config |-> config])

\* A correction that was published reaches the robot's code, or a later one does, also
\* if the robot cannot parse the configuration; but not without a log, when each read
\* throws after it has taken the timestamp.
CorrectionReaches ==
  []<>(Linked /\ Logged /\ out.correction # None => given >= out.correction)

\* "Get odometry" (comms.py:227): odometry that the robot sends, to a MOEnet that
\* subscribes to it, reaches the estimator.
OdometryHeard ==
  []<>(Linked /\ config.dir["tf_field_odom"] = "sub" /\ "tf_field_odom" \in sent => heard)
=============================================================================
