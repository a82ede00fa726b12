-------------------------- MODULE CameraSupervisor --------------------------
(***************************************************************************)
(* The main process over its camera workers: the poll loop of MoeNet       *)
(* (src/server/moenet.py), the WorkerHandle of each camera                 *)
(* (worker/controller.py) and the Subprocess under it (util/subproc.py),   *)
(* composed with the processes of WorkerProcess.                           *)
(*                                                                         *)
(* The main process is one thread.  mpc says where it is:                  *)
(*   top    before MoeNet.poll()                                           *)
(*   begin  before poll() of the handle cur, in the drain loop             *)
(*   alive  in that poll(), before is_alive()                              *)
(*   get    in that poll(), before the queue is read                       *)
(*   stop, close, join   in cleanup()                                      *)
(*   done   cleanup() has returned                                         *)
(***************************************************************************)
EXTENDS WorkerProcess

CONSTANTS
  RestartTries,   \* retry.restart_tries, -1 for no limit
  EstimatorObserves, \* the pose estimator has the observe() of observe_f2r_override
  Datalog,        \* DataFusion was given a DataLog
  MainInputs,     \* which of "sleep", "override", "badConfig", "config" and "streams" arrive
  MaxFlush,       \* bound: pose overrides in a behaviour
  MaxCmds         \* bound: the length of cmd_queue up to which commands are sent

ASSUME SupervisorAssumption ==
  /\ RestartTries \in Int
  /\ EstimatorObserves \in BOOLEAN
  /\ Datalog \in BOOLEAN
  /\ MainInputs \subseteq {"sleep", "override", "badConfig", "config", "streams"}
  /\ MaxFlush \in Nat
  /\ MaxCmds \in Nat

VARIABLES
  mpc, cur,
  active,      \* local of MoeNet.poll: a packet was processed in this round
  aliveSeen,   \* local is_alive of Subprocess.poll
  status,      \* MoeNet._status
  sleeping,    \* MoeNet.sleeping
  interrupt,   \* local of MoeNet.run: SIGINT has arrived
  require,     \* WorkerHandle._require_flush_id
  last,        \* WorkerHandle._last_flush_id
  restarts,    \* WorkerHandle._restarts
  childState,  \* WorkerHandle.child_state
  childRecv    \* WorkerHandle._child_state_recv

handleVars == <<require, last, restarts, childState, childRecv>>
loopVars   == <<mpc, cur, active, aliveSeen>>
mainVars   == <<loopVars, status, sleeping, interrupt, handleVars>>
vars       == <<workerVars, mainVars>>

Statuses == {"NOT_READY", "INITIALIZING", "READY", "SLEEPING", "ERROR", "FATAL"}

MainPcs == {"top", "begin", "alive", "get", "stop", "close", "join", "done"}

CleaningUp == mpc \in {"stop", "close", "join", "done"}

-----------------------------------------------------------------------------
(* MoeNet.poll, up to the drain loop *)

\* The transition to and from sleep: the status after it, from status st.
NextStatus(st, sleep) ==
  CASE sleep /\ st \in {"READY", "INITIALIZING", "NOT_READY", "ERROR"} -> "SLEEPING"
    [] ~sleep /\ st \in {"SLEEPING", "INITIALIZING", "NOT_READY"} -> "READY"
    [] OTHER -> st

\* A mutated form of SleepCmds: only the transition from READY pauses the workers.
SleepCmdsReadyOnly(st, sleep) ==
  IF st = "READY" /\ sleep THEN <<CmdState("PAUSED")>> ELSE <<>>

\* ... and the commands that it sends to every worker.
SleepCmds(st, sleep) ==
  IF NextStatus(st, sleep) = "SLEEPING" /\ st # "SLEEPING"
  THEN <<CmdState("PAUSED")>> ELSE <<>>

\* A mutated form of OverrideCmds: the flush has the id of the one before it.
OverrideCmdsOldId(w) == <<CmdOverride, CmdFlush(require[w])>>

\* pose_override(): the new pose, then flush(), to every worker.
OverrideCmds(w) == <<CmdOverride, CmdFlush(require[w] + 1)>>

SendAll(q) ==
  /\ \A w \in Workers : q[w] # <<>> => Len(cmds[w]) < MaxCmds
  /\ cmds' = [w \in Workers |-> cmds[w] \o q[w]]

\* nt.update(), web.poll() and the sleep transition.  override: a pose override arrived.
\* bad: a configuration arrived that does not validate.  list: the web server asks for
\* the streams, which raises (stage.stage of a RootModel) and ends run().
Update(sleep, override, bad, list) ==
  LET st    == IF bad THEN "ERROR" ELSE status
      pause == IF list THEN <<>> ELSE SleepCmds(st, sleep)
  IN
  /\ mpc = "top" /\ ~interrupt
  /\ sleeping' = sleep
  /\ status' = IF list THEN st ELSE NextStatus(st, sleep)
  /\ require' = [w \in Workers |-> require[w] + (IF override THEN 1 ELSE 0)]
  /\ SendAll([w \in Workers |-> (IF override THEN OverrideCmds(w) ELSE <<>>) \o pause])
  /\ mpc' = IF list THEN "stop" ELSE "begin"
  /\ cur' = 1
  /\ active' = FALSE
  /\ UNCHANGED <<wpc, wst, msgs, flushed, starts, faults>>
  /\ UNCHANGED <<aliveSeen, interrupt, last, restarts, childState, childRecv>>

Inputs ==
  \E sleep, override, bad, list \in BOOLEAN :
    /\ sleep => "sleep" \in MainInputs
    /\ override => /\ "override" \in MainInputs /\ EstimatorObserves
                   /\ \A w \in Workers : require[w] < MaxFlush
    /\ bad => "badConfig" \in MainInputs
    /\ list => "streams" \in MainInputs
    /\ Update(sleep, override, bad, list)

\* A pose override as the code has it: SimplePoseEstimator has no observe, so
\* observe_f2r_override raises before a worker is told, and that ends run().
OverrideRaises ==
  /\ mpc = "top" /\ ~interrupt
  /\ "override" \in MainInputs /\ ~EstimatorObserves
  /\ \E sleep, bad \in BOOLEAN :
       /\ sleep => "sleep" \in MainInputs
       /\ bad => "badConfig" \in MainInputs
       /\ sleeping' = sleep
       /\ status' = IF bad THEN "ERROR" ELSE status
  /\ mpc' = "stop"
  /\ UNCHANGED <<workerVars, cur, active, aliveSeen, interrupt, handleVars>>

\* A configuration that validates: merge() reads the field slam, which
\* RemoteConfig does not have, and the AttributeError ends run().
RemoteConfig ==
  /\ mpc = "top" /\ ~interrupt
  /\ "config" \in MainInputs
  /\ mpc' = "stop"
  /\ UNCHANGED <<workerVars, cur, active, aliveSeen, status, sleeping, interrupt, handleVars>>

\* SIGINT may arrive at any moment of run().
Interrupt ==
  /\ ~CleaningUp /\ ~interrupt
  /\ interrupt' = TRUE
  /\ UNCHANGED <<workerVars, loopVars, status, sleeping, handleVars>>

\* run() leaves its loop, and __main__ calls cleanup().
Quit ==
  /\ mpc = "top" /\ interrupt
  /\ mpc' = "stop"
  /\ UNCHANGED <<workerVars, cur, active, aliveSeen, status, sleeping, interrupt, handleVars>>

-----------------------------------------------------------------------------
(* The drain loop and Subprocess.poll *)

\* poll() of the handle cur is over.  The loop goes round again if a packet
\* was processed; otherwise the transforms are published and poll() returns.
NextHandle ==
  \/ /\ cur < NumWorkers
     /\ mpc' = "begin"
     /\ cur' = cur + 1
     /\ UNCHANGED active
  \/ /\ cur = NumWorkers
     /\ mpc' = (IF active THEN "begin" ELSE "top")
     /\ cur' = 1
     /\ active' = FALSE

\* poll() of a handle without a process returns at once.
SkipHandle ==
  /\ mpc = "begin"
  /\ wpc[cur] = "none"
  /\ NextHandle
  /\ UNCHANGED <<workerVars, aliveSeen, status, sleeping, interrupt, handleVars>>

BeginPoll ==
  /\ mpc = "begin"
  /\ wpc[cur] # "none"
  /\ aliveSeen' = TRUE
  /\ mpc' = "alive"
  /\ UNCHANGED <<workerVars, cur, active, status, sleeping, interrupt, handleVars>>

\* A mutated form of CheckAlive: is_alive() is asked only before the first message.
CheckAliveOnce ==
  /\ mpc = "alive"
  /\ mpc' = "get"
  /\ UNCHANGED <<workerVars, cur, active, aliveSeen, status, sleeping, interrupt, handleVars>>

\* has_remaining() is evaluated here too.  Watchdog.start is never assigned
\* (__enter__ sets _start), so elapsed() is None and there is always time left.
CheckAlive ==
  /\ mpc = "alive"
  /\ aliveSeen' = (aliveSeen /\ Alive(cur))
  /\ mpc' = "get"
  /\ UNCHANGED <<workerVars, cur, active, status, sleeping, interrupt, handleVars>>

\* The next message of cur is read; its kind is one of kinds.
Take(kinds) ==
  /\ mpc = "get"
  /\ msgs[cur] # <<>>
  /\ Head(msgs[cur]).kind \in kinds
  /\ msgs' = [msgs EXCEPT ![cur] = Tail(@)]
  /\ UNCHANGED <<wpc, wst, cmds, flushed, starts, faults>>
  /\ UNCHANGED <<cur, aliveSeen, status, sleeping, interrupt, require, restarts>>

\* A mutated form of GateOpen: the gate opens one flush too early.
GateOpenOneEarly(w) == last[w] + 1 >= require[w]

\* handle_default lets a packet through: no flush is outstanding.
GateOpen(w) == last[w] >= require[w]

HandleChangeState ==
  /\ Take({"state"})
  /\ childState' = [childState EXCEPT ![cur] = Head(msgs[cur]).state]
  /\ childRecv' = [childRecv EXCEPT ![cur] = Head(msgs[cur]).state]
  /\ mpc' = "alive"
  /\ UNCHANGED <<active, last>>

HandleFlush ==
  /\ Take({"flush"})
  /\ LET id == Head(msgs[cur]).gen IN
     last' = [last EXCEPT ![cur] = IF id > @ THEN id ELSE @]
  /\ mpc' = "alive"
  /\ UNCHANGED <<active, childState, childRecv>>

SkipPacket ==
  /\ Take(Packets)
  /\ ~GateOpen(cur)
  /\ mpc' = "alive"
  /\ UNCHANGED <<active, last, childState, childRecv>>

\* What the estimator takes without raising: record_detections with no object in the
\* message and no DataLog.  An object raises in the tracker (getall of a label that is not
\* there), and the DataLog subtracts timestamps of two clocks before.
Accepted == IF Datalog THEN {} ELSE {"empty"}

\* The packet reaches the estimator.
DeliverPacket ==
  /\ Take(Accepted)
  /\ GateOpen(cur)
  /\ active' = TRUE
  /\ mpc' = "alive"
  /\ UNCHANGED <<last, childState, childRecv>>

\* Any other packet that is let through ends run().  observe_f2r is passed a
\* Transform3d as its camera and reads its idx; of a type that is neither a MsgPose nor a
\* MsgDetections the third test names MsgAprilTagPoses, which worker.msg does not define.
PacketRaises ==
  /\ Take(Packets \ Accepted)
  /\ GateOpen(cur)
  /\ mpc' = "stop"
  /\ UNCHANGED <<active, last, childState, childRecv>>

\* get() with a timeout of 1 ms found nothing.  A message that was put a moment
\* ago may still be on its way through the feeder thread.
EmptyAlive ==
  /\ mpc = "get"
  /\ aliveSeen
  /\ NextHandle
  /\ UNCHANGED <<workerVars, aliveSeen, status, sleeping, interrupt, handleVars>>

-----------------------------------------------------------------------------
(* handle_dead() *)

\* A mutated form of FoundDead: the process is looked at after the queue.
FoundDeadLate == mpc = "get" /\ ~Alive(cur)

\* get_nowait() found nothing, and the process was seen to be dead before.
FoundDead == mpc = "get" /\ ~aliveSeen /\ msgs[cur] = <<>>

\* A mutated form of CanRetry: one restart too many.
CanRetryOnceMore(w) == RestartTries = -1 \/ restarts[w] + 1 <= RestartTries

CanRetry(w) == RestartTries = -1 \/ restarts[w] + 1 < RestartTries

\* A mutated form of Bury: _child_state_recv keeps the dead worker's state.
BuryRemembering(state) ==
  /\ restarts' = [restarts EXCEPT ![cur] = @ + 1]
  /\ childState' = [childState EXCEPT ![cur] = state]
  /\ UNCHANGED childRecv

\* The process is joined; _child_state_recv is reset.
Bury(state) ==
  /\ restarts' = [restarts EXCEPT ![cur] = @ + 1]
  /\ childState' = [childState EXCEPT ![cur] = state]
  /\ childRecv' = [childRecv EXCEPT ![cur] = "none"]

Restart ==
  /\ FoundDead
  /\ CanRetry(cur)
  /\ Bury("STOPPED")
  /\ wpc' = [wpc EXCEPT ![cur] = "boot"]
  /\ wst' = [wst EXCEPT ![cur] = "none"]
  /\ starts' = [starts EXCEPT ![cur] = @ + 1]
  /\ NextHandle
  /\ UNCHANGED <<cmds, msgs, flushed, faults>>
  /\ UNCHANGED <<aliveSeen, status, sleeping, interrupt, require, last>>

\* An optional camera is given up and the others go on.
GiveUp ==
  /\ FoundDead
  /\ ~CanRetry(cur)
  /\ cur \in Optional
  /\ Bury("STOPPED")
  /\ wpc' = [wpc EXCEPT ![cur] = "none"]
  /\ wst' = [wst EXCEPT ![cur] = "none"]
  /\ NextHandle
  /\ UNCHANGED <<cmds, msgs, flushed, starts, faults>>
  /\ UNCHANGED <<aliveSeen, status, sleeping, interrupt, require, last>>

\* A mutated form of CameraLost: an optional camera ends the program too.
CameraLostAny ==
  /\ FoundDead
  /\ ~CanRetry(cur)
  /\ Bury("FAILED")
  /\ wpc' = [wpc EXCEPT ![cur] = "none"]
  /\ wst' = [wst EXCEPT ![cur] = "none"]
  /\ mpc' = "stop"
  /\ UNCHANGED <<cmds, msgs, flushed, starts, faults>>
  /\ UNCHANGED <<cur, active, aliveSeen, status, sleeping, interrupt, require, last>>

\* A camera that is not optional ends the program: handle_dead raises, and
\* __main__ calls cleanup().
CameraLost ==
  /\ FoundDead
  /\ ~CanRetry(cur)
  /\ cur \notin Optional
  /\ Bury("FAILED")
  /\ wpc' = [wpc EXCEPT ![cur] = "none"]
  /\ wst' = [wst EXCEPT ![cur] = "none"]
  /\ mpc' = "stop"
  /\ UNCHANGED <<cmds, msgs, flushed, starts, faults>>
  /\ UNCHANGED <<cur, active, aliveSeen, status, sleeping, interrupt, require, last>>

-----------------------------------------------------------------------------
(* cleanup() *)

\* make_stop_command(): what stop_ask() sends.
StopCommand == CmdState("STOPPED")

\* WorkerManager.stop: every worker is told to stop before any is waited for.
StopAll ==
  /\ mpc = "stop"
  /\ cmds' = [w \in Workers |-> Append(cmds[w], StopCommand)]
  /\ mpc' = "close"
  /\ cur' = 1
  /\ UNCHANGED <<wpc, wst, msgs, flushed, starts, faults>>
  /\ UNCHANGED <<active, aliveSeen, status, sleeping, interrupt, handleVars>>

\* The handle cur is closed.
NextClose ==
  \/ /\ cur < NumWorkers
     /\ mpc' = "close"
     /\ cur' = cur + 1
     /\ UNCHANGED status
  \/ /\ cur = NumWorkers
     /\ mpc' = "done"
     /\ cur' = 1
     /\ status' = "NOT_READY"

CloseGone ==
  /\ mpc = "close"
  /\ wpc[cur] = "none"
  /\ NextClose
  /\ UNCHANGED <<workerVars, active, aliveSeen, sleeping, interrupt, handleVars>>

\* Subprocess.stop: a process that is alive is asked a second time.
CloseAsk ==
  /\ mpc = "close"
  /\ wpc[cur] # "none"
  /\ cmds' = IF Alive(cur)
             THEN [cmds EXCEPT ![cur] = Append(@, StopCommand)]
             ELSE cmds
  /\ mpc' = "join"
  /\ UNCHANGED <<wpc, wst, msgs, flushed, starts, faults>>
  /\ UNCHANGED <<cur, active, aliveSeen, status, sleeping, interrupt, handleVars>>

\* Mutated forms of Join: the wait has no timeout; after it nothing is killed.
JoinPatiently ==
  /\ mpc = "join"
  /\ wpc[cur] = "dead"
  /\ wpc' = [wpc EXCEPT ![cur] = "none"]
  /\ wst' = [wst EXCEPT ![cur] = "none"]
  /\ NextClose
  /\ UNCHANGED <<cmds, msgs, flushed, starts, faults>>
  /\ UNCHANGED <<active, aliveSeen, sleeping, interrupt, handleVars>>

JoinOrLeave ==
  \/ JoinPatiently
  \/ /\ mpc = "join"
     /\ Alive(cur)
     /\ NextClose
     /\ UNCHANGED <<workerVars, active, aliveSeen, sleeping, interrupt, handleVars>>

\* The process is joined, within a second or after kill().
Join ==
  /\ mpc = "join"
  /\ \/ wpc[cur] = "dead" /\ UNCHANGED msgs
     \/ /\ Alive(cur)
        /\ \E q \in Prefixes(msgs[cur]) : msgs' = [msgs EXCEPT ![cur] = q]
  /\ wpc' = [wpc EXCEPT ![cur] = "none"]
  /\ wst' = [wst EXCEPT ![cur] = "none"]
  /\ NextClose
  /\ UNCHANGED <<cmds, flushed, starts, faults>>
  /\ UNCHANGED <<active, aliveSeen, sleeping, interrupt, handleVars>>

Terminated == mpc = "done" /\ UNCHANGED vars

-----------------------------------------------------------------------------

\* MoeNet.__init__ has returned: build_cameras() has started every process.
HandlesInit ==
  /\ require = [w \in Workers |-> 0]
  /\ last = [w \in Workers |-> 0]
  /\ restarts = [w \in Workers |-> 0]
  /\ childState = [w \in Workers |-> "none"]
  /\ childRecv = [w \in Workers |-> "none"]

Init ==
  /\ WorkerInit
  /\ mpc = "top" /\ cur = 1 /\ active = FALSE /\ aliveSeen = TRUE
  /\ status = "READY" /\ sleeping = FALSE /\ interrupt = FALSE
  /\ HandlesInit

PollHandle == SkipHandle \/ BeginPoll \/ CheckAlive \/ EmptyAlive
HandleMsg == HandleChangeState \/ HandleFlush \/ SkipPacket \/ DeliverPacket \/ PacketRaises
HandleDead == Restart \/ GiveUp \/ CameraLost
Cleanup == StopAll \/ CloseGone \/ CloseAsk \/ Join

MainStep == Inputs \/ Quit \/ PollHandle \/ HandleMsg \/ HandleDead \/ Cleanup

Next ==
  \/ MainStep \/ RemoteConfig \/ OverrideRaises \/ Interrupt \/ Terminated
  \/ \E w \in Workers : WorkerStep(w) /\ UNCHANGED mainVars

Spec == Init /\ [][Next]_vars

\* The main thread runs; a message that was put comes out of the queue in the end.
Fairness ==
  /\ WF_vars(MainStep)
  /\ SF_vars(HandleMsg)
  /\ \A w \in Workers : WorkerFairness(w)

FairSpec == Spec /\ Fairness

\* As FairSpec, and no camera hangs while it is being connected to.
CameraFairSpec == FairSpec /\ \A w \in Workers : CameraFairness(w)

-----------------------------------------------------------------------------
(* Properties *)

\* The variables keep their types; cur is always the index of a camera.
TypeOK ==
  /\ WorkerTypeOK
  /\ mpc \in MainPcs /\ cur \in Workers
  /\ active \in BOOLEAN /\ aliveSeen \in BOOLEAN
  /\ status \in Statuses /\ sleeping \in BOOLEAN /\ interrupt \in BOOLEAN
  /\ require \in [Workers -> Nat] /\ last \in [Workers -> Nat]
  /\ restarts \in [Workers -> Nat]
  /\ childState \in [Workers -> WorkerStates]
  /\ childRecv \in [Workers -> WorkerStates]

\* The gate of WorkerHandle.handle_default does its work: while it is open, no
\* packet from before the last flush is left in the queue, whichever process
\* put it there and whatever crashed in between.
GateOpenMeansFresh ==
  \A w \in Workers : GateOpen(w) =>
    \A i \in DOMAIN msgs[w] :
      msgs[w][i].kind \in Packets => msgs[w][i].gen = require[w]

\* The flush commands in q have rising ids, above f and up to r.
CmdsInOrder(q, f, r) ==
  \A i \in DOMAIN q : q[i].kind = "flush" =>
    /\ f < q[i].id /\ q[i].id <= r
    /\ \A j \in DOMAIN q : i < j /\ q[j].kind = "flush" => q[i].id < q[j].id

\* The messages in q are in the order of the flushes, from l up to f.
MsgsInOrder(q, l, f) ==
  \A i \in DOMAIN q :
    /\ l <= q[i].gen /\ q[i].gen <= f
    /\ \A j \in DOMAIN q : i < j => q[i].gen <= q[j].gen

\* Flush ids only go up, through both queues and across restarts: what was
\* acknowledged, was performed, is waiting in cmd_queue and was asked for come
\* in this order, and so do the messages between them.
FlushesInOrder ==
  \A w \in Workers :
    /\ last[w] <= flushed[w] /\ flushed[w] <= require[w]
    /\ CmdsInOrder(cmds[w], flushed[w], require[w])
    /\ MsgsInOrder(msgs[w], last[w], flushed[w])

\* Subprocess.poll drains the queue of a dead process before handle_dead starts
\* the next one: a message is never taken for one of a later process.
OwnMessages ==
  \A w \in Workers : \A i \in DOMAIN msgs[w] : msgs[w][i].from = starts[w]

IsState(w, i) == msgs[w][i].kind = "state"

\* The state that the main process will have seen of w when it has read all
\* that is in the queue is s.
Announced(w, s) ==
  \/ /\ \A i \in DOMAIN msgs[w] : ~IsState(w, i)
     /\ childRecv[w] = s
  \/ \E i \in DOMAIN msgs[w] :
       /\ IsState(w, i) /\ msgs[w][i].state = s
       /\ \A j \in DOMAIN msgs[w] : j > i => ~IsState(w, j)

\* What the handle knows of its worker is behind the truth only by what is in
\* the queue: no change of state of a live worker goes unannounced, and nothing
\* of a former process is taken for the state of the present one.
StateAnnounced == \A w \in Workers : Alive(w) => Announced(w, wst[w])

\* A camera gets restart_tries processes in all, and at least one.
RestartBudget ==
  RestartTries # -1 =>
    \A w \in Workers : starts[w] <= IF RestartTries > 1 THEN RestartTries ELSE 1

\* When cleanup() returns no camera process is left.
NoOrphans == mpc = "done" => \A w \in Workers : wpc[w] = "none"

\* A camera that the program cannot go on without: it is not optional, its last process
\* is dead, it has had all its tries, and all that it said has been heard.
Lost(w) ==
  /\ w \notin Optional /\ wpc[w] = "dead" /\ msgs[w] = <<>>
  /\ RestartTries # -1 /\ starts[w] >= RestartTries

\* The next message of cur raises when it is delivered, and it is due: the process that
\* is there now put it, after the last flush that was asked for.
RaisingPacketDue ==
  /\ msgs[cur] # <<>>
  /\ LET m == Head(msgs[cur]) IN
       /\ m.kind \in PacketKinds \ Accepted
       /\ m.from = starts[cur] /\ m.gen = require[cur]

\* The inputs whose handling raises in MoeNet.poll before the drain loop.
RaisingInputs == {"config", "streams"} \cup (IF EstimatorObserves THEN {} ELSE {"override"})

\* run() ends for SIGINT, for a lost camera, or for one of the exceptions that the code
\* raises, and then not for a packet that a flush or a restart has overtaken: no death,
\* restart, drain or stale message gets the program to cleanup() in another way.
StopsForCause ==
  [][~CleaningUp /\ CleaningUp' =>
       \/ interrupt
       \/ \E w \in Workers : Lost(w)
       \/ mpc = "get" /\ RaisingPacketDue
       \/ mpc = "top" /\ MainInputs \cap RaisingInputs # {}]_vars

\* Once the system reports that it sleeps, every camera stops polling.
SleepReached ==
  status = "SLEEPING" ~> (CleaningUp \/ \A w \in Workers : wst[w] = "PAUSED")

\* The death of a worker is noticed, and ends in a restart or in giving it up.
DeathNoticed == \A w \in Workers : wpc[w] = "dead" ~> wpc[w] # "dead"

\* cleanup() ends.
ShutdownCompletes == CleaningUp ~> mpc = "done"

-----------------------------------------------------------------------------
(* The refinement *)

SlotOf(w) == IF wpc[w] = "none" THEN "gone" ELSE IF wpc[w] = "dead" THEN "dead" ELSE "runs"

Abstract == INSTANCE Supervision WITH
  Cameras <- Workers,
  Spare   <- Optional,
  Tries   <- RestartTries,
  slot    <- [w \in Workers |-> SlotOf(w)],
  started <- starts,
  phase   <- IF mpc = "done" THEN "closed" ELSE IF CleaningUp THEN "closing" ELSE "up"

\* The poll loop with its queues, drains and restarts keeps the promise of Supervision: a
\* process is replaced only when it is dead and the camera has tries left, a camera is
\* given up only when it has none, a lost camera that is not optional ends the program,
\* and cleanup() is done only when every process is gone (Subprocess.poll, handle_dead,
\* WorkerManager.stop, close).
Supervised == Abstract!SupervisionSpec
=============================================================================
