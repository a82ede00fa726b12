--------------------------- MODULE WorkerProcess ---------------------------
(***************************************************************************)
(* The camera worker process: one operating-system process per camera,     *)
(* running main() of src/server/worker/worker.py around a CameraWorker.    *)
(*                                                                         *)
(* The worker reads commands from cmd_queue and writes messages to         *)
(* msg_queue.  Both are unbounded multiprocessing queues owned by the main *)
(* process (controller.py passes cmd_queue=0, msg_queue=0), so both        *)
(* outlive the worker: a command that no worker has read yet is read by    *)
(* the next one.                                                           *)
(***************************************************************************)
EXTENDS Integers, Sequences

CONSTANTS
  NumWorkers,       \* how many cameras are configured
  Optional,         \* the cameras whose retry.optional is set
  PipelineMethods,  \* which of override_pose() and flush() the pipeline object has
  PacketKinds,      \* the packet types that pipeline.poll() may yield
  MaxFaults,        \* bound: external failures in a behaviour
  MaxMsgs           \* bound: the length of msg_queue up to which a worker polls

Workers == 1..NumWorkers

ASSUME WorkerAssumption ==
  /\ NumWorkers \in Nat \ {0}
  /\ Optional \subseteq Workers
  /\ PipelineMethods \subseteq {"override_pose", "flush"}
  /\ PacketKinds \subseteq {"pose", "detections", "empty", "other"}
  /\ MaxFaults \in Nat
  /\ MaxMsgs \in Nat

VARIABLES
  wpc,      \* where worker w is in main(); "none": Subprocess.proc is None
  wst,      \* CameraWorker._state, "none" before the constructor sets it
  cmds,     \* cmd_queue of w
  msgs,     \* msg_queue of w
  flushed,  \* history: the id of the last flush that a worker of w performed
  starts,   \* history: how many processes were started for w
  faults    \* history: how many external failures have happened

workerVars == <<wpc, wst, cmds, msgs, flushed, starts, faults>>

-----------------------------------------------------------------------------
(* Values *)

WorkerPcs == {"none", "boot", "enter", "find", "loop", "exit", "dead"}

WorkerStates == {"none", "INITIALIZING", "CONNECTING", "RUNNING", "PAUSED",
                 "FAILED", "STOPPING", "STOPPED"}

\* Process.is_alive(): the process runs.  "dead" is a process that has ended
\* and that the main process has not joined yet.
Alive(w) == wpc[w] \in {"boot", "enter", "find", "loop", "exit"}

Cmd == [kind : {"state", "override", "flush"},
        target : WorkerStates,     \* of CmdChangeState
        id : Nat]                  \* of CmdFlush

CmdState(s)    == [kind |-> "state", target |-> s, id |-> 0]
CmdOverride    == [kind |-> "override", target |-> "none", id |-> 0]
CmdFlush(i)    == [kind |-> "flush", target |-> "none", id |-> i]

\* state is MsgChangeState.current, gen is MsgFlush.id.  On a packet gen is
\* history: the last flush that had been performed when it was produced.
\* from is history: which of the processes started for w put the message.
Msg == [kind : {"state", "flush", "pose", "detections", "empty", "other"},
        state : WorkerStates,
        gen : Nat,
        from : Nat]

\* "detections" is a MsgDetections with objects in it and "empty" one without; "other"
\* is any type that MoeNet.poll does not name (MsgOdom, MsgAprilTagDetections).
Packets == {"pose", "detections", "empty", "other"}

NewMsg(w, k, s, g) == [kind |-> k, state |-> s, gen |-> g, from |-> starts[w]]

-----------------------------------------------------------------------------
(* Helpers *)

\* The state setter: a change is announced before it is made, and only a change.
Announce(w, s) ==
  IF s # wst[w] THEN Append(msgs[w], NewMsg(w, "state", s, flushed[w]))
                ELSE msgs[w]

SetState(w, s) ==
  /\ wst' = [wst EXCEPT ![w] = s]
  /\ msgs' = [msgs EXCEPT ![w] = Announce(w, s)]

Goto(w, p) == wpc' = [wpc EXCEPT ![w] = p]

Fault == faults < MaxFaults /\ faults' = faults + 1

\* What is left of msg_queue when a process dies without running its exit
\* handlers: whatever its feeder thread had already written to the pipe.
Prefixes(q) == {SubSeq(q, 1, n) : n \in 0..Len(q)}

-----------------------------------------------------------------------------
(* Start-up: the constructor and __enter__ *)

Construct(w) ==
  /\ wpc[w] = "boot"
  /\ SetState(w, "INITIALIZING")
  /\ Goto(w, "enter")
  /\ UNCHANGED <<cmds, flushed, starts, faults>>

\* The pipeline is built, then the search for the camera begins.
Connect(w) ==
  /\ wpc[w] = "enter"
  /\ SetState(w, "CONNECTING")
  /\ Goto(w, "find")
  /\ UNCHANGED <<cmds, flushed, starts, faults>>

Attach(w) ==
  /\ wpc[w] = "find"
  /\ SetState(w, "RUNNING")
  /\ Goto(w, "loop")
  /\ UNCHANGED <<cmds, flushed, starts, faults>>

\* find_oak() is out of tries.  Both branches end in exit(0), outside the
\* with statement, so __exit__ does not run.
NoOak(w) ==
  /\ wpc[w] = "find"
  /\ Fault
  /\ SetState(w, IF w \in Optional THEN "STOPPED" ELSE "FAILED")
  /\ Goto(w, "dead")
  /\ UNCHANGED <<cmds, flushed, starts>>

-----------------------------------------------------------------------------
(* The loop *)

\* An exception in the loop: FAILED is announced, then __exit__ runs.
Fail(w) ==
  /\ SetState(w, "FAILED")
  /\ Goto(w, "exit")

\* CmdChangeState.  STOPPING raises WorkerStop, which ends the loop.  The other
\* targets are refused outside RUNNING and PAUSED; the loop is in no other state.
ChangeState(w, target) ==
  \/ /\ target \in {"STOPPING", "STOPPED"}
     /\ SetState(w, "STOPPING")
     /\ Goto(w, "exit")
  \/ /\ target \in {"RUNNING", "PAUSED"}
     /\ wst[w] \in {"RUNNING", "PAUSED"}
     /\ SetState(w, target)
     /\ UNCHANGED wpc

OverridePose(w) ==
  IF "override_pose" \in PipelineMethods
  THEN UNCHANGED <<wst, msgs, wpc>>
  ELSE Fail(w)

\* A mutated form of AckFlush: the flush is acknowledged and never performed.
AckFlushUnflushed(w, i) ==
  /\ msgs' = [msgs EXCEPT ![w] = Append(@, NewMsg(w, "flush", wst[w], i))]
  /\ UNCHANGED flushed

\* flush(), then the acknowledgement.
AckFlush(w, i) ==
  /\ flushed' = [flushed EXCEPT ![w] = i]
  /\ msgs' = [msgs EXCEPT ![w] = Append(@, NewMsg(w, "flush", wst[w], i))]

Flush(w, i) ==
  IF "flush" \in PipelineMethods
  THEN AckFlush(w, i) /\ UNCHANGED <<wst, wpc>>
  ELSE Fail(w) /\ UNCHANGED flushed

\* One command is read and processed.  A running worker does not wait for one
\* (get_nowait), a paused worker does (get).
ProcessCommand(w) ==
  /\ wpc[w] = "loop"
  /\ cmds[w] # <<>>
  /\ LET c == Head(cmds[w]) IN
       \/ c.kind = "state"    /\ ChangeState(w, c.target) /\ UNCHANGED flushed
       \/ c.kind = "override" /\ OverridePose(w)          /\ UNCHANGED flushed
       \/ c.kind = "flush"    /\ Flush(w, c.id)
  /\ cmds' = [cmds EXCEPT ![w] = Tail(@)]
  /\ UNCHANGED <<starts, faults>>

\* pipeline.poll() yields a packet, which is put on msg_queue.
Poll(w) ==
  /\ wpc[w] = "loop"
  /\ wst[w] = "RUNNING"
  /\ Len(msgs[w]) < MaxMsgs
  /\ \E k \in PacketKinds :
       msgs' = [msgs EXCEPT ![w] = Append(@, NewMsg(w, k, "RUNNING", flushed[w]))]
  /\ UNCHANGED <<wpc, wst, cmds, flushed, starts, faults>>

\* pipeline.poll() raises: the device was unplugged, a stage failed.
PollError(w) ==
  /\ wpc[w] = "loop"
  /\ wst[w] = "RUNNING"
  /\ Fault
  /\ Fail(w)
  /\ UNCHANGED <<cmds, flushed, starts>>

-----------------------------------------------------------------------------
(* The end of the process *)

ExitStopping(w) ==
  /\ wpc[w] = "exit"
  /\ wst[w] # "STOPPING"
  /\ SetState(w, "STOPPING")
  /\ UNCHANGED <<wpc, cmds, flushed, starts, faults>>

\* The pipeline and the device are closed.  The process then ends in order,
\* which waits until every message is in the pipe.
ExitStopped(w) ==
  /\ wpc[w] = "exit"
  /\ wst[w] = "STOPPING"
  /\ SetState(w, "STOPPED")
  /\ Goto(w, "dead")
  /\ UNCHANGED <<cmds, flushed, starts, faults>>

\* The process ends at any other place: an exception in the constructor, in
\* __enter__ or in __exit__ (nothing is lost), or a crash (a suffix is lost).
Crash(w) ==
  /\ Alive(w)
  /\ Fault
  /\ \E q \in Prefixes(msgs[w]) : msgs' = [msgs EXCEPT ![w] = q]
  /\ Goto(w, "dead")
  /\ UNCHANGED <<wst, cmds, flushed, starts>>

-----------------------------------------------------------------------------

\* Every process is running and has not executed anything yet.
\* The queues have no limit and belong to the handle: they outlive its process.
QueuesInit ==
  /\ cmds = [w \in Workers |-> <<>>]
  /\ msgs = [w \in Workers |-> <<>>]

WorkerInit ==
  /\ QueuesInit
  /\ wpc = [w \in Workers |-> "boot"]
  /\ wst = [w \in Workers |-> "none"]
  /\ flushed = [w \in Workers |-> 0]
  /\ starts = [w \in Workers |-> 1]
  /\ faults = 0

WorkerStep(w) ==
  \/ Construct(w) \/ Connect(w) \/ Attach(w) \/ NoOak(w)
  \/ ProcessCommand(w) \/ Poll(w) \/ PollError(w)
  \/ ExitStopping(w) \/ ExitStopped(w) \/ Crash(w)

\* A live process makes progress wherever it does not wait for a command or
\* for the camera: Device() may hang, and the next packet may never come.
WorkerFairness(w) ==
  /\ WF_workerVars(Construct(w))
  /\ WF_workerVars(Connect(w))
  /\ WF_workerVars(ProcessCommand(w))
  /\ WF_workerVars(ExitStopping(w) \/ ExitStopped(w))

\* The search for the camera ends, one way or the other.
CameraFairness(w) == WF_workerVars(Attach(w) \/ NoOak(w))

WorkerTypeOK ==
  /\ wpc \in [Workers -> WorkerPcs]
  /\ wst \in [Workers -> WorkerStates]
  /\ cmds \in [Workers -> Seq(Cmd)]
  /\ msgs \in [Workers -> Seq(Msg)]
  /\ flushed \in [Workers -> Nat]
  /\ starts \in [Workers -> Nat]
  /\ faults \in Nat
=============================================================================
