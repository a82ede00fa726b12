------------------------------ MODULE WebServer ------------------------------
(***************************************************************************)
(* The web server of MOEnet: a process of its own (web/app.py) that asks   *)
(* the main process (web/web_srv.py) for data and forwards camera streams  *)
(* (worker/node/web.py) to browsers.                                       *)
(*                                                                         *)
(* Four threads work in the web process: the event loop, which runs the    *)
(* handlers of HTTP requests; an executor of one thread, to which the      *)
(* handlers submit everything that may block; read_cmd, which hands        *)
(* answers to the handlers that wait for them; and read_vid, which hands   *)
(* frames to the tracks.  The main process reads msg_queue and answers on  *)
(* cmd_queue; a camera worker puts frames in the video queue.              *)
(***************************************************************************)
EXTENDS Naturals, Sequences, FiniteSets

CONSTANTS
  Requests,     \* requests of browsers for the configuration or the streams
  Viewers,      \* browsers that offer to receive a stream
  Streams,      \* streams that browsers ask for
  Known,        \* those that a camera worker has
  NoStream,
  NoJob,
  MsgCap,       \* size of msg_queue (10 in the code)
  CmdCap,       \* size of cmd_queue (10)
  VidCap,       \* size of the video queue (4)
  TrackCap,     \* size of the queue of a track (10)
  MaxRestarts   \* bound: restarts of the worker of a stream

ASSUME WebAssumption ==
  /\ Known \subseteq Streams
  /\ NoStream \notin Streams
  /\ Requests \cap Streams = {}
  /\ \A op \in {"insert", "put", "pop", "skip"}, x \in Requests \cup Streams :
       NoJob # <<op, x>>
  /\ MsgCap \in Nat \ {0} /\ CmdCap \in Nat \ {0}
  /\ VidCap \in Nat \ {0} /\ TrackCap \in Nat \ {0}
  /\ MaxRestarts \in Nat

VARIABLES
  rpc,        \* where the handler of each request is in WebServer.request
  fut,        \* the future of each request
  dispatch,   \* keys of ResponseDispatcher.rsp_dispatch
  jobs,       \* work queue of ResponseDispatcher._executor
  busy,       \* the job that the executor's thread runs
  msgq,       \* msg_queue: a request, or a stream to enable
  mainUp,     \* the main process has not ended
  cmdq,       \* cmd_queue: the requests whose answers are in it
  reader,     \* the read_cmd thread: "idle", "dead", or the request it answers
  stage,      \* where each viewer is in web_offer
  watch,      \* the stream it asked for
  streams,    \* keys of WebServer.stream_info
  camCmds,    \* streams with a CmdEnableStream in the queue of their worker
  enabled,    \* streams with WebStreamNode.enabled
  restarts,   \* history: how often the worker of a stream was restarted
  vidq,       \* the video queue
  track       \* frames in IPCTrack._queue of each stream

rpcVars    == <<rpc, fut>>
execVars   == <<jobs, busy>>
viewVars   == <<stage, watch, streams>>
cameraVars == <<camCmds, enabled, restarts>>
videoVars  == <<vidq, track>>
vars == <<rpcVars, dispatch, execVars, msgq, mainUp, cmdq, reader, viewVars, cameraVars, videoVars>>

RpcStates == {"idle", "insert", "inserted", "send", "await", "popAnswer", "popTimeout",
              "answered", "timeout"}
Ended(r) == rpc[r] \in {"answered", "timeout"}

Job(op, x) == <<op, x>>
Jobs == {"insert", "pop"} \X Requests \cup {"put", "skip"} \X (Requests \cup Streams)

Submit(job) == jobs' = Append(jobs, job)
RangeOf(s) == {s[i] : i \in DOMAIN s}

WebInit ==
  /\ rpc = [r \in Requests |-> "idle"]
  /\ fut = [r \in Requests |-> "none"]
  /\ dispatch = {}
  /\ jobs = <<>> /\ busy = NoJob
  /\ msgq = <<>> /\ cmdq = <<>> /\ mainUp = TRUE
  /\ reader = "idle"
  /\ stage = [v \in Viewers |-> "idle"]
  /\ watch = [v \in Viewers |-> NoStream]
  /\ streams = {}
  /\ camCmds = {} /\ enabled = {}
  /\ restarts = [s \in Streams |-> 0]
  /\ vidq = <<>>
  /\ track = [s \in Streams |-> 0]

-----------------------------------------------------------------------------
(* WebServer.request, in the event loop *)

\* A request comes in: its future is to be registered.
Request(r) ==
  /\ rpc[r] = "idle"
  /\ rpc' = [rpc EXCEPT ![r] = "insert"]
  /\ fut' = [fut EXCEPT ![r] = "pending"]
  /\ Submit(Job("insert", r))
  /\ UNCHANGED <<dispatch, busy, msgq, mainUp, cmdq, reader, viewVars, cameraVars, videoVars>>

\* It is registered: under a timeout, the message is to be put.
Send(r) ==
  /\ rpc[r] = "inserted"
  /\ rpc' = [rpc EXCEPT ![r] = "send"]
  /\ Submit(Job("put", r))
  /\ UNCHANGED <<fut, dispatch, busy, msgq, mainUp, cmdq, reader, viewVars, cameraVars, videoVars>>

\* The answer is there: the future is to be removed.
Receive(r) ==
  /\ rpc[r] = "await" /\ fut[r] = "done"
  /\ rpc' = [rpc EXCEPT ![r] = "popAnswer"]
  /\ Submit(Job("pop", r))
  /\ UNCHANGED <<fut, dispatch, busy, msgq, mainUp, cmdq, reader, viewVars, cameraVars, videoVars>>

\* Cancelling a job succeeds only if it waits.
Cancelled(job) ==
  [i \in DOMAIN jobs |-> IF jobs[i] = job THEN Job("skip", job[2]) ELSE jobs[i]]

\* A mutated form of Timeout: it covers the put and not the wait for the answer.
TimeoutOfPut(r) ==
  /\ rpc[r] = "send"
  /\ rpc' = [rpc EXCEPT ![r] = "popTimeout"]
  /\ jobs' = Append(Cancelled(Job("put", r)), Job("pop", r))
  /\ UNCHANGED <<fut, dispatch, busy, msgq, mainUp, cmdq, reader, viewVars, cameraVars, videoVars>>

\* A mutated form of Timeout: the future stays registered.
TimeoutKeeping(r) ==
  /\ rpc[r] \in {"send", "await"}
  /\ rpc' = [rpc EXCEPT ![r] = "timeout"]
  /\ fut' = [fut EXCEPT ![r] = "cancelled"]
  /\ UNCHANGED <<dispatch, execVars, msgq, mainUp, cmdq, reader, viewVars, cameraVars, videoVars>>

\* The timeout hits the await at which the handler is: the put, which is
\* cancelled unless it runs, or the future.  A future that was set in the
\* meantime stays set, and the request still ends by its timeout.
Timeout(r) ==
  /\ rpc[r] \in {"send", "await"}
  /\ rpc' = [rpc EXCEPT ![r] = "popTimeout"]
  /\ fut' = [fut EXCEPT ![r] =
       IF rpc[r] = "await" /\ @ = "pending" THEN "cancelled" ELSE @]
  /\ jobs' = Append(Cancelled(Job("put", r)), Job("pop", r))
  /\ UNCHANGED <<dispatch, busy, msgq, mainUp, cmdq, reader, viewVars, cameraVars, videoVars>>

-----------------------------------------------------------------------------
(* The executor *)

TakeJob ==
  /\ busy = NoJob /\ jobs # <<>>
  /\ jobs' = Tail(jobs)
  /\ busy' = IF Head(jobs)[1] = "skip" THEN NoJob ELSE Head(jobs)
  /\ UNCHANGED <<rpcVars, dispatch, msgq, mainUp, cmdq, reader, viewVars, cameraVars, videoVars>>

\* ResponseDispatcher.insert with a future ...
RunInsert(r) ==
  /\ busy = Job("insert", r)
  /\ busy' = NoJob
  /\ dispatch' = dispatch \cup {r}
  /\ rpc' = [rpc EXCEPT ![r] = "inserted"]
  /\ UNCHANGED <<fut, jobs, msgq, mainUp, cmdq, reader, viewVars, cameraVars, videoVars>>

\* ... and without one: the request has ended.
RunPop(r) ==
  /\ busy = Job("pop", r)
  /\ busy' = NoJob
  /\ dispatch' = dispatch \ {r}
  /\ rpc' = [rpc EXCEPT ![r] = IF @ = "popAnswer" THEN "answered" ELSE "timeout"]
  /\ UNCHANGED <<fut, jobs, msgq, mainUp, cmdq, reader, viewVars, cameraVars, videoVars>>

\* msgq.put blocks the executor while the queue is full.  The handler goes on
\* to wait for its future, unless its time was up before.
RunPutRequest(r) ==
  /\ busy = Job("put", r) /\ Len(msgq) < MsgCap
  /\ busy' = NoJob
  /\ msgq' = Append(msgq, r)
  /\ rpc' = [rpc EXCEPT ![r] = IF @ = "send" THEN "await" ELSE @]
  /\ UNCHANGED <<fut, dispatch, jobs, mainUp, cmdq, reader, viewVars, cameraVars, videoVars>>

\* A mutated form of RunPutCtl: put_nowait, with the error ignored.
RunPutCtlNoWait(s) ==
  /\ busy = Job("put", s)
  /\ busy' = NoJob
  /\ msgq' = IF Len(msgq) < MsgCap THEN Append(msgq, s) ELSE msgq
  /\ stage' = [v \in Viewers |->
       IF stage[v] = "ctl" /\ watch[v] = s THEN "open" ELSE stage[v]]
  /\ UNCHANGED <<rpcVars, dispatch, jobs, mainUp, cmdq, reader, watch, streams, cameraVars, videoVars>>

\* The put of get_stream: the viewer that waits for it is served.
RunPutCtl(s) ==
  /\ busy = Job("put", s) /\ Len(msgq) < MsgCap
  /\ busy' = NoJob
  /\ msgq' = Append(msgq, s)
  /\ stage' = [v \in Viewers |->
       IF stage[v] = "ctl" /\ watch[v] = s THEN "open" ELSE stage[v]]
  /\ UNCHANGED <<rpcVars, dispatch, jobs, mainUp, cmdq, reader, watch, streams, cameraVars, videoVars>>

-----------------------------------------------------------------------------
(* The read_cmd thread: ResponseDispatcher.run *)

\* An answer is taken from the queue; its future, if still registered, is
\* popped ...
ReadAnswer ==
  /\ reader = "idle" /\ cmdq # <<>>
  /\ cmdq' = Tail(cmdq)
  /\ dispatch' = dispatch \ {Head(cmdq)}
  /\ reader' = IF Head(cmdq) \in dispatch THEN Head(cmdq) ELSE "idle"
  /\ UNCHANGED <<rpcVars, execVars, msgq, mainUp, viewVars, cameraVars, videoVars>>

\* ... and set in a second step, with the event loop running in between.
\* set_result raises if the future was cancelled, and that ends the thread.
SetResult ==
  /\ reader \in Requests
  /\ fut' = [fut EXCEPT ![reader] = IF @ = "pending" THEN "done" ELSE @]
  /\ reader' = IF fut[reader] = "pending" THEN "idle" ELSE "dead"
  /\ UNCHANGED <<rpc, dispatch, execVars, msgq, mainUp, cmdq, viewVars, cameraVars, videoVars>>

-----------------------------------------------------------------------------
(* The main process: RemoteWebServer *)

Received(x) ==
  /\ mainUp
  /\ msgq # <<>> /\ Head(msgq) = x
  /\ msgq' = Tail(msgq)

\* A request is answered, unless cmd_queue is full for 0.1 s.
Respond(r) ==
  /\ Received(r)
  /\ cmdq' = IF Len(cmdq) < CmdCap THEN Append(cmdq, r) ELSE cmdq
  /\ UNCHANGED <<rpcVars, dispatch, execVars, mainUp, reader, viewVars, cameraVars, videoVars>>

\* The request may be one for the streams.  A pipeline is a RootModel: to
\* iterate over it gives its fields and no stages, and the AttributeError for
\* stage.stage ends MoeNet.run.
ListStreams(r) ==
  /\ Received(r)
  /\ mainUp' = FALSE
  /\ UNCHANGED <<rpcVars, dispatch, execVars, cmdq, reader, viewVars, cameraVars, videoVars>>

\* WMsgStreamCtl: the command goes to the worker of that name, if there is one.
StreamCtl(s) ==
  /\ Received(s)
  /\ camCmds' = camCmds \cup ({s} \cap Known)
  /\ UNCHANGED <<rpcVars, dispatch, execVars, mainUp, cmdq, reader, viewVars, enabled, restarts, videoVars>>

-----------------------------------------------------------------------------
(* Offers and streams *)

\* web_offer, get_stream: a stream that is not registered is registered and
\* enabled; a registered one is used as it is.
Offer(v, s) ==
  /\ stage[v] = "idle"
  /\ watch' = [watch EXCEPT ![v] = s]
  /\ streams' = streams \cup {s}
  /\ IF s \in streams
     THEN stage' = [stage EXCEPT ![v] = "open"] /\ UNCHANGED jobs
     ELSE stage' = [stage EXCEPT ![v] = "ctl"] /\ Submit(Job("put", s))
  /\ UNCHANGED <<rpcVars, dispatch, busy, msgq, mainUp, cmdq, reader, cameraVars, videoVars>>

\* A mutated form of Leave: the stream is forgotten with its viewer.
LeaveForgetting(v) ==
  /\ stage[v] = "open"
  /\ stage' = [stage EXCEPT ![v] = "idle"]
  /\ watch' = [watch EXCEPT ![v] = NoStream]
  /\ streams' = streams \ {watch[v]}
  /\ UNCHANGED <<rpcVars, dispatch, execVars, msgq, mainUp, cmdq, reader, cameraVars, videoVars>>

\* The connection of a viewer fails; the stream goes on.
Leave(v) ==
  /\ stage[v] = "open"
  /\ stage' = [stage EXCEPT ![v] = "idle"]
  /\ watch' = [watch EXCEPT ![v] = NoStream]
  /\ UNCHANGED <<rpcVars, dispatch, execVars, msgq, mainUp, cmdq, reader, streams, cameraVars, videoVars>>

\* The worker of s takes the command; WebStreamNode.handle_command.
Enable(s) ==
  /\ s \in camCmds
  /\ camCmds' = camCmds \ {s}
  /\ enabled' = enabled \cup {s}
  /\ UNCHANGED <<rpcVars, dispatch, execVars, msgq, mainUp, cmdq, reader, viewVars, restarts, videoVars>>

\* The worker of s is restarted: WebStreamNode.start.
RestartWorker(s) ==
  /\ s \in Known /\ restarts[s] < MaxRestarts
  /\ restarts' = [restarts EXCEPT ![s] = @ + 1]
  /\ enabled' = enabled \ {s}
  /\ UNCHANGED <<rpcVars, dispatch, execVars, msgq, mainUp, cmdq, reader, viewVars, camCmds, videoVars>>

\* A frame of an enabled stream is put, or dropped after 0.1 s.
Frame(s) ==
  /\ s \in enabled
  /\ Len(vidq) < VidCap
  /\ vidq' = Append(vidq, s)
  /\ UNCHANGED <<rpcVars, dispatch, execVars, msgq, mainUp, cmdq, reader, viewVars, cameraVars, track>>

\* StreamInfo: a stream has one track, which all who subscribe get; a frame for it is
\* dropped if its queue is full.
ProvideFrame(s) == [track EXCEPT ![s] = IF @ < TrackCap THEN @ + 1 ELSE @]

\* read_frame: a frame goes to its stream, or is dropped if there is none.
ReadFrame ==
  /\ vidq # <<>>
  /\ vidq' = Tail(vidq)
  /\ track' = IF Head(vidq) \in streams THEN ProvideFrame(Head(vidq)) ELSE track
  /\ UNCHANGED <<rpcVars, dispatch, execVars, msgq, mainUp, cmdq, reader, viewVars, cameraVars>>

\* IPCTrack.recv: all viewers of a stream read from one queue.
Recv(v) ==
  /\ stage[v] = "open" /\ track[watch[v]] > 0
  /\ track' = [track EXCEPT ![watch[v]] = @ - 1]
  /\ UNCHANGED <<rpcVars, dispatch, execVars, msgq, mainUp, cmdq, reader, viewVars, cameraVars, vidq>>

-----------------------------------------------------------------------------

LoopStep == \E r \in Requests : Request(r) \/ Send(r) \/ Receive(r) \/ Timeout(r)

RunJob ==
  \/ \E r \in Requests : RunInsert(r) \/ RunPop(r) \/ RunPutRequest(r)
  \/ \E s \in Streams : RunPutCtl(s)

MainStep == (\E r \in Requests : Respond(r) \/ ListStreams(r)) \/ (\E s \in Streams : StreamCtl(s))

WebNext ==
  \/ LoopStep \/ TakeJob \/ RunJob
  \/ ReadAnswer \/ SetResult
  \/ MainStep
  \/ \E v \in Viewers : (\E s \in Streams : Offer(v, s)) \/ Leave(v) \/ Recv(v)
  \/ \E s \in Streams : Enable(s) \/ RestartWorker(s) \/ Frame(s)
  \/ ReadFrame

\* The event loop, the executor and the main process are never blocked for
\* ever: every wait of theirs has a timeout or ends when another of them goes on.
\* A worker takes its commands in the end.
WebFairness ==
  /\ \A r \in Requests : WF_vars(Send(r)) /\ WF_vars(Timeout(r))
  /\ WF_vars(TakeJob) /\ WF_vars(RunJob) /\ WF_vars(MainStep)
  /\ \A s \in Streams : WF_vars(Enable(s))

WebSafeSpec == WebInit /\ [][WebNext]_vars
WebSpec     == WebSafeSpec /\ WebFairness

-----------------------------------------------------------------------------
(* Properties *)

\* Whichever way a request ended, nothing of it is left behind: its future is
\* not registered any more and the executor has no job for it, not even the
\* put that its timeout could not cancel.
NothingLeftBehind ==
  \A r \in Requests : Ended(r) =>
    /\ r \notin dispatch
    /\ \A job \in RangeOf(jobs) \cup {busy} :
         job \notin {Job(op, r) : op \in {"insert", "put", "pop"}}

\* No frame is under way that read_frame would have to drop for the lack of a
\* handler: a worker is asked for frames after the stream was registered.
FramesHaveHandler == RangeOf(vidq) \cup enabled \subseteq streams

\* Every request ends, with an answer or by its timeout, also if its answer was
\* dropped, its message waits in the executor, or read_cmd has ended; only the
\* end of the main process, which ends the web process too, prevents it.
EveryRequestEnds == \A r \in Requests : rpc[r] = "insert" ~> Ended(r) \/ ~mainUp

\* Every stream that a browser asked for is enabled in the end, unless its worker
\* was restarted or the main process has ended.
StreamStarts ==
  \A s \in Known : s \in streams ~> s \in enabled \/ restarts[s] > 0 \/ ~mainUp

\* "Dispatch CmdResponse's" (web/app.py:128): the thread that does it goes on.
DispatcherLives == reader # "dead"
=============================================================================
