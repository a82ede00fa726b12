---------------------- MODULE CameraSupervisor_safety ----------------------
(***************************************************************************)
(* The safety properties of CameraSupervisor, proved for every number of   *)
(* cameras, every restart limit and every value of the bounds.  Each is    *)
(* inductive together with TypeOK, or is implied by an invariant that is.  *)
(***************************************************************************)
EXTENDS CameraSupervisor_proof

USE WorkerAssumption, SupervisorAssumption

-----------------------------------------------------------------------------
(* What a step of a worker does, as the other actors see it *)

\* The kinds of message that a worker puts: its own, and what its pipeline yields.
KnownKinds == {"state", "flush"} \cup PacketKinds

\* Nothing is said, and no flush is performed.
Silent(w) ==
  /\ UNCHANGED <<msgs, wst, flushed>>
  /\ Alive(w)' => Alive(w)

\* One message is put; a message of kind "state" announces the state.
Speaks(w) ==
  /\ Alive(w)
  /\ \E m \in Msg :
       /\ msgs' = [msgs EXCEPT ![w] = Append(@, m)]
       /\ m.from = starts[w] /\ m.gen = flushed'[w] /\ m.kind \in KnownKinds
       /\ \/ m.kind = "state" /\ wst' = [wst EXCEPT ![w] = m.state] /\ UNCHANGED flushed
          \/ m.kind # "state" /\ UNCHANGED wst

\* The process ends and some of what it had put is lost.
Dies(w) ==
  /\ \E q \in Prefixes(msgs[w]) : msgs' = [msgs EXCEPT ![w] = q]
  /\ wpc'[w] = "dead"
  /\ UNCHANGED <<wst, flushed>>

\* A command is read, or none is; only a flush command changes flushed.
Reads(w) ==
  \/ UNCHANGED <<cmds, flushed>>
  \/ /\ cmds[w] # <<>>
     /\ cmds' = [cmds EXCEPT ![w] = Tail(@)]
     /\ \/ UNCHANGED flushed
        \/ /\ Head(cmds[w]).kind = "flush"
           /\ flushed' = [flushed EXCEPT ![w] = Head(cmds[w]).id]

Effect(w) ==
  /\ Silent(w) \/ Speaks(w) \/ Dies(w)
  /\ \A v \in Workers \ {w} : wpc'[v] = wpc[v]
  /\ wpc[w] # "none" /\ wpc'[w] # "none"
  /\ UNCHANGED starts

\* The state setter is silent, or speaks.
LEMMA SetStateEffect ==
  ASSUME WorkerTypeOK, NEW w \in Workers, NEW s \in WorkerStates,
         SetState(w, s), Alive(w), UNCHANGED <<flushed, starts>>
  PROVE  (UNCHANGED <<msgs, wst>>) \/ Speaks(w)
  <1>1. CASE s = wst[w]
    BY <1>1 DEF SetState, Announce, WorkerTypeOK
  <1>2. CASE s # wst[w]
    <2> DEFINE m == NewMsg(w, "state", s, flushed[w])
    <2>1. m \in Msg
      BY NewMsgType DEF WorkerTypeOK
    <2>2. msgs' = [msgs EXCEPT ![w] = Append(@, m)]
      BY <1>2 DEF SetState, Announce, WorkerTypeOK
    <2>3. /\ m.from = starts[w] /\ m.gen = flushed'[w]
          /\ m.kind = "state" /\ wst' = [wst EXCEPT ![w] = m.state]
          /\ m.kind \in KnownKinds
      BY DEF NewMsg, SetState, KnownKinds
    <2>4. QED
      BY <2>1, <2>2, <2>3 DEF Speaks
  <1>3. QED
    BY <1>1, <1>2

\* Putting a message of another kind is speaking.
LEMMA PutEffect ==
  ASSUME WorkerTypeOK, NEW w \in Workers, Alive(w),
         NEW k \in {"flush"} \cup PacketKinds,
         NEW s \in WorkerStates, NEW g \in Nat,
         msgs' = [msgs EXCEPT ![w] = Append(@, NewMsg(w, k, s, g))],
         g = flushed'[w], UNCHANGED wst
  PROVE  Speaks(w)
  <1> DEFINE m == NewMsg(w, k, s, g)
  <1>1. m \in Msg
    BY NewMsgType
  <1>2. m.from = starts[w] /\ m.gen = flushed'[w] /\ m.kind # "state" /\ m.kind \in KnownKinds
    BY DEF NewMsg, KnownKinds
  <1>3. QED
    BY <1>1, <1>2 DEF Speaks

\* Goto moves the process w only.
LEMMA GotoFacts ==
  ASSUME WorkerTypeOK, NEW w \in Workers, NEW p, Goto(w, p)
  PROVE  wpc'[w] = p /\ \A v \in Workers \ {w} : wpc'[v] = wpc[v]
  BY DEF Goto, WorkerTypeOK

\* Processing a command, as the other actors see it.
LEMMA CommandEffect ==
  ASSUME WorkerTypeOK, NEW w \in Workers, ProcessCommand(w)
  PROVE  Effect(w) /\ Reads(w)
  <1> DEFINE c == Head(cmds[w])
  <1>1. Alive(w) /\ wpc[w] = "loop" /\ c \in Cmd
    BY TailFacts DEF ProcessCommand, Alive, WorkerTypeOK
  <1>2. ASSUME NEW s \in WorkerStates, SetState(w, s), UNCHANGED flushed
        PROVE  (UNCHANGED <<msgs, wst>>) \/ Speaks(w)
    BY <1>1, <1>2, SetStateEffect DEF ProcessCommand
  <1>3. ASSUME Fail(w), UNCHANGED flushed PROVE Effect(w) /\ Reads(w)
    <2>1. (UNCHANGED <<msgs, wst>>) \/ Speaks(w)
      BY <1>2, <1>3 DEF Fail, WorkerStates
    <2>2. wpc'[w] = "exit" /\ \A v \in Workers \ {w} : wpc'[v] = wpc[v]
      BY <1>3, GotoFacts DEF Fail
    <2>3. QED
      BY <1>1, <1>3, <2>1, <2>2 DEF ProcessCommand, Effect, Reads, Silent
  <1>4. CASE ChangeState(w, c.target) /\ UNCHANGED flushed
    <2>1. c.target \in WorkerStates /\ "STOPPING" \in WorkerStates
      BY <1>1 DEF Cmd, WorkerStates
    <2>2. (UNCHANGED <<msgs, wst>>) \/ Speaks(w)
      BY <1>2, <1>4, <2>1 DEF ChangeState
    <2>3. wpc'[w] \in {"exit", "loop"} /\ \A v \in Workers \ {w} : wpc'[v] = wpc[v]
      BY <1>1, <1>4, GotoFacts DEF ChangeState
    <2>4. QED
      BY <1>1, <1>4, <2>2, <2>3 DEF ProcessCommand, Effect, Reads, Silent
  <1>5. CASE OverridePose(w) /\ UNCHANGED flushed
    BY <1>1, <1>3, <1>5 DEF OverridePose, ProcessCommand, Effect, Reads, Silent
  <1>6. CASE c.kind = "flush" /\ Flush(w, c.id)
    <2>1. CASE Fail(w) /\ UNCHANGED flushed
      BY <1>3, <2>1
    <2>2. CASE AckFlush(w, c.id) /\ UNCHANGED <<wst, wpc>>
      <3>1. c.id \in Nat /\ wst[w] \in WorkerStates
        BY <1>1 DEF Cmd, WorkerTypeOK
      <3>2. c.id = flushed'[w]
        BY <2>2 DEF AckFlush, WorkerTypeOK
      <3>3. Speaks(w)
        BY <1>1, <2>2, <3>1, <3>2, PutEffect DEF AckFlush
      <3>4. QED
        BY <1>1, <1>6, <2>2, <3>3 DEF ProcessCommand, AckFlush, Effect, Reads
    <2>3. QED
      BY <1>6, <2>1, <2>2 DEF Flush
  <1>7. QED
    BY <1>4, <1>5, <1>6 DEF ProcessCommand

\* Every step of a worker is one of these, and reads at most one command.
LEMMA WorkerEffect ==
  ASSUME WorkerTypeOK, NEW w \in Workers, WorkerStep(w)
  PROVE  Effect(w) /\ Reads(w)
  <1>1. ASSUME NEW s \in WorkerStates, SetState(w, s), Alive(w), Alive(w)' => Alive(w),
               UNCHANGED <<flushed, starts>>
        PROVE  Silent(w) \/ Speaks(w)
    BY <1>1, SetStateEffect DEF Silent
  <1>2. CASE Construct(w)
    BY <1>1, <1>2, GotoFacts DEF Construct, Alive, Effect, Reads, WorkerStates
  <1>3. CASE Connect(w)
    BY <1>1, <1>3, GotoFacts DEF Connect, Alive, Effect, Reads, WorkerStates
  <1>4. CASE Attach(w)
    BY <1>1, <1>4, GotoFacts DEF Attach, Alive, Effect, Reads, WorkerStates
  <1>5. CASE NoOak(w)
    <2> DEFINE s == IF w \in Optional THEN "STOPPED" ELSE "FAILED"
    <2>1. s \in WorkerStates /\ SetState(w, s)
      BY <1>5 DEF NoOak, WorkerStates
    <2>2. QED
      BY <1>1, <1>5, <2>1, GotoFacts DEF NoOak, Alive, Effect, Reads
  <1>6. CASE ProcessCommand(w)
    BY <1>6, CommandEffect
  <1>7. CASE Poll(w)
    <2>1. PICK k \in PacketKinds :
            msgs' = [msgs EXCEPT ![w] = Append(@, NewMsg(w, k, "RUNNING", flushed[w]))]
      BY <1>7 DEF Poll
    <2>2. flushed[w] \in Nat /\ flushed[w] = flushed'[w] /\ Alive(w)
      BY <1>7 DEF Poll, WorkerTypeOK, Alive
    <2>3. k \in {"flush"} \cup PacketKinds /\ "RUNNING" \in WorkerStates
      BY DEF WorkerStates
    <2>4. UNCHANGED wst
      BY <1>7 DEF Poll
    <2>5. Speaks(w)
      BY <2>1, <2>2, <2>3, <2>4, PutEffect
    <2>6. QED
      BY <1>7, <2>5 DEF Poll, Effect, Reads
  <1>8. CASE PollError(w)
    <2>1. "FAILED" \in WorkerStates
      BY DEF WorkerStates
    <2>2. QED
      BY <1>1, <1>8, <2>1, GotoFacts DEF PollError, Fail, Alive, Effect, Reads
  <1>9. CASE ExitStopping(w)
    BY <1>1, <1>9 DEF ExitStopping, Alive, Effect, Reads, WorkerStates
  <1>10. CASE ExitStopped(w)
    BY <1>1, <1>10, GotoFacts DEF ExitStopped, Alive, Effect, Reads, WorkerStates
  <1>11. CASE Crash(w)
    <2>1. wpc'[w] = "dead" /\ \A v \in Workers \ {w} : wpc'[v] = wpc[v]
      BY <1>11, GotoFacts DEF Crash
    <2>2. Dies(w)
      BY <1>11, <2>1 DEF Crash, Dies
    <2>3. wpc[w] # "none"
      BY <1>11 DEF Crash, Alive
    <2>4. QED
      BY <1>11, <2>1, <2>2, <2>3 DEF Crash, Effect, Reads
  <1>12. QED
    BY <1>2, <1>3, <1>4, <1>5, <1>6, <1>7, <1>8, <1>9, <1>10, <1>11 DEF WorkerStep
-----------------------------------------------------------------------------
(* What a step of the main process does to the queues *)

\* The main process takes from the front of a message queue, or loses a suffix
\* of it when it kills the process; it never puts.
Drains(w) ==
  \/ msgs'[w] = msgs[w]
  \/ msgs[w] # <<>> /\ msgs'[w] = Tail(msgs[w])
  \/ msgs'[w] \in Prefixes(msgs[w])

MainAction ==
  MainStep \/ RemoteConfig \/ OverrideRaises \/ Interrupt \/ UNCHANGED vars

\* A step of the composition is one of the main process or one of a worker.
LEMMA StepSplit ==
  ASSUME [Next]_vars
  PROVE  MainAction \/ \E w \in Workers : WorkerStep(w) /\ UNCHANGED mainVars
  BY DEF Next, Terminated, MainAction

\* The message queues, the flush that a worker performed and the number of
\* its processes, over a step of the main process.
LEMMA MainEffect ==
  ASSUME TypeOK, MainAction
  PROVE  /\ \A w \in Workers : Drains(w)
         /\ UNCHANGED flushed
         /\ Restart \/ UNCHANGED starts
  <1> USE DEF workerVars, mainVars, handleVars, loopVars
  <1>1. CASE Inputs
    BY <1>1 DEF Inputs, Update, Drains
  <1>2. CASE \/ Quit \/ PollHandle \/ RemoteConfig \/ OverrideRaises \/ Interrupt
             \/ UNCHANGED vars
    BY <1>2 DEF Quit, PollHandle, SkipHandle, BeginPoll, CheckAlive, EmptyAlive,
                RemoteConfig, OverrideRaises, Interrupt, vars, Drains
  <1>3. CASE HandleMsg
    <2>1. PICK kinds : Take(kinds)
      BY <1>3 DEF HandleMsg, HandleChangeState, HandleFlush, SkipPacket, DeliverPacket,
                  PacketRaises
    <2>2. QED
      BY <2>1 DEF Take, Drains, TypeOK, WorkerTypeOK
  <1>4. CASE HandleDead
    BY <1>4 DEF HandleDead, Restart, GiveUp, CameraLost, Drains
  <1>5. CASE StopAll \/ CloseGone \/ CloseAsk
    BY <1>5 DEF StopAll, CloseGone, CloseAsk, Drains
  <1>6. CASE Join
    <2>1. CASE UNCHANGED msgs
      BY <1>6, <2>1 DEF Join, Drains
    <2>2. CASE \E q \in Prefixes(msgs[cur]) : msgs' = [msgs EXCEPT ![cur] = q]
      BY <1>6, <2>2 DEF Join, Drains, TypeOK, WorkerTypeOK
    <2>3. QED
      BY <1>6, <2>1, <2>2 DEF Join
  <1>7. QED
    BY <1>1, <1>2, <1>3, <1>4, <1>5, <1>6 DEF MainAction, MainStep, Cleanup

\* Whatever is left of a queue after Drains was in it before, in the same order.
LEMMA DrainsFacts ==
  ASSUME TypeOK, NEW w \in Workers, Drains(w)
  PROVE  /\ msgs'[w] \in Seq(Msg)
         /\ \E k \in {0, 1} : \A i \in 1..Len(msgs'[w]) :
              /\ i + k \in 1..Len(msgs[w])
              /\ msgs'[w][i] = msgs[w][i + k]
  <1>1. msgs[w] \in Seq(Msg) /\ Len(msgs[w]) \in Nat
    BY LenProperties DEF TypeOK, WorkerTypeOK
  <1>2. CASE msgs'[w] = msgs[w]
    <2>1. \A i \in 1..Len(msgs'[w]) : i + 0 \in 1..Len(msgs[w]) /\ msgs'[w][i] = msgs[w][i + 0]
      BY <1>1, <1>2
    <2>2. QED
      BY <1>1, <1>2, <2>1
  <1>3. CASE msgs[w] # <<>> /\ msgs'[w] = Tail(msgs[w])
    <2>1. /\ msgs'[w] \in Seq(Msg) /\ Len(msgs'[w]) = Len(msgs[w]) - 1
          /\ \A i \in 1..Len(msgs'[w]) : msgs'[w][i] = msgs[w][i + 1]
      BY <1>1, <1>3, TailFacts
    <2>2. \A i \in 1..Len(msgs'[w]) : i + 1 \in 1..Len(msgs[w]) /\ msgs'[w][i] = msgs[w][i + 1]
      BY <1>1, <2>1
    <2>3. QED
      BY <2>1, <2>2
  <1>4. CASE msgs'[w] \in Prefixes(msgs[w])
    <2>1. /\ msgs'[w] \in Seq(Msg) /\ Len(msgs'[w]) <= Len(msgs[w])
          /\ \A i \in 1..Len(msgs'[w]) : msgs'[w][i] = msgs[w][i]
      BY <1>1, <1>4, PrefixFacts
    <2>2. Len(msgs'[w]) \in Nat
      BY <2>1, LenProperties
    <2>3. \A i \in 1..Len(msgs'[w]) : i + 0 \in 1..Len(msgs[w]) /\ msgs'[w][i] = msgs[w][i + 0]
      BY <1>1, <2>1, <2>2
    <2>4. QED
      BY <2>1, <2>3
  <1>5. QED
    BY <1>2, <1>3, <1>4 DEF Drains

-----------------------------------------------------------------------------
(* No message is taken for one of a later process *)

\* A worker's step keeps OwnMessages.
LEMMA OwnMessagesWorker ==
  ASSUME WorkerTypeOK, NEW w \in Workers, Effect(w), OwnMessages
  PROVE  OwnMessages'
  <1>1. CASE Silent(w)
    BY <1>1 DEF Silent, Effect, OwnMessages
  <1>2. CASE Speaks(w)
    <2>1. PICK m \in Msg : msgs' = [msgs EXCEPT ![w] = Append(@, m)] /\ m.from = starts[w]
      BY <1>2 DEF Speaks
    <2>2. SUFFICES ASSUME NEW v \in Workers, NEW i \in DOMAIN msgs'[v]
                   PROVE  msgs'[v][i].from = starts'[v]
      BY DEF OwnMessages
    <2>3. msgs[v] \in Seq(Msg) /\ UNCHANGED starts
      BY DEF WorkerTypeOK, Effect
    <2>4. CASE v # w
      BY <2>1, <2>3, <2>4 DEF OwnMessages, WorkerTypeOK
    <2>5. CASE v = w
      <3>1. msgs'[w] = Append(msgs[w], m)
        BY <2>1 DEF WorkerTypeOK
      <3>2. i \in 1..Len(msgs[w]) \/ i = Len(msgs[w]) + 1
        BY <2>2, <2>3, <2>5, <3>1, AppendProperties
      <3>3. QED
        BY <2>1, <2>3, <2>5, <3>1, <3>2, AppendProperties DEF OwnMessages
    <2>6. QED
      BY <2>4, <2>5
  <1>3. CASE Dies(w)
    <2>1. PICK q \in Prefixes(msgs[w]) : msgs' = [msgs EXCEPT ![w] = q]
      BY <1>3 DEF Dies
    <2>2. msgs[w] \in Seq(Msg)
      BY DEF WorkerTypeOK
    <2>3. q \in Seq(Msg) /\ Len(q) <= Len(msgs[w]) /\ \A i \in 1..Len(q) : q[i] = msgs[w][i]
      BY <2>2, PrefixFacts
    <2>4. \A i \in DOMAIN q : i \in DOMAIN msgs[w] /\ q[i] = msgs[w][i]
      BY <2>2, <2>3
    <2>5. QED
      BY <2>1, <2>4 DEF OwnMessages, WorkerTypeOK, Effect
  <1>4. QED
    BY <1>1, <1>2, <1>3 DEF Effect

\* A message that the main process reads was put by the process it watches,
\* never by one that it has buried.
THEOREM OwnMessagesHolds == Spec => []OwnMessages
  <1>1. Init => OwnMessages
    BY DEF Init, HandlesInit, WorkerInit, QueuesInit, OwnMessages
  <1>2. TypeOK /\ OwnMessages /\ [Next]_vars => OwnMessages'
    <2> SUFFICES ASSUME TypeOK, OwnMessages, [Next]_vars PROVE OwnMessages'
      OBVIOUS
    <2>1. CASE MainAction
      <3>1. SUFFICES ASSUME NEW w \in Workers, NEW i \in DOMAIN msgs'[w]
                     PROVE  msgs'[w][i].from = starts'[w]
        BY DEF OwnMessages
      <3>2. Drains(w)
        BY <2>1, MainEffect
      <3>3. PICK k \in {0, 1} : /\ i + k \in 1..Len(msgs[w])
                                 /\ msgs'[w][i] = msgs[w][i + k]
        BY <3>1, <3>2, DrainsFacts
      <3>4. msgs[w] \in Seq(Msg)
        BY DEF TypeOK, WorkerTypeOK
      <3>5. msgs'[w][i].from = starts[w]
        BY <3>3, <3>4 DEF OwnMessages
      <3>6. CASE UNCHANGED starts
        BY <3>5, <3>6
      <3>7. CASE Restart
        <4>1. msgs[cur] = <<>>
          BY <3>7 DEF Restart, FoundDead
        <4>2. w # cur
          BY <3>3, <4>1
        <4>3. starts'[w] = starts[w]
          BY <3>7, <4>2 DEF Restart, TypeOK, WorkerTypeOK
        <4>4. QED
          BY <3>5, <4>3
      <3>8. QED
        BY <2>1, <3>6, <3>7, MainEffect
    <2>2. CASE \E w \in Workers : WorkerStep(w) /\ UNCHANGED mainVars
      BY <2>2, WorkerEffect, OwnMessagesWorker DEF TypeOK
    <2>3. QED
      BY <2>1, <2>2, StepSplit
  <1>3. QED
    BY <1>1, <1>2, TypeCorrect, PTL DEF Spec
-----------------------------------------------------------------------------
(* No message is of a kind that its worker does not put *)

\* What is in the queues was put by a state setter, a flush or a pipeline.
KindsKnown == \A w \in Workers : \A i \in DOMAIN msgs[w] : msgs[w][i].kind \in KnownKinds

\* A worker's step keeps it.
LEMMA KindsKnownWorker ==
  ASSUME WorkerTypeOK, NEW w \in Workers, Effect(w), KindsKnown
  PROVE  KindsKnown'
  <1>0. msgs \in [Workers -> Seq(Msg)]
    BY DEF WorkerTypeOK
  <1>1. CASE Silent(w)
    BY <1>1 DEF Silent, KindsKnown
  <1>2. CASE Speaks(w)
    <2>1. PICK m \in Msg : msgs' = [msgs EXCEPT ![w] = Append(@, m)] /\ m.kind \in KnownKinds
      BY <1>2 DEF Speaks
    <2>2. SUFFICES ASSUME NEW v \in Workers, NEW i \in DOMAIN msgs'[v]
                   PROVE  msgs'[v][i].kind \in KnownKinds
      BY DEF KindsKnown
    <2>3. CASE v # w
      BY <1>0, <2>1, <2>3 DEF KindsKnown
    <2>4. CASE v = w
      <3>1. msgs'[w] = Append(msgs[w], m) /\ msgs[w] \in Seq(Msg)
        BY <1>0, <2>1
      <3>2. i \in 1..Len(msgs[w]) \/ i = Len(msgs[w]) + 1
        BY <2>2, <2>4, <3>1, AppendProperties
      <3>3. QED
        BY <2>1, <2>4, <3>1, <3>2, AppendProperties DEF KindsKnown
    <2>5. QED
      BY <2>3, <2>4
  <1>3. CASE Dies(w)
    <2>1. PICK q \in Prefixes(msgs[w]) : msgs' = [msgs EXCEPT ![w] = q]
      BY <1>3 DEF Dies
    <2>2. \A i \in DOMAIN q : i \in DOMAIN msgs[w] /\ q[i] = msgs[w][i]
      BY <1>0, PrefixFacts
    <2>3. QED
      BY <1>0, <2>1, <2>2 DEF KindsKnown
  <1>4. QED
    BY <1>1, <1>2, <1>3 DEF Effect

\* A packet that no pipeline yields never reaches the main process, whatever crashes.
THEOREM KindsKnownHolds == Spec => []KindsKnown
  <1>1. Init => KindsKnown
    BY DEF Init, HandlesInit, WorkerInit, QueuesInit, KindsKnown
  <1>2. TypeOK /\ KindsKnown /\ [Next]_vars => KindsKnown'
    <2> SUFFICES ASSUME TypeOK, KindsKnown, [Next]_vars PROVE KindsKnown'
      OBVIOUS
    <2>1. CASE MainAction
      <3>1. SUFFICES ASSUME NEW w \in Workers, NEW i \in DOMAIN msgs'[w]
                     PROVE  msgs'[w][i].kind \in KnownKinds
        BY DEF KindsKnown
      <3>2. Drains(w)
        BY <2>1, MainEffect
      <3>3. PICK k \in {0, 1} : i + k \in 1..Len(msgs[w]) /\ msgs'[w][i] = msgs[w][i + k]
        BY <3>1, <3>2, DrainsFacts
      <3>4. msgs[w] \in Seq(Msg)
        BY DEF TypeOK, WorkerTypeOK
      <3>5. QED
        BY <3>3, <3>4 DEF KindsKnown
    <2>2. CASE \E w \in Workers : WorkerStep(w) /\ UNCHANGED mainVars
      BY <2>2, WorkerEffect, KindsKnownWorker DEF TypeOK
    <2>3. QED
      BY <2>1, <2>2, StepSplit
  <1>3. QED
    BY <1>1, <1>2, TypeCorrect, PTL DEF Spec
-----------------------------------------------------------------------------
(* The restart budget *)

\* Every process but the first was started by a handle_dead that counted it.
RestartsCounted == \A w \in Workers : starts[w] <= restarts[w] + 1

BudgetInv == RestartsCounted /\ RestartBudget

\* Only handle_dead counts, and it counts up.
LEMMA RestartsGrow ==
  ASSUME TypeOK, MainAction
  PROVE  \A w \in Workers : restarts'[w] >= restarts[w]
  <1> USE DEF workerVars, mainVars, handleVars, loopVars
  <1>1. CASE HandleDead
    <2>1. restarts' = [restarts EXCEPT ![cur] = @ + 1]
      BY <1>1 DEF HandleDead, Restart, GiveUp, CameraLost, Bury
    <2>2. QED
      BY <2>1 DEF TypeOK
  <1>2. CASE HandleMsg
    <2>1. UNCHANGED restarts
      BY <1>2 DEF HandleMsg, HandleChangeState, HandleFlush, SkipPacket, DeliverPacket,
                  PacketRaises, Take
    <2>2. QED
      BY <2>1 DEF TypeOK
  <1>3. CASE ~HandleDead /\ ~HandleMsg
    <2>1. UNCHANGED restarts
      BY <1>3 DEF MainAction, MainStep, Inputs, Update, Quit, PollHandle, SkipHandle,
                  BeginPoll, CheckAlive, EmptyAlive, Cleanup, StopAll, CloseGone, CloseAsk,
                  Join, RemoteConfig, OverrideRaises, Interrupt, vars
    <2>2. QED
      BY <2>1 DEF TypeOK
  <1>4. QED
    BY <1>1, <1>2, <1>3

\* No camera is ever given more than restart_tries processes.
THEOREM RestartBudgetHolds == Spec => []RestartBudget
  <1>1. Init => BudgetInv
    BY DEF Init, HandlesInit, WorkerInit, QueuesInit, BudgetInv, RestartsCounted, RestartBudget
  <1>2. TypeOK /\ BudgetInv /\ [Next]_vars => BudgetInv'
    <2> SUFFICES ASSUME TypeOK, BudgetInv, [Next]_vars PROVE BudgetInv'
      OBVIOUS
    <2>0. /\ starts \in [Workers -> Nat] /\ restarts \in [Workers -> Nat]
          /\ cur \in Workers
      BY DEF TypeOK, WorkerTypeOK
    <2>1. CASE UNCHANGED starts /\ \A w \in Workers : restarts'[w] >= restarts[w] /\ restarts'[w] \in Nat
      BY <2>0, <2>1 DEF BudgetInv, RestartsCounted, RestartBudget
    <2>2. CASE Restart
      <3>1. /\ starts' = [starts EXCEPT ![cur] = @ + 1]
            /\ restarts' = [restarts EXCEPT ![cur] = @ + 1]
            /\ RestartTries = -1 \/ restarts[cur] + 1 < RestartTries
        BY <2>2 DEF Restart, Bury, CanRetry
      <3>2. RestartsCounted'
        BY <2>0, <3>1 DEF BudgetInv, RestartsCounted
      <3>3. RestartBudget'
        <4> SUFFICES ASSUME RestartTries # -1, NEW w \in Workers
                     PROVE  starts'[w] <= IF RestartTries > 1 THEN RestartTries ELSE 1
          BY DEF RestartBudget
        <4>1. CASE w = cur
          BY <2>0, <3>1, <4>1 DEF BudgetInv, RestartsCounted
        <4>2. CASE w # cur
          BY <2>0, <3>1, <4>2 DEF BudgetInv, RestartBudget
        <4>3. QED
          BY <4>1, <4>2
      <3>4. QED
        BY <3>2, <3>3 DEF BudgetInv
    <2>3. CASE MainAction
      <3>1. restarts' \in [Workers -> Nat]
        BY TypeStep DEF TypeOK
      <3>2. QED
        BY <2>1, <2>2, <2>3, <3>1, MainEffect, RestartsGrow
    <2>4. CASE \E w \in Workers : WorkerStep(w) /\ UNCHANGED mainVars
      <3>1. UNCHANGED <<starts, restarts>>
        BY <2>4, WorkerEffect DEF TypeOK, Effect, mainVars, handleVars
      <3>2. QED
        BY <2>0, <2>1, <3>1
    <2>5. QED
      BY <2>3, <2>4, StepSplit
  <1>3. BudgetInv => RestartBudget
    BY DEF BudgetInv
  <1>4. QED
    BY <1>1, <1>2, <1>3, TypeCorrect, PTL DEF Spec

-----------------------------------------------------------------------------
(* Shutdown leaves no process behind *)

\* The handles that cleanup() has passed have no process.
ClosedSoFar ==
  /\ mpc \in {"close", "join"} => \A w \in Workers : w < cur => wpc[w] = "none"
  /\ NoOrphans

\* cleanup() leaves no process behind it, handle by handle.
THEOREM ClosedSoFarHolds == Spec => []ClosedSoFar
  <1>1. Init => ClosedSoFar
    BY DEF Init, HandlesInit, ClosedSoFar, NoOrphans
  <1>2. TypeOK /\ ClosedSoFar /\ [Next]_vars => ClosedSoFar'
    <2> SUFFICES ASSUME TypeOK, ClosedSoFar, [Next]_vars PROVE ClosedSoFar'
      OBVIOUS
    <2> USE DEF workerVars, mainVars, handleVars, loopVars
    <2>1. cur \in Workers /\ Workers = 1..NumWorkers /\ wpc \in [Workers -> WorkerPcs]
      BY DEF TypeOK, WorkerTypeOK, Workers
    <2>2. ASSUME mpc' \notin {"close", "join", "done"} PROVE ClosedSoFar'
      BY <2>2 DEF ClosedSoFar, NoOrphans
    <2>3. CASE \/ Inputs \/ PollHandle \/ HandleMsg \/ HandleDead \/ RemoteConfig
               \/ OverrideRaises \/ Quit
      <3>1. mpc' \notin {"close", "join", "done"}
        BY <2>3 DEF Inputs, Update, PollHandle, SkipHandle, BeginPoll, CheckAlive, EmptyAlive,
             NextHandle, HandleMsg, HandleChangeState, HandleFlush, SkipPacket,
             DeliverPacket, PacketRaises, HandleDead, Restart, GiveUp, CameraLost,
             RemoteConfig, OverrideRaises, Quit
      <3>2. QED
        BY <2>2, <3>1
    <2>4. ASSUME NextClose, mpc \in {"close", "join"}, wpc'[cur] = "none",
                 \A w \in Workers : wpc[w] = "none" => wpc'[w] = "none"
          PROVE  ClosedSoFar'
      <3>1. \A w \in Workers : w <= cur => wpc'[w] = "none"
        BY <2>1, <2>4 DEF ClosedSoFar
      <3>2. CASE cur < NumWorkers
        BY <2>1, <2>4, <3>1, <3>2 DEF NextClose, ClosedSoFar, NoOrphans
      <3>3. CASE cur = NumWorkers
        BY <2>1, <2>4, <3>1, <3>3 DEF NextClose, ClosedSoFar, NoOrphans
      <3>4. QED
        BY <2>1, <3>2, <3>3
    <2>5. CASE StopAll
      BY <2>1, <2>5 DEF StopAll, ClosedSoFar, NoOrphans
    <2>6. CASE CloseGone
      BY <2>4, <2>6 DEF CloseGone
    <2>7. CASE CloseAsk
      BY <2>7 DEF CloseAsk, ClosedSoFar, NoOrphans
    <2>8. CASE Join
      <3>1. mpc = "join" /\ NextClose /\ wpc' = [wpc EXCEPT ![cur] = "none"]
        BY <2>8 DEF Join
      <3>2. wpc'[cur] = "none" /\ \A w \in Workers : wpc[w] = "none" => wpc'[w] = "none"
        BY <2>1, <3>1
      <3>3. QED
        BY <2>4, <3>1, <3>2
    <2>9. CASE UNCHANGED <<mpc, cur, wpc>>
      BY <2>9 DEF ClosedSoFar, NoOrphans
    <2>10. CASE MainAction
      <3>1. CASE Interrupt \/ UNCHANGED vars
        BY <2>9, <3>1 DEF Interrupt, vars
      <3>2. QED
        BY <2>3, <2>5, <2>6, <2>7, <2>8, <2>10, <3>1 DEF MainAction, MainStep, Cleanup
    <2>11. CASE \E w \in Workers : WorkerStep(w) /\ UNCHANGED mainVars
      <3>1. PICK w \in Workers : Effect(w) /\ UNCHANGED mainVars
        BY <2>11, WorkerEffect DEF TypeOK
      <3>2. \A v \in Workers : wpc[v] = "none" => wpc'[v] = "none"
        BY <3>1 DEF Effect
      <3>3. QED
        BY <3>1, <3>2 DEF ClosedSoFar, NoOrphans
    <2>12. QED
      BY <2>10, <2>11, StepSplit
  <1>3. QED
    BY <1>1, <1>2, TypeCorrect, PTL DEF Spec

\* When cleanup() returns, every camera process is gone.
THEOREM NoOrphansHolds == Spec => []NoOrphans
  <1>1. ClosedSoFar => NoOrphans
    BY DEF ClosedSoFar
  <1>2. QED
    BY <1>1, ClosedSoFarHolds, PTL
-----------------------------------------------------------------------------
(* Flushes *)

\* A queue of messages in order stays in order when one is put that is as
\* late as the last flush, and every lower bound of it may sink.
LEMMA PutInOrder ==
  ASSUME NEW q \in Seq(Msg), NEW m \in Msg, NEW l \in Nat, NEW f \in Nat, NEW g \in Nat,
         MsgsInOrder(q, l, f), f <= g, l <= g, m.gen = g
  PROVE  MsgsInOrder(Append(q, m), l, g)
  <1> DEFINE r == Append(q, m)
  <1>1. \A i \in 1..Len(q) : q[i] \in Msg /\ q[i].gen \in Nat
    <2>1. \A i \in 1..Len(q) : q[i] \in Msg
      BY ElementOfSeq
    <2>2. QED
      BY <2>1 DEF Msg
  <1>2. /\ Len(r) = Len(q) + 1 /\ r[Len(q) + 1] = m /\ r \in Seq(Msg)
        /\ \A i \in 1..Len(q) : r[i] = q[i]
    BY AppendProperties
  <1>3. \A i \in DOMAIN r : i \in 1..Len(q) \/ i = Len(q) + 1
    BY <1>2
  <1>4. SUFFICES ASSUME NEW i \in DOMAIN r
                 PROVE  /\ l <= r[i].gen /\ r[i].gen <= g
                        /\ \A j \in DOMAIN r : i < j => r[i].gen <= r[j].gen
    BY DEF MsgsInOrder
  <1>5. CASE i = Len(q) + 1
    BY <1>2, <1>3, <1>5
  <1>6. CASE i \in 1..Len(q)
    <2>1. l <= q[i].gen /\ q[i].gen <= f /\ r[i] = q[i] /\ q[i].gen \in Nat
      BY <1>1, <1>2, <1>6 DEF MsgsInOrder
    <2>2. ASSUME NEW j \in DOMAIN r, i < j PROVE r[i].gen <= r[j].gen
      <3>1. CASE j \in 1..Len(q)
        BY <1>2, <1>6, <2>2, <3>1 DEF MsgsInOrder
      <3>2. CASE j = Len(q) + 1
        BY <1>2, <2>1, <3>2
      <3>3. QED
        BY <1>3, <2>2, <3>1, <3>2
    <2>3. QED
      BY <2>1, <2>2
  <1>7. QED
    BY <1>3, <1>5, <1>6

\* Commands sent after the others, the flushes among them with the next id.
LEMMA SendInOrder ==
  ASSUME NEW q \in Seq(Cmd), NEW p \in Seq(Cmd), NEW f \in Nat, NEW r \in Nat, NEW s \in Nat,
         CmdsInOrder(q, f, r), f <= r, r <= s,
         \A i \in 1..Len(p) : p[i].kind = "flush" =>
            /\ r < p[i].id /\ p[i].id <= s
            /\ \A j \in 1..Len(p) : i < j => p[j].kind # "flush"
  PROVE  CmdsInOrder(q \o p, f, s)
  <1> DEFINE t == q \o p
  <1>1. \A c \in Cmd : c.id \in Nat
    BY DEF Cmd
  <1>2. /\ t \in Seq(Cmd) /\ Len(t) = Len(q) + Len(p)
        /\ \A i \in 1..Len(t) : t[i] = IF i <= Len(q) THEN q[i] ELSE p[i - Len(q)]
    BY ConcatProperties
  <1>3. Len(q) \in Nat /\ Len(p) \in Nat /\ DOMAIN t = 1..Len(t) /\ DOMAIN q = 1..Len(q)
    BY <1>2, LenProperties
  <1> HIDE DEF t
  <1> DEFINE Old(i) == i \in 1..Len(q) /\ t[i] = q[i]
             New(i) == i - Len(q) \in 1..Len(p) /\ i > Len(q) /\ t[i] = p[i - Len(q)]
  <1>4. ASSUME NEW i \in DOMAIN t PROVE Old(i) \/ New(i)
    <2>1. i \in Nat /\ i >= 1 /\ i <= Len(q) + Len(p)
      BY <1>2, <1>3
    <2>2. CASE i <= Len(q)
      BY <1>2, <1>3, <2>1, <2>2
    <2>3. CASE i > Len(q)
      <3>1. t[i] = p[i - Len(q)]
        BY <1>2, <1>3, <2>1, <2>3
      <3>2. i - Len(q) \in 1..Len(p)
        BY <1>3, <2>1, <2>3
      <3>3. QED
        BY <2>3, <3>1, <3>2
    <2>4. QED
      BY <1>3, <2>1, <2>2, <2>3
  <1>5. SUFFICES ASSUME NEW i \in DOMAIN t, t[i].kind = "flush"
                 PROVE  /\ f < t[i].id /\ t[i].id <= s
                        /\ \A j \in DOMAIN t : i < j /\ t[j].kind = "flush" => t[i].id < t[j].id
    BY DEF CmdsInOrder, t
  <1>6. t[i] \in Cmd /\ t[i].id \in Nat /\ i \in Nat
    BY <1>1, <1>2, <1>3
  <1>7. CASE Old(i)
    <2>1. f < t[i].id /\ t[i].id <= r
      BY <1>3, <1>5, <1>7 DEF CmdsInOrder
    <2>2. ASSUME NEW j \in DOMAIN t, i < j, t[j].kind = "flush" PROVE t[i].id < t[j].id
      <3>1. CASE Old(j)
        BY <1>3, <1>5, <1>7, <2>2, <3>1 DEF CmdsInOrder
      <3>2. CASE New(j)
        <4>1. r < t[j].id /\ t[j] \in Cmd
          BY <1>2, <1>3, <2>2, <3>2
        <4>2. QED
          BY <1>1, <1>6, <2>1, <4>1
      <3>3. QED
        BY <1>4, <2>2, <3>1, <3>2
    <2>3. QED
      BY <1>6, <2>1, <2>2
  <1>8. CASE New(i)
    <2>1. /\ r < t[i].id /\ t[i].id <= s
          /\ \A j \in 1..Len(p) : i - Len(q) < j => p[j].kind # "flush"
      BY <1>5, <1>8
    <2>2. ASSUME NEW j \in DOMAIN t, i < j PROVE t[j].kind # "flush"
      <3>1. j - Len(q) \in 1..Len(p) /\ t[j] = p[j - Len(q)] /\ i - Len(q) < j - Len(q)
        BY <1>3, <1>4, <1>6, <1>8, <2>2
      <3>2. QED
        BY <2>1, <3>1
    <2>3. QED
      BY <1>6, <2>1, <2>2
  <1>9. QED
    BY <1>4, <1>7, <1>8

\* Reading the first command; a flush that is read is the next in order.
LEMMA ReadInOrder ==
  ASSUME NEW q \in Seq(Cmd), q # <<>>, NEW f \in Nat, NEW r \in Nat, CmdsInOrder(q, f, r)
  PROVE  /\ CmdsInOrder(Tail(q), f, r)
         /\ Head(q).kind = "flush" =>
              /\ f < Head(q).id /\ Head(q).id <= r
              /\ CmdsInOrder(Tail(q), Head(q).id, r)
  <1>1. /\ Head(q) \in Cmd /\ Head(q) = q[1] /\ Tail(q) \in Seq(Cmd)
        /\ Len(Tail(q)) = Len(q) - 1 /\ Len(q) >= 1 /\ Len(q) \in Nat
        /\ \A i \in 1..Len(Tail(q)) : Tail(q)[i] = q[i + 1]
    BY TailFacts, LenProperties
  <1>2. DOMAIN q = 1..Len(q) /\ DOMAIN Tail(q) = 1..Len(Tail(q)) /\ 1 \in DOMAIN q
    BY <1>1, LenProperties
  <1>3. \A i \in DOMAIN Tail(q) : i + 1 \in DOMAIN q /\ 1 < i + 1 /\ Tail(q)[i] = q[i + 1] /\ i \in Nat
    BY <1>1, <1>2
  <1>4. CmdsInOrder(Tail(q), f, r)
    BY <1>3 DEF CmdsInOrder
  <1>5. ASSUME Head(q).kind = "flush"
        PROVE  /\ f < Head(q).id /\ Head(q).id <= r
               /\ CmdsInOrder(Tail(q), Head(q).id, r)
    <2>1. f < Head(q).id /\ Head(q).id <= r
      BY <1>1, <1>2, <1>5 DEF CmdsInOrder
    <2>2. \A i \in DOMAIN Tail(q) : Tail(q)[i].kind = "flush" => Head(q).id < Tail(q)[i].id
      BY <1>1, <1>2, <1>3, <1>5 DEF CmdsInOrder
    <2>3. QED
      BY <1>4, <2>1, <2>2 DEF CmdsInOrder
  <1>6. QED
    BY <1>4, <1>5

\* Telling a worker to stop does not disturb the flushes.
LEMMA StopInOrder ==
  ASSUME NEW q \in Seq(Cmd), NEW c \in Cmd, c.kind = "state",
         NEW f \in Nat, NEW r \in Nat, CmdsInOrder(q, f, r)
  PROVE  CmdsInOrder(Append(q, c), f, r)
  <1>1. /\ Len(Append(q, c)) = Len(q) + 1 /\ Append(q, c)[Len(q) + 1] = c
        /\ \A i \in 1..Len(q) : Append(q, c)[i] = q[i]
    BY AppendProperties
  <1>2. \A i \in DOMAIN Append(q, c) :
          Append(q, c)[i].kind = "flush" => i \in DOMAIN q /\ Append(q, c)[i] = q[i]
    BY <1>1
  <1>3. QED
    BY <1>2 DEF CmdsInOrder

\* What is left of a queue of messages is in order.
LEMMA DrainInOrder ==
  ASSUME TypeOK, NEW w \in Workers, Drains(w), NEW l, NEW f, MsgsInOrder(msgs[w], l, f)
  PROVE  MsgsInOrder(msgs'[w], l, f)
  <1>1. PICK k \in {0, 1} : \A i \in 1..Len(msgs'[w]) :
          i + k \in 1..Len(msgs[w]) /\ msgs'[w][i] = msgs[w][i + k]
    BY DrainsFacts
  <1>2. msgs'[w] \in Seq(Msg) /\ msgs[w] \in Seq(Msg)
    BY DrainsFacts DEF TypeOK, WorkerTypeOK
  <1>3. \A i \in DOMAIN msgs'[w] :
          i \in Nat /\ i + k \in DOMAIN msgs[w] /\ msgs'[w][i] = msgs[w][i + k]
    BY <1>1, <1>2
  <1>4. \A i, j \in DOMAIN msgs'[w] : i < j => i + k < j + k
    BY <1>3
  <1>5. QED
    BY <1>3, <1>4 DEF MsgsInOrder

\* A worker's step keeps the order of its own flushes.
LEMMA WorkerInOrder ==
  ASSUME TypeOK, TypeOK', FlushesInOrder, NEW w \in Workers, Effect(w), Reads(w)
  PROVE  /\ flushed[w] <= flushed'[w] /\ flushed'[w] <= require[w]
         /\ CmdsInOrder(cmds'[w], flushed'[w], require[w])
         /\ MsgsInOrder(msgs'[w], last[w], flushed'[w])
  <1>1. /\ flushed[w] \in Nat /\ flushed'[w] \in Nat /\ require[w] \in Nat /\ last[w] \in Nat
        /\ cmds[w] \in Seq(Cmd) /\ msgs[w] \in Seq(Msg)
    BY DEF TypeOK, WorkerTypeOK
  <1>2. /\ last[w] <= flushed[w] /\ flushed[w] <= require[w]
        /\ CmdsInOrder(cmds[w], flushed[w], require[w])
        /\ MsgsInOrder(msgs[w], last[w], flushed[w])
    BY DEF FlushesInOrder
  <1>3. /\ flushed[w] <= flushed'[w] /\ flushed'[w] <= require[w]
        /\ CmdsInOrder(cmds'[w], flushed'[w], require[w])
    <2>1. CASE UNCHANGED <<cmds, flushed>>
      BY <1>1, <1>2, <2>1
    <2>2. CASE /\ cmds[w] # <<>>
               /\ cmds' = [cmds EXCEPT ![w] = Tail(@)]
               /\ UNCHANGED flushed
      <3>1. cmds'[w] = Tail(cmds[w])
        BY <2>2 DEF TypeOK, WorkerTypeOK
      <3>2. QED
        BY <1>1, <1>2, <2>2, <3>1, ReadInOrder
    <2>3. CASE /\ cmds[w] # <<>>
               /\ cmds' = [cmds EXCEPT ![w] = Tail(@)]
               /\ Head(cmds[w]).kind = "flush"
               /\ flushed' = [flushed EXCEPT ![w] = Head(cmds[w]).id]
      <3>1. cmds'[w] = Tail(cmds[w]) /\ flushed'[w] = Head(cmds[w]).id
        BY <2>3 DEF TypeOK, WorkerTypeOK
      <3>2. /\ flushed[w] < flushed'[w] /\ flushed'[w] <= require[w]
            /\ CmdsInOrder(cmds'[w], flushed'[w], require[w])
        BY <1>1, <1>2, <2>3, <3>1, ReadInOrder
      <3>3. QED
        BY <1>1, <3>2
    <2>4. QED
      BY <2>1, <2>2, <2>3 DEF Reads
  <1>4. MsgsInOrder(msgs'[w], last[w], flushed'[w])
    <2>1. CASE Silent(w)
      BY <1>2, <2>1 DEF Silent
    <2>2. CASE Speaks(w)
      <3>1. PICK m \in Msg : msgs' = [msgs EXCEPT ![w] = Append(@, m)] /\ m.gen = flushed'[w]
        BY <2>2 DEF Speaks
      <3>2. msgs'[w] = Append(msgs[w], m)
        BY <3>1 DEF TypeOK, WorkerTypeOK
      <3>3. last[w] <= flushed'[w]
        BY <1>1, <1>2, <1>3
      <3>4. QED
        BY <1>1, <1>2, <1>3, <3>1, <3>2, <3>3, PutInOrder
    <2>3. CASE Dies(w)
      <3>1. Drains(w) /\ flushed'[w] = flushed[w]
        BY <2>3 DEF Dies, Drains, TypeOK, WorkerTypeOK
      <3>2. QED
        BY <1>2, <3>1, DrainInOrder
    <2>4. QED
      BY <2>1, <2>2, <2>3 DEF Effect
  <1>5. QED
    BY <1>3, <1>4

\* The commands of MoeNet.poll: at most one flush, which has the next id.
LEMMA UpdateInOrder ==
  ASSUME TypeOK, TypeOK', FlushesInOrder,
         NEW sleep \in BOOLEAN, NEW override \in BOOLEAN, NEW bad \in BOOLEAN,
         NEW list \in BOOLEAN, Update(sleep, override, bad, list)
  PROVE  FlushesInOrder'
  <1> SUFFICES ASSUME NEW w \in Workers
               PROVE  /\ last'[w] <= flushed'[w] /\ flushed'[w] <= require'[w]
                      /\ CmdsInOrder(cmds'[w], flushed'[w], require'[w])
                      /\ MsgsInOrder(msgs'[w], last'[w], flushed'[w])
    BY DEF FlushesInOrder
  <1> DEFINE st == IF bad THEN "ERROR" ELSE status
             pause == IF list THEN <<>> ELSE SleepCmds(st, sleep)
             q == (IF override THEN OverrideCmds(w) ELSE <<>>) \o pause
  <1>1. /\ flushed[w] \in Nat /\ require[w] \in Nat /\ require'[w] \in Nat
        /\ last[w] \in Nat /\ cmds[w] \in Seq(Cmd)
    BY DEF TypeOK, WorkerTypeOK
  <1>2. /\ last[w] <= flushed[w] /\ flushed[w] <= require[w]
        /\ CmdsInOrder(cmds[w], flushed[w], require[w])
        /\ MsgsInOrder(msgs[w], last[w], flushed[w])
    BY DEF FlushesInOrder
  <1>3. /\ cmds'[w] = cmds[w] \o q
        /\ require'[w] = require[w] + (IF override THEN 1 ELSE 0)
        /\ UNCHANGED <<msgs, flushed, last>>
    BY DEF Update, SendAll
  <1>4. pause = <<>> \/ pause = <<CmdState("PAUSED")>>
    BY DEF SleepCmds
  <1>5. \/ q = <<>> /\ require'[w] = require[w]
        \/ q = <<CmdState("PAUSED")>> /\ require'[w] = require[w]
        \/ q = <<CmdOverride, CmdFlush(require[w] + 1)>> /\ require'[w] = require[w] + 1
        \/ /\ q = <<CmdOverride, CmdFlush(require[w] + 1), CmdState("PAUSED")>>
           /\ require'[w] = require[w] + 1
    <2> DEFINE c == CmdState("PAUSED")
               o == CmdOverride
               f == CmdFlush(require[w] + 1)
    <2> HIDE DEF pause, c, o, f
    <2>1. c \in Cmd /\ o \in Cmd /\ f \in Cmd
      BY <1>1, CmdTypes DEF WorkerStates, c, o, f
    <2>2. CASE ~override
      <3>1. require'[w] = require[w] /\ q = <<>> \o pause
        BY <1>1, <1>3, <2>2
      <3>2. pause \in Seq(Cmd) /\ (pause = <<>> \/ pause = <<c>>)
        <4>1. <<>> \in Seq(Cmd) /\ <<c>> \in Seq(Cmd)
          BY <2>1
        <4>2. pause = <<>> \/ pause = <<c>>
          BY <1>4 DEF c
        <4>3. QED
          BY <4>1, <4>2
      <3>3. q = pause
        BY <3>1, <3>2, ConcatEmptySeq
      <3>4. QED
        BY <3>1, <3>2, <3>3 DEF c
    <2>3. CASE override
      <3>1. require'[w] = require[w] + 1 /\ q = <<o, f>> \o pause
        BY <1>3, <2>3 DEF OverrideCmds, o, f
      <3>2. <<o, f>> \in Seq(Cmd)
        BY <2>1
      <3>3. CASE pause = <<>>
        BY <3>1, <3>2, <3>3, ConcatEmptySeq DEF o, f
      <3>4. CASE pause = <<c>>
        <4>1. <<o, f>> \o <<c>> = Append(<<o, f>>, c)
          BY <2>1, <3>2, AppendIsConcat
        <4>2. Append(<<o, f>>, c) = <<o, f, c>>
          <5> DEFINE a == Append(<<o, f>>, c)
                     b == <<o, f, c>>
          <5>1. a \in Seq(Cmd) /\ Len(a) = 3 /\ a[1] = o /\ a[2] = f /\ a[3] = c
            BY <2>1, <3>2, AppendProperties
          <5>2. b \in Seq(Cmd) /\ Len(b) = 3 /\ b[1] = o /\ b[2] = f /\ b[3] = c
            BY <2>1
          <5> HIDE DEF a, b
          <5>3. \A i \in 1..3 : a[i] = b[i]
            BY <5>1, <5>2
          <5>4. a = b
            BY <5>1, <5>2, <5>3, SeqEqual
          <5>5. QED
            BY <5>4 DEF a, b
        <4>3. QED
          BY <3>1, <3>4, <4>1, <4>2 DEF o, f, c
      <3>5. QED
        BY <1>4, <3>3, <3>4 DEF c
    <2>4. QED
      BY <2>2, <2>3
  <1>6. /\ CmdState("PAUSED") \in Cmd /\ CmdState("PAUSED").kind = "state"
        /\ CmdOverride \in Cmd /\ CmdOverride.kind = "override"
        /\ CmdFlush(require[w] + 1) \in Cmd /\ CmdFlush(require[w] + 1).id = require[w] + 1
    BY <1>1, CmdTypes DEF CmdState, CmdOverride, CmdFlush, WorkerStates
  <1> HIDE DEF q
  <1>7. q \in Seq(Cmd)
    <2>1. ASSUME NEW a \in Cmd, NEW b \in Cmd, NEW c \in Cmd
          PROVE  <<>> \in Seq(Cmd) /\ <<a>> \in Seq(Cmd) /\ <<a, b>> \in Seq(Cmd)
                   /\ <<a, b, c>> \in Seq(Cmd)
      OBVIOUS
    <2> DEFINE P == CmdState("PAUSED")
               O == CmdOverride
               N == CmdFlush(require[w] + 1)
    <2>2. \/ q = <<>> \/ q = <<P>> \/ q = <<O, N>> \/ q = <<O, N, P>>
      BY Zenon, <1>5
    <2>3. P \in Cmd /\ O \in Cmd /\ N \in Cmd
      BY <1>6
    <2> HIDE DEF P, O, N
    <2>4. QED
      BY <2>1, <2>2, <2>3
  <1>8. \A i \in 1..Len(q) : q[i].kind = "flush" =>
          /\ require[w] < q[i].id /\ q[i].id <= require'[w]
          /\ \A j \in 1..Len(q) : i < j => q[j].kind # "flush"
    <2>1. CASE q = <<>> /\ require'[w] = require[w]
      BY <2>1
    <2>2. CASE q = <<CmdState("PAUSED")>> /\ require'[w] = require[w]
      BY <1>6, <2>2
    <2>3. CASE q = <<CmdOverride, CmdFlush(require[w] + 1)>> /\ require'[w] = require[w] + 1
      <3>1. Len(q) = 2 /\ q[1] = CmdOverride /\ q[2] = CmdFlush(require[w] + 1)
        BY <2>3
      <3>2. \A i \in 1..Len(q) : i = 1 \/ i = 2
        BY <3>1
      <3>3. QED
        BY <1>1, <1>6, <2>3, <3>1, <3>2
    <2>4. CASE /\ q = <<CmdOverride, CmdFlush(require[w] + 1), CmdState("PAUSED")>>
               /\ require'[w] = require[w] + 1
      <3>1. /\ Len(q) = 3 /\ q[1] = CmdOverride /\ q[2] = CmdFlush(require[w] + 1)
            /\ q[3] = CmdState("PAUSED")
        BY <2>4
      <3>2. \A i \in 1..Len(q) : i = 1 \/ i = 2 \/ i = 3
        BY <3>1
      <3>3. QED
        BY <1>1, <1>6, <2>4, <3>1, <3>2
    <2>5. QED
      BY <1>5, <2>1, <2>2, <2>3, <2>4
  <1>9. flushed[w] <= require[w] /\ require[w] <= require'[w] /\ flushed[w] <= require'[w]
    BY <1>1, <1>2, <1>3
  <1>10. CmdsInOrder(cmds'[w], flushed[w], require'[w])
    BY <1>1, <1>2, <1>3, <1>7, <1>8, <1>9, SendInOrder
  <1>11. QED
    BY <1>2, <1>3, <1>9, <1>10

\* Reading a message: an acknowledged flush raises last to its id, which no
\* message behind it is older than.
LEMMA HandleMsgInOrder ==
  ASSUME TypeOK, TypeOK', FlushesInOrder, HandleMsg
  PROVE  FlushesInOrder'
  <1> DEFINE m == Head(msgs[cur])
  <1>1. /\ msgs[cur] # <<>> /\ msgs' = [msgs EXCEPT ![cur] = Tail(@)]
        /\ UNCHANGED <<cmds, flushed, require>>
        /\ \/ UNCHANGED last
           \/ last' = [last EXCEPT ![cur] = IF m.gen > @ THEN m.gen ELSE @]
    BY DEF HandleMsg, HandleChangeState, HandleFlush, SkipPacket, DeliverPacket,
           PacketRaises, Take
  <1>2. /\ cur \in Workers /\ msgs[cur] \in Seq(Msg) /\ msgs \in [Workers -> Seq(Msg)]
        /\ last \in [Workers -> Nat]
    BY DEF TypeOK, WorkerTypeOK
  <1>3. /\ m \in Msg /\ m = msgs[cur][1] /\ Tail(msgs[cur]) \in Seq(Msg)
        /\ Len(Tail(msgs[cur])) = Len(msgs[cur]) - 1 /\ Len(msgs[cur]) >= 1
        /\ \A i \in 1..Len(Tail(msgs[cur])) : Tail(msgs[cur])[i] = msgs[cur][i + 1]
    BY <1>1, <1>2, TailFacts
  <1>4. m.gen \in Nat /\ last[cur] \in Nat
    BY <1>2, <1>3 DEF Msg
  <1>5. /\ last[cur] <= m.gen /\ m.gen <= flushed[cur]
        /\ \A i \in DOMAIN msgs[cur] : 1 < i => m.gen <= msgs[cur][i].gen
    <2>1. 1 \in DOMAIN msgs[cur] /\ MsgsInOrder(msgs[cur], last[cur], flushed[cur])
      BY <1>2, <1>3 DEF FlushesInOrder
    <2>2. QED
      BY <1>3, <2>1 DEF MsgsInOrder
  <1>6. SUFFICES ASSUME NEW w \in Workers
                 PROVE  last'[w] <= flushed[w] /\ MsgsInOrder(msgs'[w], last'[w], flushed[w])
    BY <1>1 DEF FlushesInOrder
  <1>7. CASE w # cur \/ UNCHANGED last
    <2>1. last'[w] = last[w]
      BY <1>1, <1>2, <1>7
    <2>2. Drains(w)
      BY <1>1, <1>2 DEF Drains
    <2>3. last[w] <= flushed[w] /\ MsgsInOrder(msgs[w], last[w], flushed[w])
      BY DEF FlushesInOrder
    <2>4. MsgsInOrder(msgs'[w], last[w], flushed[w])
      BY <2>2, <2>3, DrainInOrder
    <2>5. QED
      BY <2>1, <2>3, <2>4
  <1>8. CASE w = cur /\ last' = [last EXCEPT ![cur] = IF m.gen > @ THEN m.gen ELSE @]
    <2>1. last'[w] = m.gen
      BY <1>2, <1>4, <1>5, <1>8
    <2>2. msgs'[w] = Tail(msgs[cur])
      BY <1>1, <1>2, <1>8
    <2>3. \A i \in DOMAIN msgs'[w] :
            /\ i + 1 \in DOMAIN msgs[cur] /\ 1 < i + 1 /\ i \in Nat
            /\ msgs'[w][i] = msgs[cur][i + 1]
      BY <1>2, <1>3, <2>2
    <2>4. MsgsInOrder(msgs[cur], last[cur], flushed[cur])
      BY <1>2 DEF FlushesInOrder
    <2>5. MsgsInOrder(msgs'[w], m.gen, flushed[cur])
      BY <1>5, <2>3, <2>4 DEF MsgsInOrder
    <2>6. QED
      BY <1>5, <1>8, <2>1, <2>5
  <1>9. QED
    BY <1>1, <1>7, <1>8

\* Any other step of the main process touches neither flushes nor their ids.
LEMMA OtherInOrder ==
  ASSUME TypeOK, TypeOK', FlushesInOrder, MainAction, ~Inputs, ~HandleMsg
  PROVE  FlushesInOrder'
  <1> USE DEF workerVars, mainVars, handleVars, loopVars
  <1>1. UNCHANGED <<require, last, flushed>>
    <2>1. UNCHANGED <<require, last>>
      BY DEF MainAction, MainStep, Quit, PollHandle, SkipHandle, BeginPoll, CheckAlive,
             EmptyAlive, HandleDead, Restart, GiveUp, CameraLost, Cleanup, StopAll,
             CloseGone, CloseAsk, Join, RemoteConfig, OverrideRaises, Interrupt, vars
    <2>2. QED
      BY <2>1, MainEffect
  <1>2. ASSUME NEW w \in Workers
        PROVE  cmds'[w] = cmds[w] \/ cmds'[w] = Append(cmds[w], CmdState("STOPPED"))
    <2>1. CASE StopAll
      BY <2>1 DEF StopAll, StopCommand
    <2>2. CASE CloseAsk
      BY <2>2 DEF CloseAsk, StopCommand, TypeOK, WorkerTypeOK
    <2>3. CASE ~StopAll /\ ~CloseAsk
      BY <2>3 DEF MainAction, MainStep, Quit, PollHandle, SkipHandle, BeginPoll, CheckAlive,
                  EmptyAlive, HandleDead, Restart, GiveUp, CameraLost, Cleanup,
                  CloseGone, Join, RemoteConfig, OverrideRaises, Interrupt, vars
    <2>4. QED
      BY <2>1, <2>2, <2>3
  <1>3. SUFFICES ASSUME NEW w \in Workers
                 PROVE  /\ CmdsInOrder(cmds'[w], flushed[w], require[w])
                        /\ MsgsInOrder(msgs'[w], last[w], flushed[w])
    BY <1>1 DEF FlushesInOrder
  <1>4. /\ cmds[w] \in Seq(Cmd) /\ flushed[w] \in Nat /\ require[w] \in Nat
        /\ CmdsInOrder(cmds[w], flushed[w], require[w])
        /\ MsgsInOrder(msgs[w], last[w], flushed[w])
    BY DEF TypeOK, WorkerTypeOK, FlushesInOrder
  <1>5. CmdState("STOPPED") \in Cmd /\ CmdState("STOPPED").kind = "state"
    BY CmdTypes DEF CmdState, WorkerStates
  <1>6. CmdsInOrder(cmds'[w], flushed[w], require[w])
    BY <1>2, <1>4, <1>5, StopInOrder
  <1>7. MsgsInOrder(msgs'[w], last[w], flushed[w])
    BY <1>4, MainEffect, DrainInOrder
  <1>8. QED
    BY <1>6, <1>7

\* Flush ids go up through both queues, whatever crashes in between.
THEOREM FlushesInOrderHolds == Spec => []FlushesInOrder
  <1>1. Init => FlushesInOrder
    BY DEF Init, HandlesInit, WorkerInit, QueuesInit, FlushesInOrder, CmdsInOrder, MsgsInOrder
  <1>2. TypeOK /\ FlushesInOrder /\ [Next]_vars => FlushesInOrder'
    <2> SUFFICES ASSUME TypeOK, FlushesInOrder, [Next]_vars PROVE FlushesInOrder'
      OBVIOUS
    <2>1. TypeOK'
      BY TypeStep
    <2>2. CASE Inputs
      BY <2>1, <2>2, UpdateInOrder DEF Inputs
    <2>3. CASE HandleMsg
      BY <2>1, <2>3, HandleMsgInOrder
    <2>4. CASE MainAction /\ ~Inputs /\ ~HandleMsg
      BY <2>1, <2>4, OtherInOrder
    <2>5. CASE \E w \in Workers : WorkerStep(w) /\ UNCHANGED mainVars
      <3>1. PICK w \in Workers : Effect(w) /\ Reads(w) /\ UNCHANGED mainVars
        BY <2>5, WorkerEffect DEF TypeOK
      <3>2. UNCHANGED <<require, last>>
        BY <3>1 DEF mainVars, handleVars
      <3>3. /\ last[w] <= flushed[w] /\ flushed[w] <= flushed'[w] /\ flushed'[w] <= require[w]
            /\ CmdsInOrder(cmds'[w], flushed'[w], require[w])
            /\ MsgsInOrder(msgs'[w], last[w], flushed'[w])
        BY <2>1, <3>1, WorkerInOrder DEF FlushesInOrder
      <3>4. last[w] <= flushed'[w]
        <4>1. last[w] \in Nat /\ flushed[w] \in Nat /\ flushed'[w] \in Nat
          BY <2>1 DEF TypeOK, WorkerTypeOK
        <4>2. QED
          BY <3>3, <4>1
      <3>5. \A v \in Workers \ {w} :
              cmds'[v] = cmds[v] /\ msgs'[v] = msgs[v] /\ flushed'[v] = flushed[v]
        <4>1. /\ cmds \in [Workers -> Seq(Cmd)] /\ msgs \in [Workers -> Seq(Msg)]
              /\ flushed \in [Workers -> Nat]
          BY DEF TypeOK, WorkerTypeOK
        <4>2. \A v \in Workers \ {w} : cmds'[v] = cmds[v] /\ flushed'[v] = flushed[v]
          BY <3>1, <4>1 DEF Reads
        <4>3. \A v \in Workers \ {w} : msgs'[v] = msgs[v]
          BY <3>1, <4>1 DEF Effect, Silent, Speaks, Dies
        <4>4. QED
          BY <4>2, <4>3
      <3>6. QED
        BY <3>2, <3>3, <3>4, <3>5 DEF FlushesInOrder
    <2>6. QED
      BY <2>2, <2>3, <2>4, <2>5, StepSplit
  <1>3. QED
    BY <1>1, <1>2, TypeCorrect, PTL DEF Spec

\* While the gate of handle_default is open, every packet in the queue was
\* produced after the last flush: no stale packet reaches the estimator.
THEOREM GateOpenMeansFreshHolds == Spec => []GateOpenMeansFresh
  <1>1. TypeOK /\ FlushesInOrder => GateOpenMeansFresh
    <2> SUFFICES ASSUME TypeOK, FlushesInOrder, NEW w \in Workers, GateOpen(w),
                        NEW i \in DOMAIN msgs[w]
                 PROVE  msgs[w][i].gen = require[w]
      BY DEF GateOpenMeansFresh
    <2>1. /\ last[w] \in Nat /\ flushed[w] \in Nat /\ require[w] \in Nat
          /\ msgs[w] \in Seq(Msg)
      BY DEF TypeOK, WorkerTypeOK
    <2>2. msgs[w][i] \in Msg
      BY <2>1, ElementOfSeq
    <2>3. msgs[w][i].gen \in Nat
      BY <2>2 DEF Msg
    <2>4. /\ last[w] <= msgs[w][i].gen /\ msgs[w][i].gen <= flushed[w]
          /\ flushed[w] <= require[w] /\ require[w] <= last[w]
      BY <2>1 DEF FlushesInOrder, MsgsInOrder, GateOpen
    <2>5. QED
      BY <2>1, <2>3, <2>4
  <1>2. QED
    BY <1>1, TypeCorrect, FlushesInOrderHolds, PTL

-----------------------------------------------------------------------------
(* What the main process knows of its workers *)

\* The state of a live worker stays announced when it puts a message.
LEMMA SpeaksAnnounced ==
  ASSUME WorkerTypeOK, NEW w \in Workers, Announced(w, wst[w]), Speaks(w), UNCHANGED childRecv
  PROVE  Announced(w, wst[w])'
  <1>1. PICK m \in Msg :
          /\ msgs' = [msgs EXCEPT ![w] = Append(@, m)]
          /\ \/ m.kind = "state" /\ wst' = [wst EXCEPT ![w] = m.state]
             \/ m.kind # "state" /\ UNCHANGED wst
    BY DEF Speaks
  <1> DEFINE q == msgs[w]
             r == Append(q, m)
  <1>2. msgs'[w] = r /\ q \in Seq(Msg) /\ wst \in [Workers -> WorkerStates]
    BY <1>1 DEF WorkerTypeOK
  <1>3. /\ r \in Seq(Msg) /\ Len(r) = Len(q) + 1 /\ r[Len(q) + 1] = m /\ Len(q) \in Nat
        /\ \A i \in 1..Len(q) : r[i] = q[i]
    BY <1>2, AppendProperties, LenProperties
  <1> HIDE DEF q, r
  <1>4. /\ Len(q) + 1 \in DOMAIN r
        /\ \A i \in DOMAIN r : \/ i \in DOMAIN q /\ r[i] = q[i]
                               \/ i = Len(q) + 1 /\ r[i] = m
        /\ \A i \in DOMAIN q : i \in DOMAIN r
    <2>1. DOMAIN r = 1..(Len(q) + 1) /\ DOMAIN q = 1..Len(q)
      BY <1>2, <1>3, LenProperties
    <2>2. \A i \in 1..(Len(q) + 1) : i \in 1..Len(q) \/ i = Len(q) + 1
      BY <1>3
    <2>3. Len(q) + 1 \in 1..(Len(q) + 1) /\ \A i \in 1..Len(q) : i \in 1..(Len(q) + 1)
      BY <1>3
    <2>4. ASSUME NEW i \in DOMAIN r
          PROVE  \/ i \in DOMAIN q /\ r[i] = q[i]
                 \/ i = Len(q) + 1 /\ r[i] = m
      <3>1. i \in 1..Len(q) \/ i = Len(q) + 1
        BY <2>1, <2>2
      <3>2. i \in 1..Len(q) => i \in DOMAIN q /\ r[i] = q[i]
        BY Zenon, <1>3, <2>1
      <3>3. i = Len(q) + 1 => r[i] = m
        BY Zenon, <1>3
      <3>4. QED
        BY <3>1, <3>2, <3>3
    <2>5. QED
      BY <2>1, <2>3, <2>4
  <1>5. CASE m.kind = "state" /\ wst' = [wst EXCEPT ![w] = m.state]
    <2> DEFINE n == Len(q) + 1
    <2>1. r[n].kind = "state" /\ r[n].state = wst'[w] /\ n \in DOMAIN r
      BY <1>2, <1>3, <1>4, <1>5
    <2>2. \A j \in DOMAIN r : ~(j > n)
      BY <1>3, <1>4
    <2> HIDE DEF n
    <2>3. \E i \in DOMAIN r :
            /\ r[i].kind = "state" /\ r[i].state = wst'[w]
            /\ \A j \in DOMAIN r : j > i => r[j].kind # "state"
      BY <2>1, <2>2
    <2>4. QED
      BY <1>2, <2>3 DEF Announced, IsState
  <1>6. CASE m.kind # "state" /\ UNCHANGED wst
    <2>1. \A i \in DOMAIN r : IsState(w, i)' => i \in DOMAIN q /\ IsState(w, i)
      BY <1>2, <1>4, <1>6 DEF IsState, q
    <2>2. \A i \in DOMAIN q : i \in DOMAIN r /\ r[i] = q[i] /\ (IsState(w, i) => IsState(w, i)')
      BY <1>2, <1>3, <1>4, <2>1 DEF IsState, q
    <2>3. CASE \A i \in DOMAIN msgs[w] : ~IsState(w, i)
      BY <1>2, <1>6, <2>1, <2>3 DEF Announced, q
    <2>4. CASE \E i \in DOMAIN msgs[w] : IsState(w, i)
      <3>1. PICK i \in DOMAIN msgs[w] :
              /\ IsState(w, i) /\ msgs[w][i].state = wst[w]
              /\ \A j \in DOMAIN msgs[w] : j > i => ~IsState(w, j)
        BY <2>4 DEF Announced
      <3>2. i \in DOMAIN msgs'[w] /\ IsState(w, i)' /\ msgs'[w][i].state = wst'[w]
        BY <1>2, <1>6, <2>2, <3>1 DEF q
      <3>3. \A j \in DOMAIN msgs'[w] : j > i => ~IsState(w, j)'
        BY <1>2, <2>1, <3>1 DEF q
      <3>4. QED
        BY <3>2, <3>3 DEF Announced
    <2>5. QED
      BY <2>3, <2>4
  <1>7. QED
    BY <1>1, <1>5, <1>6

\* Reading a message does not lose the last announcement: it stays in the
\* queue, or it is the one that is noted in _child_state_recv.
LEMMA ReadAnnounced ==
  ASSUME TypeOK, HandleMsg, NEW w \in Workers, NEW s, Announced(w, s)
  PROVE  Announced(w, s)'
  <1> DEFINE q == msgs[cur]
             m == Head(q)
  <1>1. /\ q # <<>> /\ msgs' = [msgs EXCEPT ![cur] = Tail(@)]
        /\ \/ m.kind = "state" /\ childRecv' = [childRecv EXCEPT ![cur] = m.state]
           \/ m.kind # "state" /\ UNCHANGED childRecv
    <2>1. Accepted \subseteq Packets /\ \A k \in Packets : k # "state"
      BY DEF Accepted, Packets
    <2>2. QED
      BY <2>1 DEF HandleMsg, HandleChangeState, HandleFlush, SkipPacket, DeliverPacket,
                  PacketRaises, Take
  <1>2. /\ cur \in Workers /\ q \in Seq(Msg) /\ msgs \in [Workers -> Seq(Msg)]
        /\ childRecv \in [Workers -> WorkerStates]
    BY DEF TypeOK, WorkerTypeOK
  <1>3. CASE w # cur
    BY <1>1, <1>2, <1>3 DEF Announced, IsState
  <1>4. CASE w = cur
    <2>1. /\ m = q[1] /\ Tail(q) \in Seq(Msg) /\ Len(Tail(q)) = Len(q) - 1 /\ Len(q) >= 1
          /\ \A i \in 1..Len(Tail(q)) : Tail(q)[i] = q[i + 1]
      BY <1>1, <1>2, TailFacts
    <2>2. msgs'[w] = Tail(q) /\ msgs[w] = q /\ 1 \in DOMAIN q /\ Len(q) \in Nat
      BY <1>1, <1>2, <1>4, <2>1, LenProperties
    <2>3. \A i \in DOMAIN msgs'[w] :
            /\ i + 1 \in DOMAIN q /\ i \in Nat /\ i + 1 > 1
            /\ IsState(w, i)' <=> IsState(w, i + 1)
            /\ msgs'[w][i] = q[i + 1]
      BY <1>2, <2>1, <2>2 DEF IsState
    <2>4. \A i \in DOMAIN q : i = 1 \/ (i - 1 \in DOMAIN msgs'[w] /\ (i - 1) + 1 = i)
      BY <1>2, <2>1, <2>2
    <2>5. CASE \A i \in DOMAIN q : ~IsState(w, i)
      <3>1. m.kind # "state"
        BY <2>1, <2>2, <2>5 DEF IsState
      <3>2. childRecv'[w] = s
        BY <1>1, <1>4, <2>2, <2>5, <3>1 DEF Announced
      <3>3. QED
        BY <2>3, <2>5, <3>2 DEF Announced
    <2>6. CASE \E i \in DOMAIN q : IsState(w, i)
      <3>1. PICK i \in DOMAIN q : /\ IsState(w, i) /\ q[i].state = s
                                  /\ \A j \in DOMAIN q : j > i => ~IsState(w, j)
        BY <2>2, <2>6 DEF Announced
      <3>2. CASE i = 1
        <4>1. m.kind = "state" /\ m.state = s
          BY <2>1, <2>2, <3>1, <3>2 DEF IsState
        <4>2. childRecv'[w] = s
          BY <1>1, <1>2, <1>4, <4>1
        <4>3. \A j \in DOMAIN msgs'[w] : ~IsState(w, j)'
          BY <2>3, <3>1, <3>2
        <4>4. QED
          BY <4>2, <4>3 DEF Announced
      <3>3. CASE i # 1
        <4>1. i - 1 \in DOMAIN msgs'[w] /\ (i - 1) + 1 = i
          BY <2>4, <3>3
        <4>2. IsState(w, i - 1)' /\ msgs'[w][i - 1].state = s
          BY <2>3, <3>1, <4>1
        <4>3. \A j \in DOMAIN msgs'[w] : j > i - 1 => ~IsState(w, j)'
          BY <1>2, <2>3, <3>1
        <4>4. QED
          BY <4>1, <4>2, <4>3 DEF Announced
      <3>4. QED
        BY <3>2, <3>3
    <2>7. QED
      BY <2>5, <2>6
  <1>5. QED
    BY <1>3, <1>4

\* A restarted worker has announced nothing, and nothing is known of it.
LEMMA RestartAnnounced ==
  ASSUME TypeOK, StateAnnounced, Restart
  PROVE  StateAnnounced'
  <1> SUFFICES ASSUME NEW w \in Workers, Alive(w)' PROVE Announced(w, wst[w])'
    BY DEF StateAnnounced
  <1>1. /\ cur \in Workers /\ wpc \in [Workers -> WorkerPcs] /\ wst \in [Workers -> WorkerStates]
        /\ childRecv \in [Workers -> WorkerStates]
    BY DEF TypeOK, WorkerTypeOK
  <1>2. CASE w = cur
    <2>1. msgs'[w] = <<>> /\ wst'[w] = "none" /\ childRecv'[w] = "none"
      BY <1>1, <1>2 DEF Restart, FoundDead, Bury
    <2>2. QED
      BY <2>1 DEF Announced
  <1>3. CASE w # cur
    <2>1. /\ wpc'[w] = wpc[w] /\ msgs' = msgs /\ wst'[w] = wst[w]
          /\ childRecv'[w] = childRecv[w]
      BY <1>1, <1>3 DEF Restart, Bury
    <2>2. Alive(w)
      BY <2>1 DEF Alive
    <2>3. QED
      BY <2>1, <2>2 DEF StateAnnounced, Announced, IsState
  <1>4. QED
    BY <1>2, <1>3

\* Any other step of the main process leaves alone what StateAnnounced reads
\* of a worker that is alive after it.
LEMMA OtherAnnounced ==
  ASSUME TypeOK, StateAnnounced, MainAction, ~HandleMsg, ~Restart
  PROVE  StateAnnounced'
  <1> USE DEF workerVars, mainVars, handleVars, loopVars
  <1> SUFFICES ASSUME NEW w \in Workers, Alive(w)' PROVE Announced(w, wst[w])'
    BY DEF StateAnnounced
  <1>1. /\ cur \in Workers /\ wpc \in [Workers -> WorkerPcs] /\ wst \in [Workers -> WorkerStates]
        /\ childRecv \in [Workers -> WorkerStates] /\ msgs \in [Workers -> Seq(Msg)]
    BY DEF TypeOK, WorkerTypeOK
  <1>2. wpc'[w] = wpc[w] /\ msgs'[w] = msgs[w] /\ wst'[w] = wst[w] /\ childRecv'[w] = childRecv[w]
    <2>1. CASE GiveUp \/ CameraLost
      BY <1>1, <2>1 DEF GiveUp, CameraLost, Bury, Alive
    <2>2. CASE Join
      BY <1>1, <2>2 DEF Join, Alive
    <2>3. CASE ~GiveUp /\ ~CameraLost /\ ~Join
      <3>1. UNCHANGED <<wpc, wst, msgs, childRecv>>
        BY <2>3 DEF MainAction, MainStep, Inputs, Update, Quit, PollHandle, SkipHandle,
                    BeginPoll, CheckAlive, EmptyAlive, HandleDead, Cleanup, StopAll,
                    CloseGone, CloseAsk, RemoteConfig, OverrideRaises, Interrupt, vars
      <3>2. QED
        BY <3>1
    <2>4. QED
      BY <2>1, <2>2, <2>3
  <1>3. Alive(w)
    BY <1>2 DEF Alive
  <1>4. QED
    BY <1>2, <1>3 DEF StateAnnounced, Announced, IsState

\* Reading a message, over all workers.
LEMMA HandleMsgAnnounced ==
  ASSUME TypeOK, StateAnnounced, HandleMsg
  PROVE  StateAnnounced'
  <1>1. UNCHANGED <<wpc, wst>>
    BY DEF HandleMsg, HandleChangeState, HandleFlush, SkipPacket, DeliverPacket,
           PacketRaises, Take
  <1>2. SUFFICES ASSUME NEW w \in Workers, Alive(w)' PROVE Announced(w, wst[w])'
    BY DEF StateAnnounced
  <1>3. Alive(w)
    BY <1>1, <1>2 DEF Alive
  <1> DEFINE s == wst[w]
  <1>4. Announced(w, s)
    BY <1>3 DEF StateAnnounced
  <1>5. wst'[w] = s
    BY <1>1
  <1> HIDE DEF s
  <1>6. \A t : Announced(w, t) => Announced(w, t)'
    BY ReadAnnounced
  <1>7. QED
    BY <1>4, <1>5, <1>6 DEF Announced

\* A worker's step, over all workers.
LEMMA WorkerAnnounced ==
  ASSUME TypeOK, StateAnnounced, NEW w \in Workers, Effect(w), UNCHANGED mainVars
  PROVE  StateAnnounced'
  <1>1. /\ WorkerTypeOK /\ wst \in [Workers -> WorkerStates] /\ msgs \in [Workers -> Seq(Msg)]
        /\ UNCHANGED childRecv
    BY DEF TypeOK, WorkerTypeOK, mainVars, handleVars
  <1> SUFFICES ASSUME NEW v \in Workers, Alive(v)' PROVE Announced(v, wst[v])'
    BY DEF StateAnnounced
  <1>2. CASE v # w
    <2>1. wpc'[v] = wpc[v]
      BY <1>2 DEF Effect
    <2>2. msgs'[v] = msgs[v] /\ wst'[v] = wst[v]
      BY <1>1, <1>2 DEF Effect, Silent, Speaks, Dies
    <2>3. Alive(v)
      BY <2>1 DEF Alive
    <2>4. QED
      BY <1>1, <2>2, <2>3 DEF StateAnnounced, Announced, IsState
  <1>3. CASE v = w
    <2>1. CASE Silent(w)
      BY <1>1, <1>3, <2>1 DEF Silent, StateAnnounced, Announced, IsState
    <2>2. CASE Speaks(w)
      <3>1. Announced(w, wst[w])
        BY <2>2 DEF Speaks, StateAnnounced
      <3>2. QED
        BY <1>1, <1>3, <2>2, <3>1, SpeaksAnnounced
    <2>3. CASE Dies(w)
      BY <1>3, <2>3 DEF Dies, Alive
    <2>4. QED
      BY <2>1, <2>2, <2>3 DEF Effect
  <1>4. QED
    BY <1>2, <1>3

\* The handle's knowledge of a live worker is only ever behind by what is in
\* the queue.
THEOREM StateAnnouncedHolds == Spec => []StateAnnounced
  <1>1. Init => StateAnnounced
    BY DEF Init, HandlesInit, WorkerInit, QueuesInit, StateAnnounced, Announced
  <1>2. TypeOK /\ StateAnnounced /\ [Next]_vars => StateAnnounced'
    <2> SUFFICES ASSUME TypeOK, StateAnnounced, [Next]_vars PROVE StateAnnounced'
      OBVIOUS
    <2>1. CASE HandleMsg
      BY <2>1, HandleMsgAnnounced
    <2>2. CASE Restart
      BY <2>2, RestartAnnounced
    <2>3. CASE MainAction /\ ~HandleMsg /\ ~Restart
      BY <2>3, OtherAnnounced
    <2>4. CASE \E w \in Workers : WorkerStep(w) /\ UNCHANGED mainVars
      BY <2>4, WorkerEffect, WorkerAnnounced DEF TypeOK
    <2>5. QED
      BY <2>1, <2>2, <2>3, <2>4, StepSplit
  <1>3. QED
    BY <1>1, <1>2, TypeCorrect, PTL DEF Spec
=============================================================================
