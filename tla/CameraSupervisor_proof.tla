----------------------- MODULE CameraSupervisor_proof -----------------------
(***************************************************************************)
(* Theorems about CameraSupervisor, for every number of cameras, every     *)
(* restart limit and every value of the bounds.                            *)
(***************************************************************************)
EXTENDS CameraSupervisor, SequenceTheorems, TLAPS

USE WorkerAssumption, SupervisorAssumption

-----------------------------------------------------------------------------
(* Lemmas on the queues *)

\* Reading the first element of a queue moves the others up.
LEMMA TailFacts ==
  ASSUME NEW S, NEW q \in Seq(S), q # <<>>
  PROVE  /\ Head(q) \in S /\ Head(q) = q[1]
         /\ Tail(q) \in Seq(S)
         /\ Len(Tail(q)) = Len(q) - 1 /\ Len(q) >= 1
         /\ \A i \in 1..Len(Tail(q)) : Tail(q)[i] = q[i + 1]
  BY HeadTailProperties

\* What a crash leaves of a queue is a queue, and holds the same messages.
LEMMA PrefixFacts ==
  ASSUME NEW S, NEW q \in Seq(S), NEW p \in Prefixes(q)
  PROVE  /\ p \in Seq(S)
         /\ Len(p) <= Len(q)
         /\ \A i \in 1..Len(p) : p[i] = q[i]
  <1>1. PICK n \in 0..Len(q) : p = SubSeq(q, 1, n)
    BY DEF Prefixes
  <1>2. \A i \in 1..n : q[i] \in S
    BY LenProperties, ElementOfSeq
  <1>3. QED
    BY <1>1, <1>2, LenProperties, SubSeqProperties

\* Messages and commands have their types.
LEMMA NewMsgType ==
  ASSUME WorkerTypeOK, NEW w \in Workers,
         NEW k \in {"state", "flush", "pose", "detections", "empty", "other"},
         NEW s \in WorkerStates, NEW g \in Nat
  PROVE  NewMsg(w, k, s, g) \in Msg
  BY DEF NewMsg, Msg, WorkerTypeOK

LEMMA CmdTypes ==
  /\ CmdOverride \in Cmd
  /\ \A s \in WorkerStates : CmdState(s) \in Cmd
  /\ \A i \in Nat : CmdFlush(i) \in Cmd
  BY DEF CmdOverride, CmdState, CmdFlush, Cmd, WorkerStates

-----------------------------------------------------------------------------
(* Type correctness *)

LEMMA SetStateType ==
  ASSUME WorkerTypeOK, NEW w \in Workers, NEW s \in WorkerStates, SetState(w, s)
  PROVE  wst' \in [Workers -> WorkerStates] /\ msgs' \in [Workers -> Seq(Msg)]
  <1>1. NewMsg(w, "state", s, flushed[w]) \in Msg
    BY NewMsgType DEF WorkerTypeOK
  <1>2. Announce(w, s) \in Seq(Msg)
    BY <1>1 DEF Announce, WorkerTypeOK
  <1>3. QED
    BY <1>2 DEF SetState, WorkerTypeOK

\* A step of a worker keeps the types.
LEMMA WorkerStepType ==
  ASSUME WorkerTypeOK, NEW w \in Workers, WorkerStep(w)
  PROVE  WorkerTypeOK'
  <1> USE DEF WorkerTypeOK
  <1>1. CASE Construct(w)
    BY <1>1, SetStateType DEF Construct, Goto, WorkerPcs, WorkerStates
  <1>2. CASE Connect(w)
    BY <1>2, SetStateType DEF Connect, Goto, WorkerPcs, WorkerStates
  <1>3. CASE Attach(w)
    BY <1>3, SetStateType DEF Attach, Goto, WorkerPcs, WorkerStates
  <1>4. CASE NoOak(w)
    <2>1. wst' \in [Workers -> WorkerStates] /\ msgs' \in [Workers -> Seq(Msg)]
      BY <1>4, SetStateType DEF NoOak, WorkerStates
    <2>2. faults' \in Nat /\ UNCHANGED <<cmds, flushed, starts>>
      BY <1>4 DEF NoOak, Fault
    <2>3. wpc' \in [Workers -> WorkerPcs]
      BY <1>4 DEF NoOak, Goto, WorkerPcs
    <2>4. QED
      BY <2>1, <2>2, <2>3
  <1>5. CASE ProcessCommand(w)
    <2> DEFINE c == Head(cmds[w])
    <2>1. c \in Cmd /\ cmds' \in [Workers -> Seq(Cmd)]
      BY <1>5, TailFacts DEF ProcessCommand
    <2>2. Fail(w) => /\ wst' \in [Workers -> WorkerStates]
                     /\ msgs' \in [Workers -> Seq(Msg)]
                     /\ wpc' \in [Workers -> WorkerPcs]
      BY SetStateType DEF Fail, Goto, WorkerStates, WorkerPcs
    <2>3. CASE ChangeState(w, c.target) /\ UNCHANGED flushed
      <3>1. c.target \in WorkerStates /\ "STOPPING" \in WorkerStates
        BY <2>1 DEF Cmd, WorkerStates
      <3>2. wst' \in [Workers -> WorkerStates] /\ msgs' \in [Workers -> Seq(Msg)]
        BY <2>3, <3>1, SetStateType DEF ChangeState
      <3>3. QED
        BY <1>5, <2>1, <2>3, <3>2 DEF ProcessCommand, ChangeState, Goto, WorkerPcs
    <2>4. CASE OverridePose(w) /\ UNCHANGED flushed
      BY <1>5, <2>1, <2>2, <2>4 DEF ProcessCommand, OverridePose
    <2>5. CASE Flush(w, c.id)
      <3>1. c.id \in Nat
        BY <2>1 DEF Cmd
      <3>2. CASE Fail(w) /\ UNCHANGED flushed
        BY <1>5, <2>1, <2>2, <3>2 DEF ProcessCommand
      <3>3. CASE AckFlush(w, c.id) /\ UNCHANGED <<wst, wpc>>
        <4>1. NewMsg(w, "flush", wst[w], c.id) \in Msg
          BY <3>1, NewMsgType
        <4>2. msgs' \in [Workers -> Seq(Msg)] /\ flushed' \in [Workers -> Nat]
          BY <3>1, <3>3, <4>1 DEF AckFlush
        <4>3. QED
          BY <1>5, <2>1, <3>3, <4>2 DEF ProcessCommand
      <3>4. QED
        BY <2>5, <3>2, <3>3 DEF Flush
    <2>6. QED
      BY <1>5, <2>3, <2>4, <2>5 DEF ProcessCommand
  <1>6. CASE Poll(w)
    <2>1. PICK k \in PacketKinds :
            msgs' = [msgs EXCEPT ![w] = Append(@, NewMsg(w, k, "RUNNING", flushed[w]))]
      BY <1>6 DEF Poll
    <2>2. NewMsg(w, k, "RUNNING", flushed[w]) \in Msg
      BY NewMsgType DEF WorkerStates
    <2>3. QED
      BY <1>6, <2>1, <2>2 DEF Poll
  <1>7. CASE PollError(w)
    BY <1>7, SetStateType DEF PollError, Fail, Fault, Goto, WorkerPcs, WorkerStates
  <1>8. CASE ExitStopping(w)
    BY <1>8, SetStateType DEF ExitStopping, WorkerStates
  <1>9. CASE ExitStopped(w)
    BY <1>9, SetStateType DEF ExitStopped, Goto, WorkerPcs, WorkerStates
  <1>10. CASE Crash(w)
    BY <1>10, PrefixFacts DEF Crash, Fault, Goto, WorkerPcs
  <1>11. QED
    BY <1>1, <1>2, <1>3, <1>4, <1>5, <1>6, <1>7, <1>8, <1>9, <1>10 DEF WorkerStep

\* Moving on to the next handle keeps the types of the loop's variables.
LEMMA NextHandleType ==
  ASSUME TypeOK, NextHandle
  PROVE  mpc' \in MainPcs /\ cur' \in Workers /\ active' \in BOOLEAN
  <1>1. mpc' \in MainPcs
    BY DEF NextHandle, MainPcs
  <1>2. cur' \in Workers
    BY DEF TypeOK, NextHandle, Workers
  <1>3. active' \in BOOLEAN
    BY Zenon DEF TypeOK, NextHandle
  <1>4. QED
    BY <1>1, <1>2, <1>3

LEMMA NextCloseType ==
  ASSUME TypeOK, NextClose
  PROVE  mpc' \in MainPcs /\ cur' \in Workers /\ status' \in Statuses
  BY DEF TypeOK, NextClose, MainPcs, Statuses, Workers

\* nt.update() and the sleep transition send commands only.
LEMMA UpdateType ==
  ASSUME TypeOK, NEW sleep \in BOOLEAN, NEW override \in BOOLEAN, NEW bad \in BOOLEAN,
         NEW list \in BOOLEAN, Update(sleep, override, bad, list)
  PROVE  TypeOK'
  <1> DEFINE st == IF bad THEN "ERROR" ELSE status
             pause == IF list THEN <<>> ELSE SleepCmds(st, sleep)
             q == [w \in Workers |-> (IF override THEN OverrideCmds(w) ELSE <<>>) \o pause]
  <1>1. st \in Statuses /\ NextStatus(st, sleep) \in Statuses
    BY DEF TypeOK, Statuses, NextStatus
  <1>2. ASSUME NEW w \in Workers PROVE q[w] \in Seq(Cmd)
    <2>1. OverrideCmds(w) \in Seq(Cmd)
      BY CmdTypes DEF OverrideCmds, TypeOK
    <2>2. pause \in Seq(Cmd)
      BY CmdTypes DEF SleepCmds, WorkerStates
    <2>3. QED
      BY <2>1, <2>2, ConcatProperties
  <1>3. cmds' \in [Workers -> Seq(Cmd)]
    <2>1. cmds' = [w \in Workers |-> cmds[w] \o q[w]]
      BY DEF Update, SendAll
    <2>2. QED
      BY <1>2, <2>1, ConcatProperties DEF TypeOK, WorkerTypeOK
  <1>4. WorkerTypeOK'
    BY <1>3 DEF Update, TypeOK, WorkerTypeOK
  <1>5. mpc' \in MainPcs /\ cur' \in Workers
    BY DEF Update, MainPcs, Workers
  <1>6. active' \in BOOLEAN /\ aliveSeen' \in BOOLEAN /\ sleeping' \in BOOLEAN
          /\ interrupt' \in BOOLEAN
    BY Zenon DEF Update, TypeOK
  <1>7. status' \in Statuses
    BY <1>1 DEF Update
  <1>8. require' \in [Workers -> Nat]
    BY DEF Update, TypeOK
  <1>9. QED
    BY <1>4, <1>5, <1>6, <1>7, <1>8 DEF Update, TypeOK

\* Reading a message keeps the types, and so does what is done with it.
LEMMA HandleMsgType ==
  ASSUME TypeOK, HandleMsg
  PROVE  TypeOK'
  <1> DEFINE m == Head(msgs[cur])
  <1>1. ASSUME NEW kinds, Take(kinds)
        PROVE  m \in Msg /\ msgs' \in [Workers -> Seq(Msg)] /\ WorkerTypeOK'
    BY <1>1, TailFacts DEF Take, TypeOK, WorkerTypeOK
  <1>2. CASE HandleChangeState
    BY <1>1, <1>2 DEF HandleChangeState, Take, TypeOK, MainPcs, Msg
  <1>3. CASE HandleFlush
    BY <1>1, <1>3 DEF HandleFlush, Take, TypeOK, MainPcs, Msg
  <1>4. CASE SkipPacket
    BY <1>1, <1>4 DEF SkipPacket, Take, TypeOK, MainPcs
  <1>5. CASE DeliverPacket
    BY <1>1, <1>5 DEF DeliverPacket, Take, TypeOK, MainPcs
  <1>6. CASE PacketRaises
    BY <1>1, <1>6 DEF PacketRaises, Take, TypeOK, MainPcs
  <1>7. QED
    BY <1>2, <1>3, <1>4, <1>5, <1>6 DEF HandleMsg

\* Burying a dead worker keeps the types, whatever becomes of its camera.
LEMMA HandleDeadType ==
  ASSUME TypeOK, HandleDead
  PROVE  TypeOK'
  <1>1. ASSUME NEW s \in WorkerStates, Bury(s)
        PROVE  /\ restarts' \in [Workers -> Nat]
               /\ childState' \in [Workers -> WorkerStates]
               /\ childRecv' \in [Workers -> WorkerStates]
    BY <1>1 DEF Bury, TypeOK, WorkerStates
  <1>2. CASE Restart
    <2>1. WorkerTypeOK'
      BY <1>2 DEF Restart, TypeOK, WorkerTypeOK, WorkerPcs, WorkerStates
    <2>2. /\ restarts' \in [Workers -> Nat]
          /\ childState' \in [Workers -> WorkerStates]
          /\ childRecv' \in [Workers -> WorkerStates]
      BY <1>1, <1>2 DEF Restart, WorkerStates
    <2>3. QED
      BY <1>2, <2>1, <2>2, NextHandleType DEF Restart, TypeOK
  <1>3. CASE GiveUp
    BY <1>1, <1>3, NextHandleType
    DEF GiveUp, TypeOK, WorkerTypeOK, WorkerPcs, WorkerStates
  <1>4. CASE CameraLost
    BY <1>1, <1>4 DEF CameraLost, TypeOK, WorkerTypeOK, WorkerPcs, WorkerStates, MainPcs
  <1>5. QED
    BY <1>2, <1>3, <1>4 DEF HandleDead

\* Shutting down keeps the types.
LEMMA CleanupType ==
  ASSUME TypeOK, Cleanup
  PROVE  TypeOK'
  <1>1. CmdState("STOPPED") \in Cmd
    BY CmdTypes DEF WorkerStates
  <1>2. CASE StopAll
    <2>1. WorkerTypeOK'
      BY <1>1, <1>2 DEF StopAll, StopCommand, TypeOK, WorkerTypeOK
    <2>2. mpc' \in MainPcs /\ cur' \in Workers
      BY <1>2 DEF StopAll, MainPcs, Workers
    <2>3. QED
      BY <1>2, <2>1, <2>2 DEF StopAll, handleVars, TypeOK
  <1>3. CASE CloseGone
    BY <1>3, NextCloseType DEF CloseGone, workerVars, handleVars, TypeOK, WorkerTypeOK
  <1>4. CASE CloseAsk
    BY <1>1, <1>4 DEF CloseAsk, StopCommand, handleVars, TypeOK, WorkerTypeOK, MainPcs
  <1>5. CASE Join
    <2>1. msgs' \in [Workers -> Seq(Msg)]
      <3>1. cur \in Workers /\ msgs \in [Workers -> Seq(Msg)]
        BY DEF TypeOK, WorkerTypeOK
      <3>2. \A q \in Prefixes(msgs[cur]) : q \in Seq(Msg)
        BY <3>1, PrefixFacts
      <3>3. QED
        BY <1>5, <3>1, <3>2 DEF Join
    <2>2. QED
      BY <1>5, <2>1, NextCloseType
      DEF Join, handleVars, TypeOK, WorkerTypeOK, WorkerPcs, WorkerStates
  <1>6. QED
    BY <1>2, <1>3, <1>4, <1>5 DEF Cleanup

\* Every step keeps the types.
LEMMA TypeStep ==
  ASSUME TypeOK, [Next]_vars
  PROVE  TypeOK'
  <1>1. CASE Inputs
    BY <1>1, UpdateType DEF Inputs
  <1>2. CASE PollHandle
    <2> USE DEF TypeOK, WorkerTypeOK, workerVars, handleVars
    <2>1. CASE SkipHandle
      BY <2>1, NextHandleType DEF SkipHandle
    <2>2. CASE BeginPoll
      BY <2>2 DEF BeginPoll, MainPcs
    <2>3. CASE CheckAlive
      BY <2>3 DEF CheckAlive, Alive, MainPcs
    <2>4. CASE EmptyAlive
      BY <2>4, NextHandleType DEF EmptyAlive
    <2>5. QED
      BY <1>2, <2>1, <2>2, <2>3, <2>4 DEF PollHandle
  <1>3. CASE HandleMsg
    BY <1>3, HandleMsgType
  <1>4. CASE HandleDead
    BY <1>4, HandleDeadType
  <1>5. CASE Cleanup
    BY <1>5, CleanupType
  <1>6. CASE RemoteConfig \/ OverrideRaises \/ Quit \/ Interrupt
    BY <1>6 DEF RemoteConfig, OverrideRaises, Quit, Interrupt, TypeOK, WorkerTypeOK,
                workerVars, handleVars, loopVars, MainPcs, Statuses
  <1>7. CASE \E w \in Workers : WorkerStep(w) /\ UNCHANGED mainVars
    BY <1>7, WorkerStepType DEF TypeOK, mainVars, loopVars, handleVars
  <1>8. CASE UNCHANGED vars
    BY <1>8 DEF TypeOK, WorkerTypeOK, vars, workerVars, mainVars, loopVars, handleVars
  <1>9. QED
    BY <1>1, <1>2, <1>3, <1>4, <1>5, <1>6, <1>7, <1>8 DEF Next, MainStep, Terminated

\* The variables of CameraSupervisor keep their types.
THEOREM TypeCorrect == Spec => []TypeOK
  <1>1. Init => TypeOK
    <2> SUFFICES ASSUME Init PROVE TypeOK
      OBVIOUS
    <2>1. WorkerTypeOK
      BY DEF Init, HandlesInit, WorkerInit, QueuesInit, WorkerTypeOK, WorkerPcs, WorkerStates
    <2>2. mpc \in MainPcs /\ cur \in Workers /\ status \in Statuses
      BY DEF Init, HandlesInit, MainPcs, Statuses, Workers
    <2>3. /\ active \in BOOLEAN /\ aliveSeen \in BOOLEAN
          /\ sleeping \in BOOLEAN /\ interrupt \in BOOLEAN
      BY DEF Init, HandlesInit
    <2>4. /\ require \in [Workers -> Nat] /\ last \in [Workers -> Nat]
          /\ restarts \in [Workers -> Nat]
          /\ childState \in [Workers -> WorkerStates]
          /\ childRecv \in [Workers -> WorkerStates]
      BY DEF Init, HandlesInit, WorkerStates
    <2>5. QED
      BY <2>1, <2>2, <2>3, <2>4 DEF TypeOK
  <1>2. TypeOK /\ [Next]_vars => TypeOK'
    BY TypeStep
  <1>3. QED
    BY <1>1, <1>2, PTL DEF Spec
=============================================================================
