-------------------- MODULE CameraSupervisor_refinement --------------------
(***************************************************************************)
(* CameraSupervisor implements Supervision, for every number of cameras,   *)
(* every restart limit and every value of the bounds: each step is one of  *)
(* Supervision, on the slots and the phase that the state stands for, or   *)
(* leaves them alone.                                                      *)
(***************************************************************************)
EXTENDS CameraSupervisor_safety

USE WorkerAssumption, SupervisorAssumption

\* A camera that has a process was given one more than handle_dead has counted.
TriesCounted == \A w \in Workers : wpc[w] # "none" => starts[w] = restarts[w] + 1

\* The handle that is polled has a process, and one that was seen to be dead is dead.
DeathSeen ==
  mpc \in {"alive", "get"} => wpc[cur] # "none" /\ (~aliveSeen => wpc[cur] = "dead")

\* What the simulation needs to know of a state.
RefInv == TriesCounted /\ DeathSeen

Slots == [w \in Workers |-> SlotOf(w)]
Phase == IF mpc = "done" THEN "closed" ELSE IF CleaningUp THEN "closing" ELSE "up"

\* No step of the main process but these touches a process, the count of them or the
\* program's phase.
Quiet == UNCHANGED <<wpc, starts, restarts>> /\ Phase' = Phase

-----------------------------------------------------------------------------
LEMMA QuietSteps ==
  ASSUME TypeOK,
         \/ Inputs /\ mpc' = "begin"
         \/ PollHandle \/ HandleChangeState \/ HandleFlush \/ SkipPacket
         \/ DeliverPacket \/ StopAll \/ CloseAsk \/ Interrupt \/ Terminated \/ UNCHANGED vars
  PROVE  Quiet
  <1> USE DEF workerVars, mainVars, handleVars, loopVars, CleaningUp, Phase, Quiet
  <1>1. CASE Inputs /\ mpc' = "begin"
    BY <1>1 DEF Inputs, Update
  <1>2. CASE PollHandle
    BY <1>2 DEF PollHandle, SkipHandle, BeginPoll, CheckAlive, EmptyAlive, NextHandle
  <1>3. CASE HandleChangeState \/ HandleFlush \/ SkipPacket \/ DeliverPacket
    BY <1>3 DEF HandleChangeState, HandleFlush, SkipPacket, DeliverPacket, Take
  <1>4. CASE StopAll \/ CloseAsk
    BY <1>4 DEF StopAll, CloseAsk
  <1>5. CASE Interrupt \/ Terminated \/ UNCHANGED vars
    BY <1>5 DEF Interrupt, Terminated, vars
  <1>6. QED
    BY <1>1, <1>2, <1>3, <1>4, <1>5

\* What ends run() leaves the processes and the counts of them alone.
Ends == \/ Inputs /\ mpc' = "stop"
        \/ Quit \/ RemoteConfig \/ OverrideRaises \/ PacketRaises

LEMMA EndSteps ==
  ASSUME Ends
  PROVE  /\ UNCHANGED <<wpc, starts, restarts>>
         /\ mpc \in {"top", "get"} /\ mpc' = "stop"
  BY DEF Ends, Inputs, Update, Quit, RemoteConfig, OverrideRaises, PacketRaises, Take,
         workerVars, handleVars

\* nt.update() and web.poll() go on to the drain loop, or end run().
LEMMA InputsSplit == Inputs => mpc' = "begin" \/ mpc' = "stop"
  BY DEF Inputs, Update

\* A process that is there stays there, and a dead one stays dead, while workers step.
LEMMA WorkersStay ==
  ASSUME TypeOK, NEW w \in Workers, WorkerStep(w), UNCHANGED mainVars
  PROVE  /\ wpc \in [Workers -> WorkerPcs] /\ wpc' \in [Workers -> WorkerPcs]
         /\ \A v \in Workers \ {w} : wpc'[v] = wpc[v]
         /\ wpc[w] \notin {"none", "dead"} /\ wpc'[w] # "none"
         /\ UNCHANGED <<starts, restarts, mpc, cur, aliveSeen>> /\ Phase' = Phase
  <1>1. /\ wpc \in [Workers -> WorkerPcs] /\ wpc' \in [Workers -> WorkerPcs]
        /\ \A v \in Workers \ {w} : wpc'[v] = wpc[v]
        /\ wpc[w] # "none" /\ wpc'[w] # "none" /\ UNCHANGED starts
    BY WorkerEffect, WorkerStepType DEF TypeOK, WorkerTypeOK, Effect
  <1>2. wpc[w] # "dead"
    BY DEF WorkerStep, Construct, Connect, Attach, NoOak, ProcessCommand, Flush, Poll,
           PollError, ExitStopping, ExitStopped, Crash, Alive
  <1>3. QED
    BY <1>1, <1>2 DEF mainVars, loopVars, handleVars, Phase, CleaningUp

\* Both are kept by every step.
LEMMA RefStep ==
  ASSUME TypeOK, RefInv, [Next]_vars
  PROVE  RefInv'
  <1> USE DEF RefInv
  <1>0. /\ starts \in [Workers -> Nat] /\ restarts \in [Workers -> Nat]
        /\ wpc \in [Workers -> WorkerPcs] /\ cur \in Workers
    BY DEF TypeOK, WorkerTypeOK
  <1>1. ASSUME Quiet PROVE TriesCounted'
    BY <1>1 DEF Quiet, TriesCounted
  <1>2. CASE Ends \/ CloseGone
    <2>1. UNCHANGED <<wpc, starts, restarts>> /\ mpc' \notin {"alive", "get"}
      BY <1>2, EndSteps DEF CloseGone, NextClose, workerVars, handleVars
    <2>2. QED
      BY <2>1 DEF TriesCounted, DeathSeen
  <1>3. CASE Restart
    <2>1. wpc[cur] # "none"
      BY <1>3 DEF Restart, FoundDead, DeathSeen
    <2>2. TriesCounted'
      BY <1>0, <1>3, <2>1 DEF Restart, Bury, TriesCounted
    <2>3. mpc' \notin {"alive", "get"}
      BY <1>3 DEF Restart, NextHandle
    <2>4. QED
      BY <2>2, <2>3 DEF DeathSeen
  <1>4. CASE GiveUp \/ CameraLost
    <2>1. TriesCounted'
      BY <1>0, <1>4 DEF GiveUp, CameraLost, Bury, TriesCounted
    <2>2. mpc' \notin {"alive", "get"}
      BY <1>4 DEF GiveUp, CameraLost, NextHandle
    <2>3. QED
      BY <2>1, <2>2 DEF DeathSeen
  <1>5. CASE Join
    <2>1. TriesCounted'
      BY <1>0, <1>5 DEF Join, TriesCounted, handleVars
    <2>2. mpc' \notin {"alive", "get"}
      BY <1>5 DEF Join, NextClose
    <2>3. QED
      BY <2>1, <2>2 DEF DeathSeen
  <1>6. CASE \/ Inputs /\ mpc' = "begin"
             \/ PollHandle \/ HandleChangeState \/ HandleFlush \/ SkipPacket
             \/ DeliverPacket \/ StopAll \/ CloseAsk \/ Interrupt \/ Terminated
             \/ UNCHANGED vars
    <2>1. TriesCounted'
      BY <1>1, <1>6, QuietSteps
    <2>2. CASE (Inputs /\ mpc' = "begin") \/ StopAll \/ CloseAsk
      BY <2>1, <2>2 DEF StopAll, CloseAsk, DeathSeen
    <2>3. CASE PollHandle
      <3>1. CASE SkipHandle \/ EmptyAlive
        <4>1. mpc' \notin {"alive", "get"}
          BY <3>1 DEF SkipHandle, EmptyAlive, NextHandle
        <4>2. QED
          BY <2>1, <4>1 DEF DeathSeen
      <3>2. CASE BeginPoll
        BY <2>1, <3>2 DEF BeginPoll, DeathSeen, workerVars
      <3>3. CASE CheckAlive
        BY <1>0, <2>1, <3>3 DEF CheckAlive, DeathSeen, Alive, WorkerPcs, workerVars
      <3>4. QED
        BY <2>3, <3>1, <3>2, <3>3 DEF PollHandle
    <2>4. CASE HandleChangeState \/ HandleFlush \/ SkipPacket \/ DeliverPacket
      <3>1. UNCHANGED <<wpc, cur, aliveSeen>> /\ mpc = "get"
        BY <2>4 DEF HandleChangeState, HandleFlush, SkipPacket, DeliverPacket, Take
      <3>2. QED
        BY <2>1, <3>1 DEF DeathSeen
    <2>5. CASE Interrupt \/ Terminated \/ UNCHANGED vars
      <3>1. UNCHANGED <<wpc, cur, aliveSeen, mpc>>
        BY <2>5 DEF Interrupt, Terminated, vars, workerVars, mainVars, loopVars
      <3>2. QED
        BY <2>1, <3>1 DEF DeathSeen
    <2>6. QED
      BY <1>6, <2>1, <2>2, <2>3, <2>4, <2>5 DEF DeathSeen
  <1>7. CASE MainAction \/ Terminated
    BY <1>2, <1>3, <1>4, <1>5, <1>6, <1>7, InputsSplit
       DEF MainAction, MainStep, HandleMsg, HandleDead, Cleanup, Ends
  <1>8. CASE \E w \in Workers : WorkerStep(w) /\ UNCHANGED mainVars
    BY <1>0, <1>8, WorkersStay DEF TriesCounted, DeathSeen
  <1>9. QED
    BY <1>7, <1>8, StepSplit

-----------------------------------------------------------------------------
(* The steps that Supervision sees *)

\* A worker that was alive may die; nothing else of it is seen.
LEMMA WorkerSeen ==
  ASSUME TypeOK, NEW w \in Workers, WorkerStep(w), UNCHANGED mainVars
  PROVE  [Abstract!SupervisionNext]_<<Slots, starts, Phase>>
  <1>1. CASE wpc'[w] = "dead"
    <2>1. Slots[w] = "runs" /\ Slots' = [Slots EXCEPT ![w] = "dead"]
      BY <1>1, WorkersStay DEF Slots, SlotOf
    <2>2. Abstract!Die(w)
      BY <2>1, WorkersStay DEF Abstract!Die, Slots, Phase
    <2>3. QED
      BY <2>2 DEF Abstract!SupervisionNext
  <1>2. CASE wpc'[w] # "dead"
    <2>1. Slots' = Slots
      BY <1>2, WorkersStay DEF Slots, SlotOf
    <2>2. QED
      BY <2>1, WorkersStay
  <1>3. QED
    BY <1>1, <1>2

\* While the handles poll, the program is up; with cleanup() it is closing.
LEMMA DeadSeen ==
  ASSUME TypeOK, RefInv, FoundDead
  PROVE  /\ Slots[cur] = "dead" /\ Phase = "up"
         /\ starts[cur] = restarts[cur] + 1
         /\ CanRetry(cur) <=> Abstract!HasTries(cur)
  <1>1. wpc[cur] = "dead" /\ mpc = "get" /\ cur \in Workers /\ restarts[cur] \in Nat
    BY DEF FoundDead, RefInv, DeathSeen, TypeOK
  <1>2. starts[cur] = restarts[cur] + 1
    BY <1>1 DEF RefInv, TriesCounted
  <1>3. QED
    BY <1>1, <1>2 DEF Slots, SlotOf, Phase, CleaningUp, CanRetry, Abstract!HasTries

LEMMA HandleDeadSeen ==
  ASSUME TypeOK, RefInv, HandleDead
  PROVE  Abstract!SupervisionNext
  <1>0. cur \in Workers /\ wpc \in [Workers -> WorkerPcs]
    BY DEF TypeOK, WorkerTypeOK
  <1>1. FoundDead
    BY DEF HandleDead, Restart, GiveUp, CameraLost
  <1>2. CASE Restart
    <2>1. Slots' = [Slots EXCEPT ![cur] = "runs"]
      BY <1>0, <1>2 DEF Restart, Slots, SlotOf
    <2>2. Phase' = "up" /\ starts' = [starts EXCEPT ![cur] = @ + 1] /\ CanRetry(cur)
      BY <1>2 DEF Restart, NextHandle, Phase, CleaningUp
    <2>3. Abstract!Replace(cur)
      BY <1>1, <2>1, <2>2, DeadSeen DEF Abstract!Replace, Slots, Phase
    <2>4. QED
      BY <1>0, <2>3 DEF Abstract!SupervisionNext
  <1>3. CASE GiveUp \/ CameraLost
    <2>1. Slots' = [Slots EXCEPT ![cur] = "gone"] /\ UNCHANGED starts /\ ~CanRetry(cur)
      BY <1>0, <1>3 DEF GiveUp, CameraLost, Slots, SlotOf
    <2>2. Phase' = IF cur \in Optional THEN "up" ELSE "closing"
      BY <1>3 DEF GiveUp, CameraLost, NextHandle, Phase, CleaningUp
    <2>3. Abstract!Abandon(cur)
      BY <1>1, <2>1, <2>2, DeadSeen DEF Abstract!Abandon, Slots, Phase
    <2>4. QED
      BY <1>0, <2>3 DEF Abstract!SupervisionNext
  <1>4. QED
    BY <1>2, <1>3 DEF HandleDead

\* The program ends, for whatever reason.
LEMMA EndSeen ==
  ASSUME Ends
  PROVE  Abstract!SupervisionNext
  <1>1. UNCHANGED <<wpc, starts>> /\ mpc \in {"top", "get"} /\ mpc' = "stop"
    BY EndSteps
  <1>2. Slots' = Slots /\ Phase = "up" /\ Phase' = "closing"
    BY <1>1 DEF Slots, SlotOf, Phase, CleaningUp
  <1>3. Abstract!End
    BY <1>1, <1>2 DEF Abstract!End, Slots, Phase
  <1>4. QED
    BY <1>3 DEF Abstract!SupervisionNext

\* A handle is closed; after the last one, no camera has a process.
LEMMA CloseSeen ==
  ASSUME TypeOK, ClosedSoFar, ClosedSoFar', CloseGone \/ Join
  PROVE  [Abstract!SupervisionNext]_<<Slots, starts, Phase>>
  <1>0. cur \in Workers /\ wpc \in [Workers -> WorkerPcs]
    BY DEF TypeOK, WorkerTypeOK
  <1>1. NextClose /\ mpc \in {"close", "join"} /\ UNCHANGED starts
    BY DEF CloseGone, Join, workerVars
  <1>2. Phase = "closing" /\ Phase' = IF mpc' = "done" THEN "closed" ELSE "closing"
    BY <1>1 DEF NextClose, Phase, CleaningUp
  <1>3. mpc' = "done" => \A w \in Workers : Slots'[w] = "gone"
    BY DEF ClosedSoFar, NoOrphans, Slots, SlotOf
  <1>4. CASE CloseGone
    <2>1. Slots' = Slots
      BY <1>4 DEF CloseGone, workerVars, Slots, SlotOf
    <2>2. CASE mpc' = "done"
      <3>1. Abstract!Close
        BY <1>1, <1>2, <1>3, <2>1, <2>2 DEF Abstract!Close, Abstract!AllGone, Slots, Phase
      <3>2. QED
        BY <3>1 DEF Abstract!SupervisionNext
    <2>3. CASE mpc' # "done"
      BY <1>1, <1>2, <2>1, <2>3
    <2>4. QED
      BY <2>2, <2>3
  <1>5. CASE Join
    <2>1. Slots[cur] # "gone" /\ Slots' = [Slots EXCEPT ![cur] = "gone"]
      BY <1>0, <1>5 DEF Join, Alive, Slots, SlotOf
    <2>2. Phase' = "closing" \/ (Phase' = "closed" /\ \A w \in Workers : Slots'[w] = "gone")
      BY <1>2, <1>3
    <2>3. Abstract!Reap(cur)
      BY <1>1, <1>2, <2>1, <2>2 DEF Abstract!Reap, Abstract!AllGone, Slots, Phase
    <2>4. QED
      BY <1>0, <2>3 DEF Abstract!SupervisionNext
  <1>6. QED
    BY <1>4, <1>5

-----------------------------------------------------------------------------
\* The counts of the handles agree with the processes, whatever happens.
THEOREM RefInvHolds == Spec => []RefInv
  <1>1. Init => RefInv
    BY DEF Init, HandlesInit, WorkerInit, QueuesInit, RefInv, TriesCounted, DeathSeen
  <1>2. TypeOK /\ RefInv /\ [Next]_vars => RefInv'
    BY RefStep
  <1>3. QED
    BY <1>1, <1>2, TypeCorrect, PTL DEF Spec

\* The poll loop, the handles and cleanup() together implement Supervision.
THEOREM Refinement == Spec => Supervised
  <1>1. Init => Abstract!SupervisionInit
    BY DEF Init, HandlesInit, WorkerInit, QueuesInit, Abstract!SupervisionInit, SlotOf, CleaningUp
  <1>2. ASSUME TypeOK, RefInv, ClosedSoFar, ClosedSoFar', [Next]_vars
        PROVE  [Abstract!SupervisionNext]_<<Slots, starts, Phase>>
    <2>1. ASSUME Quiet PROVE UNCHANGED <<Slots, starts, Phase>>
      BY <2>1 DEF Quiet, Slots, SlotOf
    <2>2. CASE MainAction \/ Terminated
      BY <1>2, <2>1, <2>2, QuietSteps, HandleDeadSeen, EndSeen, CloseSeen, InputsSplit
         DEF MainAction, MainStep, HandleMsg, Cleanup, Ends
    <2>3. CASE \E w \in Workers : WorkerStep(w) /\ UNCHANGED mainVars
      BY <1>2, <2>3, WorkerSeen
    <2>4. QED
      BY <1>2, <2>2, <2>3, StepSplit
  <1>3. TypeOK /\ RefInv /\ ClosedSoFar /\ ClosedSoFar' /\ [Next]_vars
          => [Abstract!SupervisionNext]_Abstract!supervisionVars
    BY <1>2 DEF Abstract!supervisionVars, Slots, Phase
  <1>4. QED
    BY <1>1, <1>3, TypeCorrect, RefInvHolds, ClosedSoFarHolds, PTL
       DEF Spec, Supervised, Abstract!SupervisionSpec
-----------------------------------------------------------------------------
(* What ends the program *)

\* A camera that is given up and not optional had no tries left, and nothing of what its
\* last process had put was unread.
LEMMA LostSeen ==
  ASSUME TypeOK, RefInv, CameraLost
  PROVE  Lost(cur)
  <1>1. wpc[cur] = "dead" /\ msgs[cur] = <<>> /\ cur \notin Optional /\ ~CanRetry(cur)
    BY DEF CameraLost, FoundDead, RefInv, DeathSeen
  <1>2. starts[cur] = restarts[cur] + 1 /\ restarts[cur] \in Nat
    BY <1>1 DEF RefInv, TriesCounted, TypeOK
  <1>3. QED
    BY <1>1, <1>2 DEF Lost, CanRetry

\* A packet that raises is one that the pipeline yields, and by the invariants of the
\* queues it is of this process and of this flush.
LEMMA RaisingSeen ==
  ASSUME TypeOK, KindsKnown, GateOpenMeansFresh, OwnMessages, PacketRaises
  PROVE  mpc = "get" /\ RaisingPacketDue
  <1> DEFINE m == Head(msgs[cur])
  <1>1. /\ mpc = "get" /\ msgs[cur] # <<>> /\ GateOpen(cur)
        /\ m.kind \in Packets \ Accepted
    BY DEF PacketRaises, Take
  <1>2. cur \in Workers /\ msgs[cur] \in Seq(Msg)
    BY DEF TypeOK, WorkerTypeOK
  <1>3. m = msgs[cur][1] /\ 1 \in DOMAIN msgs[cur]
    BY <1>1, <1>2, TailFacts
  <1> HIDE DEF m
  <1>4. m.kind \in Packets /\ m.kind \notin {"state", "flush"}
    BY <1>1 DEF Packets
  <1>5. m.kind \in PacketKinds
    BY <1>2, <1>3, <1>4 DEF KindsKnown, KnownKinds
  <1>6. m.gen = require[cur] /\ m.from = starts[cur]
    BY <1>1, <1>2, <1>3, <1>4 DEF GateOpenMeansFresh, OwnMessages
  <1>7. QED
    BY <1>1, <1>5, <1>6 DEF RaisingPacketDue, m

\* Each way from run() to cleanup() has one of the causes.
LEMMA StopReasons ==
  ASSUME TypeOK, RefInv, KindsKnown, GateOpenMeansFresh, OwnMessages,
         [Next]_vars, ~CleaningUp, CleaningUp'
  PROVE  \/ interrupt
         \/ \E w \in Workers : Lost(w)
         \/ mpc = "get" /\ RaisingPacketDue
         \/ mpc = "top" /\ MainInputs \cap RaisingInputs # {}
  <1>1. CASE Quit
    BY <1>1 DEF Quit
  <1>2. CASE RemoteConfig
    BY <1>2 DEF RemoteConfig, RaisingInputs
  <1>3. CASE OverrideRaises
    BY <1>3 DEF OverrideRaises, RaisingInputs
  <1>4. CASE Inputs /\ mpc' = "stop"
    BY <1>4 DEF Inputs, Update, RaisingInputs
  <1>5. CASE PacketRaises
    BY <1>5, RaisingSeen
  <1>6. CASE CameraLost
    BY <1>6, LostSeen DEF TypeOK
  <1>7. CASE GiveUp \/ Restart
    BY <1>7 DEF GiveUp, Restart, NextHandle, CleaningUp
  <1>8. CASE CloseGone \/ Join
    BY <1>8 DEF CloseGone, Join, CleaningUp
  <1>9. CASE Quiet
    BY <1>9 DEF Quiet, Phase, CleaningUp
  <1>10. CASE MainAction \/ Terminated
    BY <1>1, <1>2, <1>3, <1>4, <1>5, <1>6, <1>7, <1>8, <1>9, <1>10, QuietSteps, InputsSplit
       DEF MainAction, MainStep, HandleMsg, HandleDead, Cleanup
  <1>11. CASE \E w \in Workers : WorkerStep(w) /\ UNCHANGED mainVars
    BY <1>11 DEF mainVars, loopVars, CleaningUp
  <1>12. QED
    BY <1>10, <1>11, StepSplit

\* The program ends only for a cause, whatever the inputs, the packets, the pipeline and
\* the estimator, and however workers die and are restarted: a lost camera has had all its
\* tries and was heard out, and a packet that ends the program is never a stale one.
THEOREM StopsForCauseHolds == Spec => StopsForCause
  <1>1. TypeOK /\ RefInv /\ KindsKnown /\ GateOpenMeansFresh /\ OwnMessages /\ [Next]_vars =>
          [~CleaningUp /\ CleaningUp' =>
             \/ interrupt
             \/ \E w \in Workers : Lost(w)
             \/ mpc = "get" /\ RaisingPacketDue
             \/ mpc = "top" /\ MainInputs \cap RaisingInputs # {}]_vars
    BY StopReasons
  <1>2. QED
    BY <1>1, TypeCorrect, RefInvHolds, KindsKnownHolds, GateOpenMeansFreshHolds,
       OwnMessagesHolds, PTL DEF Spec, StopsForCause
=============================================================================
