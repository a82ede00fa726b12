---------------------------- MODULE Supervision ----------------------------
(***************************************************************************)
(* What WorkerManager promises to the program, without queues, polls and   *)
(* messages: every camera has at most one process; one that died is        *)
(* replaced as long as the camera has tries left, and else the camera is   *)
(* given up, which ends the program unless the camera is optional; when    *)
(* cleanup() is done, no process is left.                                  *)
(***************************************************************************)
EXTENDS Integers

CONSTANTS
  Cameras,
  Spare,      \* the cameras that the program can do without
  Tries       \* processes per camera, -1 for no limit

VARIABLES
  slot,       \* of each camera, its process: "runs", "dead" or "gone"
  started,    \* how many processes each camera was given
  phase       \* "up", "closing", "closed"

supervisionVars == <<slot, started, phase>>

SupervisionInit ==
  /\ slot = [c \in Cameras |-> "runs"]
  /\ started = [c \in Cameras |-> 1]
  /\ phase = "up"

Die(c) ==
  /\ slot[c] = "runs"
  /\ slot' = [slot EXCEPT ![c] = "dead"]
  /\ UNCHANGED <<started, phase>>

HasTries(c) == Tries = -1 \/ started[c] < Tries

Replace(c) ==
  /\ phase = "up" /\ slot[c] = "dead" /\ HasTries(c)
  /\ slot' = [slot EXCEPT ![c] = "runs"]
  /\ started' = [started EXCEPT ![c] = @ + 1]
  /\ UNCHANGED phase

Abandon(c) ==
  /\ phase = "up" /\ slot[c] = "dead" /\ ~HasTries(c)
  /\ slot' = [slot EXCEPT ![c] = "gone"]
  /\ phase' = IF c \in Spare THEN "up" ELSE "closing"
  /\ UNCHANGED started

\* The program is told to end, or has an error of its own.
End ==
  /\ phase = "up"
  /\ phase' = "closing"
  /\ UNCHANGED <<slot, started>>

AllGone == \A c \in Cameras : slot[c] = "gone"

\* A process is joined or killed; the last one closes.
Reap(c) ==
  /\ phase = "closing" /\ slot[c] # "gone"
  /\ slot' = [slot EXCEPT ![c] = "gone"]
  /\ phase' = "closing" \/ (phase' = "closed" /\ AllGone')
  /\ UNCHANGED started

Close ==
  /\ phase = "closing" /\ AllGone
  /\ phase' = "closed"
  /\ UNCHANGED <<slot, started>>

SupervisionNext ==
  \/ \E c \in Cameras : Die(c) \/ Replace(c) \/ Abandon(c) \/ Reap(c)
  \/ End \/ Close

SupervisionSpec == SupervisionInit /\ [][SupervisionNext]_supervisionVars
=============================================================================
