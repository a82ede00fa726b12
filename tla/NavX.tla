-------------------------------- MODULE NavX --------------------------------
(***************************************************************************)
(* The yaw of a NavX board (navx/ahrs.py, navx/trackers.py) and the clock  *)
(* that listens to it (util/navx.py): a thread handles the packets of the  *)
(* board while the main thread asks for the yaw and sets it to zero.       *)
(*                                                                         *)
(* Angles are in degrees.  Of the average that becomes the offset only     *)
(* this is said: it lies between the least and the greatest yaw of the     *)
(* history.                                                                *)
(***************************************************************************)
EXTENDS Integers

CONSTANTS
  Angles,       \* bound: the yaws that a board sends, and averages of them
  YawHistory,   \* YAW_HISTORY_LENGTH, 10 in the code
  MaxTurns      \* bound: full turns in either direction

ASSUME NavXAssumption ==
  /\ Angles \subseteq -180..180 /\ 0 \in Angles
  /\ YawHistory \in Nat \ {0} /\ MaxTurns \in Nat

VARIABLES
  yaw,          \* AHRS._yaw
  recent,       \* OffsetTracker._history, a ring ...
  nextRecent,   \* ... and _next_value_history_index
  yawOffset,    \* _value_offset
  lastAngle, crossings, lastRate,   \* ContinuousAngleTracker
  resets,       \* is_board_yaw_reset_supported, one of the _capability_flags
  listening     \* whether NavXClock has registered update_offset

navxVars ==
  <<yaw, recent, nextRecent, yawOffset, lastAngle, crossings, lastRate, resets, listening>>
trackerVars == <<lastAngle, crossings, lastRate>>

NavXInit ==
  /\ yaw = 0
  /\ recent = [i \in 0..(YawHistory - 1) |-> 0] /\ nextRecent = 0
  /\ yawOffset = 0
  /\ lastAngle = 0 /\ crossings = 0 /\ lastRate = 0
  /\ resets = FALSE
  /\ listening = FALSE

-----------------------------------------------------------------------------
(* OffsetTracker *)

UpdateHistory(y) ==
  LET i == IF nextRecent >= YawHistory THEN 0 ELSE nextRecent
  IN  /\ recent' = [recent EXCEPT ![i] = y]
      /\ nextRecent' = i + 1

Averages ==
  {a \in Angles : \E i, j \in DOMAIN recent : recent[i] <= a /\ a <= recent[j]}

Raised(a) == IF a < -180 THEN a + 360 ELSE a
Lowered(a) == IF a > 180 THEN a - 360 ELSE a

\* apply_offset
Shifted(y) == Lowered(Raised(y - yawOffset))

-----------------------------------------------------------------------------
(* ContinuousAngleTracker; first_sample is FALSE from the start. *)

\* A mutated form of BottomCrossing: the angle is not taken to turn over there.
BottomCrossingNever(new) == FALSE

BottomCrossing(new) == new - lastAngle >= 180 \/ new - lastAngle <= -180

Rate(new) ==
  LET delta == new - lastAngle
  IN  IF delta >= 180 THEN 360 - delta ELSE IF delta <= -180 THEN 360 + delta ELSE delta

Crossed(new) ==
  IF BottomCrossing(new) THEN 0
  ELSE IF new < 0 /\ lastAngle >= 0 THEN -1
  ELSE IF new >= 0 /\ lastAngle < 0 THEN 1
  ELSE 0

NextAngle(new) ==
  /\ lastRate' = Rate(new)
  /\ crossings' = crossings + Crossed(new)
  /\ crossings' \in -MaxTurns..MaxTurns
  /\ lastAngle' = new

\* angle
Angle == crossings * 360 + (IF lastAngle < 0 THEN lastAngle + 360 ELSE lastAngle)

-----------------------------------------------------------------------------
(* The packets *)

SetYPR(y) ==
  /\ yaw' = y
  /\ UNCHANGED <<recent, nextRecent, yawOffset, trackerVars, resets, listening>>

\* The handler ends in an exception before it comes to the angle: in update_offset, which
\* is called with its arguments in another order, or else in a method that there is not.
SetAHRSData(y) ==
  /\ yaw' = y
  /\ UpdateHistory(y)
  /\ UNCHANGED <<yawOffset, trackerVars, resets, listening>>

SetAHRSPosData(y) ==
  /\ yaw' = y
  /\ UpdateHistory(y)
  /\ IF listening THEN UNCHANGED trackerVars ELSE NextAngle(y)
  /\ UNCHANGED <<yawOffset, resets, listening>>

SetBoardState(supported) ==
  /\ resets' = supported
  /\ UNCHANGED <<yaw, recent, nextRecent, yawOffset, trackerVars, listening>>

\* DecodePacketHandler and DispatchStreamResponse; gyro data and the identity of the board
\* go to attributes that nothing here depends on.
Packet ==
  \/ \E y \in Angles : SetYPR(y) \/ SetAHRSData(y) \/ SetAHRSPosData(y)
  \/ \E supported \in BOOLEAN : SetBoardState(supported)

-----------------------------------------------------------------------------
(* The main thread *)

\* NavXClock.__init__: the thread of AHRS is running by then.
RegisterClock ==
  /\ ~listening
  /\ listening' = TRUE
  /\ UNCHANGED <<yaw, recent, nextRecent, yawOffset, trackerVars, resets>>

\* A board that can do it is asked to; it is the board's yaw that changes then.
ZeroYaw ==
  /\ ~resets
  /\ yawOffset' \in Averages
  /\ UNCHANGED <<yaw, recent, nextRecent, trackerVars, resets, listening>>

\* The property yaw.
Yaw == IF resets THEN yaw ELSE Shifted(yaw)

NavXNext == Packet \/ RegisterClock \/ ZeroYaw

NavXSpec == NavXInit /\ [][NavXNext]_navxVars

-----------------------------------------------------------------------------
(* Properties *)

NavXTypeOK ==
  /\ yaw \in Angles /\ yawOffset \in Angles
  /\ recent \in [0..(YawHistory - 1) -> Angles] /\ nextRecent \in 0..YawHistory
  /\ lastAngle \in Angles /\ crossings \in -MaxTurns..MaxTurns /\ lastRate \in -180..360
  /\ resets \in BOOLEAN /\ listening \in BOOLEAN

\* Whatever offset was taken from whatever history, the yaw that is given out is one of a
\* full turn: apply_offset corrects by one turn, and no difference needs two.
YawInRange == Yaw \in -180..180

\* The accumulated angle turns with the board by the shorter way, however it goes over
\* zero and over the point opposite to it, between any two packets that reach it.
ShortestTurn == [][Angle' - Angle \in -180..180]_navxVars
=============================================================================
