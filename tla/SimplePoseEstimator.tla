------------------------- MODULE SimplePoseEstimator -------------------------
(***************************************************************************)
(* estimator/pose_simple.py: two histories of poses, one from the cameras  *)
(* and one from odometry, and the correction between them.  The poses of   *)
(* the cameras arrive late and the two streams in any order.               *)
(*                                                                         *)
(* A history is the set of the times of its samples; a correction is       *)
(* represented by the time of the two poses that it relates.               *)
(***************************************************************************)
EXTENDS Naturals, FiniteSets

CONSTANTS
  MaxPoseTime,  \* bound: timestamps are 1..MaxPoseTime
  PoseHistory   \* the history of the buffers

ASSUME PoseAssumption == MaxPoseTime \in Nat /\ PoseHistory \in Nat

PoseTimes == 1..MaxPoseTime
Identity == 0     \* _last_o2r before there is a correction

VARIABLES
  f2r,          \* buf_field_to_robot
  f2o,          \* buf_field_to_odom
  o2r,          \* _last_o2r
  answer,       \* history: the last answer of odom_to_robot, ...
  latest        \* ... and the last time at that call that both histories cover

poseVars == <<f2r, f2o, o2r, answer, latest>>

Oldest(b) == CHOOSE t \in b : \A u \in b : t <= u
Newest(b) == CHOOSE t \in b : \A u \in b : t >= u
Larger(t, u)  == IF t >= u THEN t ELSE u
Smaller(t, u) == IF t <= u THEN t ELSE u

\* TimeInterpolatableBuffer.addSample: drops what is older than the sample by
\* more than the history.
WithSample(b, t) == {u \in b \cup {t} : t <= u + PoseHistory}

\* What a history can be asked for without extrapolation.
Covered(b) == {t \in PoseTimes : b # {} /\ Oldest(b) <= t /\ t <= Newest(b)}

PoseInit ==
  /\ f2r = {} /\ f2o = {}
  /\ o2r = Identity
  /\ answer = Identity /\ latest = Identity

\* record_f2r, also by record_apriltag
RecordF2R(t) ==
  /\ f2r' = WithSample(f2r, t)
  /\ UNCHANGED <<f2o, o2r, answer, latest>>

RecordF2O(t) ==
  /\ f2o' = WithSample(f2o, t)
  /\ UNCHANGED <<f2r, o2r, answer, latest>>

\* A mutated form of Correction: the overlap is not checked.
CorrectionUnchecked ==
  IF f2o = {} \/ f2r = {} THEN o2r ELSE Smaller(Newest(f2o), Newest(f2r))

\* odom_to_robot: without data or without an overlap, the last answer again.
Correction ==
  IF f2o = {} \/ f2r = {} THEN o2r
  ELSE IF Smaller(Newest(f2o), Newest(f2r)) < Larger(Oldest(f2o), Oldest(f2r)) THEN o2r
  ELSE Smaller(Newest(f2o), Newest(f2r))

OdomToRobot ==
  /\ o2r' = Correction
  /\ answer' = Correction
  /\ latest' = IF Covered(f2o) \cap Covered(f2r) = {} THEN o2r
               ELSE Newest(Covered(f2o) \cap Covered(f2r))
  /\ UNCHANGED <<f2r, f2o>>

\* clear
Forget ==
  /\ f2r' = {} /\ f2o' = {}
  /\ o2r' = Identity
  /\ answer' = Identity /\ latest' = Identity

PoseNext ==
  \/ \E t \in PoseTimes : RecordF2R(t) \/ RecordF2O(t)
  \/ OdomToRobot
  \/ Forget

PoseSpec == PoseInit /\ [][PoseNext]_poseVars

-----------------------------------------------------------------------------
(* Properties *)

\* "We want the most recent pair that overlap": a correction relates the two
\* poses at the last time that both histories cover, so neither of them is
\* extrapolated; without such a time the last correction is repeated.
LatestCommonPair == answer = latest

=============================================================================
