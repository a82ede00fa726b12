------------------------ MODULE MCCameraSupervisor ------------------------
(* Instances of CameraSupervisor for TLC. *)
EXTENDS CameraSupervisor

\* Two cameras, the second of which is optional.
SecondOptional == {2}
NoneOptional   == {}

\* The methods that the pipeline has, and those that the worker calls.
NoMethods   == {}
BothMethods == {"override_pose", "flush"}

\* A packet that is taken by an estimator without a DataLog, and one that raises.
EmptyOrPose == {"empty", "pose"}

AllInputs       == {"sleep", "override", "badConfig", "config", "streams"}
SleepOnly       == {"sleep"}
SleepAndBad     == {"sleep", "badConfig"}
OverrideOnly    == {"override"}
=============================================================================
