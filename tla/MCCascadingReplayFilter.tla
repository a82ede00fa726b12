---------------------- MODULE MCCascadingReplayFilter ----------------------
(* Instances of CascadingReplayFilter for TLC. *)
EXTENDS CascadingReplayFilter

ThreeIds    == 1..3
LastTwo     == {2, 3}
=============================================================================
