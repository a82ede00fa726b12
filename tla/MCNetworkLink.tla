--------------------------- MODULE MCNetworkLink ---------------------------
(* Constants for model-checking NetworkLink *)
EXTENDS NetworkLink, TLC

\* The default directions, with and without a camera, odometry from the robot,
\* and a direction that is disabled.
Deployment(odom, correction, cameras) ==
  [dir |-> ("tf_field_odom" :> odom) @@ ("tf_odom_robot" :> correction),
   cameras |-> cameras, subscribeSleep |-> TRUE]

Deployments ==
  {Deployment("sub", "pub", FALSE), Deployment("pub", "pub", TRUE)}
=============================================================================
