---------------------------- MODULE MCWebServer ----------------------------
(* Constants for model-checking WebServer *)
EXTENDS WebServer, TLC

CONSTANTS r1, r2, a, v1, v2

RequestSet == {r1, r2}
StreamSet  == {a}
KnownSet   == {a}
ViewerSet  == {v1, v2}
=============================================================================
