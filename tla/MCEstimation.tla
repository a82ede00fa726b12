---------------------------- MODULE MCEstimation ----------------------------
(* Constants for model-checking the estimator and the libraries under it; a *)
(* behaviour is one of the part that its first state chooses.               *)
EXTENDS ReplayFilter, Interpolation, SimplePoseEstimator, TimeMap, NetworkTopic,
        NavX

CONSTANTS t1, t2, v1, v2, c1, c2, c3, c4

ThreeIds == 1..3
TrackerSet == {t1, t2}
KeyOfTracker == t1 :> 1 @@ t2 :> 2
ValueSet == {v1, v2}

\* Three mappers between three clocks in any way, or a chain or a diamond of four clocks
\* with its mappers turned in any way.
MCClocks == {c1, c2, c3, c4}
MCMoving == {c3}
Pair(p, r) == [a |-> p[1], b |-> p[2], replace |-> r]
Between == {p \in {c1, c2, c3} \X {c1, c2, c3} : p[1] # p[2]}
Turned(edges) ==
  {[i \in 1..Len(edges) |->
      Pair(IF i \in s THEN <<edges[i][2], edges[i][1]>> ELSE edges[i], TRUE)] :
     s \in SUBSET (1..Len(edges))}
MCMapperLists ==
  {<<>>} \cup [1..3 -> {Pair(p, r) : p \in Between, r \in BOOLEAN}]
    \cup Turned(<<<<c1, c2>>, <<c2, c3>>, <<c3, c4>>>>)
    \cup Turned(<<<<c1, c2>>, <<c2, c4>>, <<c1, c3>>, <<c3, c4>>>>)
MCReadings == {[c \in MCClocks |-> IF c = c1 THEN 5 ELSE IF c = c3 THEN n ELSE 2] : n \in {0, 3}}

MCAngles == {-180, -100, 0, 100, 180}

VARIABLE part

allVars == <<part, vars, interpVars, poseVars, timeVars, topicVars, navxVars>>

EstimationInit ==
  /\ part \in {"replay", "interpolation", "pose", "time", "topic", "navx"}
  /\ Init /\ InterpInit /\ PoseInit
  /\ TimeInit
  /\ part # "time" => todo = <<>> /\ reading[c3] = 0
  /\ TopicInit /\ NavXInit
  /\ part # "topic" => kind = NoTopic /\ ~options.keepDuplicates /\ ~options.sendAll

EstimationNext ==
  \/ part = "replay" /\ Next /\ UNCHANGED <<part, interpVars, poseVars, timeVars, topicVars, navxVars>>
  \/ part = "interpolation" /\ InterpNext /\ UNCHANGED <<part, vars, poseVars, timeVars, topicVars, navxVars>>
  \/ part = "pose" /\ PoseNext /\ UNCHANGED <<part, vars, interpVars, timeVars, topicVars, navxVars>>
  \/ part = "time" /\ TimeNext /\ UNCHANGED <<part, vars, interpVars, poseVars, topicVars, navxVars>>
  \/ part = "topic" /\ TopicNext /\ UNCHANGED <<part, vars, interpVars, poseVars, timeVars, navxVars>>
  \/ part = "navx" /\ NavXNext
       /\ UNCHANGED <<part, vars, interpVars, poseVars, timeVars, topicVars>>

EstimationSpec == EstimationInit /\ [][EstimationNext]_allVars
=============================================================================
