---------------------------- MODULE Camera_proof ----------------------------
(***************************************************************************)
(* The theorems about a camera worker: its pipeline is built from what is  *)
(* there (CameraPipeline), no packet of its streams is stranded            *)
(* (CameraRuntime), workers get a camera each (DeviceManager), and stages  *)
(* get the tags that the user described (AprilTagField).                   *)
(*                                                                         *)
(* BuildInv is the inductive invariant of build(): each call of            *)
(* _build_stage that is under way still has to do what it requires and     *)
(* does not have, and a call that may fail without ending the others is    *)
(* one for slam, which has no calls of its own. ResolvedInv says what a    *)
(* resolved preset gives: all that is required of it and nothing that was  *)
(* not written, where Reached is the least set that holds the presets it   *)
(* inherits. AskedInv follows a call down to the entry of the              *)
(* configuration that it serves (ChainInv), so that its failure is one of  *)
(* that entry, and counts the entries that are done (ProgressInv).         *)
(* StartInv is the same for start(). RunsInv is what a running worker      *)
(* keeps of the stages that end it.                                        *)
(***************************************************************************)
EXTENDS CameraRuntime, DeviceManager, AprilTagField, FiniteSetTheorems, FunctionTheorems,
        SequenceTheorems, TLAPS

-----------------------------------------------------------------------------
(* Sequences *)

LEMMA LeastOfNaturals ==
  ASSUME NEW S \in SUBSET Nat, S # {}
  PROVE  \E m \in S : \A s \in S : m <= s
<1>1. PICK m \in S : \A s \in S : ~(<<s, m>> \in OpToRel(<, Nat))
  BY NatLessThanWellFounded, WFMin
<1>2. ASSUME NEW s \in S PROVE m <= s
  <2>1. m \in Nat /\ s \in Nat OBVIOUS
  <2>2. s < m => <<s, m>> \in OpToRel(<, Nat)
    BY <2>1 DEF OpToRel
  <2>3. ~(s < m) BY <1>1, <2>2
  <2>4. QED BY <2>1, <2>3
<1>3. QED BY <1>2

LEMMA MinIsLeast ==
  ASSUME NEW S \in SUBSET Nat, S # {}
  PROVE  Min(S) \in S /\ \A s \in S : Min(S) <= s
BY LeastOfNaturals DEF Min

\* FlattenSeq is a recursive function: it exists, and each of its values is typed, since
\* there is no least argument for which that is not so.
LEMMA FlattenSteps ==
  ASSUME NEW S, NEW seqs \in Seq(Seq(S)), seqs # <<>>
  PROVE  \E flat \in [1..Len(seqs) -> Seq(S)] :
           /\ FlattenSeq(seqs) = flat[Len(seqs)]
           /\ \A i \in 1..Len(seqs) :
                flat[i] = IF i = 1 THEN seqs[i] ELSE flat[i - 1] \o seqs[i]
<1> DEFINE n == Len(seqs)
           Of(i, before) == IF i = 1 THEN seqs[i] ELSE before \o seqs[i]
           Flat(f) == [i \in 1..n |-> IF i = 1 THEN seqs[i] ELSE f[i - 1] \o seqs[i]]
<1>1. n \in Nat /\ \A i \in 1..n : seqs[i] \in Seq(S)
  BY ElementOfSeq
<1>2. \A i \in 1..n : \A before \in Seq(S) : Of(i, before) \in Seq(S)
  BY <1>1, ConcatProperties
<1>3. \E f : f = Flat(f)
  <2> DEFINE Fine == {k \in 0..n : \E f \in [1..k -> Seq(S)] :
                            \A i \in 1..k : f[i] = Of(i, f[i - 1])}
             Bad == (0..n) \ Fine
  <2>0. \A k : k \in Fine <=>
          k \in 0..n /\ \E f \in [1..k -> Seq(S)] : \A i \in 1..k : f[i] = Of(i, f[i - 1])
    OBVIOUS
  <2> HIDE DEF Fine
  <2>1. CASE Bad # {}
    <3>1. Bad \in SUBSET Nat BY <1>1
    <3>2. PICK m \in Bad : \A k \in Bad : m <= k
      BY <2>1, <3>1, LeastOfNaturals
    <3>3. m # 0
      <4>1. [i \in {} |-> <<>>] \in [1..0 -> Seq(S)] OBVIOUS
      <4>2. \A i \in 1..0 : FALSE OBVIOUS
      <4>3. 0 \in Fine
        <5>1. 0 \in 0..n BY <1>1
        <5>2. QED BY <2>0, <4>1, <4>2, <5>1
      <4>4. QED BY <4>3
    <3>4. m \in 1..n /\ m - 1 \in 0..n /\ m - 1 \in Fine
      <4>1. m \in 1..n /\ m - 1 \in 0..n /\ ~(m <= m - 1) BY <1>1, <3>3
      <4>2. QED BY <3>2, <4>1
    <3>5. PICK f \in [1..(m - 1) -> Seq(S)] : \A i \in 1..(m - 1) : f[i] = Of(i, f[i - 1])
      BY <2>0, <3>4
    <3> DEFINE g == [i \in 1..m |-> IF i < m THEN f[i] ELSE Of(m, f[m - 1])]
    <3>6. \A i \in 1..m : i < m => i \in 1..(m - 1) BY <3>4
    <3>7. Of(m, f[m - 1]) \in Seq(S)
      <4>1. CASE m = 1 BY <1>1, <3>4, <4>1
      <4>2. CASE m # 1
        <5>1. m - 1 \in 1..(m - 1) BY <3>4, <4>2
        <5>2. QED BY <1>2, <3>4, <5>1
      <4>3. QED BY <4>1, <4>2
    <3>8. g \in [1..m -> Seq(S)]
      BY <3>6, <3>7
    <3>9. ASSUME NEW i \in 1..m PROVE g[i] = Of(i, g[i - 1])
      <4>1. CASE i = 1
        <5>1. CASE m = 1
          BY <4>1, <5>1
        <5>2. CASE m # 1
          <6>1. i < m BY <3>4, <4>1, <5>2
          <6>2. f[i] = seqs[1] BY <3>5, <3>6, <4>1, <6>1
          <6>3. g[i] = f[i] BY <6>1
          <6>4. QED BY <4>1, <6>2, <6>3
        <5>3. QED BY <5>1, <5>2
      <4>2. CASE i # 1
        <5>1. i - 1 \in 1..m /\ i - 1 < m /\ i - 1 \in 1..(m - 1)
          BY <3>4, <4>2
        <5>2. g[i - 1] = f[i - 1] BY <5>1
        <5>3. CASE i < m
          <6>1. f[i] = Of(i, f[i - 1]) BY <3>5, <3>6, <5>3
          <6>2. g[i] = f[i] BY <5>3
          <6>3. QED BY <5>2, <6>1, <6>2
        <5>4. CASE ~(i < m)
          <6>1. i = m BY <3>4, <5>4
          <6>2. g[i] = Of(i, f[i - 1]) BY <5>4, <6>1
          <6>3. QED BY <5>2, <6>2
        <5>5. QED BY <5>3, <5>4
      <4>3. QED BY <4>1, <4>2
    <3>10. m \in Fine
      <4>1. m \in 0..n BY <3>4
      <4> HIDE DEF g
      <4>2. QED BY <2>0, <3>8, <3>9, <4>1
    <3>11. QED BY <3>10
  <2>2. CASE Bad = {}
    <3>1. n \in Fine
      <4>1. n \in 0..n BY <1>1
      <4>2. QED BY <2>2, <4>1
    <3>2. PICK f \in [1..n -> Seq(S)] : \A i \in 1..n : f[i] = Of(i, f[i - 1])
      BY <2>0, <3>1
    <3>3. f = Flat(f) BY <3>2
    <3>4. QED BY <3>3
  <2>3. QED BY <2>1, <2>2
<1> DEFINE flat == CHOOSE f : f = Flat(f)
<1>4. flat = Flat(flat) BY <1>3
<1> HIDE DEF flat
<1>5. \A i \in 1..n : flat[i] = Of(i, flat[i - 1]) BY <1>4
<1> DEFINE Wrong == {i \in 1..n : flat[i] \notin Seq(S)}
<1>6. Wrong = {}
  <2> SUFFICES ASSUME Wrong # {} PROVE FALSE
    OBVIOUS
  <2>1. Wrong \in SUBSET Nat BY <1>1
  <2>2. PICK m \in Wrong : \A i \in Wrong : m <= i
    BY <2>1, LeastOfNaturals
  <2>3. m \in 1..n /\ flat[m] \notin Seq(S) OBVIOUS
  <2>4. CASE m = 1 BY <1>1, <1>5, <2>3, <2>4
  <2>5. CASE m # 1
    <3>1. m - 1 \in 1..n /\ ~(m <= m - 1) BY <1>1, <2>3, <2>5
    <3>2. flat[m - 1] \in Seq(S) BY <2>2, <3>1
    <3>3. QED BY <1>2, <1>5, <2>3, <3>2
  <2>6. QED BY <2>4, <2>5
<1>7. flat \in [1..n -> Seq(S)] BY <1>4, <1>6
<1>8. n # 0 BY EmptySeq
<1>9. FlattenSeq(seqs) = flat[n] BY <1>8 DEF FlattenSeq, flat
<1>10. QED BY <1>5, <1>7, <1>9

LEMMA FlattenOfNone ==
  ASSUME NEW S, NEW seqs \in Seq(Seq(S)), seqs = <<>>
  PROVE  FlattenSeq(seqs) = <<>>
<1>1. Len(seqs) = 0 OBVIOUS
<1>2. QED BY <1>1 DEF FlattenSeq

LEMMA FlattenTyped ==
  ASSUME NEW S, NEW seqs \in Seq(Seq(S))
  PROVE  FlattenSeq(seqs) \in Seq(S)
<1>1. CASE seqs = <<>>
  <2>1. <<>> \in Seq(S) OBVIOUS
  <2>2. QED BY <1>1, <2>1, FlattenOfNone
<1>2. CASE seqs # <<>>
  <2>1. PICK flat \in [1..Len(seqs) -> Seq(S)] : FlattenSeq(seqs) = flat[Len(seqs)]
    BY <1>2, FlattenSteps
  <2>2. Len(seqs) \in 1..Len(seqs) BY <1>2, EmptySeq
  <2>3. QED BY <2>1, <2>2
<1>3. QED BY <1>1, <1>2

LEMMA ConcatContents ==
  ASSUME NEW S, NEW p \in Seq(S), NEW q \in Seq(S)
  PROVE  ToSet(p \o q) = ToSet(p) \cup ToSet(q)
<1> DEFINE pq == p \o q
<1>1. /\ pq \in Seq(S) /\ Len(pq) = Len(p) + Len(q) /\ Len(p) \in Nat /\ Len(q) \in Nat
      /\ \A i \in 1..Len(pq) : pq[i] = IF i <= Len(p) THEN p[i] ELSE q[i - Len(p)]
  BY ConcatProperties
<1> HIDE DEF pq
<1>2. DOMAIN pq = 1..Len(pq) /\ DOMAIN p = 1..Len(p) /\ DOMAIN q = 1..Len(q)
  BY <1>1
<1>3. ASSUME NEW x \in ToSet(pq) PROVE x \in ToSet(p) \cup ToSet(q)
  <2>1. PICK i \in 1..Len(pq) : x = pq[i] BY <1>2 DEF ToSet
  <2>2. CASE i <= Len(p)
    <3>1. i \in 1..Len(p) BY <1>1, <2>2
    <3>2. QED BY <1>1, <1>2, <2>1, <2>2, <3>1 DEF ToSet
  <2>3. CASE ~(i <= Len(p))
    <3>1. i - Len(p) \in 1..Len(q) BY <1>1, <2>3
    <3>2. QED BY <1>1, <1>2, <2>1, <2>3, <3>1 DEF ToSet
  <2>4. QED BY <2>2, <2>3
<1>4. ASSUME NEW x \in ToSet(p) PROVE x \in ToSet(pq)
  <2>1. PICK i \in 1..Len(p) : x = p[i] BY <1>2 DEF ToSet
  <2>2. i \in 1..Len(pq) /\ i <= Len(p) BY <1>1
  <2>3. QED BY <1>1, <1>2, <2>1, <2>2 DEF ToSet
<1>5. ASSUME NEW x \in ToSet(q) PROVE x \in ToSet(pq)
  <2>1. PICK i \in 1..Len(q) : x = q[i] BY <1>2 DEF ToSet
  <2>2. i + Len(p) \in 1..Len(pq) /\ ~(i + Len(p) <= Len(p)) /\ (i + Len(p)) - Len(p) = i
    BY <1>1
  <2>3. pq[i + Len(p)] = q[i] BY <1>1, <2>2
  <2>4. QED BY <1>2, <2>1, <2>2, <2>3 DEF ToSet
<1>6. QED BY <1>3, <1>4, <1>5 DEF pq

\* A flattened sequence has what its parts have.
LEMMA FlattenContents ==
  ASSUME NEW S, NEW seqs \in Seq(Seq(S))
  PROVE  ToSet(FlattenSeq(seqs)) = UNION {ToSet(seqs[i]) : i \in DOMAIN seqs}
<1> DEFINE n == Len(seqs)
<1>1. CASE seqs = <<>>
  <2>1. FlattenSeq(seqs) = <<>> BY <1>1, FlattenOfNone
  <2>2. DOMAIN seqs = {} BY <1>1
  <2>3. ToSet(<<>>) = {} BY DEF ToSet
  <2>4. QED BY <2>1, <2>2, <2>3
<1>2. CASE seqs # <<>>
  <2>1. PICK flat \in [1..n -> Seq(S)] :
          /\ FlattenSeq(seqs) = flat[n]
          /\ \A i \in 1..n : flat[i] = IF i = 1 THEN seqs[i] ELSE flat[i - 1] \o seqs[i]
    BY <1>2, FlattenSteps
  <2>2. n \in 1..n /\ n \in Nat /\ DOMAIN seqs = 1..n
          /\ \A i \in 1..n : seqs[i] \in Seq(S)
    BY <1>2, EmptySeq
  <2> DEFINE Upto(k) == UNION {ToSet(seqs[i]) : i \in 1..k}
             Wrong == {k \in 1..n : ToSet(flat[k]) # Upto(k)}
  <2>3. Wrong = {}
    <3> SUFFICES ASSUME Wrong # {} PROVE FALSE
      OBVIOUS
    <3>1. Wrong \in SUBSET Nat BY <2>2
    <3>2. PICK m \in Wrong : \A i \in Wrong : m <= i
      BY <3>1, LeastOfNaturals
    <3>3. m \in 1..n /\ ToSet(flat[m]) # Upto(m) OBVIOUS
    <3>4. CASE m = 1
      <4>1. flat[1] = seqs[1] BY <2>1, <3>3, <3>4
      <4>2. 1..1 = {1} OBVIOUS
      <4>3. Upto(1) = ToSet(seqs[1]) BY <4>2
      <4>4. QED BY <3>3, <3>4, <4>1, <4>3
    <3>5. CASE m # 1
      <4>1. m - 1 \in 1..n /\ ~(m <= m - 1) BY <2>2, <3>3, <3>5
      <4>2. m - 1 \notin Wrong BY <3>2, <4>1
      <4>3. ToSet(flat[m - 1]) = Upto(m - 1) BY <4>1, <4>2
      <4>4. flat[m] = flat[m - 1] \o seqs[m] BY <2>1, <3>3, <3>5
      <4>5. flat[m - 1] \in Seq(S) /\ seqs[m] \in Seq(S) BY <2>1, <2>2, <3>3, <4>1
      <4>6. ToSet(flat[m]) = ToSet(flat[m - 1]) \cup ToSet(seqs[m])
        BY <4>4, <4>5, ConcatContents
      <4>7. 1..m = (1..(m - 1)) \cup {m} BY <2>2, <3>3
      <4>8. Upto(m) = Upto(m - 1) \cup ToSet(seqs[m]) BY <4>7
      <4>9. QED BY <3>3, <4>3, <4>6, <4>8
    <3>6. QED BY <3>4, <3>5
  <2>4. ToSet(flat[n]) = Upto(n) BY <2>2, <2>3
  <2>5. QED BY <2>1, <2>2, <2>4
<1>3. QED BY <1>1, <1>2

-----------------------------------------------------------------------------
(* ConfigResolver *)

\* Whatever has been resolved is a list of stages.
ResolverTyped ==
  /\ presets \in Seq(PipelineDefinition) /\ camera \in CameraConfig
  /\ done \in Nat
  /\ \A id \in DOMAIN pipelines : pipelines[id] \in Seq(StageConfig)
  /\ config \in Seq(StageConfig)

LEMMA ResolvedStageTyped ==
  ASSUME ResolverTyped, NEW s \in StageConfig, ResolveStage(s) # Error
  PROVE  ResolveStage(s) \in Seq(StageConfig)
<1>1. <<>> \in Seq(StageConfig) /\ <<s>> \in Seq(StageConfig)
  OBVIOUS
<1>2. StageResult(s) = Error \/ StageResult(s) \in Seq(StageConfig)
  BY <1>1 DEF StageResult, ResolveFiles, ResolverTyped
<1>3. QED BY <1>1, <1>2 DEF ResolveStage

LEMMA ResolvedTyped ==
  ASSUME ResolverTyped, NEW list \in Seq(StageConfig)
  PROVE  ResolveStages(list) = Error \/ ResolveStages(list) \in Seq(StageConfig)
<1>1. \A i \in DOMAIN list : ResolveStage(list[i]) # Error
        => ResolveStage(list[i]) \in Seq(StageConfig)
  BY ResolvedStageTyped
<1>2. CASE \E i \in DOMAIN list : ResolveStage(list[i]) = Error
  BY <1>2 DEF ResolveStages
<1>3. CASE ~\E i \in DOMAIN list : ResolveStage(list[i]) = Error
  <2> DEFINE seqs == [i \in DOMAIN list |-> ResolveStage(list[i])]
  <2>1. DOMAIN list = 1..Len(list) /\ Len(list) \in Nat BY LenProperties
  <2>2. \A i \in 1..Len(list) : ResolveStage(list[i]) \in Seq(StageConfig)
    BY <1>1, <1>3, <2>1
  <2>3. seqs \in [1..Len(list) -> Seq(StageConfig)]
    BY <2>1, <2>2
  <2>4. seqs \in Seq(Seq(StageConfig))
    BY <2>1, <2>3, SeqDef
  <2>5. ResolveStages(list) = FlattenSeq(seqs)
    BY <1>3 DEF ResolveStages
  <2> HIDE DEF seqs
  <2>6. QED BY <2>4, <2>5, FlattenTyped
<1>4. QED BY <1>2, <1>3

LEMMA ResolverTypedInit == ResolverInit => ResolverTyped
BY ResolverAssumption DEF ResolverInit, ResolverTyped

LEMMA ResolverTypedStep ==
  ASSUME ResolverTyped, ResolverNext
  PROVE  ResolverTyped'
<1>1. CASE ResolvePreset
  <2> DEFINE preset == presets[done + 1]
             flat == ResolveStages(preset.stages)
  <2>1. done < Len(presets) /\ UNCHANGED <<presets, camera, config>>
    BY <1>1 DEF ResolvePreset
  <2>2. done + 1 \in 1..Len(presets) /\ done + 1 \in Nat
    BY <2>1 DEF ResolverTyped
  <2>3. preset \in PipelineDefinition
    BY <2>2, ElementOfSeq DEF ResolverTyped
  <2>4. preset.stages \in Seq(StageConfig)
    BY <2>3 DEF PipelineDefinition
  <2>5. flat = Error \/ flat \in Seq(StageConfig)
    BY <2>4, ResolvedTyped
  <2>6. \/ UNCHANGED <<pipelines, done>>
        \/ /\ flat # Error /\ done' = done + 1
           /\ pipelines' = [id \in DOMAIN pipelines \cup {preset.id} |->
                              IF id = preset.id THEN flat ELSE pipelines[id]]
    BY <1>1 DEF ResolvePreset
  <2> HIDE DEF preset, flat
  <2>7. QED
    BY <2>1, <2>2, <2>5, <2>6 DEF ResolverTyped
<1>2. CASE PresetsResolved
  BY <1>2 DEF PresetsResolved, ResolverTyped
<1>3. CASE ProcessOne
  <2>1. UNCHANGED <<presets, camera, pipelines, done>>
    BY <1>3 DEF ProcessOne
  <2>2. ResolvePipeline = Error \/ ResolvePipeline \in Seq(StageConfig)
    <3>1. camera.stages \in Seq(StageConfig) /\ <<>> \in Seq(StageConfig)
            /\ camera.pipeline \in {"none", "preset", "stages"}
      BY DEF ResolverTyped, CameraConfig
    <3>2. ResolveStages(camera.stages) = Error \/ ResolveStages(camera.stages) \in Seq(StageConfig)
      BY <3>1, ResolvedTyped
    <3>3. QED BY <3>1, <3>2 DEF ResolvePipeline, ResolverTyped
  <2>3. config' = config \/ (ResolvePipeline # Error /\ config' = ResolvePipeline)
    BY <1>3 DEF ProcessOne
  <2>4. QED BY <2>1, <2>2, <2>3 DEF ResolverTyped
<1>4. QED BY <1>1, <1>2, <1>3 DEF ResolverNext

-----------------------------------------------------------------------------
(* CameraPipeline: what stages require *)

\* The strings; the provers do not know that those written here are in STRING.
Word == STRING \cup StageNames \cup {"xout", "left", "right", ""}
Name == Word \X Word
Requirement == [name : Name, optional : BOOLEAN]
AnyStage == [stage : Word, target : Word, arg : Word,
             enabled : BOOLEAN, optional : BOOLEAN]
SlamName == <<"slam", "">>
PreferSlam == Prefers("slam", "")

\* Only the slam stage is ever preferred, the cameras prefer it, and it requires nothing.
LEMMA RequiresOfStage ==
  ASSUME NEW s \in AnyStage
  PROVE  /\ StageRequires(s) \in Seq(Requirement)
         /\ \A j \in DOMAIN StageRequires(s) :
              StageRequires(s)[j].optional => StageRequires(s)[j] = PreferSlam
         /\ s.stage = "slam" => StageRequires(s) = <<>>
         /\ s.stage \in {"mono", "rgb"} => StageRequires(s) = <<PreferSlam>>
<1> DEFINE Needed1 == {r \in Requirement : ~r.optional}
<1>1. s.stage \in Word /\ s.target \in Word BY DEF AnyStage
<1>2. PreferSlam \in Requirement
  <2>1. "slam" \in Word /\ "" \in Word BY DEF Word, StageNames
  <2>2. <<"slam", "">> \in Name BY <2>1 DEF Name
  <2>3. QED BY <2>2 DEF PreferSlam, Prefers, Requirement
<1>3. ASSUME NEW a \in Word, NEW b \in Word PROVE Requires(a, b) \in Needed1
  <2>1. <<a, b>> \in Name BY DEF Name
  <2>2. Requires(a, b) \in Requirement BY <2>1 DEF Requires, Requirement
  <2>3. ~Requires(a, b).optional BY DEF Requires
  <2>4. QED BY <2>2, <2>3
<1>4. {"mono", "rgb", "depth", "xout", "left", "right", ""} \subseteq Word
  BY DEF Word, StageNames
<1>5. \/ StageRequires(s) = <<>> \/ StageRequires(s) = <<PreferSlam>>
      \/ StageRequires(s) \in Seq(Needed1)
  <2> HIDE DEF Needed1
  <2>0. \A r \in Needed1, q \in Needed1 : <<r>> \in Seq(Needed1) /\ <<r, q>> \in Seq(Needed1)
    OBVIOUS
  <2>1. CASE s.stage \in {"mono", "rgb"}
    BY <2>1 DEF StageRequires, MonoRequires, RgbRequires, PreferSlam
  <2>2. CASE s.stage = "depth"
    <3>1. StageRequires(s) = <<Requires("mono", "left"), Requires("mono", "right")>>
      BY <2>2 DEF StageRequires, DepthRequires
    <3>2. Requires("mono", "left") \in Needed1 /\ Requires("mono", "right") \in Needed1
      BY <1>3, <1>4
    <3>3. QED BY <2>0, <3>1, <3>2
  <2>3. CASE s.stage = "nn"
    <3>1. StageRequires(s) = <<Requires("rgb", ""), Requires("depth", "")>>
      BY <2>3 DEF StageRequires, NNRequires
    <3>2. Requires("rgb", "") \in Needed1 /\ Requires("depth", "") \in Needed1
      BY <1>3, <1>4
    <3>3. QED BY <2>0, <3>1, <3>2
  <2>4. CASE s.stage = "xout"
    <3>1. StageRequires(s) = <<Requires("mono", s.target)>>
            \/ StageRequires(s) = <<Requires(s.target, "")>>
      BY <2>4 DEF StageRequires, XOutRequires
    <3>2. Requires("mono", s.target) \in Needed1 /\ Requires(s.target, "") \in Needed1
      BY <1>1, <1>3, <1>4
    <3>3. QED BY <2>0, <3>1, <3>2
  <2>5. CASE s.stage \in {"web", "show"}
    <3>1. StageRequires(s) = <<Requires("xout", s.target)>>
      BY <2>5 DEF StageRequires, WebRequires, ShowRequires
    <3>2. Requires("xout", s.target) \in Needed1
      BY <1>1, <1>3, <1>4
    <3>3. QED BY <2>0, <3>1, <3>2
  <2>6. CASE s.stage = "apriltag"
    <3>1. StageRequires(s) = <<Requires("xout", s.target)>>
            \/ StageRequires(s) = <<Requires("rgb", "")>>
            \/ StageRequires(s) = <<Requires("mono", s.target)>>
      BY <2>6 DEF StageRequires, AprilTagRequires
    <3>2. Requires("xout", s.target) \in Needed1 /\ Requires("rgb", "") \in Needed1
            /\ Requires("mono", s.target) \in Needed1
      BY <1>1, <1>3, <1>4
    <3>3. QED BY <2>0, <3>1, <3>2
  <2>7. CASE s.stage \notin {"mono", "rgb", "depth", "nn", "xout", "web", "show", "apriltag"}
    BY <2>7 DEF StageRequires
  <2>8. QED BY <2>1, <2>2, <2>3, <2>4, <2>5, <2>6, <2>7
<1>6. s.stage = "slam" => StageRequires(s) = <<>>
  BY DEF StageRequires
<1>7. s.stage \in {"mono", "rgb"} => StageRequires(s) = <<PreferSlam>>
  BY DEF StageRequires, MonoRequires, RgbRequires, PreferSlam
<1> HIDE DEF PreferSlam
<1>8. CASE StageRequires(s) = <<>> \/ StageRequires(s) = <<PreferSlam>>
  <2>1. <<>> \in Seq(Requirement) /\ <<PreferSlam>> \in Seq(Requirement) BY <1>2
  <2>2. \A j \in DOMAIN StageRequires(s) : StageRequires(s)[j] = PreferSlam
    BY <1>8
  <2>3. QED BY <1>6, <1>7, <1>8, <2>1, <2>2
<1>9. CASE StageRequires(s) \in Seq(Needed1)
  BY <1>6, <1>7, <1>9
<1>10. QED BY <1>5, <1>8, <1>9

LEMMA StagesAreAny == StageConfig \subseteq AnyStage
<1>1. StageNames \subseteq Word /\ STRING \subseteq Word BY DEF Word
<1>2. VideoTargets \cup {""} \subseteq Word BY DEF Word, VideoTargets, StageNames
<1>3. QED BY <1>1, <1>2 DEF StageConfig, AnyStage

LEMMA StageNameTyped ==
  ASSUME NEW s \in AnyStage
  PROVE  StageName(s) \in Name /\ StageName(s)[1] = s.stage
<1>1. s.stage \in Word /\ s.target \in Word /\ "" \in Word BY DEF AnyStage, Word
<1>2. QED BY <1>1 DEF StageName, Name

\* A configuration that is found for a name has that name.
LEMMA ConfigFound ==
  ASSUME config \in Seq(StageConfig), NEW name \in Name, ConfigForName(name) # Error
  PROVE  ConfigForName(name) \in AnyStage /\ StageName(ConfigForName(name)) = name
<1> DEFINE written == {i \in DOMAIN config : StageName(config[i]) = name}
<1>1. CASE written # {}
  <2>1. written \in SUBSET Nat OBVIOUS
  <2>2. Min(written) \in written BY <1>1, <2>1, MinIsLeast
  <2>3. ConfigForName(name) = config[Min(written)]
    BY <1>1 DEF ConfigForName
  <2>4. QED BY <2>2, <2>3, StagesAreAny
<1>2. CASE written = {}
  <2>1. name[1] \in Inferable
          /\ ConfigForName(name) = [stage |-> name[1], target |-> name[2], arg |-> "",
                                    enabled |-> TRUE, optional |-> FALSE]
    BY <1>2 DEF ConfigForName
  <2>2. name = <<name[1], name[2]>> /\ name[1] \in Word /\ name[2] \in Word
    BY DEF Name
  <2>3. name[1] # "apriltag" /\ "" \in Word BY <2>1 DEF Inferable, Word
  <2> DEFINE s == [stage |-> name[1], target |-> name[2], arg |-> "",
                   enabled |-> TRUE, optional |-> FALSE]
  <2>4. s \in AnyStage
    BY <2>2, <2>3 DEF AnyStage
  <2>5. StageName(s) = <<name[1], name[2]>>
    BY <2>3 DEF StageName
  <2> HIDE DEF s
  <2>6. QED BY <2>1, <2>2, <2>4, <2>5 DEF s
<1>3. QED BY <1>1, <1>2

\* There is a configuration for the name of each entry.
LEMMA WrittenIsFound ==
  ASSUME config \in Seq(StageConfig), NEW i \in DOMAIN config
  PROVE  ConfigForName(StageName(config[i])) # Error
<1> DEFINE written == {k \in DOMAIN config : StageName(config[k]) = StageName(config[i])}
<1>1. written \in SUBSET Nat /\ written # {} OBVIOUS
<1>2. Min(written) \in written BY <1>1, MinIsLeast
<1>3. ConfigForName(StageName(config[i])) = config[Min(written)]
  BY <1>1 DEF ConfigForName
<1>4. config[Min(written)] \in StageConfig BY <1>2
<1>5. QED BY <1>3, <1>4, ResolverAssumption

-----------------------------------------------------------------------------
(* CameraPipeline: the calls of _build_stage that are under way *)

CallType == [name : Name, optional : BOOLEAN, requires : Seq(Requirement),
             todo : Seq(Requirement)]
BuiltType == [name : Name, requires : Seq(Requirement)]

\* A call is for a stage whose configuration is known; each requirement of that is met
\* or still to do.
CallOK(c, met, known) ==
  /\ \E s \in AnyStage : c.name = StageName(s) /\ c.requires = StageRequires(s)
  /\ c.name \in known
  /\ \A k \in DOMAIN c.todo : \E j \in DOMAIN c.requires : c.todo[k] = c.requires[j]
  /\ \A j \in DOMAIN c.requires :
       c.requires[j] \in met \/ \E k \in DOMAIN c.todo : c.todo[k] = c.requires[j]

\* One call is for the first requirement that the next has to do.
CallsFor(inner, outer) ==
  outer.todo # <<>> /\ Head(outer.todo) = [name |-> inner.name, optional |-> inner.optional]

CallsOK(calls, met, known) ==
  /\ calls \in Seq(CallType)
  /\ \A i \in 1..Len(calls) : CallOK(calls[i], met, known)
  /\ \A i \in 1..Len(calls) : i + 1 \in 1..Len(calls) => CallsFor(calls[i], calls[i + 1])

LEMMA NoCalls ==
  ASSUME NEW met, NEW known
  PROVE  CallsOK(<<>>, met, known)
BY DEF CallsOK

LEMMA MoreMet ==
  ASSUME NEW met, NEW known, NEW more, met \subseteq more,
         NEW calls, CallsOK(calls, met, known)
  PROVE  CallsOK(calls, more, known)
<1>1. ASSUME NEW c, CallOK(c, met, known) PROVE CallOK(c, more, known)
  BY <1>1 DEF CallOK
<1>2. QED BY <1>1 DEF CallsOK

LEMMA OuterCalls ==
  ASSUME NEW met, NEW known, NEW calls, CallsOK(calls, met, known), calls # <<>>
  PROVE  CallsOK(Tail(calls), met, known)
<1>1. calls \in Seq(CallType) /\ Len(calls) \in Nat BY DEF CallsOK
<1>2. /\ Tail(calls) \in Seq(CallType)
      /\ Len(Tail(calls)) = Len(calls) - 1
      /\ \A i \in 1..Len(Tail(calls)) : Tail(calls)[i] = calls[i + 1]
  BY <1>1, HeadTailProperties
<1>3. ASSUME NEW i \in 1..Len(Tail(calls)) PROVE CallOK(Tail(calls)[i], met, known)
  <2>1. i + 1 \in 1..Len(calls) BY <1>1, <1>2
  <2>2. QED BY <1>2, <2>1 DEF CallsOK
<1>4. ASSUME NEW i \in 1..Len(Tail(calls)), i + 1 \in 1..Len(Tail(calls))
      PROVE  CallsFor(Tail(calls)[i], Tail(calls)[i + 1])
  <2>1. i + 1 \in 1..Len(calls) /\ (i + 1) + 1 \in 1..Len(calls) BY <1>1, <1>2, <1>4
  <2>2. Tail(calls)[i] = calls[i + 1] /\ Tail(calls)[i + 1] = calls[(i + 1) + 1]
    BY <1>2, <1>4
  <2>3. QED BY <2>1, <2>2 DEF CallsOK
<1>5. QED BY <1>2, <1>3, <1>4 DEF CallsOK

LEMMA InnerCall ==
  ASSUME NEW met, NEW known, NEW calls, CallsOK(calls, met, known), calls # <<>>,
         NEW c \in CallType, CallOK(c, met, known), CallsFor(c, calls[1])
  PROVE  CallsOK(<<c>> \o calls, met, known)
<1> DEFINE more == <<c>> \o calls
<1>1. calls \in Seq(CallType) /\ Len(calls) \in Nat /\ <<c>> \in Seq(CallType)
        /\ Len(<<c>>) = 1
  BY DEF CallsOK
<1>2. /\ more \in Seq(CallType) /\ Len(more) = Len(calls) + 1
      /\ more[1] = c /\ \A i \in 1..Len(calls) : more[i + 1] = calls[i]
  BY <1>1
<1> HIDE DEF more
<1>3. ASSUME NEW i \in 1..Len(more) PROVE CallOK(more[i], met, known)
  <2>1. CASE i = 1 BY <1>2, <2>1
  <2>2. CASE i # 1
    <3>1. i - 1 \in 1..Len(calls) /\ i = (i - 1) + 1 BY <1>1, <1>2, <2>2
    <3>2. more[i] = calls[i - 1] BY <1>2, <3>1
    <3>3. QED BY <3>1, <3>2 DEF CallsOK
  <2>3. QED BY <2>1, <2>2
<1>4. ASSUME NEW i \in 1..Len(more), i + 1 \in 1..Len(more)
      PROVE  CallsFor(more[i], more[i + 1])
  <2>1. i \in 1..Len(calls) /\ more[i + 1] = calls[i] BY <1>1, <1>2, <1>4
  <2>2. CASE i = 1 BY <1>2, <2>1, <2>2
  <2>3. CASE i # 1
    <3>1. i - 1 \in 1..Len(calls) /\ i = (i - 1) + 1 BY <2>1, <1>1, <2>3
    <3>2. more[i] = calls[i - 1] BY <1>2, <3>1
    <3>3. QED BY <2>1, <3>1, <3>2 DEF CallsOK
  <2>4. QED BY <2>2, <2>3
<1>5. QED BY <1>2, <1>3, <1>4 DEF CallsOK, more

LEMMA OneCall ==
  ASSUME NEW met, NEW known, NEW c \in CallType, CallOK(c, met, known)
  PROVE  CallsOK(<<c>>, met, known)
<1>1. <<c>> \in Seq(CallType) /\ Len(<<c>>) = 1 /\ <<c>>[1] = c OBVIOUS
<1>2. QED BY <1>1 DEF CallsOK

\* A requirement that is met is taken off.
LEMMA RequirementDone ==
  ASSUME NEW met, NEW known, NEW calls, CallsOK(calls, met, known),
         calls # <<>> => calls[1].todo # <<>> /\ Head(calls[1].todo) \in met
  PROVE  CallsOK(NextRequirement(calls), met, known)
<1>1. CASE calls = <<>> BY <1>1, NoCalls DEF NextRequirement
<1>2. CASE calls # <<>>
  <2> DEFINE c == calls[1]
             d == [c EXCEPT !.todo = Tail(@)]
             fewer == NextRequirement(calls)
  <2>1. calls \in Seq(CallType) /\ Len(calls) \in Nat /\ 1 \in 1..Len(calls)
    BY <1>2 DEF CallsOK
  <2>2. c \in CallType /\ CallOK(c, met, known) /\ c.todo # <<>> /\ Head(c.todo) \in met
    BY <1>2, <2>1 DEF CallsOK
  <2>3. c.todo \in Seq(Requirement) BY <2>2 DEF CallType
  <2>4. /\ Tail(c.todo) \in Seq(Requirement)
        /\ Len(Tail(c.todo)) = Len(c.todo) - 1 /\ Len(c.todo) \in Nat
        /\ \A i \in 1..Len(Tail(c.todo)) : Tail(c.todo)[i] = c.todo[i + 1]
        /\ Head(c.todo) = c.todo[1]
    BY <2>2, <2>3, HeadTailProperties
  <2>5. d \in CallType /\ d.name = c.name /\ d.optional = c.optional
          /\ d.requires = c.requires /\ d.todo = Tail(c.todo)
    BY <2>2, <2>4 DEF CallType
  <2> HIDE DEF c, d
  <2>6. CallOK(d, met, known)
    <3>0. DOMAIN c.todo = 1..Len(c.todo) /\ DOMAIN Tail(c.todo) = 1..Len(Tail(c.todo))
      BY <2>3, <2>4
    <3>1. ASSUME NEW k \in DOMAIN d.todo
          PROVE  \E j \in DOMAIN d.requires : d.todo[k] = d.requires[j]
      <4>1. k \in 1..Len(Tail(c.todo)) BY <2>5, <3>0
      <4>2. k + 1 \in DOMAIN c.todo BY <2>4, <3>0, <4>1
      <4>3. d.todo[k] = c.todo[k + 1] BY <2>4, <2>5, <4>1
      <4>4. QED BY <2>2, <2>5, <4>2, <4>3 DEF CallOK
    <3>2. ASSUME NEW j \in DOMAIN d.requires, d.requires[j] \notin met
          PROVE  \E k \in DOMAIN d.todo : d.todo[k] = d.requires[j]
      <4>1. PICK k \in DOMAIN c.todo : c.todo[k] = d.requires[j]
        BY <2>2, <2>5, <3>2 DEF CallOK
      <4>2. k # 1 BY <2>2, <2>4, <3>2, <4>1
      <4>3. k - 1 \in 1..Len(Tail(c.todo)) /\ k = (k - 1) + 1 BY <2>4, <3>0, <4>2
      <4>4. Tail(c.todo)[k - 1] = c.todo[k] BY <2>4, <4>3
      <4>5. QED BY <2>5, <3>0, <4>1, <4>3, <4>4
    <3>3. QED BY <2>2, <2>5, <3>1, <3>2 DEF CallOK
  <2>7. fewer = <<d>> \o Tail(calls) BY <1>2 DEF NextRequirement, c, d
  <2>8. CallsOK(Tail(calls), met, known) BY <1>2, OuterCalls
  <2> HIDE DEF fewer
  <2>9. CASE Tail(calls) = <<>>
    <3>1. fewer = <<d>>
      <4>1. <<d>> \in Seq(CallType) BY <2>5
      <4>2. QED BY <2>7, <2>9, <4>1, ConcatEmptySeq
    <3>2. QED BY <2>5, <2>6, <3>1, OneCall DEF fewer
  <2>10. CASE Tail(calls) # <<>>
    <3>1. Tail(calls)[1] = calls[2] /\ 2 \in 1..Len(calls)
      <4>1. /\ Tail(calls) \in Seq(CallType)
            /\ Len(Tail(calls)) = Len(calls) - 1
            /\ \A i \in 1..Len(Tail(calls)) : Tail(calls)[i] = calls[i + 1]
        BY <1>2, <2>1, HeadTailProperties
      <4>2. 1 \in 1..Len(Tail(calls)) BY <2>10, <4>1
      <4>3. QED BY <2>1, <4>1, <4>2
    <3>2. CallsFor(c, calls[2])
      <4>1. 1 + 1 \in 1..Len(calls) /\ 1 + 1 = 2 BY <3>1
      <4>2. QED BY <2>1, <4>1 DEF CallsOK, c
    <3>3. CallsFor(d, Tail(calls)[1]) BY <2>5, <3>1, <3>2 DEF CallsFor
    <3>4. QED BY <2>5, <2>6, <2>7, <2>8, <2>10, <3>3, InnerCall DEF fewer
  <2>11. QED BY <2>9, <2>10
<1>3. QED BY <1>1, <1>2

LEMMA CallOfStage ==
  ASSUME NEW met, NEW known, NEW s \in AnyStage, NEW optional \in BOOLEAN,
         StageName(s) \in known
  PROVE  Call(s, optional) \in CallType /\ CallOK(Call(s, optional), met, known)
<1>1. StageRequires(s) \in Seq(Requirement) BY RequiresOfStage
<1>2. StageName(s) \in Name BY StageNameTyped
<1> DEFINE c == Call(s, optional)
<1>3. c = [name |-> StageName(s), optional |-> optional, requires |-> StageRequires(s),
           todo |-> StageRequires(s)]
  BY DEF Call
<1>4. c.name = StageName(s) /\ c.requires = StageRequires(s) /\ c.todo = StageRequires(s)
  BY <1>3
<1>5. c \in CallType BY <1>1, <1>2, <1>3 DEF CallType
<1> HIDE DEF c
<1>6. CallOK(c, met, known) BY <1>4 DEF CallOK
<1>7. QED BY <1>5, <1>6 DEF c

\* What is required of a stage, and what is still to do of that.
LEMMA RequiresOfCall ==
  ASSUME NEW met, NEW known, NEW c \in CallType, CallOK(c, met, known)
  PROVE  /\ \A j \in DOMAIN c.requires : c.requires[j].optional => c.requires[j] = PreferSlam
         /\ \A k \in DOMAIN c.todo : c.todo[k].optional => c.todo[k] = PreferSlam
         /\ c.name = SlamName => c.todo = <<>>
         /\ c.name[1] \in {"mono", "rgb"} => c.requires = <<PreferSlam>>
<1>1. PICK s \in AnyStage : c.name = StageName(s) /\ c.requires = StageRequires(s)
  BY DEF CallOK
<1>2. s.stage = c.name[1] BY <1>1, StageNameTyped
<1>3. /\ \A j \in DOMAIN c.requires : c.requires[j].optional => c.requires[j] = PreferSlam
      /\ s.stage = "slam" => c.requires = <<>>
      /\ s.stage \in {"mono", "rgb"} => c.requires = <<PreferSlam>>
  BY <1>1, RequiresOfStage
<1>4. \A k \in DOMAIN c.todo : c.todo[k].optional => c.todo[k] = PreferSlam
  BY <1>3 DEF CallOK
<1>5. ASSUME c.name = SlamName PROVE c.todo = <<>>
  <2>0. SlamName[1] = "slam" BY DEF SlamName
  <2>1. c.requires = <<>> BY <1>2, <1>3, <1>5, <2>0
  <2>2. DOMAIN c.todo = {} BY <2>1 DEF CallOK
  <2>3. c.todo \in Seq(Requirement) BY DEF CallType
  <2>4. DOMAIN c.todo = 1..Len(c.todo) /\ Len(c.todo) \in Nat BY <2>3, LenProperties
  <2>5. Len(c.todo) = 0
    <3>1. ~(1 \in 1..Len(c.todo)) BY <2>2, <2>4
    <3>2. QED BY <2>4, <3>1
  <2>6. QED BY <2>3, <2>5, EmptySeq
<1>6. QED BY <1>2, <1>3, <1>4, <1>5

\* A call that another made and that may fail is for slam, and is the innermost.
LEMMA PreferredCall ==
  ASSUME NEW met, NEW known, NEW calls, CallsOK(calls, met, known),
         NEW i \in 1..Len(calls), i + 1 \in 1..Len(calls), calls[i].optional
  PROVE  i = 1 /\ calls[i].name = SlamName /\ calls[i].todo = <<>>
           /\ Head(calls[i + 1].todo) = PreferSlam
<1> DEFINE c == calls[i]
           d == calls[i + 1]
<1>1. c \in CallType /\ d \in CallType /\ CallOK(c, met, known) /\ CallOK(d, met, known)
        /\ CallsFor(c, d)
  BY DEF CallsOK
<1> HIDE DEF c, d
<1>2. d.todo \in Seq(Requirement) /\ d.todo # <<>> BY <1>1 DEF CallType, CallsFor
<1>3. 1 \in DOMAIN d.todo /\ Head(d.todo) = d.todo[1] BY <1>2
<1>4. Head(d.todo) = [name |-> c.name, optional |-> c.optional] /\ c.optional = TRUE
  BY <1>1 DEF CallsFor, CallType, c
<1>5. Head(d.todo).optional = TRUE /\ Head(d.todo).name = c.name BY <1>4
<1>6. d.todo[1].optional => d.todo[1] = PreferSlam BY <1>1, <1>3, RequiresOfCall
<1>7. Head(d.todo) = PreferSlam BY <1>3, <1>5, <1>6
<1>8. c.name = SlamName
  <2>1. PreferSlam.name = SlamName BY DEF PreferSlam, Prefers, SlamName
  <2>2. QED BY <1>5, <1>7, <2>1
<1>9. c.todo = <<>> BY <1>1, <1>8, RequiresOfCall
<1>10. i = 1
  <2> SUFFICES ASSUME i # 1 PROVE FALSE
    OBVIOUS
  <2>1. i - 1 \in 1..Len(calls) /\ (i - 1) + 1 = i BY DEF CallsOK
  <2>2. CallsFor(calls[i - 1], c) BY <2>1 DEF CallsOK, c
  <2>3. QED BY <1>9, <2>2 DEF CallsFor
<1>11. QED BY <1>7, <1>8, <1>9, <1>10 DEF c, d

\* An exception ends the worker if no call may fail; else it ends them all, or is one of
\* slam, which a camera only prefers.
LEMMA RaiseIs ==
  ASSUME NEW met, NEW known, CallsOK(stack, met, known), stack # <<>>, Raise
  PROVE  \/ /\ \A i \in 1..Len(stack) : ~stack[i].optional
            /\ stack' = <<>> /\ phase' = "failed"
         \/ /\ \A i \in 1..(Len(stack) - 1) : ~stack[i].optional
            /\ stack[Len(stack)].optional
            /\ stack' = <<>> /\ UNCHANGED phase
         \/ /\ stack[1].name = SlamName /\ stack[1].todo = <<>>
            /\ Tail(stack) # <<>> /\ Head(Tail(stack)[1].todo) = PreferSlam
            /\ stack' = NextRequirement(Tail(stack)) /\ UNCHANGED phase
<1> DEFINE may == {i \in DOMAIN stack : stack[i].optional}
<1>1. stack \in Seq(CallType) /\ Len(stack) \in Nat /\ DOMAIN stack = 1..Len(stack)
  BY DEF CallsOK
<1>2. CASE may = {} BY <1>1, <1>2 DEF Raise
<1>3. CASE may # {}
  <2>1. may \in SUBSET Nat BY <1>1
  <2>2. Min(may) \in may /\ \A i \in may : Min(may) <= i BY <1>3, <2>1, MinIsLeast
  <2> DEFINE m == Min(may)
  <2>3. stack' = NextRequirement(SubSeq(stack, m + 1, Len(stack))) /\ UNCHANGED phase
    BY <1>3 DEF Raise
  <2> HIDE DEF m
  <2>4. m \in 1..Len(stack) /\ stack[m].optional BY <1>1, <2>2 DEF m
  <2>5. CASE m = Len(stack)
    <3>1. SubSeq(stack, m + 1, Len(stack)) = <<>>
      BY <1>1, <2>4, <2>5, SubSeqEmpty
    <3>2. \A i \in 1..(Len(stack) - 1) : i \in 1..Len(stack) /\ ~(m <= i)
      BY <1>1, <2>5
    <3>3. \A i \in 1..(Len(stack) - 1) : ~stack[i].optional
      BY <1>1, <2>2, <3>2 DEF m
    <3>4. QED BY <2>3, <2>4, <2>5, <3>1, <3>3 DEF NextRequirement
  <2>6. CASE m # Len(stack)
    <3>0. Len(stack) \in Nat /\ m \in 1..Len(stack) BY <1>1, <2>4
    <3>1. m + 1 \in 1..Len(stack) BY <2>6, <3>0
    <3>2. m = 1 /\ stack[1].name = SlamName /\ stack[1].todo = <<>>
            /\ Head(stack[1 + 1].todo) = PreferSlam
      BY <2>4, <3>1, PreferredCall
    <3>3. SubSeq(stack, m + 1, Len(stack)) = Tail(stack)
      BY <1>1, <3>2, TailIsSubSeq
    <3>4. Tail(stack)[1] = stack[1 + 1] /\ Tail(stack) # <<>>
      <4>1. /\ Len(Tail(stack)) = Len(stack) - 1
            /\ \A i \in 1..Len(Tail(stack)) : Tail(stack)[i] = stack[i + 1]
        BY <1>1, HeadTailProperties
      <4>2. 1 \in 1..Len(Tail(stack)) BY <1>1, <3>1, <3>2, <4>1
      <4>3. Tail(stack) # <<>>
        <5>1. Tail(stack) \in Seq(CallType) /\ Len(Tail(stack)) # 0
          BY <1>1, <3>1, <3>2, <4>1, HeadTailProperties
        <5>2. QED BY <5>1, EmptySeq
      <4>4. Tail(stack)[1] = stack[1 + 1] BY <4>1, <4>2
      <4>5. QED BY <4>3, <4>4
    <3>5. QED BY <2>3, <3>2, <3>3, <3>4
  <2>7. QED BY <2>5, <2>6
<1>4. QED BY <1>2, <1>3

\* An exception: the calls that it leaves are fine, if it is known that slam cannot be
\* built when that is what failed.
LEMMA RaiseLeaves ==
  ASSUME NEW met, NEW known, CallsOK(stack, met, known), stack # <<>>, Raise,
         Top.name = SlamName /\ Top.todo = <<>> => PreferSlam \in met
  PROVE  CallsOK(stack', met, known)
<1>1. CASE stack' = <<>> BY <1>1, NoCalls
<1>2. CASE /\ stack[1].name = SlamName /\ stack[1].todo = <<>>
           /\ Tail(stack) # <<>> /\ Head(Tail(stack)[1].todo) = PreferSlam
           /\ stack' = NextRequirement(Tail(stack))
  <2>1. CallsOK(Tail(stack), met, known) BY OuterCalls
  <2>2. Tail(stack)[1].todo # <<>>
    <3>1. stack \in Seq(CallType) /\ Len(stack) \in Nat BY DEF CallsOK
    <3>2. /\ Tail(stack) \in Seq(CallType) /\ Len(Tail(stack)) = Len(stack) - 1
          /\ \A i \in 1..Len(Tail(stack)) : Tail(stack)[i] = stack[i + 1]
      BY <3>1, HeadTailProperties
    <3>3. 1 \in 1..Len(Tail(stack)) /\ 1 \in 1..Len(stack) /\ 1 + 1 \in 1..Len(stack)
      BY <1>2, <3>1, <3>2
    <3>4. CallsFor(stack[1], stack[1 + 1]) BY <3>3 DEF CallsOK
    <3>5. QED BY <3>2, <3>3, <3>4 DEF CallsFor
  <2>3. QED BY <1>2, <2>1, <2>2, RequirementDone DEF Top
<1>3. QED BY <1>1, <1>2, RaiseIs

-----------------------------------------------------------------------------
(* CameraPipeline: what is built *)

\* There is nothing that makes the slam stage, so that nobody needs to wait for it.
SlamUnbuildable == BuildRaises(SlamName) \/ ConfigForName(SlamName) = Error

Met == {r \in Requirement : r.name \in Names(stages) \/ (r = PreferSlam /\ SlamUnbuildable)}
KnownNames == {n \in Name : ConfigForName(n) # Error}

PipeTyped == next \in Nat \ {0} /\ stages \in Seq(BuiltType)

Untouched ==
  phase \in {"presets", "camera"} =>
    stack = <<>> /\ stages = <<>> /\ links = {} /\ DOMAIN source = {}

StackOK == phase = "build" => CallsOK(stack, Met, KnownNames)

\* A camera that slam has of its own and that is a node nevertheless: slam never comes.
SourceOK ==
  /\ DOMAIN source = {n \in Names(stages) : n[1] \in {"mono", "rgb"}}
  /\ \A n \in DOMAIN source :
       /\ source[n] \in Names(stages)
       /\ source[n] = SlamName \/ (source[n] = n /\ (n \in SlamCameras => SlamUnbuildable))
  /\ SlamName \in Names(stages) => ~SlamUnbuildable

LinksOK ==
  \A l \in links :
    /\ l[1] \in Names(stages) /\ l[2] \in Names(stages)
    /\ l[1] \in SlamCameras => SlamUnbuildable

OrderOK ==
  \A i \in DOMAIN stages : \A j \in DOMAIN stages[i].requires :
    \/ stages[i].requires[j].optional
    \/ \E k \in 1 .. (i - 1) : stages[k].name = stages[i].requires[j].name

BuiltOK == SourceOK /\ LinksOK /\ OrderOK

\* Inductive.
BuildInv == ResolverTyped /\ PipeTyped /\ Untouched /\ StackOK /\ BuiltOK

LEMMA NothingBuilt ==
  ASSUME stages = <<>>, links = {}, DOMAIN source = {}
  PROVE  BuiltOK
<1>1. Names(stages) = {} BY DEF Names
<1>2. QED BY <1>1 DEF BuiltOK, SourceOK, LinksOK, OrderOK

LEMMA BuildInit_Inv == PipelineInit => BuildInv
<1> SUFFICES ASSUME PipelineInit PROVE BuildInv
  OBVIOUS
<1>1. ResolverTyped BY ResolverTypedInit DEF PipelineInit
<1>2. stack = <<>> /\ stages = <<>> /\ links = {} /\ DOMAIN source = {} /\ next = 1
        /\ phase = "presets"
  BY DEF PipelineInit, ResolverInit
<1>3. BuiltOK BY <1>2, NothingBuilt
<1>4. QED BY <1>1, <1>2, <1>3 DEF BuildInv, PipeTyped, Untouched, StackOK

\* Steps that leave what is built alone.
LEMMA SameBuilt ==
  ASSUME UNCHANGED <<config, broken, stages, source, links>>
  PROVE  /\ Met' = Met /\ KnownNames' = KnownNames /\ (SlamUnbuildable' <=> SlamUnbuildable)
         /\ BuiltOK => BuiltOK'
<1>1. \A n : ConfigForName(n)' = ConfigForName(n) BY DEF ConfigForName
<1>2. SlamUnbuildable' <=> SlamUnbuildable
  BY <1>1 DEF SlamUnbuildable, BuildRaises, SlamSkips
<1>3. Names(stages)' = Names(stages) BY DEF Names
<1>4. Met' = Met BY <1>2, <1>3 DEF Met
<1>5. KnownNames' = KnownNames BY <1>1 DEF KnownNames
<1>6. BuiltOK => BuiltOK'
  BY <1>2, <1>3 DEF BuiltOK, SourceOK, LinksOK, OrderOK
<1>7. QED BY <1>2, <1>4, <1>5, <1>6

LEMMA ResolveKeeps ==
  ASSUME BuildInv, Resolve
  PROVE  BuildInv'
<1>1. ResolverTyped' BY ResolverTypedStep DEF BuildInv, Resolve
<1>2. phase \in {"presets", "camera"}
  BY DEF Resolve, ResolverNext, ResolvePreset, PresetsResolved, ProcessOne
<1>3. UNCHANGED <<next, stack, stages, source, links>>
  BY DEF Resolve, pipelineVars
<1>4. stack = <<>> /\ stages = <<>> /\ links = {} /\ DOMAIN source = {}
  BY <1>2 DEF BuildInv, Untouched
<1>5. stack' = <<>> /\ stages' = <<>> /\ links' = {} /\ DOMAIN source' = {}
  BY <1>3, <1>4
<1>6. Names(stages)' = {} BY <1>5 DEF Names
<1>7. BuiltOK'
  BY <1>5, <1>6 DEF BuiltOK, SourceOK, LinksOK, OrderOK
<1>8. StackOK' BY <1>5, NoCalls DEF StackOK
<1>9. PipeTyped' /\ Untouched'
  BY <1>3, <1>5 DEF BuildInv, PipeTyped, Untouched
<1>10. QED BY <1>1, <1>7, <1>8, <1>9 DEF BuildInv

\* The steps of build() and start() leave the configuration alone.
LEMMA ResolverTypedSame ==
  ASSUME ResolverTyped, UNCHANGED <<presets, camera, pipelines, done, config>>
  PROVE  ResolverTyped'
BY DEF ResolverTyped

LEMMA BuildEntryKeeps ==
  ASSUME BuildInv, BuildEntry
  PROVE  BuildInv'
<1>1. /\ phase = "build" /\ stack = <<>> /\ next <= Len(config) /\ next' = next + 1
      /\ UNCHANGED <<presets, camera, pipelines, done, phase, config>>
      /\ UNCHANGED <<broken, stages, source, links>>
  BY DEF BuildEntry, resolverVars
<1>2. next \in Nat \ {0} /\ stages \in Seq(BuiltType) /\ config \in Seq(StageConfig)
  BY DEF BuildInv, PipeTyped, ResolverTyped
<1>3. next \in 1..Len(config) /\ next \in DOMAIN config
  BY <1>1, <1>2
<1>4. config[next] \in StageConfig BY <1>2, <1>3
<1>5. config[next] \in AnyStage /\ config[next].optional \in BOOLEAN
  BY <1>4, StagesAreAny DEF StageConfig
<1>6. StageName(config[next]) \in KnownNames
  BY <1>2, <1>3, <1>5, StageNameTyped, WrittenIsFound DEF KnownNames
<1> DEFINE c == Call(config[next], config[next].optional)
<1>7. c \in CallType /\ CallOK(c, Met, KnownNames) BY <1>5, <1>6, CallOfStage
<1>8. stack' = <<>> \/ stack' = <<c>> BY DEF BuildEntry
<1> HIDE DEF c
<1>9. CallsOK(stack', Met, KnownNames) BY <1>7, <1>8, NoCalls, OneCall
<1>10. Met' = Met /\ KnownNames' = KnownNames /\ BuiltOK' BY <1>1, SameBuilt DEF BuildInv
<1>11. StackOK' BY <1>9, <1>10 DEF StackOK
<1>12. PipeTyped' /\ Untouched' BY <1>1, <1>2 DEF PipeTyped, Untouched
<1>13. ResolverTyped' BY <1>1, ResolverTypedSame DEF BuildInv
<1>14. QED BY <1>10, <1>11, <1>12, <1>13 DEF BuildInv

LEMMA GetStageKeeps ==
  ASSUME BuildInv, GetStage
  PROVE  BuildInv'
<1> DEFINE need == Head(Top.todo)
           s == ConfigForName(need.name)
<1>1. /\ phase = "build" /\ stack # <<>> /\ Top.todo # <<>>
      /\ UNCHANGED <<presets, camera, pipelines, done, config>>
      /\ UNCHANGED <<broken, next, stages, source, links>>
      /\ phase' = phase \/ phase' = "failed"
  BY DEF GetStage, Raise
<1>2. \/ (need.name \in Names(stages) \/ (s = Error /\ need.optional))
           /\ stack' = NextRequirement(stack)
      \/ s = Error /\ Raise
      \/ s # Error /\ stack' = <<Call(s, need.optional)>> \o stack
  BY DEF GetStage
<1>3. CallsOK(stack, Met, KnownNames) BY <1>1 DEF BuildInv, StackOK
<1>4. Top = stack[1] /\ Top \in CallType /\ CallOK(Top, Met, KnownNames)
  <2>1. stack \in Seq(CallType) /\ 1 \in 1..Len(stack) BY <1>1, <1>3 DEF CallsOK
  <2>2. QED BY <1>3, <2>1 DEF CallsOK, Top
<1>5. Top.todo \in Seq(Requirement) /\ 1 \in DOMAIN Top.todo /\ need = Top.todo[1]
  BY <1>1, <1>4 DEF CallType
<1>6. need \in Requirement /\ (need.optional => need = PreferSlam)
  BY <1>4, <1>5, RequiresOfCall
<1>7. need.name \in Name /\ need.optional \in BOOLEAN
        /\ need = [name |-> need.name, optional |-> need.optional]
  BY <1>6 DEF Requirement
<1> HIDE DEF need, s
<1>8. CallsOK(stack', Met, KnownNames)
  <2>1. CASE (need.name \in Names(stages) \/ (s = Error /\ need.optional))
               /\ stack' = NextRequirement(stack)
    <3>1. CASE need.name \in Names(stages)
      <4>1. need \in Met BY <1>6, <3>1 DEF Met
      <4>2. QED BY <1>1, <1>3, <1>4, <2>1, <4>1, RequirementDone DEF need
    <3>2. CASE s = Error /\ need.optional
      <4>1. need.name = SlamName
        <5>1. PreferSlam.name = SlamName BY DEF PreferSlam, Prefers, SlamName
        <5>2. QED BY <1>6, <3>2, <5>1
      <4>2. SlamUnbuildable BY <3>2, <4>1 DEF SlamUnbuildable, s
      <4>3. need \in Met BY <1>6, <3>2, <4>2 DEF Met
      <4>4. QED BY <1>1, <1>3, <1>4, <2>1, <4>3, RequirementDone DEF need
    <3>3. QED BY <2>1, <3>1, <3>2
  <2>2. CASE s = Error /\ Raise
    BY <1>1, <1>3, <2>2, RaiseLeaves
  <2>3. CASE s # Error /\ stack' = <<Call(s, need.optional)>> \o stack
    <3> DEFINE c == Call(s, need.optional)
    <3>1. s \in AnyStage /\ StageName(s) = need.name
      BY <1>7, <2>3, ConfigFound DEF s, BuildInv, ResolverTyped
    <3>2. StageName(s) \in KnownNames BY <1>7, <2>3, <3>1 DEF KnownNames, s
    <3>3. c \in CallType /\ CallOK(c, Met, KnownNames) BY <1>7, <3>1, <3>2, CallOfStage
    <3>4. c.name = need.name /\ c.optional = need.optional BY <3>1 DEF Call
    <3> HIDE DEF c
    <3>5. CallsFor(c, stack[1]) BY <1>1, <1>4, <1>7, <3>4 DEF CallsFor, need
    <3>6. CallsOK(<<c>> \o stack, Met, KnownNames) BY <1>1, <1>3, <3>3, <3>5, InnerCall
    <3>7. QED BY <2>3, <3>6 DEF c
  <2>4. QED BY <1>2, <2>1, <2>2, <2>3
<1>9. Met' = Met /\ KnownNames' = KnownNames /\ BuiltOK' BY <1>1, SameBuilt DEF BuildInv
<1>10. StackOK' BY <1>8, <1>9 DEF StackOK
<1>11. PipeTyped' /\ Untouched' BY <1>1 DEF PipeTyped, Untouched, BuildInv
<1>12. ResolverTyped' BY <1>1, ResolverTypedSame DEF BuildInv
<1>13. QED BY <1>9, <1>10, <1>11, <1>12 DEF BuildInv

LEMMA LaterKeeps ==
  ASSUME BuildInv, phase' \notin {"presets", "camera", "build"},
         UNCHANGED <<presets, camera, pipelines, done, config>>,
         UNCHANGED <<broken, stages, source, links>>,
         next' \in Nat \ {0}
  PROVE  BuildInv'
<1>1. BuiltOK' BY SameBuilt DEF BuildInv
<1>2. ResolverTyped' BY ResolverTypedSame DEF BuildInv
<1>3. PipeTyped' /\ Untouched' /\ StackOK'
  BY DEF BuildInv, PipeTyped, Untouched, StackOK
<1>4. QED BY <1>1, <1>2, <1>3 DEF BuildInv

\* A node is fed only from what its stage requires.
LEMMA InputsRequired ==
  ASSUME NEW met, NEW known, NEW c \in CallType, CallOK(c, met, known), NEW n \in Inputs(c)
  PROVE  \E j \in DOMAIN c.requires : c.requires[j].name = n /\ ~c.requires[j].optional
<1>1. PICK s \in AnyStage : c.name = StageName(s) /\ c.requires = StageRequires(s)
  BY DEF CallOK
<1>2. s.stage = c.name[1] BY <1>1, StageNameTyped
<1>3. \A a, b : Requires(a, b).name = <<a, b>> /\ ~Requires(a, b).optional
  BY DEF Requires
<1>0. ASSUME NEW p, NEW q, c.requires = <<p, q>>, n = p.name \/ n = q.name,
             ~p.optional, ~q.optional
      PROVE  \E j \in DOMAIN c.requires : c.requires[j].name = n /\ ~c.requires[j].optional
  <2>1. 1 \in DOMAIN c.requires /\ c.requires[1] = p BY <1>0
  <2>2. 2 \in DOMAIN c.requires /\ c.requires[2] = q BY <1>0
  <2>3. QED BY <1>0, <2>1, <2>2
<1>4. CASE c.name[1] = "depth"
  <2>1. c.requires = <<Requires("mono", "left"), Requires("mono", "right")>>
    BY <1>1, <1>2, <1>4 DEF StageRequires, DepthRequires
  <2>2. n = Requires("mono", "left").name \/ n = Requires("mono", "right").name
    BY <1>3, <1>4 DEF Inputs, DepthInputs
  <2>3. QED BY <1>0, <1>3, <2>1, <2>2
<1>5. CASE c.name[1] = "nn"
  <2>1. c.requires = <<Requires("rgb", ""), Requires("depth", "")>>
    BY <1>1, <1>2, <1>5 DEF StageRequires, NNRequires
  <2>2. n = Requires("rgb", "").name \/ n = Requires("depth", "").name
    BY <1>3, <1>5 DEF Inputs, NNInputs
  <2>3. QED BY <1>0, <1>3, <2>1, <2>2
<1>6. CASE c.name[1] = "xout"
  <2>1. \E a, b : c.requires = <<Requires(a, b)>>
    BY <1>1, <1>2, <1>6 DEF StageRequires, XOutRequires
  <2>2. n = c.requires[1].name BY <1>6 DEF Inputs, XOutInputs
  <2>3. QED BY <1>3, <2>1, <2>2
<1>7. CASE c.name[1] = "apriltag"
  <2>1. \E a, b : c.requires = <<Requires(a, b)>>
    BY <1>1, <1>2, <1>7 DEF StageRequires, AprilTagRequires
  <2>2. n = c.requires[1].name BY <1>7 DEF Inputs, AprilTagInputs
  <2>3. QED BY <1>3, <2>1, <2>2
<1>8. CASE c.name[1] \notin {"depth", "nn", "xout", "apriltag"}
  BY <1>8 DEF Inputs, TelemetryInputs
<1>9. QED BY <1>4, <1>5, <1>6, <1>7, <1>8

LEMMA NamesOfAppended ==
  ASSUME NEW seq \in Seq(BuiltType), NEW e \in BuiltType
  PROVE  /\ Append(seq, e) \in Seq(BuiltType)
         /\ DOMAIN Append(seq, e) = 1..(Len(seq) + 1) /\ Len(seq) \in Nat
         /\ \A i \in 1..Len(seq) : Append(seq, e)[i] = seq[i]
         /\ Append(seq, e)[Len(seq) + 1] = e
         /\ DOMAIN seq = 1..Len(seq)
         /\ Names(Append(seq, e)) = Names(seq) \cup {e.name}
<1>1. /\ Append(seq, e) \in Seq(BuiltType)
      /\ DOMAIN Append(seq, e) = 1..(Len(seq) + 1) /\ Len(seq) \in Nat
      /\ \A i \in 1..Len(seq) : Append(seq, e)[i] = seq[i]
      /\ Append(seq, e)[Len(seq) + 1] = e
      /\ DOMAIN seq = 1..Len(seq)
  BY AppendProperties
<1> DEFINE more == Append(seq, e)
<1> HIDE DEF more
<1>2. \A i \in 1..Len(seq) : i \in 1..(Len(seq) + 1) BY <1>1
<1>3. \A i \in 1..(Len(seq) + 1) : i \in 1..Len(seq) \/ i = Len(seq) + 1 BY <1>1
<1>4. Len(seq) + 1 \in 1..(Len(seq) + 1) BY <1>1
<1>5. Names(more) = Names(seq) \cup {e.name}
  BY <1>1, <1>2, <1>3, <1>4 DEF Names, more
<1>6. QED BY <1>1, <1>5 DEF more

\* build() of a stage that succeeds.
LEMMA BuiltKeeps ==
  ASSUME BuildInv, BuildStage, ~BuildRaises(Top.name)
  PROVE  BuildInv'
<1> DEFINE c == Top
           e == [name |-> c.name, requires |-> c.requires]
<1>1. /\ phase = "build" /\ stack # <<>> /\ c.todo = <<>>
      /\ UNCHANGED <<presets, camera, pipelines, done, phase, config>>
      /\ UNCHANGED <<broken, next>>
      /\ stages' = Append(stages, e) /\ stack' = Tail(stack)
      /\ links' = links \cup {<<NodeOf(n), c.name>> : n \in Inputs(c)}
      /\ source' = IF c.name[1] \in {"mono", "rgb"}
                   THEN [n \in DOMAIN source \cup {c.name} |->
                           IF n = c.name THEN CameraSource(n) ELSE source[n]]
                   ELSE source
  BY DEF BuildStage, Return
<1>2. CallsOK(stack, Met, KnownNames) /\ stages \in Seq(BuiltType) /\ BuiltOK
  BY <1>1 DEF BuildInv, StackOK, PipeTyped
<1>3. c \in CallType /\ CallOK(c, Met, KnownNames)
  <2>1. stack \in Seq(CallType) /\ 1 \in 1..Len(stack) BY <1>1, <1>2 DEF CallsOK
  <2>2. QED BY <1>2, <2>1 DEF CallsOK, Top
<1> HIDE DEF c
<1>4. c.requires \in Seq(Requirement) /\ c.name \in Name BY <1>3 DEF CallType
<1>5. e \in BuiltType /\ e.name = c.name /\ e.requires = c.requires
  BY <1>4 DEF BuiltType
<1> HIDE DEF e
<1>6. \A j \in DOMAIN c.requires : c.requires[j] \in Met
  BY <1>1, <1>3 DEF CallOK
<1>7. \A j \in DOMAIN c.requires : ~c.requires[j].optional =>
        c.requires[j].name \in Names(stages)
  <2>1. PreferSlam.optional BY DEF PreferSlam, Prefers
  <2>2. QED BY <1>6, <2>1 DEF Met
<1>8. /\ stages' \in Seq(BuiltType) /\ Len(stages) \in Nat
      /\ DOMAIN stages = 1..Len(stages) /\ DOMAIN stages' = 1..(Len(stages) + 1)
      /\ \A i \in 1..Len(stages) : stages'[i] = stages[i]
      /\ stages'[Len(stages) + 1] = e
  BY <1>1, <1>2, <1>5, NamesOfAppended
<1>9. Names(stages)' = Names(stages) \cup {c.name}
  BY <1>1, <1>2, <1>5, NamesOfAppended
<1>10. /\ KnownNames' = KnownNames /\ (SlamUnbuildable' <=> SlamUnbuildable)
  <2>1. \A n : ConfigForName(n)' = ConfigForName(n) BY <1>1 DEF ConfigForName
  <2>2. QED BY <1>1, <2>1 DEF KnownNames, SlamUnbuildable, BuildRaises, SlamSkips
<1>11. StackOK'
  <2>1. Met \subseteq Met' BY <1>9, <1>10 DEF Met
  <2>2. CallsOK(stack', Met, KnownNames) BY <1>1, <1>2, OuterCalls
  <2>3. CallsOK(stack', Met', KnownNames') BY <1>10, <2>1, <2>2, MoreMet
  <2>4. QED BY <2>3 DEF StackOK
<1>12. c.name = SlamName => ~SlamUnbuildable
  <2>1. ConfigForName(c.name) # Error BY <1>3 DEF CallOK, KnownNames
  <2>2. ~BuildRaises(c.name) BY DEF c
  <2>3. QED BY <2>1, <2>2 DEF SlamUnbuildable
<1>13. SourceOK'
  <2>1. SlamName \in Names(stages)' => ~SlamUnbuildable'
    BY <1>2, <1>9, <1>10, <1>12 DEF BuiltOK, SourceOK
  <2>2. CASE c.name[1] \in {"mono", "rgb"}
    <3>1. DOMAIN source' = DOMAIN source \cup {c.name}
            /\ source'[c.name] = CameraSource(c.name)
            /\ \A n \in DOMAIN source : n # c.name => source'[n] = source[n]
      BY <1>1, <2>2
    <3>2. DOMAIN source' = {n \in Names(stages)' : n[1] \in {"mono", "rgb"}}
      BY <1>2, <1>9, <2>2, <3>1 DEF BuiltOK, SourceOK
    <3>3. CASE SlamName \in Names(stages) /\ c.name \in SlamCameras
      <4>1. source'[c.name] = SlamName /\ SlamName \in Names(stages)'
        BY <1>9, <3>1, <3>3 DEF CameraSource, SlamName
      <4>2. QED
        BY <1>2, <1>9, <1>10, <2>1, <3>1, <3>2, <4>1 DEF BuiltOK, SourceOK
    <3>4. CASE ~(SlamName \in Names(stages) /\ c.name \in SlamCameras)
      <4>1. source'[c.name] = c.name /\ c.name \in Names(stages)'
        BY <1>9, <3>1, <3>4 DEF CameraSource, SlamName
      <4>2. c.name \in SlamCameras => SlamUnbuildable
        <5>1. c.requires = <<PreferSlam>> BY <1>3, <2>2, RequiresOfCall
        <5>2. PreferSlam \in Met BY <1>6, <5>1
        <5>3. PreferSlam.name = SlamName BY DEF PreferSlam, Prefers, SlamName
        <5>4. QED BY <3>4, <5>2, <5>3 DEF Met
      <4>3. QED
        BY <1>2, <1>9, <1>10, <2>1, <3>1, <3>2, <4>1, <4>2 DEF BuiltOK, SourceOK
    <3>5. QED BY <3>3, <3>4
  <2>3. CASE c.name[1] \notin {"mono", "rgb"}
    <3>1. source' = source BY <1>1, <2>3
    <3>2. QED BY <1>2, <1>9, <1>10, <2>1, <2>3, <3>1 DEF BuiltOK, SourceOK
  <2>4. QED BY <2>2, <2>3
<1>14. LinksOK'
  <2>1. ASSUME NEW n \in Inputs(c)
        PROVE  NodeOf(n) \in Names(stages) /\ (NodeOf(n) \in SlamCameras => SlamUnbuildable)
    <3>1. n \in Names(stages) BY <1>3, <1>7, InputsRequired
    <3>2. CASE n \in DOMAIN source
      <4>1. NodeOf(n) = source[n] BY <3>2 DEF NodeOf
      <4>2. SlamName \notin SlamCameras BY PipelineAssumption DEF SlamName
      <4>3. QED BY <1>2, <3>2, <4>1, <4>2 DEF BuiltOK, SourceOK
    <3>3. CASE n \notin DOMAIN source
      <4>1. NodeOf(n) = n BY <3>3 DEF NodeOf
      <4>2. n[1] \notin {"mono", "rgb"} BY <1>2, <3>1, <3>3 DEF BuiltOK, SourceOK
      <4>3. ASSUME NEW m \in SlamCameras PROVE m[1] \in {"mono", "rgb"}
        <5>1. <<"mono", "left">>[1] = "mono" /\ <<"mono", "right">>[1] = "mono"
                /\ <<"rgb", "">>[1] = "rgb"
          OBVIOUS
        <5>2. QED BY <5>1, PipelineAssumption
      <4>4. QED BY <3>1, <4>1, <4>2, <4>3
    <3>4. QED BY <3>2, <3>3
  <2>2. \A l \in links' : l \in links \/ \E n \in Inputs(c) : l = <<NodeOf(n), c.name>>
    BY <1>1
  <2>3. ASSUME NEW l \in links'
        PROVE  /\ l[1] \in Names(stages)' /\ l[2] \in Names(stages)'
               /\ l[1] \in SlamCameras => SlamUnbuildable'
    <3>1. CASE l \in links
      BY <1>2, <1>9, <1>10, <3>1 DEF BuiltOK, LinksOK
    <3>2. CASE \E n \in Inputs(c) : l = <<NodeOf(n), c.name>>
      <4>1. PICK n \in Inputs(c) : l = <<NodeOf(n), c.name>> BY <3>2
      <4>2. l[1] = NodeOf(n) /\ l[2] = c.name BY <4>1
      <4>3. QED BY <1>9, <1>10, <2>1, <4>2
    <3>3. QED BY <2>2, <3>1, <3>2
  <2>4. QED BY <2>3 DEF LinksOK
<1>15. OrderOK'
  <2>1. ASSUME NEW i \in DOMAIN stages', NEW j \in DOMAIN stages'[i].requires,
               ~stages'[i].requires[j].optional
        PROVE  \E k \in 1 .. (i - 1) : stages'[k].name = stages'[i].requires[j].name
    <3>1. CASE i \in 1..Len(stages)
      <4>1. stages'[i] = stages[i] BY <1>8, <3>1
      <4>2. PICK k \in 1 .. (i - 1) : stages[k].name = stages[i].requires[j].name
        BY <1>2, <1>8, <2>1, <3>1, <4>1 DEF BuiltOK, OrderOK
      <4>3. k \in 1..Len(stages) BY <1>8, <3>1
      <4>4. QED BY <1>8, <4>1, <4>2, <4>3
    <3>2. CASE i \notin 1..Len(stages)
      <4>1. i = Len(stages) + 1 BY <1>8, <3>2
      <4>2. stages'[i] = e BY <1>8, <4>1
      <4>3. c.requires[j].name \in Names(stages) BY <1>5, <1>7, <2>1, <4>2
      <4>4. PICK k \in 1..Len(stages) : stages[k].name = c.requires[j].name
        BY <1>8, <4>3 DEF Names
      <4>5. k \in 1 .. (i - 1) BY <1>8, <4>1
      <4>6. QED BY <1>5, <1>8, <4>2, <4>4, <4>5
    <3>3. QED BY <3>1, <3>2
  <2>2. QED BY <2>1 DEF OrderOK
<1>16. PipeTyped' /\ Untouched'
  BY <1>1, <1>8 DEF BuildInv, PipeTyped, Untouched
<1>17. ResolverTyped' BY <1>1, ResolverTypedSame DEF BuildInv
<1>18. QED BY <1>11, <1>13, <1>14, <1>15, <1>16, <1>17 DEF BuildInv, BuiltOK

LEMMA BuildStageKeeps ==
  ASSUME BuildInv, BuildStage
  PROVE  BuildInv'
<1>1. CASE ~BuildRaises(Top.name) BY <1>1, BuiltKeeps
<1>2. CASE BuildRaises(Top.name)
  <2>1. /\ phase = "build" /\ stack # <<>> /\ Raise
        /\ UNCHANGED <<presets, camera, pipelines, done, config>>
        /\ UNCHANGED <<broken, next, stages, source, links>>
    BY <1>2 DEF BuildStage
  <2>2. phase' = phase \/ phase' = "failed" BY <2>1 DEF Raise
  <2>3. CallsOK(stack, Met, KnownNames) BY <2>1 DEF BuildInv, StackOK
  <2>4. Top.name = SlamName => PreferSlam \in Met
    <3>1. ASSUME Top.name = SlamName PROVE PreferSlam \in Met
      <4>1. SlamUnbuildable BY <1>2, <3>1 DEF SlamUnbuildable
      <4>2. "slam" \in Word /\ "" \in Word BY DEF Word, StageNames
      <4>3. <<"slam", "">> \in Name BY <4>2 DEF Name
      <4>4. PreferSlam \in Requirement BY <4>3 DEF PreferSlam, Prefers, Requirement
      <4>5. QED BY <4>1, <4>4 DEF Met
    <3>2. QED BY <3>1
  <2>5. CallsOK(stack', Met, KnownNames) BY <2>1, <2>3, <2>4, RaiseLeaves
  <2>6. Met' = Met /\ KnownNames' = KnownNames /\ BuiltOK' BY <2>1, SameBuilt DEF BuildInv
  <2>7. StackOK' BY <2>5, <2>6 DEF StackOK
  <2>8. PipeTyped' /\ Untouched' BY <2>1, <2>2 DEF BuildInv, PipeTyped, Untouched
  <2>9. ResolverTyped' BY <2>1, ResolverTypedSame DEF BuildInv
  <2>10. QED BY <2>6, <2>7, <2>8, <2>9 DEF BuildInv
<1>3. QED BY <1>1, <1>2

LEMMA PipelineStep_Inv ==
  ASSUME BuildInv, PipelineNext
  PROVE  BuildInv'
<1>1. CASE Resolve BY <1>1, ResolveKeeps
<1>2. CASE BuildEntry BY <1>2, BuildEntryKeeps
<1>3. CASE GetStage BY <1>3, GetStageKeeps
<1>4. CASE BuildStage BY <1>4, BuildStageKeeps
<1>5. next \in Nat \ {0} /\ next + 1 \in Nat \ {0} /\ 1 \in Nat \ {0}
  BY DEF BuildInv, PipeTyped
<1>6. CASE Built
  BY <1>5, <1>6, LaterKeeps DEF Built
<1>7. CASE StartEntry
  BY <1>5, <1>7, LaterKeeps DEF StartEntry, resolverVars
<1>8. CASE StartRequirement
  BY <1>5, <1>8, LaterKeeps DEF StartRequirement
<1>9. CASE StartStage
  BY <1>5, <1>9, LaterKeeps DEF StartStage
<1>10. CASE Started
  BY <1>5, <1>10, LaterKeeps DEF Started, pipelineVars
<1>11. QED
  BY <1>1, <1>2, <1>3, <1>4, <1>6, <1>7, <1>8, <1>9, <1>10 DEF PipelineNext

\* A worker at work leaves the pipeline alone, or crashes.
LEMMA RuntimeStep_Vars ==
  ASSUME RuntimeNext
  PROVE  Prepare \/ UNCHANGED vars \/ (phase = "running" /\ Crash)
<1>1. ASSUME NEW n \in runtimes, Arrive(n) PROVE UNCHANGED vars
  BY <1>1 DEF Arrive
<1>2. ASSUME NEW n \in runtimes, PollStage(n)
      PROVE  UNCHANGED vars \/ (phase = "running" /\ Crash)
  BY <1>2 DEF PollStage, SlamPoll
<1>3. ASSUME NEW stream, NEW enable, EnableStream(stream, enable) PROVE UNCHANGED vars
  BY <1>3 DEF EnableStream
<1>4. CASE SlamOutput BY <1>4 DEF SlamOutput
<1>5. CASE PollBegin BY <1>5 DEF PollBegin
<1>6. CASE PollEnd BY <1>6 DEF PollEnd
<1>7. CASE PollEvent BY <1>7 DEF PollEvent
<1>8. QED BY <1>1, <1>2, <1>3, <1>4, <1>5, <1>6, <1>7 DEF RuntimeNext

LEMMA RuntimeStep_Inv ==
  ASSUME BuildInv, [RuntimeNext]_allPipelineVars
  PROVE  BuildInv'
<1>1. ASSUME UNCHANGED vars PROVE BuildInv'
  <2>1. UNCHANGED <<presets, camera, pipelines, done, config, phase>>
    BY <1>1 DEF vars, resolverVars
  <2>2. UNCHANGED <<broken, next, stack, stages, source, links>>
    BY <1>1 DEF vars, pipelineVars
  <2>3. Met' = Met /\ KnownNames' = KnownNames /\ BuiltOK' BY <2>1, <2>2, SameBuilt DEF BuildInv
  <2>4. StackOK' BY <2>1, <2>2, <2>3 DEF BuildInv, StackOK
  <2>5. PipeTyped' /\ Untouched' BY <2>1, <2>2 DEF BuildInv, PipeTyped, Untouched
  <2>6. ResolverTyped' BY <2>1, ResolverTypedSame DEF BuildInv
  <2>7. QED BY <2>3, <2>4, <2>5, <2>6 DEF BuildInv
<1>2. CASE Prepare BY <1>2, PipelineStep_Inv DEF Prepare
<1>3. CASE Crash
  <2>1. phase' = "crashed" /\ UNCHANGED <<presets, camera, pipelines, done, config>>
          /\ UNCHANGED <<broken, next, stages, source, links>>
    BY <1>3 DEF Crash, pipelineVars
  <2>2. next' \in Nat \ {0} BY <2>1 DEF BuildInv, PipeTyped
  <2>3. QED BY <2>1, <2>2, LaterKeeps
<1>4. CASE UNCHANGED allPipelineVars BY <1>1, <1>4 DEF allPipelineVars
<1>5. QED BY <1>1, <1>2, <1>3, <1>4, RuntimeStep_Vars

\* Everything that a stage requires was built before it, and its node is fed from nodes
\* that were built, also if an optional stage failed or another made it (_build_stage,
\* _get_stage).
THEOREM DependenciesMetHolds == RuntimeSpec => []DependenciesMet
<1>1. RuntimeInit => BuildInv BY BuildInit_Inv DEF RuntimeInit
<1>2. BuildInv /\ [RuntimeNext]_allPipelineVars => BuildInv'
  BY RuntimeStep_Inv
<1>3. BuildInv => DependenciesMet
  BY DEF BuildInv, BuiltOK, LinksOK, OrderOK, DependenciesMet
<1>4. QED BY <1>1, <1>2, <1>3, PTL DEF RuntimeSpec

\* No camera has two owners, whichever of the slam stage and the stages with the same
\* cameras come first (MonoCameraNode.build, ColorCameraNode.build, _get_stage).
THEOREM OneOwnerHolds == RuntimeSpec => []OneOwner
<1>1. RuntimeInit => BuildInv BY BuildInit_Inv DEF RuntimeInit
<1>2. BuildInv /\ [RuntimeNext]_allPipelineVars => BuildInv'
  BY RuntimeStep_Inv
<1>3. BuildInv => OneOwner
  BY DEF BuildInv, BuiltOK, SourceOK, LinksOK, OneOwner, SlamName
<1>4. QED BY <1>1, <1>2, <1>3, PTL DEF RuntimeSpec

-----------------------------------------------------------------------------
(* ConfigResolver: what the user wrote *)

LEMMA GreatestBelow ==
  ASSUME NEW n \in Nat, NEW S \in SUBSET (1..n), S # {}
  PROVE  Max(S) \in S /\ \A s \in S : s <= Max(S)
<1> DEFINE T == {n - s : s \in S}
<1>1. T \in SUBSET Nat /\ T # {}
  <2>1. \A s \in S : n - s \in Nat OBVIOUS
  <2>2. QED BY <2>1
<1>2. PICK t \in T : \A u \in T : t <= u BY <1>1, LeastOfNaturals
<1>3. PICK m \in S : t = n - m OBVIOUS
<1>4. ASSUME NEW s \in S PROVE s <= m
  <2>1. n - m <= n - s BY <1>2, <1>3
  <2>2. QED BY <2>1
<1>5. QED BY <1>4 DEF Max

LEMMA LastPresetIs ==
  ASSUME NEW id, NEW n \in Nat
  PROVE  \/ LastPreset(id, n) = {} /\ \A i \in 1..n : presets[i].id # id
         \/ \E i \in 1..n : /\ LastPreset(id, n) = {i} /\ presets[i].id = id
                            /\ \A j \in 1..n : presets[j].id = id => j <= i
<1> DEFINE those == {i \in 1 .. n : presets[i].id = id}
<1>1. CASE those = {} BY <1>1 DEF LastPreset
<1>2. CASE those # {}
  <2>1. Max(those) \in those /\ \A j \in those : j <= Max(those)
    BY <1>2, GreatestBelow
  <2>2. LastPreset(id, n) = {Max(those)} BY <1>2 DEF LastPreset
  <2> DEFINE i == Max(those)
  <2>3. LastPreset(id, n) = {i} /\ i \in those /\ \A j \in those : j <= i BY <2>1, <2>2
  <2> HIDE DEF i
  <2>4. QED BY <2>3
<1>3. QED BY <1>1, <1>2

\* The next preset hides one of its id, and no other.
LEMMA LastPresetNext ==
  ASSUME NEW id, NEW n \in Nat
  PROVE  LastPreset(id, n + 1) = IF presets[n + 1].id = id THEN {n + 1} ELSE LastPreset(id, n)
<1>0. n + 1 \in Nat /\ n + 1 \in 1..(n + 1) BY DEF LastPreset
<1>1. CASE presets[n + 1].id = id
  <2>1. PICK i \in 1..(n + 1) : /\ LastPreset(id, n + 1) = {i}
                                /\ \A j \in 1..(n + 1) : presets[j].id = id => j <= i
    BY <1>0, <1>1, LastPresetIs
  <2>2. i = n + 1 BY <1>0, <1>1, <2>1
  <2>3. QED BY <1>1, <2>1, <2>2
<1>2. CASE presets[n + 1].id # id
  <2>1. {i \in 1 .. (n + 1) : presets[i].id = id} = {i \in 1 .. n : presets[i].id = id}
    <3>1. \A i \in 1..(n + 1) : i # n + 1 => i \in 1..n OBVIOUS
    <3>2. \A i \in 1..n : i \in 1..(n + 1) OBVIOUS
    <3>3. QED BY <1>2, <3>1, <3>2
  <2>2. QED BY <1>2, <2>1 DEF LastPreset
<1>3. QED BY <1>1, <1>2

-----------------------------------------------------------------------------
(* The presets that others take in *)

LEMMA ReachedIsIn ==
  ASSUME NEW first, NEW required
  PROVE  Reached(first, required) \in SUBSET DOMAIN presets
BY DEF Reached

LEMMA ReachedSelf ==
  ASSUME NEW first \in SUBSET DOMAIN presets, NEW required
  PROVE  first \subseteq Reached(first, required)
BY DEF Reached

LEMMA InheritedIsIn ==
  ASSUME presets \in Seq(PipelineDefinition), NEW list, NEW n \in 0..Len(presets), NEW required
  PROVE  Inherited(list, n, required) \in SUBSET DOMAIN presets
<1>1. ASSUME NEW id PROVE LastPreset(id, n) \subseteq DOMAIN presets
  <2>1. LastPreset(id, n) \subseteq 1..n BY LastPresetIs
  <2>2. 1..n \subseteq DOMAIN presets OBVIOUS
  <2>3. QED BY <2>1, <2>2
<1>2. QED BY <1>1 DEF Inherited

LEMMA ReachedClosed ==
  ASSUME presets \in Seq(PipelineDefinition), NEW first, NEW required
  PROVE  Closed(Reached(first, required), required)
<1> SUFFICES ASSUME NEW i \in Reached(first, required),
                    NEW j \in Inherited(presets[i].stages, i - 1, required)
             PROVE  j \in Reached(first, required)
  BY DEF Closed
<1>1. i \in DOMAIN presets /\ i - 1 \in 0..Len(presets)
  BY DEF Reached
<1>2. j \in DOMAIN presets BY <1>1, InheritedIsIn
<1>3. ASSUME NEW P \in SUBSET DOMAIN presets, first \subseteq P, Closed(P, required)
      PROVE  j \in P
  <2>1. i \in P BY <1>3 DEF Reached
  <2>2. QED BY <1>3, <2>1 DEF Closed
<1>4. QED BY <1>2, <1>3 DEF Reached

LEMMA ReachedLeast ==
  ASSUME NEW first, NEW required, NEW P \in SUBSET DOMAIN presets,
         first \subseteq P, Closed(P, required)
  PROVE  Reached(first, required) \subseteq P
BY DEF Reached

LEMMA ReachedMono ==
  ASSUME NEW first, NEW more, NEW required, first \subseteq more
  PROVE  Reached(first, required) \subseteq Reached(more, required)
BY DEF Reached

\* What a set reaches is what its members do.
LEMMA ReachedOfEach ==
  ASSUME presets \in Seq(PipelineDefinition), NEW first \in SUBSET DOMAIN presets, NEW required
  PROVE  Reached(first, required) \subseteq UNION {Reached({i}, required) : i \in first}
<1> DEFINE P == UNION {Reached({i}, required) : i \in first}
<1>1. P \in SUBSET DOMAIN presets
  <2>1. \A i \in first : Reached({i}, required) \in SUBSET DOMAIN presets BY ReachedIsIn
  <2>2. QED BY <2>1
<1>2. first \subseteq P
  <2>1. \A i \in first : i \in Reached({i}, required) BY ReachedSelf
  <2>2. QED BY <2>1
<1>3. Closed(P, required)
  <2>1. ASSUME NEW i \in first PROVE Closed(Reached({i}, required), required)
    BY ReachedClosed
  <2>2. QED BY <2>1 DEF Closed
<1> HIDE DEF P
<1>4. QED BY <1>1, <1>2, <1>3, ReachedLeast DEF P

\* A preset reaches itself, and what the presets reach that it inherits.
LEMMA ReachedOfOne ==
  ASSUME presets \in Seq(PipelineDefinition), NEW i \in DOMAIN presets, NEW required
  PROVE  Reached({i}, required)
           = {i} \cup Reached(Inherited(presets[i].stages, i - 1, required), required)
<1> DEFINE next1 == Inherited(presets[i].stages, i - 1, required)
           P == {i} \cup Reached(next1, required)
<1>1. i - 1 \in 0..Len(presets) OBVIOUS
<1>2. next1 \in SUBSET DOMAIN presets BY <1>1, InheritedIsIn
<1>3. P \in SUBSET DOMAIN presets BY ReachedIsIn
<1>4. Closed(P, required)
  <2>1. Closed(Reached(next1, required), required) BY ReachedClosed
  <2>2. next1 \subseteq Reached(next1, required) BY <1>2, ReachedSelf
  <2>3. QED BY <2>1, <2>2 DEF Closed
<1>5. Reached({i}, required) \subseteq P BY <1>3, <1>4, ReachedLeast
<1>6. i \in Reached({i}, required) BY ReachedSelf
<1>7. next1 \subseteq Reached({i}, required)
  <2>1. Closed(Reached({i}, required), required) BY ReachedClosed
  <2>2. QED BY <1>6, <2>1 DEF Closed
<1>8. Closed(Reached({i}, required), required) /\ Reached({i}, required) \in SUBSET DOMAIN presets
  BY ReachedClosed, ReachedIsIn
<1> HIDE DEF next1
<1>9. Reached(next1, required) \subseteq Reached({i}, required)
  BY <1>7, <1>8, ReachedLeast
<1>10. QED BY <1>5, <1>6, <1>9 DEF next1, P

LEMMA ReachedOfNone ==
  ASSUME NEW required
  PROVE  Reached({}, required) = {}
<1>1. Closed({}, required) BY DEF Closed
<1>2. QED BY <1>1, ReachedLeast

\* The stages, but for references, that a list or a preset asks for when the first n
\* presets are there.
OfList(list, n, required) ==
  {s \in Taken(list, required) \cup OfPresets(Inherited(list, n, required), required) :
     s.stage # "inherit"}
OfPreset(i, required) == {s \in OfPresets({i}, required) : s.stage # "inherit"}

\* A resolved list has all that it must have, and nothing but what was written.
Gives(list, least, most) == least \subseteq ToSet(list) /\ ToSet(list) \subseteq most

ResolvedInv ==
  /\ done \in 0..Len(presets)
  /\ phase \notin {"presets", "failed"} => done = Len(presets)
  /\ DOMAIN pipelines = {presets[i].id : i \in 1..done}
  /\ \A id \in DOMAIN pipelines : \A i \in LastPreset(id, done) :
       Gives(pipelines[id], OfPreset(i, TRUE), OfPreset(i, FALSE))

LEMMA OfPresetIs ==
  ASSUME presets \in Seq(PipelineDefinition), NEW i \in DOMAIN presets, NEW required
  PROVE  OfPreset(i, required) = OfList(presets[i].stages, i - 1, required)
<1> DEFINE more == Inherited(presets[i].stages, i - 1, required)
<1>1. Reached({i}, required) = {i} \cup Reached(more, required) BY ReachedOfOne
<1> HIDE DEF more
<1>2. OfPresets({i}, required) = Taken(presets[i].stages, required) \cup OfPresets(more, required)
  BY <1>1 DEF OfPresets
<1>3. QED BY <1>2 DEF OfPreset, OfList, more

\* What a list gives is what its members give.
LEMMA ResolvedContents ==
  ASSUME ResolverTyped, NEW list \in Seq(StageConfig), ResolveStages(list) # Error
  PROVE  /\ \A i \in DOMAIN list : ResolveStage(list[i]) # Error
         /\ ToSet(ResolveStages(list)) = UNION {ToSet(ResolveStage(list[i])) : i \in DOMAIN list}
<1> DEFINE seqs == [i \in DOMAIN list |-> ResolveStage(list[i])]
<1>1. \A i \in DOMAIN list : ResolveStage(list[i]) # Error BY DEF ResolveStages
<1>2. ResolveStages(list) = FlattenSeq(seqs) BY <1>1 DEF ResolveStages
<1>3. \A i \in DOMAIN list : ResolveStage(list[i]) \in Seq(StageConfig)
  BY <1>1, ResolvedStageTyped
<1>4. DOMAIN list = 1..Len(list) /\ Len(list) \in Nat BY LenProperties
<1>5. seqs \in [1..Len(list) -> Seq(StageConfig)] BY <1>3, <1>4
<1>6. seqs \in Seq(Seq(StageConfig)) BY <1>4, <1>5, SeqDef
<1>7. DOMAIN seqs = DOMAIN list /\ \A i \in DOMAIN list : seqs[i] = ResolveStage(list[i])
  OBVIOUS
<1> HIDE DEF seqs
<1>8. ToSet(FlattenSeq(seqs)) = UNION {ToSet(seqs[i]) : i \in DOMAIN seqs}
  BY <1>6, FlattenContents
<1>9. {ToSet(seqs[i]) : i \in DOMAIN seqs} = {ToSet(ResolveStage(list[i])) : i \in DOMAIN list}
  BY <1>7
<1>10. QED BY <1>1, <1>2, <1>8, <1>9

\* Whether an id is one of a preset that is resolved.
LEMMA LastOfKnown ==
  ASSUME ResolvedInv, NEW id
  PROVE  \/ id \notin DOMAIN pipelines /\ LastPreset(id, done) = {}
         \/ id \in DOMAIN pipelines /\ \E i \in 1..done : LastPreset(id, done) = {i}
<1>1. done \in Nat BY DEF ResolvedInv
<1>2. QED BY <1>1, LastPresetIs DEF ResolvedInv

LEMMA OfPresetReached ==
  ASSUME NEW list, NEW n, NEW required, NEW i \in Inherited(list, n, required)
  PROVE  OfPreset(i, required) \subseteq OfList(list, n, required)
<1>1. Reached({i}, required) \subseteq Reached(Inherited(list, n, required), required)
  BY ReachedMono
<1>2. QED BY <1>1 DEF OfPreset, OfList, OfPresets

LEMMA StageGivesNoMore ==
  ASSUME ResolverTyped, ResolvedInv, NEW list \in Seq(StageConfig), NEW i \in DOMAIN list,
         ResolveStage(list[i]) # Error, NEW s \in ToSet(ResolveStage(list[i]))
  PROVE  s \in OfList(list, done, FALSE)
<1> DEFINE t == list[i]
<1>0. ToSet(<<>>) = {} BY DEF ToSet
<1>1. t.enabled /\ ResolveStage(t) = StageResult(t) /\ StageResult(t) # Error
  BY <1>0 DEF ResolveStage
<1>2. t \in Taken(list, FALSE) BY <1>1 DEF Taken
<1> HIDE DEF t
<1>3. s \in ToSet(StageResult(t)) BY <1>1 DEF t
<1>4. CASE t.stage # "inherit"
  <2>1. StageResult(t) = <<t>> BY <1>1, <1>4 DEF StageResult, ResolveFiles
  <2>2. s = t BY <1>3, <2>1 DEF ToSet
  <2>3. QED BY <1>2, <1>4, <2>2 DEF OfList
<1>5. CASE t.stage = "inherit"
  <2>1. t.arg \in DOMAIN pipelines /\ StageResult(t) = pipelines[t.arg]
    BY <1>1, <1>5 DEF StageResult
  <2>2. PICK j \in 1..done : LastPreset(t.arg, done) = {j} BY <2>1, LastOfKnown
  <2>3. s \in OfPreset(j, FALSE) BY <1>3, <2>1, <2>2 DEF ResolvedInv, Gives
  <2>4. j \in Inherited(list, done, FALSE) BY <1>2, <1>5, <2>2 DEF Inherited
  <2>5. QED BY <2>3, <2>4, OfPresetReached
<1>6. QED BY <1>4, <1>5

LEMMA ListGivesEnough ==
  ASSUME ResolverTyped, ResolvedInv, NEW list \in Seq(StageConfig),
         \A i \in DOMAIN list : ResolveStage(list[i]) # Error,
         NEW s \in OfList(list, done, TRUE)
  PROVE  \E i \in DOMAIN list : s \in ToSet(ResolveStage(list[i]))
<1>1. s.stage # "inherit" BY DEF OfList
<1>2. ASSUME NEW i \in DOMAIN list, list[i].enabled, ~list[i].optional
      PROVE  ResolveStage(list[i]) = StageResult(list[i]) /\ StageResult(list[i]) # Error
  BY <1>2 DEF ResolveStage
<1>3. CASE s \in Taken(list, TRUE)
  <2>1. PICK i \in DOMAIN list : s = list[i] /\ s.enabled /\ ~s.optional
    BY <1>3 DEF Taken
  <2>2. ResolveStage(s) = <<s>>
    BY <1>1, <1>2, <2>1 DEF StageResult, ResolveFiles
  <2>3. s \in ToSet(<<s>>)
    <3>1. 1 \in DOMAIN <<s>> /\ <<s>>[1] = s OBVIOUS
    <3>2. QED BY <3>1 DEF ToSet
  <2>4. QED BY <2>1, <2>2, <2>3
<1>4. CASE s \in OfPresets(Inherited(list, done, TRUE), TRUE)
  <2>0. presets \in Seq(PipelineDefinition) /\ done \in 0..Len(presets)
    BY DEF ResolverTyped, ResolvedInv
  <2>1. Inherited(list, done, TRUE) \in SUBSET DOMAIN presets BY <2>0, InheritedIsIn
  <2>2. PICK k \in Reached(Inherited(list, done, TRUE), TRUE) : s \in Taken(presets[k].stages, TRUE)
    BY <1>4 DEF OfPresets
  <2>3. PICK j \in Inherited(list, done, TRUE) : k \in Reached({j}, TRUE)
    <3>1. Reached(Inherited(list, done, TRUE), TRUE)
            \subseteq UNION {Reached({j}, TRUE) : j \in Inherited(list, done, TRUE)}
      BY <2>0, <2>1, ReachedOfEach
    <3>2. QED BY <2>2, <3>1
  <2>4. s \in OfPreset(j, TRUE) BY <1>1, <2>2, <2>3 DEF OfPreset, OfPresets
  <2>5. PICK t \in Taken(list, TRUE) : t.stage = "inherit" /\ j \in LastPreset(t.arg, done)
    BY <2>3 DEF Inherited
  <2>6. PICK i \in DOMAIN list : t = list[i] /\ t.enabled /\ ~t.optional
    BY <2>5 DEF Taken
  <2>7. t.arg \in DOMAIN pipelines BY <2>5, LastOfKnown
  <2>8. ResolveStage(t) = pipelines[t.arg] BY <1>2, <2>5, <2>6, <2>7 DEF StageResult
  <2>9. OfPreset(j, TRUE) \subseteq ToSet(pipelines[t.arg])
    BY <2>5, <2>7 DEF ResolvedInv, Gives
  <2>10. QED BY <2>4, <2>6, <2>8, <2>9
<1>5. QED BY <1>3, <1>4 DEF OfList

LEMMA ResolveGives ==
  ASSUME ResolverTyped, ResolvedInv, NEW list \in Seq(StageConfig), ResolveStages(list) # Error
  PROVE  Gives(ResolveStages(list), OfList(list, done, TRUE), OfList(list, done, FALSE))
<1>1. /\ \A i \in DOMAIN list : ResolveStage(list[i]) # Error
      /\ ToSet(ResolveStages(list)) = UNION {ToSet(ResolveStage(list[i])) : i \in DOMAIN list}
  BY ResolvedContents
<1>2. \A i \in DOMAIN list : ToSet(ResolveStage(list[i])) \subseteq OfList(list, done, FALSE)
  BY <1>1, StageGivesNoMore
<1>3. \A s \in OfList(list, done, TRUE) : \E i \in DOMAIN list : s \in ToSet(ResolveStage(list[i]))
  BY <1>1, ListGivesEnough
<1>4. QED BY <1>1, <1>2, <1>3 DEF Gives

LEMMA ResolvedInit_Inv == ResolverInit => ResolvedInv
<1> SUFFICES ASSUME ResolverInit PROVE ResolvedInv
  OBVIOUS
<1>1. presets \in Seq(PipelineDefinition) BY ResolverTypedInit DEF ResolverTyped
<1>2. done = 0 /\ DOMAIN pipelines = {} /\ phase = "presets" BY DEF ResolverInit
<1>3. 0 \in 0..Len(presets) /\ 1..0 = {} BY <1>1
<1>4. QED BY <1>2, <1>3 DEF ResolvedInv

\* What is required and what was written, as the camera's pipeline says.
LEMMA WrittenIs ==
  ASSUME ResolverTyped, NEW required
  PROVE  Written(required) =
           CASE camera.pipeline = "stages" -> OfList(camera.stages, Len(presets), required)
             [] camera.pipeline = "preset" ->
                  {s \in OfPresets(LastPreset(camera.id, Len(presets)), required) :
                     s.stage # "inherit"}
             [] camera.pipeline = "none" -> {}
<1>1. camera.pipeline \in {"none", "preset", "stages"} BY DEF ResolverTyped, CameraConfig
<1>2. CASE camera.pipeline = "stages" BY <1>2 DEF Written, OfList
<1>3. CASE camera.pipeline = "preset" BY <1>3 DEF Written
<1>4. CASE camera.pipeline = "none" BY <1>4 DEF Written
<1>5. QED BY <1>1, <1>2, <1>3, <1>4

\* What is written depends on the files alone.
LEMMA WrittenSame ==
  ASSUME UNCHANGED <<presets, camera>>
  PROVE  /\ \A i, required : OfPreset(i, required)' = OfPreset(i, required)
         /\ \A required : Written(required)' = Written(required)
         /\ \A id, n : LastPreset(id, n)' = LastPreset(id, n)
<1>1. \A id, n : LastPreset(id, n)' = LastPreset(id, n) BY DEF LastPreset
<1>2. \A list, n, required : Inherited(list, n, required)' = Inherited(list, n, required)
  BY <1>1 DEF Inherited
<1>3. \A P, required : Closed(P, required)' <=> Closed(P, required)
  BY <1>2 DEF Closed
<1>4. \A first, required : Reached(first, required)' = Reached(first, required)
  BY <1>3 DEF Reached
<1>5. \A first, required : OfPresets(first, required)' = OfPresets(first, required)
  BY <1>4 DEF OfPresets
<1>6. QED BY <1>1, <1>2, <1>5 DEF OfPreset, Written

LEMMA ResolvedStep ==
  ASSUME ResolverTyped, ResolvedInv, ResolverNext
  PROVE  ResolvedInv'
<1>1. UNCHANGED <<presets, camera>>
  BY DEF ResolverNext, ResolvePreset, PresetsResolved, ProcessOne
<1>2. /\ \A i, required : OfPreset(i, required)' = OfPreset(i, required)
      /\ \A id, n : LastPreset(id, n)' = LastPreset(id, n)
  BY <1>1, WrittenSame
<1>3. CASE UNCHANGED <<pipelines, done>> /\ (phase' \notin {"presets", "failed"} => done = Len(presets))
  BY <1>1, <1>2, <1>3 DEF ResolvedInv
<1>4. CASE PresetsResolved BY <1>3, <1>4 DEF PresetsResolved
<1>5. CASE ProcessOne
  <2>1. phase = "camera" /\ UNCHANGED <<pipelines, done>> BY <1>5 DEF ProcessOne
  <2>2. QED BY <1>3, <2>1 DEF ResolvedInv
<1>6. CASE ResolvePreset
  <2> DEFINE preset == presets[done + 1]
             flat == ResolveStages(preset.stages)
  <2>1. phase = "presets" /\ done < Len(presets) /\ done \in Nat /\ Len(presets) \in Nat
    BY <1>6 DEF ResolvePreset, ResolvedInv, ResolverTyped
  <2>2. \/ UNCHANGED <<pipelines, done>> /\ phase' = "failed"
        \/ /\ flat # Error /\ done' = done + 1 /\ phase' = "presets"
           /\ pipelines' = [id \in DOMAIN pipelines \cup {preset.id} |->
                              IF id = preset.id THEN flat ELSE pipelines[id]]
    BY <1>6, <2>1 DEF ResolvePreset
  <2>3. done + 1 \in DOMAIN presets /\ done + 1 \in 0..Len(presets) /\ (done + 1) - 1 = done
    BY <2>1 DEF ResolverTyped
  <2>4. preset.stages \in Seq(StageConfig)
    <3>1. preset \in PipelineDefinition BY <2>3 DEF ResolverTyped
    <3>2. QED BY <3>1 DEF PipelineDefinition
  <2>5. \A required : OfPreset(done + 1, required) = OfList(preset.stages, done, required)
    BY <2>3, OfPresetIs DEF ResolverTyped
  <2>6. flat # Error => Gives(flat, OfPreset(done + 1, TRUE), OfPreset(done + 1, FALSE))
    BY <2>4, <2>5, ResolveGives
  <2>7. \A id : LastPreset(id, done + 1) = IF preset.id = id THEN {done + 1} ELSE LastPreset(id, done)
    BY <2>1, LastPresetNext
  <2> HIDE DEF preset, flat
  <2>8. CASE flat # Error /\ done' = done + 1 /\ phase' = "presets"
               /\ pipelines' = [id \in DOMAIN pipelines \cup {preset.id} |->
                                  IF id = preset.id THEN flat ELSE pipelines[id]]
    <3>1. DOMAIN pipelines' = {presets'[i].id : i \in 1..done'}
      <4>1. DOMAIN pipelines' = {presets[i].id : i \in 1..done} \cup {preset.id}
        BY <2>8 DEF ResolvedInv
      <4>2. 1..(done + 1) = (1..done) \cup {done + 1} BY <2>1
      <4>3. {presets[i].id : i \in 1..(done + 1)} = {presets[i].id : i \in 1..done} \cup {preset.id}
        BY <4>2 DEF preset
      <4>4. QED BY <1>1, <2>8, <4>1, <4>3
    <3>2. ASSUME NEW id \in DOMAIN pipelines', NEW i \in LastPreset(id, done + 1)
          PROVE  Gives(pipelines'[id], OfPreset(i, TRUE), OfPreset(i, FALSE))
      <4>1. CASE id = preset.id
        <5>1. i = done + 1 /\ pipelines'[id] = flat BY <2>7, <2>8, <3>2, <4>1
        <5>2. QED BY <2>6, <2>8, <5>1
      <4>2. CASE id # preset.id
        <5>1. id \in DOMAIN pipelines /\ pipelines'[id] = pipelines[id] BY <2>8, <4>2
        <5>2. i \in LastPreset(id, done) BY <2>7, <3>2, <4>2
        <5>3. QED BY <5>1, <5>2 DEF ResolvedInv
      <4>3. QED BY <4>1, <4>2
    <3>3. done' \in 0..Len(presets') BY <1>1, <2>3, <2>8
    <3>4. \A id \in DOMAIN pipelines' : \A i \in LastPreset(id, done)' :
            Gives(pipelines'[id], OfPreset(i, TRUE)', OfPreset(i, FALSE)')
      BY <1>2, <2>8, <3>2
    <3>5. QED BY <2>8, <3>1, <3>3, <3>4 DEF ResolvedInv, Gives
  <2>9. QED BY <1>3, <2>2, <2>8
<1>7. QED BY <1>4, <1>5, <1>6 DEF ResolverNext

\* The worker is given what was written, and all that is required.
ConfigGiven ==
  /\ phase \in {"presets", "camera"} => config = <<>>
  /\ ToSet(config) \subseteq Written(FALSE)
  /\ phase \in {"build", "start", "running", "crashed"} => Written(TRUE) \subseteq ToSet(config)

LEMMA ProcessOneGives ==
  ASSUME ResolverTyped, ResolvedInv, phase = "camera", ResolvePipeline # Error
  PROVE  Gives(ResolvePipeline, Written(TRUE), Written(FALSE))
<1>1. done = Len(presets) BY DEF ResolvedInv
<1>2. camera.pipeline \in {"none", "preset", "stages"} /\ camera.stages \in Seq(StageConfig)
  BY DEF ResolverTyped, CameraConfig
<1>3. ToSet(<<>>) = {} BY DEF ToSet
<1>4. CASE camera.pipeline = "stages"
  <2>1. ResolvePipeline = ResolveStages(camera.stages) BY <1>4 DEF ResolvePipeline
  <2>2. \A required : Written(required) = OfList(camera.stages, done, required)
    BY <1>1, <1>4, WrittenIs
  <2>3. QED BY <1>2, <2>1, <2>2, ResolveGives
<1>5. CASE camera.pipeline = "preset"
  <2>1. ResolvePipeline = IF camera.id \in DOMAIN pipelines THEN pipelines[camera.id] ELSE <<>>
    BY <1>5 DEF ResolvePipeline
  <2>2. \A required : Written(required) =
          {s \in OfPresets(LastPreset(camera.id, done), required) : s.stage # "inherit"}
    BY <1>1, <1>5, WrittenIs
  <2>3. CASE camera.id \in DOMAIN pipelines
    <3>1. PICK i \in 1..done : LastPreset(camera.id, done) = {i} BY <2>3, LastOfKnown
    <3>2. \A required : Written(required) = OfPreset(i, required)
      BY <2>2, <3>1 DEF OfPreset
    <3>3. QED BY <2>1, <2>3, <3>1, <3>2 DEF ResolvedInv
  <2>4. CASE camera.id \notin DOMAIN pipelines
    <3>1. LastPreset(camera.id, done) = {} BY <2>4, LastOfKnown
    <3>2. \A required : OfPresets({}, required) = {} BY ReachedOfNone DEF OfPresets
    <3>3. QED BY <1>3, <2>1, <2>2, <2>4, <3>1, <3>2 DEF Gives
  <2>5. QED BY <2>3, <2>4
<1>6. CASE camera.pipeline = "none"
  <2>1. ResolvePipeline = <<>> BY <1>6 DEF ResolvePipeline
  <2>2. \A required : Written(required) = {} BY <1>6, WrittenIs
  <2>3. QED BY <1>3, <2>1, <2>2 DEF Gives
<1>7. QED BY <1>2, <1>4, <1>5, <1>6

LEMMA ConfigGivenStep ==
  ASSUME ResolverTyped, ResolvedInv, ConfigGiven, ResolverNext
  PROVE  ConfigGiven'
<1>1. UNCHANGED <<presets, camera>>
  BY DEF ResolverNext, ResolvePreset, PresetsResolved, ProcessOne
<1>2. \A required : Written(required)' = Written(required) BY <1>1, WrittenSame
<1>3. CASE ResolvePreset
  <2>1. phase = "presets" /\ phase' \in {"presets", "failed"} /\ UNCHANGED config
    BY <1>3 DEF ResolvePreset
  <2>2. QED BY <1>2, <2>1 DEF ConfigGiven
<1>4. CASE PresetsResolved
  <2>1. phase = "presets" /\ phase' = "camera" /\ UNCHANGED config
    BY <1>4 DEF PresetsResolved
  <2>2. QED BY <1>2, <2>1 DEF ConfigGiven
<1>5. CASE ProcessOne
  <2>1. /\ phase = "camera"
        /\ \/ phase' = "failed" /\ UNCHANGED config
           \/ ResolvePipeline # Error /\ phase' = "build" /\ config' = ResolvePipeline
    BY <1>5 DEF ProcessOne
  <2>2. CASE phase' = "failed" /\ UNCHANGED config BY <1>2, <2>2 DEF ConfigGiven
  <2>3. CASE ResolvePipeline # Error /\ phase' = "build" /\ config' = ResolvePipeline
    <3>1. Gives(config', Written(TRUE), Written(FALSE)) BY <2>1, <2>3, ProcessOneGives
    <3>2. QED BY <1>2, <2>3, <3>1 DEF ConfigGiven, Gives
  <2>4. QED BY <2>1, <2>2, <2>3
<1>6. QED BY <1>3, <1>4, <1>5 DEF ResolverNext

-----------------------------------------------------------------------------
(* CameraPipeline: what a stage needs *)

\* The stages that others require.
NodeNames == {<<"mono", "left">>, <<"mono", "right">>, <<"rgb", "">>, <<"depth", "">>}
XOutNames == {<<"xout", t>> : t \in VideoTargets}

\* A stage that has a target that there is.
Aimed(s) == s.target \in (IF s.stage = "xout" THEN VideoTargets ELSE TargetsOf(s.stage))

\* How many stages may need each other in a row.
Level(stage) ==
  CASE stage \in {"web", "show", "apriltag"} -> 3
    [] stage \in {"xout", "nn"} -> 2
    [] stage = "depth" -> 1
    [] OTHER -> 0

\* What is required of a stage: one that is there, and that needs fewer.
Lower(n, stage) == n \in NodeNames \cup XOutNames /\ Level(n[1]) < Level(stage)

LEMMA Levels ==
  /\ \A stage : Level(stage) \in 0..3
  /\ Level("mono") = 0 /\ Level("rgb") = 0 /\ Level("depth") = 1 /\ Level("xout") = 2
  /\ Level("nn") = 2 /\ Level("web") = 3 /\ Level("show") = 3 /\ Level("apriltag") = 3
BY DEF Level

LEMMA WrittenAimed == \A s \in StageConfig : s \in AnyStage /\ Aimed(s)
<1>1. \A s \in StageConfig : s.stage # "xout" /\ s.target \in TargetsOf(s.stage)
  BY DEF StageConfig, StageNames
<1>2. QED BY <1>1, StagesAreAny DEF Aimed

LEMMA LowerNodes ==
  ASSUME NEW stage, stage \in {"xout", "nn", "apriltag"}
  PROVE  /\ Lower(<<"mono", "left">>, stage) /\ Lower(<<"mono", "right">>, stage)
         /\ Lower(<<"rgb", "">>, stage) /\ Lower(<<"depth", "">>, stage)
<1>1. Level(stage) \in {2, 3} BY Levels
<1>3. <<"mono", "left">> \in NodeNames /\ <<"mono", "right">> \in NodeNames
        /\ <<"rgb", "">> \in NodeNames /\ <<"depth", "">> \in NodeNames
  BY DEF NodeNames
<1>4. ASSUME NEW n \in NodeNames, NEW l, Level(n[1]) = l, l = 0 \/ l = 1
      PROVE  Lower(n, stage)
  BY <1>1, <1>4 DEF Lower
<1>5. Lower(<<"mono", "left">>, stage)
  <2>1. <<"mono", "left">>[1] = "mono" OBVIOUS
  <2>2. Level(<<"mono", "left">>[1]) = 0 BY <2>1, Levels
  <2>3. QED BY <1>3, <1>4, <2>2, Zenon
<1>6. Lower(<<"mono", "right">>, stage)
  <2>1. <<"mono", "right">>[1] = "mono" OBVIOUS
  <2>2. Level(<<"mono", "right">>[1]) = 0 BY <2>1, Levels
  <2>3. QED BY <1>3, <1>4, <2>2, Zenon
<1>7. Lower(<<"rgb", "">>, stage)
  <2>1. <<"rgb", "">>[1] = "rgb" OBVIOUS
  <2>2. Level(<<"rgb", "">>[1]) = 0 BY <2>1, Levels
  <2>3. QED BY <1>3, <1>4, <2>2, Zenon
<1>8. Lower(<<"depth", "">>, stage)
  <2>1. <<"depth", "">>[1] = "depth" OBVIOUS
  <2>2. Level(<<"depth", "">>[1]) = 1 BY <2>1, Levels
  <2>3. QED BY <1>3, <1>4, <2>2, Zenon
<1>9. QED BY <1>5, <1>6, <1>7, <1>8

LEMMA LowerStreams ==
  ASSUME NEW stage, stage \in {"web", "show", "apriltag"}, NEW t \in VideoTargets
  PROVE  Lower(<<"xout", t>>, stage)
<1>1. <<"xout", t>> \in XOutNames BY DEF XOutNames
<1>2. <<"xout", t>>[1] = "xout" OBVIOUS
<1>3. Level(stage) = 3 BY Levels
<1>4. Level(<<"xout", t>>[1]) = 2 BY <1>2, Levels
<1>5. QED BY <1>1, <1>3, <1>4 DEF Lower

LEMMA RequiredLower ==
  ASSUME NEW s \in AnyStage, Aimed(s), NEW n \in Required(s)
  PROVE  Lower(n, s.stage)
<1>1. PICK i \in DOMAIN StageRequires(s) : n = StageRequires(s)[i].name /\ ~StageRequires(s)[i].optional
  BY DEF Required
<1>2. \A a, b : Requires(a, b).name = <<a, b>> BY DEF Requires
<1>3. ASSUME NEW r, StageRequires(s) = <<r>> PROVE n = r.name /\ ~r.optional
  <2>1. i = 1 BY <1>1, <1>3
  <2>2. StageRequires(s)[1] = r BY <1>3
  <2>3. QED BY <1>1, <2>1, <2>2
<1>12. ASSUME NEW r, NEW q, StageRequires(s) = <<r, q>> PROVE n = r.name \/ n = q.name
  <2>1. i = 1 \/ i = 2 BY <1>1, <1>12
  <2>2. StageRequires(s)[1] = r /\ StageRequires(s)[2] = q BY <1>12
  <2>3. QED BY <1>1, <2>1, <2>2
<1>4. CASE s.stage \in {"mono", "rgb"}
  <2>1. StageRequires(s) = <<Prefers("slam", "")>>
    BY <1>4 DEF StageRequires, MonoRequires, RgbRequires
  <2>2. ~Prefers("slam", "").optional BY <1>3, <2>1
  <2>3. QED BY <2>2 DEF Prefers
<1>5. CASE s.stage = "depth"
  <2>1. StageRequires(s) = <<Requires("mono", "left"), Requires("mono", "right")>>
    BY <1>5 DEF StageRequires, DepthRequires
  <2>2. n = <<"mono", "left">> \/ n = <<"mono", "right">> BY <1>2, <1>12, <2>1
  <2>3. n[1] = "mono"
    <3>1. <<"mono", "left">>[1] = "mono" OBVIOUS
    <3>2. <<"mono", "right">>[1] = "mono" OBVIOUS
    <3>3. QED BY <2>2, <3>1, <3>2
  <2>5. n \in NodeNames BY <2>2 DEF NodeNames
  <2>4. QED BY <1>5, <2>3, <2>5, Levels DEF Lower
<1>6. CASE s.stage = "nn"
  <2>1. StageRequires(s) = <<Requires("rgb", ""), Requires("depth", "")>>
    BY <1>6 DEF StageRequires, NNRequires
  <2>2. n = <<"rgb", "">> \/ n = <<"depth", "">> BY <1>2, <1>12, <2>1
  <2>3. QED BY <1>6, <2>2, LowerNodes
<1>7. CASE s.stage = "xout"
  <2>1. s.target \in VideoTargets BY <1>7 DEF Aimed
  <2>2. StageRequires(s) = XOutRequires(s.target) BY <1>7 DEF StageRequires
  <2>3. CASE s.target \in {"left", "right"}
    <3>1. StageRequires(s) = <<Requires("mono", s.target)>> BY <2>2, <2>3 DEF XOutRequires
    <3>2. n = <<"mono", s.target>> BY <1>2, <1>3, <3>1
    <3>3. QED BY <1>7, <2>3, <3>2, LowerNodes
  <2>4. CASE s.target \in {"rgb", "depth"}
    <3>1. StageRequires(s) = <<Requires(s.target, "")>> BY <2>2, <2>4 DEF XOutRequires
    <3>2. n = <<s.target, "">> BY <1>2, <1>3, <3>1
    <3>3. QED BY <1>7, <2>4, <3>2, LowerNodes
  <2>5. QED BY <2>1, <2>3, <2>4 DEF VideoTargets
<1>8. CASE s.stage \in {"web", "show"}
  <2>1. s.target \in VideoTargets BY <1>8 DEF Aimed, TargetsOf
  <2>2. StageRequires(s) = <<Requires("xout", s.target)>>
    BY <1>8 DEF StageRequires, WebRequires, ShowRequires
  <2>3. n = <<"xout", s.target>> BY <1>2, <1>3, <2>2
  <2>4. QED BY <1>8, <2>1, <2>3, LowerStreams
<1>9. CASE s.stage = "apriltag"
  <2>1. s.target \in {"left", "right", "rgb"} BY <1>9 DEF Aimed, TargetsOf
  <2>2. StageRequires(s) = AprilTagRequires(s.arg, s.target) BY <1>9 DEF StageRequires
  <2>3. CASE s.arg = "host"
    <3>1. StageRequires(s) = <<Requires("xout", s.target)>> BY <2>2, <2>3 DEF AprilTagRequires
    <3>2. n = <<"xout", s.target>> BY <1>2, <1>3, <3>1
    <3>3. s.target \in VideoTargets BY <2>1 DEF VideoTargets
    <3>4. QED BY <1>9, <3>2, <3>3, LowerStreams
  <2>4. CASE s.arg # "host" /\ s.target = "rgb"
    <3>1. StageRequires(s) = <<Requires("rgb", "")>> BY <2>2, <2>4 DEF AprilTagRequires
    <3>2. n = <<"rgb", "">> BY <1>2, <1>3, <3>1
    <3>3. QED BY <1>9, <3>2, LowerNodes
  <2>5. CASE s.arg # "host" /\ s.target # "rgb"
    <3>1. StageRequires(s) = <<Requires("mono", s.target)>> BY <2>2, <2>5 DEF AprilTagRequires
    <3>2. n = <<"mono", s.target>> BY <1>2, <1>3, <3>1
    <3>3. s.target = "left" \/ s.target = "right" BY <2>1, <2>5
    <3>4. QED BY <1>9, <3>2, <3>3, LowerNodes
  <2>6. QED BY <2>3, <2>4, <2>5
<1>10. CASE s.stage \notin {"mono", "rgb", "depth", "nn", "xout", "web", "show", "apriltag"}
  <2>1. StageRequires(s) = <<>> BY <1>10 DEF StageRequires
  <2>2. DOMAIN StageRequires(s) = {} BY <2>1
  <2>3. QED BY <1>1, <2>2
<1>11. QED BY <1>4, <1>5, <1>6, <1>7, <1>8, <1>9, <1>10

LEMMA LowerNamesTyped == NodeNames \cup XOutNames \subseteq Name
<1>1. {"mono", "rgb", "depth", "xout", "left", "right", ""} \subseteq Word
  BY DEF Word, StageNames
<1>2. VideoTargets \subseteq Word BY <1>1 DEF VideoTargets
<1>3. ASSUME NEW t \in VideoTargets PROVE <<"xout", t>> \in Name
  BY <1>1, <1>2 DEF Name
<1>4. NodeNames \subseteq Name
  <2>1. <<"mono", "left">> \in Name BY <1>1 DEF Name
  <2>2. <<"mono", "right">> \in Name BY <1>1 DEF Name
  <2>3. <<"rgb", "">> \in Name BY <1>1 DEF Name
  <2>4. <<"depth", "">> \in Name BY <1>1 DEF Name
  <2>5. QED BY <2>1, <2>2, <2>3, <2>4 DEF NodeNames
<1>5. QED BY <1>3, <1>4 DEF XOutNames

\* A stage that is found for a required name has a target that there is.
LEMMA FoundAimed ==
  ASSUME config \in Seq(StageConfig), NEW n \in NodeNames \cup XOutNames,
         ConfigForName(n) # Error
  PROVE  /\ ConfigForName(n) \in AnyStage /\ Aimed(ConfigForName(n))
         /\ ConfigForName(n).stage = n[1]
<1> DEFINE written == {i \in DOMAIN config : StageName(config[i]) = n}
           s == ConfigForName(n)
<1>0. n \in Name BY LowerNamesTyped
<1>1. s \in AnyStage /\ StageName(s) = n BY <1>0, ConfigFound
<1>2. s.stage = n[1] BY <1>1, StageNameTyped
<1>3. CASE written # {}
  <2>1. written \in SUBSET Nat OBVIOUS
  <2>2. Min(written) \in written BY <1>3, <2>1, MinIsLeast
  <2>3. s = config[Min(written)] BY <1>3 DEF ConfigForName
  <2>4. s \in StageConfig BY <2>2, <2>3
  <2>5. QED BY <1>1, <1>2, <2>4, WrittenAimed
<1>4. CASE written = {}
  <2>1. s = [stage |-> n[1], target |-> n[2], arg |-> "",
             enabled |-> TRUE, optional |-> FALSE]
          /\ n[1] \in Inferable
    BY <1>4 DEF ConfigForName
  <2> HIDE DEF s
  <2>2. s.stage = n[1] /\ s.target = n[2] BY <2>1
  <2>3. CASE n \in XOutNames
    <3>1. n[1] = "xout" /\ n[2] \in VideoTargets BY <2>3 DEF XOutNames
    <3>2. QED BY <1>1, <1>2, <2>2, <3>1 DEF Aimed, s
  <2>4. CASE n \in NodeNames
    <3>1. \/ n[1] = "mono" /\ n[2] \in {"left", "right"}
          \/ n[1] = "rgb" /\ n[2] = ""
          \/ n[1] = "depth" /\ n[2] = ""
      <4>1. CASE n = <<"mono", "left">> BY <4>1
      <4>2. CASE n = <<"mono", "right">> BY <4>2
      <4>3. CASE n = <<"rgb", "">> BY <4>3
      <4>4. CASE n = <<"depth", "">> BY <4>4
      <4>5. QED BY <2>4, <4>1, <4>2, <4>3, <4>4 DEF NodeNames
    <3>2. Aimed(s) BY <2>2, <3>1 DEF Aimed, TargetsOf
    <3>3. QED BY <1>1, <1>2, <3>2 DEF s
  <2>5. QED BY <2>3, <2>4
<1>5. QED BY <1>3, <1>4

\* What a stage needs besides itself.
Below(s) == Required(s) \cup RequiredBy(Required(s)) \cup RequiredBy(RequiredBy(Required(s)))

LEMMA NeededIs ==
  ASSUME NEW s
  PROVE  Needed(s) = {StageName(s)} \cup Below(s)
BY DEF Needed, Below

LEMMA RequiredByMember ==
  ASSUME NEW names, NEW n
  PROVE  n \in RequiredBy(names) <=>
           \E m \in names : ConfigForName(m) # Error /\ n \in Required(ConfigForName(m))
BY DEF RequiredBy

\* The levels fall, from one stage to those that it requires.
LEMMA RequiredByLower ==
  ASSUME config \in Seq(StageConfig), NEW names \in SUBSET (NodeNames \cup XOutNames),
         NEW n \in RequiredBy(names)
  PROVE  \E m \in names : Lower(n, m[1])
<1>1. PICK m \in names : ConfigForName(m) # Error /\ n \in Required(ConfigForName(m))
  BY RequiredByMember
<1>2. /\ ConfigForName(m) \in AnyStage /\ Aimed(ConfigForName(m))
      /\ ConfigForName(m).stage = m[1]
  BY <1>1, FoundAimed
<1>3. Lower(n, m[1]) BY <1>1, <1>2, RequiredLower
<1>4. QED BY <1>3

\* No stage needs anything that it does not need through at most two others.
LEMMA BelowClosed ==
  ASSUME config \in Seq(StageConfig), NEW s \in StageConfig, NEW n \in Below(s)
  PROVE  /\ n \in NodeNames \cup XOutNames
         /\ ConfigForName(n) # Error => Required(ConfigForName(n)) \subseteq Below(s)
<1> DEFINE names == NodeNames \cup XOutNames
           first == Required(s)
           second == RequiredBy(first)
           third == RequiredBy(second)
<1>1. \A stage : Level(stage) \in 0..3 BY Levels
<1>2. \A m \in first : m \in names /\ Level(m[1]) <= 2
  <2>1. \A m \in first : Lower(m, s.stage) BY WrittenAimed, RequiredLower
  <2>2. QED BY <1>1, <2>1 DEF Lower
<1> HIDE DEF first
<1>3. \A m \in second : m \in names /\ Level(m[1]) <= 1
  <2>1. \A m \in second : \E k \in first : Lower(m, k[1]) BY <1>2, RequiredByLower
  <2>2. QED BY <1>1, <1>2, <2>1 DEF Lower
<1> HIDE DEF second
<1>4. \A m \in third : m \in names /\ Level(m[1]) <= 0
  <2>1. \A m \in third : \E k \in second : Lower(m, k[1]) BY <1>3, RequiredByLower
  <2>2. QED BY <1>1, <1>3, <2>1 DEF Lower
<1>5. RequiredBy(third) = {}
  <2>1. \A m \in RequiredBy(third) : \E k \in third : Lower(m, k[1]) BY <1>4, RequiredByLower
  <2>2. ASSUME NEW m \in RequiredBy(third) PROVE FALSE
    <3>1. PICK k \in third : Lower(m, k[1]) BY <2>1
    <3>2. Level(m[1]) < Level(k[1]) BY <3>1 DEF Lower
    <3>3. QED BY <1>1, <1>4, <3>2
  <2>3. QED BY <2>2
<1> HIDE DEF third
<1>6. Below(s) = first \cup second \cup third BY DEF Below, first, second, third
<1>7. n \in names BY <1>2, <1>3, <1>4, <1>6
<1>8. ASSUME ConfigForName(n) # Error, NEW r \in Required(ConfigForName(n)) PROVE r \in Below(s)
  <2>1. \A some : n \in some => r \in RequiredBy(some) BY <1>8, RequiredByMember
  <2>2. CASE n \in first BY <1>6, <2>1, <2>2 DEF second
  <2>3. CASE n \in second BY <1>6, <2>1, <2>3 DEF third
  <2>4. CASE n \in third BY <1>5, <2>1, <2>4
  <2>5. QED BY <1>6, <2>2, <2>3, <2>4
<1>9. QED BY <1>7, <1>8

-----------------------------------------------------------------------------
(* CameraPipeline: whom the calls are for *)

\* The outermost call is for an entry of the configuration, and the others, unless they
\* may fail, for what that needs.
ChainOK(calls, s) ==
  \A i \in DOMAIN calls :
    IF i = Len(calls)
    THEN calls[i].name = StageName(s) /\ calls[i].requires = StageRequires(s)
           /\ calls[i].optional = s.optional
    ELSE calls[i].optional \/ (calls[i].name \in Below(s)
                                 /\ calls[i].requires = StageRequires(ConfigForName(calls[i].name)))

LEMMA PushedIs ==
  ASSUME NEW S, NEW calls \in Seq(S), NEW c \in S
  PROVE  /\ <<c>> \o calls \in Seq(S)
         /\ Len(<<c>> \o calls) = Len(calls) + 1 /\ Len(calls) \in Nat
         /\ DOMAIN (<<c>> \o calls) = 1..(Len(calls) + 1) /\ DOMAIN calls = 1..Len(calls)
         /\ (<<c>> \o calls)[1] = c
         /\ \A i \in 1..Len(calls) : (<<c>> \o calls)[i + 1] = calls[i]
         /\ <<c>> \o calls # <<>>
<1> DEFINE more == <<c>> \o calls
<1>1. Len(calls) \in Nat /\ DOMAIN calls = 1..Len(calls) BY LenProperties
<1>2. <<c>> \in Seq(S) /\ Len(<<c>>) = 1 /\ <<c>>[1] = c OBVIOUS
<1>3. /\ more \in Seq(S) /\ Len(more) = 1 + Len(calls)
      /\ \A i \in 1..Len(more) : more[i] = IF i <= 1 THEN <<c>>[i] ELSE calls[i - 1]
  BY <1>2, ConcatProperties
<1> HIDE DEF more
<1>4. DOMAIN more = 1..(Len(calls) + 1) /\ Len(more) = Len(calls) + 1 BY <1>1, <1>3
<1>5. more[1] = c BY <1>1, <1>2, <1>3
<1>6. ASSUME NEW i \in 1..Len(calls) PROVE more[i + 1] = calls[i]
  <2>1. i + 1 \in 1..Len(more) /\ ~(i + 1 <= 1) /\ (i + 1) - 1 = i BY <1>1, <1>3
  <2>2. QED BY <1>3, <2>1
<1>7. more # <<>>
  <2>1. Len(more) # 0 BY <1>1, <1>3
  <2>2. QED BY <2>1
<1>8. QED BY <1>1, <1>3, <1>4, <1>5, <1>6, <1>7 DEF more

LEMMA OuterIs ==
  ASSUME NEW S, NEW calls \in Seq(S), calls # <<>>
  PROVE  /\ Tail(calls) \in Seq(S) /\ Len(calls) \in Nat \ {0}
         /\ Len(Tail(calls)) = Len(calls) - 1
         /\ DOMAIN calls = 1..Len(calls) /\ DOMAIN Tail(calls) = 1..(Len(calls) - 1)
         /\ \A i \in 1..(Len(calls) - 1) : Tail(calls)[i] = calls[i + 1] /\ i + 1 \in DOMAIN calls
         /\ Tail(calls) = <<>> <=> Len(calls) = 1
<1>1. /\ Tail(calls) \in Seq(S) /\ Len(calls) \in Nat \ {0}
      /\ Len(Tail(calls)) = Len(calls) - 1
      /\ \A i \in 1..Len(Tail(calls)) : Tail(calls)[i] = calls[i + 1]
      /\ DOMAIN calls = 1..Len(calls) /\ DOMAIN Tail(calls) = 1..Len(Tail(calls))
  BY HeadTailProperties, EmptySeq, LenProperties
<1>2. Tail(calls) = <<>> <=> Len(calls) = 1 BY <1>1, EmptySeq
<1>3. QED BY <1>1, <1>2

LEMMA ChainOuter ==
  ASSUME NEW calls \in Seq(CallType), calls # <<>>, NEW s, ChainOK(calls, s)
  PROVE  ChainOK(Tail(calls), s)
<1>1. ASSUME NEW i \in DOMAIN Tail(calls)
      PROVE  /\ Tail(calls)[i] = calls[i + 1] /\ i + 1 \in DOMAIN calls
             /\ i + 1 = Len(calls) <=> i = Len(Tail(calls))
  BY OuterIs
<1>2. QED BY <1>1 DEF ChainOK

LEMMA NextRequirementIs ==
  ASSUME NEW calls \in Seq(CallType), calls # <<>>
  PROVE  /\ Len(NextRequirement(calls)) = Len(calls)
         /\ DOMAIN NextRequirement(calls) = DOMAIN calls
         /\ \A i \in DOMAIN calls :
              /\ NextRequirement(calls)[i].name = calls[i].name
              /\ NextRequirement(calls)[i].optional = calls[i].optional
              /\ NextRequirement(calls)[i].requires = calls[i].requires
<1> DEFINE d == [calls[1] EXCEPT !.todo = Tail(@)]
           more == <<d>> \o Tail(calls)
<1>1. NextRequirement(calls) = more BY DEF NextRequirement
<1>2. /\ Tail(calls) \in Seq(CallType) /\ Len(calls) \in Nat \ {0}
      /\ Len(Tail(calls)) = Len(calls) - 1
      /\ \A i \in 1..(Len(calls) - 1) : Tail(calls)[i] = calls[i + 1]
      /\ DOMAIN calls = 1..Len(calls) /\ 1 \in DOMAIN calls
  BY OuterIs
<1>3. d.name = calls[1].name /\ d.optional = calls[1].optional /\ d.requires = calls[1].requires
  <2>1. calls[1] \in CallType BY <1>2
  <2>2. QED BY <2>1 DEF CallType
<1> HIDE DEF d
<1>4. Tail(calls) \in Seq({d} \cup CallType) /\ d \in {d} \cup CallType BY <1>2
<1>5. /\ Len(more) = Len(Tail(calls)) + 1 /\ DOMAIN more = 1..(Len(Tail(calls)) + 1)
      /\ more[1] = d /\ \A i \in 1..Len(Tail(calls)) : more[i + 1] = Tail(calls)[i]
  BY <1>4, PushedIs
<1> HIDE DEF more
<1>6. Len(more) = Len(calls) /\ DOMAIN more = DOMAIN calls BY <1>2, <1>5
<1>7. ASSUME NEW i \in DOMAIN calls
      PROVE  /\ more[i].name = calls[i].name /\ more[i].optional = calls[i].optional
             /\ more[i].requires = calls[i].requires
  <2>1. CASE i = 1 BY <1>3, <1>5, <2>1
  <2>2. CASE i # 1
    <3>1. i - 1 \in 1..(Len(calls) - 1) /\ (i - 1) + 1 = i BY <1>2, <2>2
    <3>2. more[i] = calls[i] BY <1>2, <1>5, <3>1
    <3>3. QED BY <3>2
  <2>3. QED BY <2>1, <2>2
<1>8. QED BY <1>1, <1>6, <1>7

LEMMA ChainNext ==
  ASSUME NEW calls \in Seq(CallType), NEW s, ChainOK(calls, s)
  PROVE  ChainOK(NextRequirement(calls), s)
<1>1. CASE calls = <<>>
  <2>1. NextRequirement(calls) = <<>> BY <1>1 DEF NextRequirement
  <2>2. QED BY <1>1, <2>1
<1>2. CASE calls # <<>> BY <1>2, NextRequirementIs DEF ChainOK
<1>3. QED BY <1>1, <1>2

\* Unless a call may fail, the innermost is for what the entry needs, and so is what is
\* required for it.
LEMMA ChainTop ==
  ASSUME NEW met, NEW known, CallsOK(stack, met, known), stack # <<>>,
         config \in Seq(StageConfig), NEW s \in StageConfig, ChainOK(stack, s), known \subseteq KnownNames,
         \A i \in 1..(Len(stack) - 1) : ~stack[i].optional
  PROVE  /\ Top.name \in Needed(s)
         /\ \A k \in DOMAIN Top.todo : ~Top.todo[k].optional => Top.todo[k].name \in Below(s)
<1>1. stack \in Seq(CallType) /\ 1 \in 1..Len(stack) /\ DOMAIN stack = 1..Len(stack)
        /\ Len(stack) \in Nat
  BY DEF CallsOK
<1>2. Top \in CallType /\ CallOK(Top, met, known) BY <1>1 DEF CallsOK, Top
<1>3. ASSUME NEW t, Top.requires = StageRequires(t), NEW k \in DOMAIN Top.todo, ~Top.todo[k].optional
      PROVE  Top.todo[k].name \in Required(t)
  <2>1. PICK j \in DOMAIN Top.requires : Top.todo[k] = Top.requires[j]
    BY <1>2 DEF CallOK
  <2>2. QED BY <1>3, <2>1 DEF Required
<1>4. CASE 1 = Len(stack)
  <2>1. Top.name = StageName(s) /\ Top.requires = StageRequires(s)
    BY <1>1, <1>4 DEF ChainOK, Top
  <2>2. QED BY <1>3, <2>1, NeededIs DEF Below
<1>5. CASE 1 # Len(stack)
  <2>1. ~Top.optional
    <3>1. 1 \in 1..(Len(stack) - 1) BY <1>1, <1>5
    <3>2. QED BY <3>1 DEF Top
  <2>2. Top.name \in Below(s) /\ Top.requires = StageRequires(ConfigForName(Top.name))
    BY <1>1, <1>5, <2>1 DEF ChainOK, Top
  <2>3. ConfigForName(Top.name) # Error BY <1>2 DEF CallOK, KnownNames
  <2>4. Required(ConfigForName(Top.name)) \subseteq Below(s) BY <2>2, <2>3, BelowClosed
  <2>5. QED BY <1>3, <2>2, <2>4, NeededIs
<1>6. QED BY <1>4, <1>5

\* What stages need depends on the configuration and what is broken.
LEMMA SameNeeds ==
  ASSUME UNCHANGED <<config, broken>>
  PROVE  /\ \A n : ConfigForName(n)' = ConfigForName(n)
         /\ \A s : Below(s)' = Below(s) /\ (CanBuild(s)' <=> CanBuild(s))
         /\ KnownNames' = KnownNames
         /\ \A calls, s : ChainOK(calls, s)' <=> ChainOK(calls, s)
<1>1. \A n : ConfigForName(n)' = ConfigForName(n) BY DEF ConfigForName
<1>2. \A names : RequiredBy(names)' = RequiredBy(names) BY <1>1 DEF RequiredBy
<1>3. \A s : Below(s)' = Below(s) /\ Needed(s)' = Needed(s) BY <1>2 DEF Below, Needed
<1>4. \A n : BuildRaises(n)' <=> BuildRaises(n) BY <1>1 DEF BuildRaises, SlamSkips
<1>5. \A s : CanBuild(s)' <=> CanBuild(s) BY <1>1, <1>3, <1>4 DEF CanBuild
<1>6. KnownNames' = KnownNames BY <1>1 DEF KnownNames
<1>7. \A calls, s : ChainOK(calls, s)' <=> ChainOK(calls, s) BY <1>1, <1>3 DEF ChainOK
<1>8. QED BY <1>1, <1>3, <1>5, <1>6, <1>7

\* What the user wrote for the worker is enabled, and what is required is not optional.
LEMMA WrittenEnabled ==
  ASSUME NEW required, NEW s \in Written(required)
  PROVE  s.enabled /\ s.stage # "inherit" /\ (required => ~s.optional)
<1>1. \A list : \A t \in Taken(list, required) : t.enabled /\ (required => ~t.optional)
  BY DEF Taken
<1>2. \A first : \A t \in OfPresets(first, required) : t.enabled /\ (required => ~t.optional)
  BY <1>1 DEF OfPresets
<1>3. QED BY <1>1, <1>2 DEF Written

\* What the user must get: what is not optional, or can be built.
Must(s) == ~s.optional \/ CanBuild(s)

\* The entry of the configuration that is being built.
Current == config[next - 1]

ChainInv ==
  /\ phase \in {"presets", "camera"} => next = 1
  /\ phase = "build" /\ stack # <<>> => next - 1 \in DOMAIN config /\ ChainOK(stack, Current)

\* What is built is known, and what must be built has been.
ShapesOK ==
  /\ Names(stages) \subseteq KnownNames
  /\ \A i \in DOMAIN stages : \E s \in AnyStage :
       stages[i].name = StageName(s) /\ stages[i].requires = StageRequires(s)

ProgressInv ==
  /\ phase = "build" =>
       \A i \in DOMAIN config : i < next /\ Must(config[i]) =>
         StageName(config[i]) \in Names(stages) \/ (stack # <<>> /\ i = next - 1)
  /\ phase \in {"start", "running", "crashed"} =>
       \A i \in DOMAIN config : Must(config[i]) => StageName(config[i]) \in Names(stages)

\* Inductive, with BuildInv and ConfigGiven.
AskedInv == ChainInv /\ ShapesOK /\ ProgressInv

\* An exception that no inner call may have means that the entry cannot be built.
LEMMA RaiseMeans ==
  ASSUME BuildInv, ChainInv, phase = "build", stack # <<>>,
         \A i \in 1..(Len(stack) - 1) : ~stack[i].optional,
         \/ Top.todo = <<>> /\ BuildRaises(Top.name)
         \/ /\ Top.todo # <<>> /\ ~Head(Top.todo).optional
            /\ ConfigForName(Head(Top.todo).name) = Error
  PROVE  ~CanBuild(Current)
<1>1. CallsOK(stack, Met, KnownNames) /\ config \in Seq(StageConfig)
  BY DEF BuildInv, StackOK, ResolverTyped
<1>2. next - 1 \in DOMAIN config /\ Current \in StageConfig /\ ChainOK(stack, Current)
  BY <1>1 DEF ChainInv, Current
<1>3. /\ Top.name \in Needed(Current)
      /\ \A k \in DOMAIN Top.todo : ~Top.todo[k].optional => Top.todo[k].name \in Below(Current)
  BY <1>1, <1>2, ChainTop
<1>4. CASE BuildRaises(Top.name) BY <1>3, <1>4 DEF CanBuild
<1>5. CASE Top.todo # <<>> /\ ~Head(Top.todo).optional
             /\ ConfigForName(Head(Top.todo).name) = Error
  <2>1. Top.todo \in Seq(Requirement)
    <3>1. stack \in Seq(CallType) /\ 1 \in 1..Len(stack) BY <1>1 DEF CallsOK
    <3>2. Top \in CallType BY <3>1 DEF Top
    <3>3. QED BY <3>2 DEF CallType
  <2>2. 1 \in DOMAIN Top.todo /\ Head(Top.todo) = Top.todo[1] BY <1>5, <2>1
  <2>3. Head(Top.todo).name \in Needed(Current) BY <1>3, <1>5, <2>2, NeededIs
  <2>4. ConfigForName(StageName(Current)) # Error BY <1>1, <1>2, WrittenIsFound DEF Current
  <2>5. QED BY <1>5, <2>3, <2>4 DEF CanBuild
<1>6. QED BY <1>4, <1>5

LEMMA AskedInit == PipelineInit => AskedInv
<1> SUFFICES ASSUME PipelineInit PROVE AskedInv
  OBVIOUS
<1>1. stages = <<>> /\ next = 1 /\ phase = "presets" BY DEF PipelineInit, ResolverInit
<1>2. Names(stages) = {} BY <1>1 DEF Names
<1>3. QED BY <1>1, <1>2 DEF AskedInv, ChainInv, ShapesOK, ProgressInv

LEMMA AskedResolve ==
  ASSUME BuildInv, AskedInv, Resolve
  PROVE  AskedInv'
<1>1. /\ phase \in {"presets", "camera"} /\ phase' \in {"presets", "camera", "build", "failed"}
      /\ UNCHANGED <<next, stack, stages>>
  BY DEF Resolve, ResolverNext, ResolvePreset, PresetsResolved, ProcessOne, pipelineVars
<1>2. stack' = <<>> /\ stages' = <<>> /\ next' = 1
  BY <1>1 DEF BuildInv, Untouched, AskedInv, ChainInv
<1>3. Names(stages)' = {} BY <1>2 DEF Names
<1>4. ChainInv' BY <1>2 DEF ChainInv
<1>5. ShapesOK' BY <1>2, <1>3 DEF ShapesOK
<1>6. ProgressInv'
  <2>1. config' \in Seq(StageConfig)
    <3>1. ResolverTyped' BY ResolverTypedStep DEF BuildInv, Resolve
    <3>2. QED BY <3>1 DEF ResolverTyped
  <2>2. \A i \in DOMAIN config' : ~(i < 1) BY <2>1
  <2>3. QED BY <1>1, <1>2, <2>2 DEF ProgressInv
<1>7. QED BY <1>4, <1>5, <1>6 DEF AskedInv

\* Shapes stay while nothing is built.
LEMMA SameShapes ==
  ASSUME ShapesOK, UNCHANGED <<config, broken, stages>>
  PROVE  ShapesOK' /\ Names(stages)' = Names(stages)
<1>1. Names(stages)' = Names(stages) BY DEF Names
<1>2. QED BY <1>1, SameNeeds DEF ShapesOK

LEMMA AskedBuildEntry ==
  ASSUME BuildInv, AskedInv, ConfigGiven, BuildEntry
  PROVE  AskedInv'
<1>1. /\ phase = "build" /\ stack = <<>> /\ next <= Len(config) /\ next' = next + 1
      /\ UNCHANGED <<phase, config, broken, stages>>
  BY DEF BuildEntry, resolverVars
<1>2. next \in Nat \ {0} /\ config \in Seq(StageConfig)
  BY DEF BuildInv, PipeTyped, ResolverTyped
<1>3. next \in DOMAIN config /\ next' - 1 = next /\ Current' = config[next]
  BY <1>1, <1>2 DEF Current
<1> DEFINE s == config[next]
           c == Call(s, s.optional)
<1>4. s.enabled
  <2>1. s \in ToSet(config) BY <1>3 DEF ToSet
  <2>2. QED BY <2>1, WrittenEnabled DEF ConfigGiven
<1>5. \/ stack' = <<>> /\ StageName(s) \in Names(stages)
      \/ stack' = <<c>>
  BY <1>4 DEF BuildEntry
<1>6. ShapesOK' /\ Names(stages)' = Names(stages) BY <1>1, SameShapes DEF AskedInv
<1> HIDE DEF s
<1>7. ChainInv'
  <2>1. CASE stack' = <<>> BY <1>1, <2>1 DEF ChainInv
  <2>2. CASE stack' = <<c>>
    <3>1. c.name = StageName(s) /\ c.requires = StageRequires(s) /\ c.optional = s.optional
      BY DEF Call
    <3> HIDE DEF c
    <3>2. DOMAIN <<c>> = {1} /\ Len(<<c>>) = 1 /\ <<c>>[1] = c OBVIOUS
    <3>3. ChainOK(<<c>>, s) BY <3>1, <3>2 DEF ChainOK
    <3>5. ChainOK(stack, Current)'
      <4>1. ChainOK(stack, Current)' <=> ChainOK(stack', Current')
        BY <1>1, SameNeeds DEF ChainOK
      <4>2. Current' = s BY <1>3 DEF s
      <4>3. QED BY <2>2, <3>3, <4>1, <4>2
    <3>6. QED BY <1>1, <1>3, <3>5 DEF ChainInv
  <2>3. QED BY <1>5, <2>1, <2>2
<1>8. ProgressInv'
  <2>1. \A t : Must(t)' <=> Must(t) BY <1>1, SameNeeds DEF Must
  <2>2. ASSUME NEW i \in DOMAIN config, i < next + 1, Must(config[i])
        PROVE  StageName(config[i]) \in Names(stages) \/ (stack' # <<>> /\ i = next)
    <3>1. CASE i < next BY <1>1, <2>2, <3>1 DEF AskedInv, ProgressInv
    <3>2. CASE i = next BY <1>5, <3>2 DEF s
    <3>3. QED BY <1>2, <2>2, <3>1, <3>2
  <2>3. QED BY <1>1, <1>3, <1>6, <2>1, <2>2 DEF ProgressInv
<1>9. QED BY <1>6, <1>7, <1>8 DEF AskedInv

\* Steps of build() that build nothing, and either go on for the same entry or leave one
\* that need not be built.
LEMMA AskedNothing ==
  ASSUME BuildInv, AskedInv, phase = "build", UNCHANGED <<config, broken, stages, next>>,
         stack # <<>>,
         \/ phase' = "failed"
         \/ phase' = "build" /\ stack' # <<>> /\ ChainOK(stack', Current)
         \/ phase' = "build" /\ stack' = <<>> /\ ~Must(Current)
  PROVE  AskedInv'
<1>1. ShapesOK' /\ Names(stages)' = Names(stages) BY SameShapes DEF AskedInv
<1>2. Current' = Current BY DEF Current
<1>3. ChainInv'
  <2>1. ChainOK(stack, Current)' <=> ChainOK(stack', Current)
    BY <1>2, SameNeeds DEF ChainOK
  <2>2. next - 1 \in DOMAIN config BY DEF AskedInv, ChainInv
  <2>3. QED BY <2>1, <2>2 DEF ChainInv
<1>4. ProgressInv'
  <2>1. \A t : Must(t)' <=> Must(t) BY SameNeeds DEF Must
  <2>2. \A i \in DOMAIN config : i < next /\ Must(config[i]) =>
          StageName(config[i]) \in Names(stages) \/ i = next - 1
    BY DEF AskedInv, ProgressInv
  <2>3. QED BY <1>1, <2>1, <2>2 DEF ProgressInv, Current
<1>5. QED BY <1>1, <1>3, <1>4 DEF AskedInv

LEMMA NextNonempty ==
  ASSUME NEW calls \in Seq(CallType), calls # <<>>
  PROVE  NextRequirement(calls) # <<>>
<1>1. Len(NextRequirement(calls)) = Len(calls) BY NextRequirementIs
<1>2. Len(calls) # 0 BY EmptySeq
<1>3. QED BY <1>1, <1>2

LEMMA AskedRaise ==
  ASSUME BuildInv, AskedInv, phase = "build", stack # <<>>, Raise,
         UNCHANGED <<config, broken, stages, next>>,
         \/ Top.todo = <<>> /\ BuildRaises(Top.name)
         \/ /\ Top.todo # <<>> /\ ~Head(Top.todo).optional
            /\ ConfigForName(Head(Top.todo).name) = Error
  PROVE  AskedInv' /\ (phase' = "failed" => ~Current.optional /\ ~CanBuild(Current))
<1>1. CallsOK(stack, Met, KnownNames) /\ stack \in Seq(CallType) /\ Len(stack) \in Nat \ {0}
        /\ ChainInv /\ ChainOK(stack, Current)
  <2>1. CallsOK(stack, Met, KnownNames) BY DEF BuildInv, StackOK
  <2>2. stack \in Seq(CallType) BY <2>1 DEF CallsOK
  <2>3. Len(stack) \in Nat \ {0} BY <2>2, EmptySeq
  <2>4. QED BY <2>1, <2>2, <2>3 DEF AskedInv, ChainInv
<1>2. stack[Len(stack)].optional = Current.optional
  <2>1. Len(stack) \in DOMAIN stack BY <1>1
  <2>2. QED BY <1>1, <2>1 DEF ChainOK
<1>3. CASE (\A i \in 1..Len(stack) : ~stack[i].optional) /\ stack' = <<>> /\ phase' = "failed"
  <2>1. \A i \in 1..(Len(stack) - 1) : ~stack[i].optional BY <1>1, <1>3
  <2>2. ~CanBuild(Current) BY <1>1, <2>1, RaiseMeans
  <2>3. ~Current.optional BY <1>1, <1>2, <1>3
  <2>4. QED BY <1>3, <2>2, <2>3, AskedNothing
<1>4. CASE /\ \A i \in 1..(Len(stack) - 1) : ~stack[i].optional
           /\ stack[Len(stack)].optional /\ stack' = <<>> /\ UNCHANGED phase
  <2>1. ~CanBuild(Current) BY <1>1, <1>4, RaiseMeans
  <2>2. ~Must(Current) BY <1>2, <1>4, <2>1 DEF Must
  <2>3. QED BY <1>4, <2>2, AskedNothing
<1>5. CASE Tail(stack) # <<>> /\ stack' = NextRequirement(Tail(stack)) /\ UNCHANGED phase
  <2>1. Tail(stack) \in Seq(CallType) /\ ChainOK(Tail(stack), Current)
    BY <1>1, ChainOuter, HeadTailProperties
  <2>2. ChainOK(stack', Current) BY <1>5, <2>1, ChainNext
  <2>3. stack' # <<>> BY <1>5, <2>1, NextNonempty
  <2>4. QED BY <1>5, <2>2, <2>3, AskedNothing
<1>6. QED BY <1>1, <1>3, <1>4, <1>5, RaiseIs

LEMMA AskedGetStage ==
  ASSUME BuildInv, AskedInv, GetStage
  PROVE  AskedInv' /\ (phase' = "failed" => ~Current.optional /\ ~CanBuild(Current))
<1> DEFINE need == Head(Top.todo)
           s == ConfigForName(need.name)
<1>1. /\ phase = "build" /\ stack # <<>> /\ Top.todo # <<>>
      /\ UNCHANGED <<config, broken, stages, next>>
  BY DEF GetStage
<1>2. \/ stack' = NextRequirement(stack) /\ UNCHANGED phase
      \/ s = Error /\ ~need.optional /\ Raise
      \/ s # Error /\ stack' = <<Call(s, need.optional)>> \o stack /\ UNCHANGED phase
  BY DEF GetStage
<1>3. CallsOK(stack, Met, KnownNames) /\ stack \in Seq(CallType) /\ ChainOK(stack, Current)
        /\ config \in Seq(StageConfig) /\ next - 1 \in DOMAIN config /\ Current \in StageConfig
  <2>1. CallsOK(stack, Met, KnownNames) BY <1>1 DEF BuildInv, StackOK
  <2>2. config \in Seq(StageConfig) BY DEF BuildInv, ResolverTyped
  <2>3. next - 1 \in DOMAIN config BY <1>1 DEF AskedInv, ChainInv
  <2>4. QED BY <1>1, <2>1, <2>2, <2>3 DEF CallsOK, AskedInv, ChainInv, Current
<1>4. CASE stack' = NextRequirement(stack) /\ UNCHANGED phase
  <2>1. ChainOK(stack', Current) /\ stack' # <<>> BY <1>1, <1>3, <1>4, ChainNext, NextNonempty
  <2>2. QED BY <1>1, <1>4, <2>1, AskedNothing
<1>5. CASE s = Error /\ ~need.optional /\ Raise
  BY <1>1, <1>5, AskedRaise
<1>6. CASE s # Error /\ stack' = <<Call(s, need.optional)>> \o stack /\ UNCHANGED phase
  <2> DEFINE c == Call(s, need.optional)
  <2>1. Len(stack) \in Nat \ {0} /\ DOMAIN stack = 1..Len(stack) BY <1>1, <1>3, EmptySeq
  <2>2. Top \in CallType /\ Top.todo \in Seq(Requirement)
    <3>1. 1 \in 1..Len(stack) BY <2>1
    <3>2. Top \in CallType BY <1>3, <3>1 DEF Top
    <3>3. QED BY <3>2 DEF CallType
  <2>3. 1 \in DOMAIN Top.todo /\ need = Top.todo[1] /\ need \in Requirement BY <1>1, <2>2
  <2>4. need.name \in Name BY <2>3 DEF Requirement
  <2>5. StageName(s) = need.name BY <1>3, <1>6, <2>4, ConfigFound
  <2>6. c.name = need.name /\ c.optional = need.optional /\ c.requires = StageRequires(s)
    BY <2>5 DEF Call
  <2>7. c.optional \/ (c.name \in Below(Current) /\ c.requires = StageRequires(ConfigForName(c.name)))
    <3>1. CASE need.optional BY <2>6, <3>1
    <3>2. CASE ~need.optional
      <4>1. \A i \in 1..(Len(stack) - 1) : ~stack[i].optional
        <5> SUFFICES ASSUME NEW i \in 1..(Len(stack) - 1), stack[i].optional PROVE FALSE
          OBVIOUS
        <5>1. i \in 1..Len(stack) /\ i + 1 \in 1..Len(stack) BY <2>1
        <5>2. i = 1 /\ stack[i].todo = <<>> BY <1>3, <5>1, PreferredCall
        <5>3. QED BY <1>1, <5>2 DEF Top
      <4>2. need.name \in Below(Current)
        BY <1>1, <1>3, <2>3, <3>2, <4>1, ChainTop
      <4>3. QED BY <2>6, <4>2
    <3>3. QED BY <3>1, <3>2
  <2> HIDE DEF c, s, need
  <2> DEFINE more == <<c>> \o stack
  <2>8. /\ Len(more) = Len(stack) + 1 /\ DOMAIN more = 1..(Len(stack) + 1)
        /\ more[1] = c /\ \A i \in 1..Len(stack) : more[i + 1] = stack[i]
        /\ more # <<>>
    <3>1. c \in {c} \cup CallType /\ stack \in Seq({c} \cup CallType) BY <1>3
    <3>2. QED BY <3>1, PushedIs
  <2> HIDE DEF more
  <2>9. ChainOK(more, Current)
    <3> SUFFICES ASSUME NEW i \in DOMAIN more
                 PROVE  IF i = Len(more)
                        THEN more[i].name = StageName(Current)
                               /\ more[i].requires = StageRequires(Current)
                               /\ more[i].optional = Current.optional
                        ELSE more[i].optional \/ (more[i].name \in Below(Current)
                               /\ more[i].requires = StageRequires(ConfigForName(more[i].name)))
      BY DEF ChainOK
    <3>1. CASE i = 1 BY <2>1, <2>7, <2>8, <3>1
    <3>2. CASE i # 1
      <4>1. i - 1 \in 1..Len(stack) /\ (i - 1) + 1 = i /\ (i = Len(more) <=> i - 1 = Len(stack))
        BY <2>1, <2>8, <3>2
      <4>2. more[i] = stack[i - 1] BY <2>8, <4>1
      <4>3. QED BY <1>3, <2>1, <4>1, <4>2 DEF ChainOK
    <3>3. QED BY <3>1, <3>2
  <2>10. stack' = more BY <1>6 DEF more, c
  <2>11. QED BY <1>1, <1>6, <2>8, <2>9, <2>10, AskedNothing
<1>7. QED BY <1>2, <1>4, <1>5, <1>6

LEMMA AskedBuilt ==
  ASSUME BuildInv, AskedInv, BuildStage, ~BuildRaises(Top.name)
  PROVE  AskedInv'
<1> DEFINE e == [name |-> Top.name, requires |-> Top.requires]
<1>1. /\ phase = "build" /\ stack # <<>> /\ UNCHANGED <<phase, config, broken, next>>
      /\ stages' = Append(stages, e) /\ stack' = Tail(stack)
  BY DEF BuildStage, Return
<1>2. CallsOK(stack, Met, KnownNames) /\ ChainOK(stack, Current)
        /\ stages \in Seq(BuiltType) /\ next - 1 \in DOMAIN config
  BY <1>1 DEF BuildInv, StackOK, PipeTyped, AskedInv, ChainInv
<1>3. stack \in Seq(CallType) /\ Len(stack) \in Nat \ {0} /\ DOMAIN stack = 1..Len(stack)
        /\ 1 \in 1..Len(stack)
  <2>1. stack \in Seq(CallType) BY <1>2 DEF CallsOK
  <2>2. Len(stack) # 0 BY <1>1, <2>1, EmptySeq
  <2>3. QED BY <2>1, <2>2
<1>4. Top \in CallType /\ CallOK(Top, Met, KnownNames) BY <1>2, <1>3 DEF CallsOK, Top
<1>5. e \in BuiltType /\ e.name = Top.name /\ e.requires = Top.requires
  BY <1>4 DEF CallType, BuiltType
<1> HIDE DEF e
<1>6. /\ DOMAIN stages' = 1..(Len(stages) + 1) /\ Len(stages) \in Nat
      /\ \A i \in 1..Len(stages) : stages'[i] = stages[i]
      /\ stages'[Len(stages) + 1] = e
      /\ DOMAIN stages = 1..Len(stages)
      /\ Names(stages)' = Names(stages) \cup {Top.name}
  BY <1>1, <1>2, <1>5, NamesOfAppended
<1>7. Current' = Current BY <1>1 DEF Current
<1>8. ChainInv'
  <2>1. ChainOK(stack, Current)' <=> ChainOK(stack', Current)
    BY <1>1, <1>7, SameNeeds DEF ChainOK
  <2>2. ChainOK(Tail(stack), Current) BY <1>1, <1>2, <1>3, ChainOuter
  <2>3. QED BY <1>1, <1>2, <2>1, <2>2 DEF ChainInv
<1>9. ShapesOK'
  <2>1. Top.name \in KnownNames
          /\ \E s \in AnyStage : Top.name = StageName(s) /\ Top.requires = StageRequires(s)
    BY <1>4 DEF CallOK
  <2>2. Names(stages)' \subseteq KnownNames' BY <1>1, <1>6, <2>1, SameNeeds DEF AskedInv, ShapesOK
  <2>3. ASSUME NEW i \in DOMAIN stages'
        PROVE  \E s \in AnyStage :
                 stages'[i].name = StageName(s) /\ stages'[i].requires = StageRequires(s)
    <3>1. CASE i \in 1..Len(stages) BY <1>6, <3>1 DEF AskedInv, ShapesOK
    <3>2. CASE i \notin 1..Len(stages)
      <4>1. i = Len(stages) + 1 BY <1>6, <3>2
      <4>2. QED BY <1>5, <1>6, <2>1, <4>1
    <3>3. QED BY <3>1, <3>2
  <2>4. QED BY <2>2, <2>3 DEF ShapesOK
<1>10. ProgressInv'
  <2>1. \A t : Must(t)' <=> Must(t) BY <1>1, SameNeeds DEF Must
  <2>2. stack' = <<>> => Top.name = StageName(Current)
    <3> SUFFICES ASSUME stack' = <<>> PROVE Top.name = StageName(Current)
      OBVIOUS
    <3>1. Len(Tail(stack)) = Len(stack) - 1 BY <1>1, <1>3, HeadTailProperties
    <3>2. 1 = Len(stack) BY <1>1, <1>3, <3>1
    <3>3. QED BY <1>2, <1>3, <3>2 DEF ChainOK, Top
  <2>3. ASSUME NEW i \in DOMAIN config, i < next, Must(config[i])
        PROVE  StageName(config[i]) \in Names(stages)' \/ (stack' # <<>> /\ i = next - 1)
    <3>1. StageName(config[i]) \in Names(stages) \/ i = next - 1
      BY <1>1, <2>3 DEF AskedInv, ProgressInv
    <3>2. QED BY <1>6, <2>2, <3>1 DEF Current
  <2>4. QED BY <1>1, <2>1, <2>3 DEF ProgressInv
<1>11. QED BY <1>8, <1>9, <1>10 DEF AskedInv

LEMMA AskedBuildStage ==
  ASSUME BuildInv, AskedInv, BuildStage
  PROVE  AskedInv' /\ (phase' = "failed" => ~Current.optional /\ ~CanBuild(Current))
<1>1. CASE ~BuildRaises(Top.name)
  <2>1. phase' = "build" BY <1>1 DEF BuildStage
  <2>2. QED BY <1>1, <2>1, AskedBuilt
<1>2. CASE BuildRaises(Top.name)
  <2>1. /\ phase = "build" /\ stack # <<>> /\ Raise /\ Top.todo = <<>>
        /\ UNCHANGED <<config, broken, next, stages>>
    BY <1>2 DEF BuildStage
  <2>2. QED BY <1>2, <2>1, AskedRaise
<1>3. QED BY <1>1, <1>2

\* After build(), nothing of this changes.
LEMMA AskedLater ==
  ASSUME BuildInv, AskedInv, UNCHANGED <<config, broken, stages>>,
         phase' \in {"start", "running", "crashed", "failed"},
         \/ phase \in {"start", "running", "crashed"}
         \/ phase = "build" /\ stack = <<>> /\ next > Len(config)
  PROVE  AskedInv'
<1>1. ShapesOK' /\ Names(stages)' = Names(stages) BY SameShapes DEF AskedInv
<1>2. ChainInv' BY DEF ChainInv
<1>3. \A t : Must(t)' <=> Must(t) BY SameNeeds DEF Must
<1>4. \A i \in DOMAIN config : Must(config[i]) => StageName(config[i]) \in Names(stages)
  <2>1. CASE phase \in {"start", "running", "crashed"} BY <2>1 DEF AskedInv, ProgressInv
  <2>2. CASE phase = "build" /\ stack = <<>> /\ next > Len(config)
    <3>1. config \in Seq(StageConfig) /\ next \in Nat
      BY DEF BuildInv, ResolverTyped, PipeTyped
    <3>2. \A i \in DOMAIN config : i < next BY <2>2, <3>1
    <3>3. QED BY <2>2, <3>2 DEF AskedInv, ProgressInv
  <2>3. QED BY <2>1, <2>2
<1>5. ProgressInv' BY <1>1, <1>3, <1>4 DEF ProgressInv
<1>6. QED BY <1>1, <1>2, <1>5 DEF AskedInv

LEMMA AskedSame ==
  ASSUME AskedInv, UNCHANGED <<phase, config, broken, stages, next, stack>>
  PROVE  AskedInv'
<1>1. ShapesOK' /\ Names(stages)' = Names(stages) BY SameShapes DEF AskedInv
<1>2. Current' = Current BY DEF Current
<1>3. ChainOK(stack, Current)' <=> ChainOK(stack, Current) BY <1>2, SameNeeds DEF ChainOK
<1>4. \A t : Must(t)' <=> Must(t) BY SameNeeds DEF Must
<1>5. ChainInv' BY <1>3 DEF AskedInv, ChainInv
<1>6. ProgressInv' BY <1>1, <1>4 DEF AskedInv, ProgressInv
<1>7. QED BY <1>1, <1>5, <1>6 DEF AskedInv

-----------------------------------------------------------------------------
(* What the worker is given, and what it fails for *)

\* Inductive: what the resolver has done, and what it gave to the worker.
GivenInv == ResolvedInv /\ ConfigGiven

LEMMA GivenInit == PipelineInit => GivenInv
<1> SUFFICES ASSUME PipelineInit PROVE GivenInv
  OBVIOUS
<1>1. ResolvedInv BY ResolvedInit_Inv DEF PipelineInit
<1>2. config = <<>> /\ phase = "presets" BY DEF PipelineInit, ResolverInit
<1>3. ToSet(<<>>) = {} BY DEF ToSet
<1>4. ConfigGiven BY <1>2, <1>3 DEF ConfigGiven
<1>5. QED BY <1>1, <1>4 DEF GivenInv

LEMMA GivenLater ==
  ASSUME GivenInv, UNCHANGED <<presets, camera, pipelines, done, config>>,
         \/ phase' = phase
         \/ phase \in {"build", "start", "running", "crashed"}
              /\ phase' \in {"build", "start", "running", "crashed", "failed"}
  PROVE  GivenInv'
<1>1. /\ \A i, required : OfPreset(i, required)' = OfPreset(i, required)
      /\ \A required : Written(required)' = Written(required)
      /\ \A id, n : LastPreset(id, n)' = LastPreset(id, n)
  BY WrittenSame
<1>2. ResolvedInv' BY <1>1 DEF GivenInv, ResolvedInv, Gives
<1>3. ConfigGiven' BY <1>1 DEF GivenInv, ConfigGiven
<1>4. QED BY <1>2, <1>3 DEF GivenInv

LEMMA GivenResolve ==
  ASSUME BuildInv, GivenInv, Resolve
  PROVE  GivenInv'
BY ResolvedStep, ConfigGivenStep DEF BuildInv, GivenInv, Resolve

\* What OptionalIsOptional gives as reasons depends on what does not change.
LEMMA ReasonsSame ==
  ASSUME Reasons,
         UNCHANGED <<presets, camera, unreadable, config, broken, unstartable, stages>>
  PROVE  Reasons'
<1>1. \A id, n : LastPreset(id, n)' = LastPreset(id, n) BY DEF LastPreset
<1>2. \A list, n : CannotResolve(list, n)' <=> CannotResolve(list, n)
  BY <1>1 DEF CannotResolve
<1>3. \A s : CanBuild(s)' <=> CanBuild(s) BY SameNeeds
<1>4. Names(stages)' = Names(stages) BY DEF Names
<1>5. SelectorKnown' <=> SelectorKnown BY DEF SelectorKnown
<1>6. QED BY <1>2, <1>3, <1>4, <1>5 DEF Reasons, CannotBuild

\* A list that cannot be resolved has a stage that must be, and cannot.
LEMMA ListFails ==
  ASSUME ResolverTyped, ResolvedInv, NEW list \in Seq(StageConfig), ResolveStages(list) = Error
  PROVE  CannotResolve(list, done)
<1>1. \E i \in DOMAIN list : ResolveStage(list[i]) = Error
  <2> SUFFICES ASSUME \A i \in DOMAIN list : ResolveStage(list[i]) # Error PROVE FALSE
    OBVIOUS
  <2> DEFINE seqs == [i \in DOMAIN list |-> ResolveStage(list[i])]
  <2>1. ResolveStages(list) = FlattenSeq(seqs) BY DEF ResolveStages
  <2>2. \A i \in DOMAIN list : ResolveStage(list[i]) \in Seq(StageConfig)
    BY ResolvedStageTyped
  <2>3. DOMAIN list = 1..Len(list) /\ Len(list) \in Nat BY LenProperties
  <2>4. seqs \in [1..Len(list) -> Seq(StageConfig)] BY <2>2, <2>3
  <2>5. seqs \in Seq(Seq(StageConfig)) BY <2>3, <2>4, SeqDef
  <2> HIDE DEF seqs
  <2>6. FlattenSeq(seqs) \in Seq(StageConfig) BY <2>5, FlattenTyped
  <2>7. QED BY <2>1, <2>6, ResolverAssumption
<1>2. PICK i \in DOMAIN list : ResolveStage(list[i]) = Error BY <1>1
<1> DEFINE s == list[i]
<1>3. s \in StageConfig /\ <<>> \in Seq(StageConfig) /\ <<s>> \in Seq(StageConfig) OBVIOUS
<1>4. Error # <<>> /\ Error # <<s>> BY <1>3, ResolverAssumption
<1>5. s.enabled /\ ~s.optional /\ StageResult(s) = Error BY <1>2, <1>4 DEF ResolveStage
<1>6. s \in Taken(list, TRUE) BY <1>5 DEF Taken
<1> HIDE DEF s
<1>7. CASE s.stage # "inherit"
  <2>1. s.stage \in unreadable BY <1>4, <1>5, <1>7 DEF StageResult, ResolveFiles
  <2>2. QED BY <1>6, <2>1 DEF CannotResolve
<1>8. CASE s.stage = "inherit"
  <2>1. s.arg \notin DOMAIN pipelines
    <3> SUFFICES ASSUME s.arg \in DOMAIN pipelines PROVE FALSE
      OBVIOUS
    <3>1. pipelines[s.arg] = Error BY <1>5, <1>8 DEF StageResult
    <3>2. pipelines[s.arg] \in Seq(StageConfig) BY DEF ResolverTyped
    <3>3. QED BY <3>1, <3>2, ResolverAssumption
  <2>2. LastPreset(s.arg, done) = {} BY <2>1, LastOfKnown
  <2>3. QED BY <1>6, <1>8, <2>2 DEF CannotResolve
<1>9. QED BY <1>7, <1>8

-----------------------------------------------------------------------------
(* CameraPipeline: what is started *)

\* What start() has done for a stage: its requirements run, or are preferences that were
\* not built.
StartMet == {r \in Requirement : r.name \in runtimes \/ (r.optional /\ r.name \notin Names(stages))}

\* The calls of _start_stage are for stages that have what they require.
Provided(calls) ==
  \A i \in DOMAIN calls : \A j \in DOMAIN calls[i].requires :
    calls[i].requires[j].optional \/ calls[i].requires[j].name \in Names(stages)

StartedSoFar ==
  \A i \in DOMAIN stages : i < next =>
    \/ stages[i].name \in runtimes
    \/ stack # <<>> /\ i = next - 1 /\ stack[Len(stack)].name = stages[i].name

\* Who shows frames is attached to a stream that runs.
AttachedOK ==
  \A n \in runtimes : n[1] \in {"web", "show"} =>
    <<"xout", n[2]>> \in runtimes /\ <<<<"xout", n[2]>>, n>> \in handlers

\* Inductive, with BuildInv and AskedInv.
StartInv ==
  /\ phase = "start" => CallsOK(stack, StartMet, Names(stages)) /\ Provided(stack) /\ StartedSoFar
  /\ phase = "running" => Names(stages) \subseteq runtimes
  /\ AttachedOK

LEMMA StartInit == PipelineInit => StartInv
BY DEF PipelineInit, ResolverInit, StartInv, AttachedOK

\* Before start() and after it.
LEMMA StartSame ==
  ASSUME StartInv, UNCHANGED <<stages, runtimes, handlers>>,
         phase' # "start", phase' = "running" => phase = "running"
  PROVE  StartInv'
<1>1. Names(stages)' = Names(stages) BY DEF Names
<1>2. QED BY <1>1 DEF StartInv, AttachedOK

LEMMA StartUnchanged ==
  ASSUME StartInv, UNCHANGED <<phase, next, stack, stages, runtimes, handlers>>
  PROVE  StartInv'
<1>1. Names(stages)' = Names(stages) BY DEF Names
<1>2. StartMet' = StartMet BY <1>1 DEF StartMet
<1>3. Provided(stack)' <=> Provided(stack) BY <1>1 DEF Provided
<1>4. StartedSoFar' <=> StartedSoFar BY DEF StartedSoFar
<1>5. QED BY <1>1, <1>2, <1>3, <1>4 DEF StartInv, AttachedOK

LEMMA StartBuilt ==
  ASSUME BuildInv, StartInv, Built
  PROVE  StartInv'
<1>1. /\ phase' = "start" /\ next' = 1 /\ stack' = <<>>
      /\ UNCHANGED <<stages, runtimes, handlers>>
  BY DEF Built
<1>2. stages \in Seq(BuiltType) BY DEF BuildInv, PipeTyped
<1>3. \A i \in DOMAIN stages : ~(i < 1) BY <1>2
<1>4. StartedSoFar' BY <1>1, <1>3 DEF StartedSoFar
<1>5. Provided(stack)' BY <1>1 DEF Provided
<1>6. CallsOK(stack', StartMet', Names(stages)') BY <1>1, NoCalls
<1>7. QED BY <1>1, <1>4, <1>5, <1>6 DEF StartInv, AttachedOK

\* The stages that are there have names, and what they require.
LEMMA BuiltStage ==
  ASSUME BuildInv, AskedInv, NEW i \in DOMAIN stages
  PROVE  /\ stages[i].name \in Name /\ stages[i].requires \in Seq(Requirement)
         /\ stages[i].name \in Names(stages)
         /\ \E s \in AnyStage :
              stages[i].name = StageName(s) /\ stages[i].requires = StageRequires(s)
         /\ \A j \in DOMAIN stages[i].requires :
              stages[i].requires[j].optional \/ stages[i].requires[j].name \in Names(stages)
<1>1. stages \in Seq(BuiltType) /\ OrderOK BY DEF BuildInv, PipeTyped, BuiltOK
<1>2. stages[i] \in BuiltType BY <1>1
<1>3. ASSUME NEW j \in DOMAIN stages[i].requires, ~stages[i].requires[j].optional
      PROVE  stages[i].requires[j].name \in Names(stages)
  <2>1. PICK k \in 1 .. (i - 1) : stages[k].name = stages[i].requires[j].name
    BY <1>1, <1>3 DEF OrderOK
  <2>2. k \in DOMAIN stages BY <1>1
  <2>3. QED BY <2>1, <2>2 DEF Names
<1>4. QED BY <1>2, <1>3 DEF BuiltType, Names, AskedInv, ShapesOK

\* A call of _start_stage for a stage.
LEMMA StartCall ==
  ASSUME BuildInv, AskedInv, NEW i \in DOMAIN stages, NEW optional \in BOOLEAN, NEW met,
         NEW c, c = [name |-> stages[i].name, optional |-> optional,
                     requires |-> stages[i].requires, todo |-> stages[i].requires]
  PROVE  c \in CallType /\ CallOK(c, met, Names(stages)) /\ Provided(<<c>>)
<1>1. /\ stages[i].name \in Name /\ stages[i].requires \in Seq(Requirement)
      /\ stages[i].name \in Names(stages)
      /\ \E s \in AnyStage :
           stages[i].name = StageName(s) /\ stages[i].requires = StageRequires(s)
      /\ \A j \in DOMAIN stages[i].requires :
           stages[i].requires[j].optional \/ stages[i].requires[j].name \in Names(stages)
  BY BuiltStage
<1>2. c \in CallType BY <1>1 DEF CallType
<1>3. c.name = stages[i].name /\ c.requires = stages[i].requires /\ c.todo = stages[i].requires
  OBVIOUS
<1>4. CallOK(c, met, Names(stages)) BY <1>1, <1>3 DEF CallOK
<1>5. Provided(<<c>>)
  <2>1. DOMAIN <<c>> = {1} /\ <<c>>[1] = c OBVIOUS
  <2>2. QED BY <1>1, <1>3, <2>1 DEF Provided
<1>6. QED BY <1>2, <1>4, <1>5

LEMMA StartEntryKeeps ==
  ASSUME BuildInv, AskedInv, StartInv, StartEntry
  PROVE  StartInv'
<1> DEFINE c == [name |-> stages[next].name, optional |-> FALSE,
                 requires |-> stages[next].requires, todo |-> stages[next].requires]
<1>1. /\ phase = "start" /\ phase' = "start" /\ stack = <<>> /\ next <= Len(stages)
      /\ next' = next + 1 /\ UNCHANGED <<stages, runtimes, handlers>>
      /\ \/ stack' = <<>> /\ stages[next].name \in runtimes
         \/ stack' = <<c>>
  BY DEF StartEntry, resolverVars
<1>2. next \in Nat \ {0} /\ stages \in Seq(BuiltType) BY DEF BuildInv, PipeTyped
<1>3. next \in DOMAIN stages BY <1>1, <1>2
<1>4. c \in CallType /\ CallOK(c, StartMet, Names(stages)) /\ Provided(<<c>>)
  BY <1>3, StartCall
<1>5. c.name = stages[next].name OBVIOUS
<1> HIDE DEF c
<1>6. Names(stages)' = Names(stages) BY <1>1 DEF Names
<1>7. StartMet' = StartMet BY <1>1, <1>6 DEF StartMet
<1>8. CallsOK(stack', StartMet', Names(stages)')
  BY <1>1, <1>4, <1>6, <1>7, NoCalls, OneCall
<1>9. Provided(stack)'
  <2>1. CASE stack' = <<>> BY <2>1 DEF Provided
  <2>2. CASE stack' = <<c>> BY <1>4, <1>6, <2>2 DEF Provided
  <2>3. QED BY <1>1, <2>1, <2>2
<1>10. StartedSoFar'
  <2>1. ASSUME NEW i \in DOMAIN stages, i < next + 1
        PROVE  \/ stages[i].name \in runtimes
               \/ stack' # <<>> /\ i = next /\ stack'[Len(stack')].name = stages[i].name
    <3>1. CASE i < next BY <1>1, <3>1 DEF StartInv, StartedSoFar
    <3>2. CASE i = next
      <4>1. Len(<<c>>) = 1 /\ <<c>>[1] = c /\ <<c>> # <<>> OBVIOUS
      <4>2. CASE stack' = <<c>>
        <5>1. stack'[Len(stack')] = c /\ stack' # <<>> BY <4>1, <4>2
        <5>2. QED BY <1>5, <3>2, <5>1
      <4>3. QED BY <1>1, <3>2, <4>2
    <3>3. QED BY <1>2, <2>1, <3>1, <3>2
  <2>2. next' - 1 = next BY <1>1, <1>2
  <2>3. QED BY <1>1, <2>1, <2>2 DEF StartedSoFar
<1>11. QED BY <1>1, <1>8, <1>9, <1>10 DEF StartInv, AttachedOK

\* The next requirement is met, or there is something to start for it.
LEMMA StartRequirementKeeps ==
  ASSUME BuildInv, AskedInv, StartInv, StartRequirement
  PROVE  StartInv' /\ phase' = "start"
<1> DEFINE need == Head(Top.todo)
           there == {i \in DOMAIN stages : stages[i].name = need.name}
           c == [name |-> need.name, optional |-> need.optional,
                 requires |-> stages[Min(there)].requires, todo |-> stages[Min(there)].requires]
<1>1. /\ phase = "start" /\ stack # <<>> /\ Top.todo # <<>>
      /\ UNCHANGED <<next, stages, runtimes, handlers>>
  BY DEF StartRequirement
<1>2. \/ /\ need.name \in runtimes \/ (there = {} /\ need.optional)
         /\ stack' = NextRequirement(stack) /\ UNCHANGED phase
      \/ there = {} /\ ~need.optional
      \/ there # {} /\ stack' = <<c>> \o stack /\ UNCHANGED phase
  BY DEF StartRequirement
<1>3. CallsOK(stack, StartMet, Names(stages)) /\ Provided(stack) /\ StartedSoFar
  BY <1>1 DEF StartInv
<1>4. stack \in Seq(CallType) /\ 1 \in DOMAIN stack /\ DOMAIN stack = 1..Len(stack)
  <2>1. stack \in Seq(CallType) BY <1>3 DEF CallsOK
  <2>2. QED BY <1>1, <2>1, EmptySeq
<1>5. Top \in CallType /\ CallOK(Top, StartMet, Names(stages)) BY <1>3, <1>4 DEF CallsOK, Top
<1>6. 1 \in DOMAIN Top.todo /\ need = Top.todo[1] /\ need \in Requirement
  <2>1. Top.todo \in Seq(Requirement) BY <1>5 DEF CallType
  <2>2. QED BY <1>1, <2>1
<1>7. need.optional \/ need.name \in Names(stages)
  <2>1. PICK j \in DOMAIN Top.requires : need = Top.requires[j] BY <1>5, <1>6 DEF CallOK
  <2>2. QED BY <1>3, <1>4, <2>1 DEF Provided, Top
<1>8. there = {} <=> need.name \notin Names(stages) BY DEF Names
<1>9. Names(stages)' = Names(stages) BY <1>1 DEF Names
<1>10. StartMet' = StartMet BY <1>1, <1>9 DEF StartMet
<1> HIDE DEF need
<1>11. CASE /\ need.name \in runtimes \/ (there = {} /\ need.optional)
            /\ stack' = NextRequirement(stack) /\ UNCHANGED phase
  <2>1. need \in StartMet BY <1>6, <1>8, <1>11 DEF StartMet
  <2>2. CallsOK(stack', StartMet', Names(stages)')
    BY <1>1, <1>3, <1>9, <1>10, <1>11, <2>1, RequirementDone DEF Top, need
  <2>3. /\ Len(stack') = Len(stack) /\ DOMAIN stack' = DOMAIN stack /\ stack' # <<>>
        /\ \A i \in DOMAIN stack : stack'[i].name = stack[i].name
                                    /\ stack'[i].requires = stack[i].requires
    BY <1>1, <1>4, <1>11, NextRequirementIs, NextNonempty
  <2>4. Provided(stack)' BY <1>3, <1>9, <2>3 DEF Provided
  <2>5. StartedSoFar'
    <3>1. stack'[Len(stack')].name = stack[Len(stack)].name BY <1>4, <2>3
    <3>2. QED BY <1>1, <1>3, <2>3, <3>1 DEF StartedSoFar
  <2>6. QED BY <1>1, <1>11, <2>2, <2>4, <2>5 DEF StartInv, AttachedOK
<1>12. CASE there # {} /\ stack' = <<c>> \o stack /\ UNCHANGED phase
  <2>1. stages \in Seq(BuiltType) BY DEF BuildInv, PipeTyped
  <2>2. there \in SUBSET Nat BY <2>1
  <2>3. Min(there) \in there BY <1>12, <2>2, MinIsLeast
  <2> DEFINE k == Min(there)
  <2>4. k \in DOMAIN stages /\ stages[k].name = need.name /\ need.optional \in BOOLEAN
          /\ need = [name |-> need.name, optional |-> need.optional]
    BY <1>6, <2>3 DEF Requirement
  <2>5. c = [name |-> stages[k].name, optional |-> need.optional,
             requires |-> stages[k].requires, todo |-> stages[k].requires]
    BY <2>4
  <2>6. c.name = need.name /\ c.optional = need.optional OBVIOUS
  <2> HIDE DEF c, k, there
  <2>7. c \in CallType /\ CallOK(c, StartMet, Names(stages)) /\ Provided(<<c>>)
    BY <2>4, <2>5, StartCall
  <2>8. CallsFor(c, stack[1]) BY <1>1, <1>5, <2>4, <2>6 DEF CallsFor, need, Top
  <2>9. CallsOK(stack', StartMet', Names(stages)')
    BY <1>1, <1>3, <1>9, <1>10, <1>12, <2>7, <2>8, InnerCall
  <2>10. /\ Len(stack') = Len(stack) + 1 /\ DOMAIN stack' = 1..(Len(stack) + 1)
         /\ Len(stack) \in Nat \ {0}
         /\ stack'[1] = c /\ \A i \in 1..Len(stack) : stack'[i + 1] = stack[i]
         /\ stack' # <<>>
    BY <1>4, <1>12, <2>7, PushedIs
  <2>11. Provided(stack)'
    <3>1. \A j \in DOMAIN c.requires :
            c.requires[j].optional \/ c.requires[j].name \in Names(stages)
      <4>1. 1 \in DOMAIN <<c>> /\ <<c>>[1] = c OBVIOUS
      <4>2. QED BY <2>7, <4>1 DEF Provided
    <3>2. ASSUME NEW i \in DOMAIN stack'
          PROVE  stack'[i] = c \/ \E m \in DOMAIN stack : stack'[i] = stack[m]
      <4>1. CASE i = 1 BY <2>10, <4>1
      <4>2. CASE i # 1
        <5>1. i - 1 \in 1..Len(stack) /\ (i - 1) + 1 = i BY <2>10, <4>2
        <5>2. QED BY <1>4, <2>10, <5>1
      <4>3. QED BY <4>1, <4>2
    <3>3. QED BY <1>3, <1>9, <3>1, <3>2 DEF Provided
  <2>12. StartedSoFar'
    <3>1. stack'[Len(stack')] = stack[Len(stack)] BY <2>10
    <3>2. QED BY <1>1, <1>3, <2>10, <3>1 DEF StartedSoFar
  <2>13. QED BY <1>1, <1>12, <2>9, <2>11, <2>12 DEF StartInv, AttachedOK
<1>13. QED BY <1>2, <1>7, <1>8, <1>11, <1>12

LEMMA StartStageKeeps ==
  ASSUME BuildInv, AskedInv, StartInv, StartStage
  PROVE  StartInv' /\ (phase' = "failed" => Top.name \in unstartable \cap Names(stages))
<1>1. phase = "start" /\ stack # <<>> /\ Top.todo = <<>> /\ UNCHANGED <<next, stages>>
  BY DEF StartStage
<1>2. CallsOK(stack, StartMet, Names(stages)) /\ Provided(stack) /\ StartedSoFar
  BY <1>1 DEF StartInv
<1>3. /\ stack \in Seq(CallType) /\ Len(stack) \in Nat \ {0}
      /\ Tail(stack) \in Seq(CallType) /\ Len(Tail(stack)) = Len(stack) - 1
      /\ DOMAIN stack = 1..Len(stack) /\ DOMAIN Tail(stack) = 1..(Len(stack) - 1)
      /\ \A i \in 1..(Len(stack) - 1) : Tail(stack)[i] = stack[i + 1] /\ i + 1 \in DOMAIN stack
      /\ Tail(stack) = <<>> <=> Len(stack) = 1
  BY <1>1, <1>2, OuterIs DEF CallsOK
<1>4. Top \in CallType /\ CallOK(Top, StartMet, Names(stages)) BY <1>2, <1>3 DEF CallsOK, Top
<1>5. Names(stages)' = Names(stages) BY <1>1 DEF Names
<1>6. CASE Top.name \in unstartable
  <2>1. phase' = "failed" /\ UNCHANGED <<runtimes, handlers>> BY <1>6 DEF StartStage
  <2>2. StartInv' BY <1>1, <2>1, StartSame
  <2>3. QED BY <1>4, <1>6, <2>2 DEF CallOK
<1>7. CASE Top.name \notin unstartable
  <2>1. /\ phase' = "start" /\ stack' = Tail(stack) /\ runtimes' = runtimes \cup {Top.name}
        /\ handlers' = handlers \cup Attached(Top)
    BY <1>1, <1>7 DEF StartStage, Return
  <2>2. StartMet \subseteq StartMet' BY <1>5, <2>1 DEF StartMet
  <2>3. CallsOK(stack', StartMet', Names(stages)')
    <3>1. CallsOK(stack', StartMet, Names(stages)) BY <1>1, <1>2, <2>1, OuterCalls
    <3>2. QED BY <1>5, <2>2, <3>1, MoreMet
  <2>4. Provided(stack)'
    <3>1. \A i \in DOMAIN stack' : \E m \in DOMAIN stack : stack'[i] = stack[m]
      BY <1>3, <2>1
    <3>2. QED BY <1>2, <1>5, <3>1 DEF Provided
  <2>5. StartedSoFar'
    <3>1. CASE stack' = <<>>
      <4>1. stack[Len(stack)] = Top BY <1>3, <2>1, <3>1 DEF Top
      <4>2. QED BY <1>1, <1>2, <2>1, <4>1 DEF StartedSoFar
    <3>2. CASE stack' # <<>>
      <4>1. Len(stack) - 1 \in 1..(Len(stack) - 1) /\ (Len(stack) - 1) + 1 = Len(stack)
        BY <1>3, <2>1, <3>2
      <4>2. stack'[Len(stack')] = stack[Len(stack)] BY <1>3, <2>1, <4>1
      <4>3. QED BY <1>1, <1>2, <2>1, <3>2, <4>2 DEF StartedSoFar
    <3>3. QED BY <3>1, <3>2
  <2>6. ASSUME Top.name[1] \in {"web", "show"}
        PROVE  /\ <<"xout", Top.name[2]>> \in runtimes
               /\ <<<<"xout", Top.name[2]>>, Top.name>> \in Attached(Top)
    <3>1. PICK s \in AnyStage : Top.name = StageName(s) /\ Top.requires = StageRequires(s)
      BY <1>4 DEF CallOK
    <3>2. s.stage = Top.name[1] BY <3>1, StageNameTyped
    <3>3. Top.name = <<s.stage, s.target>> BY <2>6, <3>1, <3>2 DEF StageName
    <3>4. Top.name[2] = s.target BY <3>3
    <3>5. Top.requires = <<Requires("xout", s.target)>>
      BY <2>6, <3>1, <3>2 DEF StageRequires, WebRequires, ShowRequires
    <3>6. 1 \in DOMAIN Top.requires /\ Top.requires[1] = Requires("xout", s.target) BY <3>5
    <3>7. Top.requires[1] \in StartMet BY <1>1, <1>4, <3>6 DEF CallOK
    <3>8. Requires("xout", s.target).name = <<"xout", s.target>>
            /\ ~Requires("xout", s.target).optional
      BY DEF Requires
    <3>9. <<"xout", s.target>> \in runtimes BY <3>6, <3>7, <3>8 DEF StartMet
    <3>10. <<<<"xout", s.target>>, Top.name>> \in Attached(Top)
      BY <2>6, <3>6, <3>8 DEF Attached
    <3>11. QED BY <3>4, <3>9, <3>10
  <2>7. AttachedOK'
    <3> SUFFICES ASSUME NEW n \in runtimes', n[1] \in {"web", "show"}
                 PROVE  <<"xout", n[2]>> \in runtimes' /\ <<<<"xout", n[2]>>, n>> \in handlers'
      BY DEF AttachedOK
    <3>1. CASE n \in runtimes BY <2>1, <3>1 DEF StartInv, AttachedOK
    <3>2. CASE n = Top.name BY <2>1, <2>6, <3>2
    <3>3. QED BY <2>1, <3>1, <3>2
  <2>8. QED BY <2>1, <2>3, <2>4, <2>5, <2>7 DEF StartInv
<1>8. QED BY <1>6, <1>7

LEMMA StartedKeeps ==
  ASSUME BuildInv, StartInv, Started
  PROVE  StartInv'
<1>1. /\ phase = "start" /\ stack = <<>> /\ next > Len(stages) /\ phase' = "running"
      /\ UNCHANGED <<stages, runtimes, handlers>>
  BY DEF Started, pipelineVars
<1>2. next \in Nat /\ stages \in Seq(BuiltType) BY DEF BuildInv, PipeTyped
<1>3. \A i \in DOMAIN stages : i < next BY <1>1, <1>2
<1>4. \A i \in DOMAIN stages : stages[i].name \in runtimes
  BY <1>1, <1>3 DEF StartInv, StartedSoFar
<1>5. Names(stages)' \subseteq runtimes' BY <1>1, <1>4 DEF Names
<1>6. QED BY <1>1, <1>5 DEF StartInv, AttachedOK

-----------------------------------------------------------------------------
(* CameraPipeline: what was asked for *)

\* Inductive.
WholeInv == BuildInv /\ GivenInv /\ AskedInv /\ StartInv /\ OptionalIsOptional

LEMMA WholeInit == PipelineInit => WholeInv
<1>1. PipelineInit => OptionalIsOptional BY DEF PipelineInit, ResolverInit, OptionalIsOptional
<1>2. QED BY <1>1, BuildInit_Inv, GivenInit, AskedInit, StartInit DEF WholeInv

LEMMA WholeResolve ==
  ASSUME WholeInv, Resolve
  PROVE  WholeInv'
<1>1. BuildInv' BY ResolveKeeps DEF WholeInv
<1>2. GivenInv' BY GivenResolve DEF WholeInv
<1>3. AskedInv' BY AskedResolve DEF WholeInv
<1>4. /\ phase' \in {"presets", "camera", "build", "failed"}
      /\ UNCHANGED <<broken, unstartable, stages, runtimes, handlers>>
      /\ UNCHANGED <<presets, camera, unreadable>>
  BY DEF Resolve, ResolverNext, ResolvePreset, PresetsResolved, ProcessOne, pipelineVars
<1>5. StartInv' BY <1>4, StartSame DEF WholeInv
<1>6. OptionalIsOptional'
  <2>1. ResolverTyped /\ ResolvedInv BY DEF WholeInv, BuildInv, GivenInv
  <2> SUFFICES ASSUME phase' = "failed" PROVE Reasons'
    BY DEF OptionalIsOptional
  <2>2. ~PresetsResolved BY DEF PresetsResolved
  <2>3. UNCHANGED config BY DEF Resolve, ResolverNext, ResolvePreset, PresetsResolved, ProcessOne
  <2>4. CASE ResolvePreset
    <3> DEFINE i == done + 1
    <3>1. done < Len(presets) /\ ResolveStages(presets[i].stages) = Error
      BY <2>4 DEF ResolvePreset
    <3>2. i \in DOMAIN presets /\ i - 1 = done
      BY <2>1, <3>1 DEF ResolverTyped
    <3> HIDE DEF i
    <3>3. presets[i].stages \in Seq(StageConfig)
      <4>1. presets[i] \in PipelineDefinition BY <2>1, <3>2 DEF ResolverTyped
      <4>2. QED BY <4>1 DEF PipelineDefinition
    <3>4. CannotResolve(presets[i].stages, i - 1) BY <2>1, <3>1, <3>2, <3>3, ListFails DEF i
    <3>5. Reasons BY <3>2, <3>4 DEF Reasons
    <3>6. QED BY <1>4, <2>3, <3>5, ReasonsSame
  <2>5. CASE ProcessOne
    <3>1. phase = "camera" /\ (~SelectorKnown \/ ResolvePipeline = Error)
      BY <2>5 DEF ProcessOne
    <3>2. CASE ~SelectorKnown
      <4>1. Reasons BY <3>2 DEF Reasons
      <4>2. QED BY <1>4, <2>3, <4>1, ReasonsSame
    <3>3. CASE ResolvePipeline = Error
      <4>1. camera.pipeline \in {"none", "preset", "stages"} /\ camera.stages \in Seq(StageConfig)
        BY <2>1 DEF ResolverTyped, CameraConfig
      <4>2. done = Len(presets) BY <2>1, <3>1 DEF ResolvedInv
      <4>3. \A list \in Seq(StageConfig) : list # Error BY ResolverAssumption
      <4>4. <<>> # Error
        <5>1. <<>> \in Seq(StageConfig) OBVIOUS
        <5>2. QED BY <4>3, <5>1
      <4>5. camera.pipeline = "stages"
        <5>1. CASE camera.pipeline = "none" BY <3>3, <4>4, <5>1 DEF ResolvePipeline
        <5>2. CASE camera.pipeline = "preset"
          BY <2>1, <3>3, <4>3, <4>4, <5>2 DEF ResolvePipeline, ResolverTyped
        <5>3. QED BY <4>1, <5>1, <5>2
      <4>6. ResolveStages(camera.stages) = Error BY <3>3, <4>5 DEF ResolvePipeline
      <4>7. CannotResolve(camera.stages, Len(presets)) BY <2>1, <4>1, <4>2, <4>6, ListFails
      <4>8. Reasons BY <4>7 DEF Reasons
      <4>9. QED BY <1>4, <2>3, <4>8, ReasonsSame
    <3>4. QED BY <3>1, <3>2, <3>3
  <2>6. QED BY <2>2, <2>4, <2>5 DEF Resolve, ResolverNext
<1>7. QED BY <1>1, <1>2, <1>3, <1>5, <1>6 DEF WholeInv

\* The steps of build() and start(), and of a worker at work.
LEMMA WholeGiven ==
  ASSUME WholeInv, UNCHANGED <<presets, camera, pipelines, done, config>>,
         phase \in {"build", "start", "running"},
         phase' \in {"build", "start", "running", "crashed", "failed"}
  PROVE  GivenInv'
BY GivenLater DEF WholeInv

LEMMA WholePrepare ==
  ASSUME WholeInv, PipelineNext, ~Resolve
  PROVE  WholeInv'
<1>1. BuildInv' BY PipelineStep_Inv DEF WholeInv
<1>2. /\ UNCHANGED <<presets, camera, unreadable, pipelines, done, config>>
      /\ UNCHANGED <<broken, unstartable>>
      /\ phase \in {"build", "start", "running"}
      /\ phase' \in {"build", "start", "running", "failed"}
  BY DEF PipelineNext, BuildEntry, GetStage, BuildStage, Built, StartEntry, StartRequirement,
     StartStage, Started, Raise, resolverVars, pipelineVars
<1>3. GivenInv' BY <1>2, WholeGiven
<1>4. CASE BuildEntry
  <2>1. phase' = "build" /\ UNCHANGED <<stages, runtimes, handlers>>
    BY <1>4 DEF BuildEntry, resolverVars
  <2>2. AskedInv' BY <1>4, AskedBuildEntry DEF WholeInv, GivenInv
  <2>3. StartInv' BY <2>1, StartSame DEF WholeInv
  <2>4. QED BY <1>1, <1>3, <2>1, <2>2, <2>3 DEF WholeInv, OptionalIsOptional
<1>5. ASSUME GetStage \/ BuildStage PROVE WholeInv'
  <2>1. /\ phase = "build" /\ phase' \in {"build", "failed"} /\ stack # <<>>
        /\ UNCHANGED <<runtimes, handlers>>
        /\ phase' = "failed" => UNCHANGED stages
    BY <1>5 DEF GetStage, BuildStage, Raise
  <2>2. AskedInv' /\ (phase' = "failed" => ~Current.optional /\ ~CanBuild(Current))
    BY <1>5, AskedGetStage, AskedBuildStage DEF WholeInv
  <2>3. StartInv'
    <3>1. AttachedOK' BY <2>1 DEF WholeInv, StartInv, AttachedOK
    <3>2. QED BY <2>1, <3>1 DEF StartInv
  <2>4. OptionalIsOptional'
    <3> SUFFICES ASSUME phase' = "failed" PROVE Reasons'
      BY DEF OptionalIsOptional
    <3>1. next - 1 \in DOMAIN config BY <2>1 DEF WholeInv, AskedInv, ChainInv
    <3>2. CannotBuild(config[next - 1]) BY <2>2 DEF CannotBuild, Current
    <3>3. Reasons BY <3>1, <3>2 DEF Reasons
    <3>4. QED BY <1>2, <2>1, <3>3, ReasonsSame
  <2>5. QED BY <1>1, <1>3, <2>2, <2>3, <2>4 DEF WholeInv
<1>6. CASE Built
  <2>1. phase = "build" /\ stack = <<>> /\ next > Len(config) /\ phase' = "start"
          /\ UNCHANGED stages
    BY <1>6 DEF Built
  <2>2. AskedInv' BY <1>2, <2>1, AskedLater DEF WholeInv
  <2>3. StartInv' BY <1>6, StartBuilt DEF WholeInv
  <2>4. QED BY <1>1, <1>3, <2>1, <2>2, <2>3 DEF WholeInv, OptionalIsOptional
<1>7. CASE StartEntry
  <2>1. phase = "start" /\ phase' = "start" /\ UNCHANGED stages
    BY <1>7 DEF StartEntry, resolverVars
  <2>2. AskedInv' BY <1>2, <2>1, AskedLater DEF WholeInv
  <2>3. StartInv' BY <1>7, StartEntryKeeps DEF WholeInv
  <2>4. QED BY <1>1, <1>3, <2>1, <2>2, <2>3 DEF WholeInv, OptionalIsOptional
<1>8. CASE StartRequirement
  <2>1. StartInv' /\ phase' = "start" BY <1>8, StartRequirementKeeps DEF WholeInv
  <2>2. phase = "start" /\ UNCHANGED stages BY <1>8 DEF StartRequirement
  <2>3. AskedInv' BY <1>2, <2>1, <2>2, AskedLater DEF WholeInv
  <2>4. QED BY <1>1, <1>3, <2>1, <2>3 DEF WholeInv, OptionalIsOptional
<1>9. CASE StartStage
  <2>1. phase = "start" /\ phase' \in {"start", "failed"} /\ UNCHANGED stages
    BY <1>9 DEF StartStage
  <2>2. StartInv' /\ (phase' = "failed" => Top.name \in unstartable \cap Names(stages))
    BY <1>9, StartStageKeeps DEF WholeInv
  <2>3. AskedInv' BY <1>2, <2>1, AskedLater DEF WholeInv
  <2>4. OptionalIsOptional'
    <3> SUFFICES ASSUME phase' = "failed" PROVE Reasons'
      BY DEF OptionalIsOptional
    <3>1. Reasons BY <2>2 DEF Reasons
    <3>2. QED BY <1>2, <2>1, <3>1, ReasonsSame
  <2>5. QED BY <1>1, <1>3, <2>2, <2>3, <2>4 DEF WholeInv
<1>10. CASE Started
  <2>1. phase = "start" /\ phase' = "running" /\ UNCHANGED stages
    BY <1>10 DEF Started, pipelineVars
  <2>2. AskedInv' BY <1>2, <2>1, AskedLater DEF WholeInv
  <2>3. StartInv' BY <1>10, StartedKeeps DEF WholeInv
  <2>4. QED BY <1>1, <1>3, <2>1, <2>2, <2>3 DEF WholeInv, OptionalIsOptional
<1>11. QED BY <1>4, <1>5, <1>6, <1>7, <1>8, <1>9, <1>10 DEF PipelineNext

LEMMA WholeStep ==
  ASSUME WholeInv, [RuntimeNext]_allPipelineVars
  PROVE  WholeInv'
<1>1. BuildInv' BY RuntimeStep_Inv DEF WholeInv
<1>2. ASSUME UNCHANGED vars PROVE WholeInv'
  <2>1. /\ UNCHANGED <<presets, camera, unreadable, pipelines, done, config, phase>>
        /\ UNCHANGED <<broken, unstartable, next, stack, stages, runtimes, handlers>>
    BY <1>2 DEF vars, resolverVars, pipelineVars
  <2>2. GivenInv' BY <2>1, GivenLater DEF WholeInv
  <2>3. AskedInv' BY <2>1, AskedSame DEF WholeInv
  <2>4. StartInv' BY <2>1, StartUnchanged DEF WholeInv
  <2>5. OptionalIsOptional' BY <2>1, ReasonsSame DEF WholeInv, OptionalIsOptional
  <2>6. QED BY <1>1, <2>2, <2>3, <2>4, <2>5 DEF WholeInv
<1>3. CASE phase = "running" /\ Crash
  <2>1. /\ UNCHANGED <<presets, camera, unreadable, pipelines, done, config>>
        /\ UNCHANGED <<broken, unstartable, next, stack, stages, runtimes, handlers>>
        /\ phase' = "crashed"
    BY <1>3 DEF Crash, pipelineVars
  <2>2. GivenInv' BY <1>3, <2>1, WholeGiven
  <2>3. AskedInv' BY <1>3, <2>1, AskedLater DEF WholeInv
  <2>4. StartInv' BY <2>1, StartSame DEF WholeInv
  <2>5. OptionalIsOptional' BY <2>1 DEF OptionalIsOptional
  <2>6. QED BY <1>1, <2>2, <2>3, <2>4, <2>5 DEF WholeInv
<1>4. CASE Prepare
  <2>1. PipelineNext BY <1>4 DEF Prepare
  <2>2. QED BY <2>1, WholeResolve, WholePrepare
<1>5. CASE UNCHANGED allPipelineVars BY <1>2, <1>5 DEF allPipelineVars
<1>6. QED BY <1>2, <1>3, <1>4, <1>5, RuntimeStep_Vars

\* Nothing that is optional, of a preset, of the configuration or of what a stage prefers,
\* brings the worker down: what fails names a reason that is not optional
\* (_resolve_stage, optional_stage, _build_stage, _get_stage, _start_stage).
THEOREM OptionalIsOptionalHolds == RuntimeSpec => []OptionalIsOptional
<1>1. RuntimeInit => WholeInv BY WholeInit DEF RuntimeInit
<1>2. WholeInv /\ [RuntimeNext]_allPipelineVars => WholeInv' BY WholeStep
<1>3. WholeInv => OptionalIsOptional BY DEF WholeInv
<1>4. QED BY <1>1, <1>2, <1>3, PTL DEF RuntimeSpec

LEMMA WholeAsked ==
  ASSUME WholeInv
  PROVE  WhatWasAsked
<1>1. config \in Seq(StageConfig) /\ ToSet(config) \subseteq Written(FALSE)
  BY DEF WholeInv, BuildInv, ResolverTyped, GivenInv, ConfigGiven
<1>2. ASSUME NEW i \in DOMAIN config
      PROVE  config[i] \in Written(FALSE) /\ config[i].stage \in WorkerStageNames
  <2>1. config[i] \in StageConfig BY <1>1
  <2>2. config[i] \in Written(FALSE) BY <1>1 DEF ToSet
  <2>3. config[i].stage # "inherit" BY <2>2, WrittenEnabled
  <2>4. QED BY <2>1, <2>2, <2>3 DEF StageConfig, WorkerStageNames
<1>3. ASSUME phase = "running"
      PROVE  /\ \A s \in Written(TRUE) : StageName(s) \in runtimes
             /\ \A i \in DOMAIN config : CanBuild(config[i]) => StageName(config[i]) \in runtimes
             /\ AttachedOK
  <2>1. Names(stages) \subseteq runtimes /\ AttachedOK BY <1>3 DEF WholeInv, StartInv
  <2>2. \A i \in DOMAIN config : Must(config[i]) => StageName(config[i]) \in Names(stages)
    BY <1>3 DEF WholeInv, AskedInv, ProgressInv
  <2>3. ASSUME NEW s \in Written(TRUE) PROVE StageName(s) \in runtimes
    <3>1. s \in ToSet(config) BY <1>3 DEF WholeInv, GivenInv, ConfigGiven
    <3>2. PICK i \in DOMAIN config : s = config[i] BY <3>1 DEF ToSet
    <3>3. ~s.optional BY WrittenEnabled
    <3>4. QED BY <2>1, <2>2, <3>2, <3>3 DEF Must
  <2>4. QED BY <2>1, <2>2, <2>3 DEF Must
<1>4. ASSUME NEW n \in Names(stages)
      PROVE  n[1] \in Inferable \/ \E s \in Written(FALSE) : StageName(s) = n
  <2>1. ConfigForName(n) # Error BY DEF WholeInv, AskedInv, ShapesOK, KnownNames
  <2>2. n[1] \in Inferable \/ {i \in DOMAIN config : StageName(config[i]) = n} # {}
    BY <2>1 DEF ConfigForName
  <2>3. QED BY <1>2, <2>2
<1>5. QED BY <1>2, <1>3, <1>4 DEF WhatWasAsked, AttachedOK

\* The worker gets what the user asked for, through however many presets: all that is
\* enabled and not optional, what is optional if it can be built, and nothing that was
\* disabled (process_one, _resolve_stage, _config_for_name, build, start).
THEOREM WhatWasAskedHolds == RuntimeSpec => []WhatWasAsked
<1>1. RuntimeInit => WholeInv BY WholeInit DEF RuntimeInit
<1>2. WholeInv /\ [RuntimeNext]_allPipelineVars => WholeInv' BY WholeStep
<1>3. WholeInv => WhatWasAsked BY WholeAsked
<1>4. QED BY <1>1, <1>2, <1>3, PTL DEF RuntimeSpec

-----------------------------------------------------------------------------
(* CameraRuntime: the events of a stream *)

\* Where in a queue the events of stream s are.
Positions(queue, s) == {i \in DOMAIN queue : queue[i] = s}
Count(queue, s) == Cardinality(Positions(queue, s))

LEMMA PositionsFinite ==
  ASSUME NEW S, NEW queue \in Seq(S), NEW s
  PROVE  IsFiniteSet(Positions(queue, s)) /\ Count(queue, s) \in Nat
<1>1. IsFiniteSet(1..Len(queue)) BY FS_Interval, LenProperties
<1>2. Positions(queue, s) \in SUBSET (1..Len(queue)) BY LenProperties DEF Positions
<1>3. IsFiniteSet(Positions(queue, s)) BY <1>1, <1>2, FS_Subset
<1>4. QED BY <1>3, FS_CardinalityType DEF Count

\* A queue of which k events are taken from the front.
LEMMA CountSplit ==
  ASSUME NEW S, NEW queue \in Seq(S), NEW k \in 0..Len(queue), NEW s
  PROVE  /\ SubSeq(queue, 1, k) \in Seq(S) /\ SubSeq(queue, k + 1, Len(queue)) \in Seq(S)
         /\ Count(queue, s) =
              Count(SubSeq(queue, 1, k), s) + Count(SubSeq(queue, k + 1, Len(queue)), s)
<1> DEFINE n == Len(queue)
           front == SubSeq(queue, 1, k)
           rest == SubSeq(queue, k + 1, n)
           P == Positions(queue, s)
           F == Positions(front, s)
           R == Positions(rest, s)
           Moved == {i \in P : i > k}
           Shift == [i \in R |-> i + k]
<1>1. n \in Nat /\ DOMAIN queue = 1..n /\ k \in Nat /\ k <= n
  BY LenProperties
<1>2. /\ front \in Seq(S) /\ Len(front) = k
      /\ \A i \in 1..k : front[i] = queue[i]
  <2>1. \A i \in 1..k : queue[i] \in S BY <1>1, ElementOfSeq
  <2>2. 1 \in Int /\ k \in Int /\ (1 <= k => k - 1 + 1 = k) /\ (~(1 <= k) => k = 0) BY <1>1
  <2>3. QED BY <2>1, <2>2, SubSeqProperties
<1>3. /\ rest \in Seq(S) /\ Len(rest) = n - k
      /\ \A i \in 1..(n - k) : rest[i] = queue[i + k]
  <2>1. \A i \in (k + 1)..n : queue[i] \in S BY <1>1, ElementOfSeq
  <2>2. k + 1 \in Int /\ n \in Int BY <1>1
  <2>3. /\ rest \in Seq(S)
        /\ Len(rest) = IF k + 1 <= n THEN n - (k + 1) + 1 ELSE 0
        /\ \A i \in 1 .. n - (k + 1) + 1 : rest[i] = queue[k + 1 + i - 1]
    BY <2>1, <2>2, SubSeqProperties
  <2> HIDE DEF n, rest
  <2>4. n - (k + 1) + 1 = n - k /\ (~(k + 1 <= n) => n - k = 0) BY <1>1
  <2>5. ASSUME NEW i \in 1..(n - k) PROVE k + 1 + i - 1 = i + k BY <1>1
  <2>6. QED BY <2>3, <2>4, <2>5
<1>4. DOMAIN front = 1..k /\ DOMAIN rest = 1..(n - k)
  BY <1>2, <1>3, LenProperties
<1>5. F = {i \in P : i <= k}
  BY <1>1, <1>2, <1>4 DEF Positions
<1>6. \A i : i \in R <=> i \in 1..(n - k) /\ queue[i + k] = s
  BY <1>3, <1>4 DEF Positions
<1>7. \A i : i \in P <=> i \in 1..n /\ queue[i] = s
  BY <1>1 DEF Positions
<1>8. IsFiniteSet(P) /\ IsFiniteSet(F) /\ IsFiniteSet(R)
  BY <1>2, <1>3, PositionsFinite
<1> HIDE DEF n, P, F, R
<1>9. Shift \in Bijection(R, Moved)
  <2>1. ASSUME NEW i \in R PROVE i + k \in Moved
    BY <1>1, <1>6, <1>7
  <2>2. ASSUME NEW i \in R, NEW j \in R, Shift[i] = Shift[j] PROVE i = j
    BY <1>1, <1>6, <2>2
  <2>3. ASSUME NEW t \in Moved PROVE \E i \in R : Shift[i] = t
    <3>1. t \in 1..n /\ t > k /\ queue[t] = s BY <1>7
    <3>2. t - k \in 1..(n - k) /\ (t - k) + k = t BY <1>1, <3>1
    <3>3. t - k \in R BY <1>6, <3>1, <3>2
    <3>4. Shift[t - k] = t BY <3>2, <3>3
    <3>5. QED BY <3>3, <3>4
  <2>4. Shift \in [R -> Moved] BY <2>1
  <2> HIDE DEF Shift, Moved
  <2>5. QED BY <2>2, <2>3, <2>4, Fun_IsBij
<1>10. Cardinality(Moved) = Cardinality(R)
  <2>1. ExistsBijection(R, Moved) BY <1>9 DEF ExistsBijection
  <2>2. QED BY <1>8, <2>1, FS_Bijection
<1>11. Cardinality(P) = Cardinality(F) + Cardinality(Moved)
  <2>1. P = F \cup Moved /\ F \cap Moved = {} BY <1>1, <1>5, <1>7
  <2>2. IsFiniteSet(Moved)
    <3>1. Moved \in SUBSET P OBVIOUS
    <3>2. QED BY <1>8, <3>1, FS_Subset
  <2>3. Cardinality(F \cap Moved) = 0 BY <2>1, FS_EmptySet
  <2>4. Cardinality(F) \in Nat /\ Cardinality(Moved) \in Nat BY <1>8, <2>2, FS_CardinalityType
  <2> HIDE DEF Moved
  <2>5. Cardinality(F \cup Moved) = Cardinality(F) + Cardinality(Moved) - Cardinality(F \cap Moved)
    BY <1>8, <2>2, FS_Union
  <2>6. QED BY <2>1, <2>3, <2>4, <2>5
<1>12. QED BY <1>2, <1>3, <1>10, <1>11 DEF Count, P, F, R, n

LEMMA CountOfNone == \A s : Count(<<>>, s) = 0
<1>1. ASSUME NEW s PROVE Positions(<<>>, s) = {} BY DEF Positions
<1>2. QED BY <1>1, FS_EmptySet DEF Count

LEMMA CountOfOne ==
  ASSUME NEW e, NEW s
  PROVE  Count(<<e>>, s) = IF e = s THEN 1 ELSE 0
<1>1. DOMAIN <<e>> = {1} /\ <<e>>[1] = e OBVIOUS
<1>2. CASE e = s
  <2>1. Positions(<<e>>, s) = {1} BY <1>1, <1>2 DEF Positions
  <2>2. QED BY <1>2, <2>1, FS_Singleton DEF Count
<1>3. CASE e # s
  <2>1. Positions(<<e>>, s) = {} BY <1>1, <1>3 DEF Positions
  <2>2. QED BY <1>3, <2>1, FS_EmptySet DEF Count
<1>4. QED BY <1>2, <1>3

LEMMA CountTail ==
  ASSUME NEW S, NEW queue \in Seq(S), queue # <<>>, NEW s
  PROVE  /\ Tail(queue) \in Seq(S)
         /\ Count(queue, s) = Count(Tail(queue), s) + (IF Head(queue) = s THEN 1 ELSE 0)
<1>1. Len(queue) \in Nat /\ 1 \in 0..Len(queue) /\ 1 \in 1..Len(queue) BY EmptySeq, LenProperties
<1>2. Tail(queue) = SubSeq(queue, 1 + 1, Len(queue)) BY TailIsSubSeq
<1>3. SubSeq(queue, 1, 1) = <<Head(queue)>>
  <2>1. 1 \in 1..Len(queue) /\ 1 \in 1..Len(queue) BY <1>1
  <2>2. SubSeq(queue, 1, 1) = <<queue[1]>> \o SubSeq(queue, 1 + 1, 1)
    BY <2>1, SubSeqRecursiveFirst
  <2>3. SubSeq(queue, 1 + 1, 1) = <<>> BY SubSeqEmpty
  <2>4. Head(queue) = queue[1] BY HeadTailProperties
  <2>5. <<queue[1]>> \in Seq(S) BY <2>1, ElementOfSeq
  <2>6. QED BY <2>2, <2>3, <2>4, <2>5, ConcatEmptySeq
<1>4. /\ SubSeq(queue, 1 + 1, Len(queue)) \in Seq(S)
      /\ Count(queue, s) =
              Count(SubSeq(queue, 1, 1), s) + Count(SubSeq(queue, 1 + 1, Len(queue)), s)
  BY <1>1, CountSplit
<1>5. Count(Tail(queue), s) \in Nat BY <1>2, <1>4, PositionsFinite
<1>6. Count(<<Head(queue)>>, s) = IF Head(queue) = s THEN 1 ELSE 0 BY CountOfOne
<1>7. Count(queue, s) = Count(<<Head(queue)>>, s) + Count(Tail(queue), s)
  BY <1>2, <1>3, <1>4
<1>8. QED BY <1>2, <1>4, <1>5, <1>6, <1>7

LEMMA CountAppend ==
  ASSUME NEW S, NEW queue \in Seq(S), NEW e \in S, NEW s
  PROVE  Count(Append(queue, e), s) = Count(queue, s) + (IF e = s THEN 1 ELSE 0)
<1> DEFINE more == Append(queue, e)
           n == Len(queue)
<1>1. /\ more \in Seq(S) /\ Len(more) = n + 1 /\ n \in Nat
      /\ \A i \in 1..n : more[i] = queue[i]
      /\ more[n + 1] = e /\ DOMAIN more = 1..(n + 1) /\ DOMAIN queue = 1..n
  BY AppendProperties, LenProperties
<1> HIDE DEF more, n
<1>2. IsFiniteSet(Positions(queue, s)) /\ Count(queue, s) \in Nat BY PositionsFinite
<1>3. n + 1 \notin Positions(queue, s) BY <1>1 DEF Positions
<1>4. CASE e = s
  <2>1. Positions(more, s) = Positions(queue, s) \cup {n + 1}
    BY <1>1, <1>4 DEF Positions
  <2>2. QED BY <1>2, <1>3, <1>4, <2>1, FS_AddElement DEF Count, more
<1>5. CASE e # s
  <2>1. Positions(more, s) = Positions(queue, s)
    BY <1>1, <1>5 DEF Positions
  <2>2. QED BY <1>2, <1>5, <2>1 DEF Count, more
<1>6. QED BY <1>4, <1>5

StreamsOfRuntimes == {StreamOf(n) : n \in runtimes}

PacketTypeOK ==
  /\ held \in [Streams -> Nat]
  /\ events \in Seq(StreamsOfRuntimes) /\ serving \in Seq(StreamsOfRuntimes)

\* Nothing comes before the worker runs, and a poll serves all of the events it took.
Quiet ==
  /\ phase \notin {"running", "crashed"} =>
       /\ \A s \in Streams : held[s] = 0
       /\ events = <<>> /\ serving = <<>> /\ polling = FALSE
  /\ polling = FALSE => serving = <<>>

\* Inductive.
PacketInv == PacketTypeOK /\ Quiet /\ NoPacketStranded

LEMMA AnnouncedCounts ==
  \A s : Announced(s) = Count(events, s) + Count(serving, s)
BY DEF Announced, Count, Positions

LEMMA AnnouncedNat ==
  ASSUME PacketTypeOK, NEW s
  PROVE  Announced(s) \in Nat /\ Count(events, s) \in Nat /\ Count(serving, s) \in Nat
BY AnnouncedCounts, PositionsFinite DEF PacketTypeOK

LEMMA PacketInit_Inv == RuntimeInit => PacketInv
<1> SUFFICES ASSUME RuntimeInit PROVE PacketInv
  OBVIOUS
<1>1. PacketTypeOK /\ Quiet
  BY DEF RuntimeInit, PacketTypeOK, Quiet
<1>2. phase # "running" BY DEF RuntimeInit, PipelineInit, ResolverInit
<1>3. QED BY <1>1, <1>2 DEF PacketInv, NoPacketStranded

\* Steps of build() and start(), before there are packets.
LEMMA PreparePackets ==
  ASSUME PacketInv, Prepare
  PROVE  PacketInv'
<1>1. phase \notin {"running", "crashed"}
  BY DEF Prepare, PipelineNext, Resolve, ResolverNext, ResolvePreset, PresetsResolved, ProcessOne,
         BuildEntry, GetStage, BuildStage, Built, StartEntry, StartRequirement, StartStage, Started
<1>2. UNCHANGED <<held, events, serving, polling>> BY DEF Prepare, runtimeVars
<1>3. events' = <<>> /\ serving' = <<>> /\ polling' = FALSE /\ held' \in [Streams -> Nat]
        /\ \A s \in Streams : held'[s] = 0
  BY <1>1, <1>2 DEF PacketInv, Quiet, PacketTypeOK
<1>4. PacketTypeOK' /\ Quiet' BY <1>3 DEF PacketTypeOK, Quiet
<1>5. \A s : Announced(s)' = 0
  <2>1. \A s : Count(<<>>, s) = 0 BY CountOfNone
  <2>2. \A s : Announced(s)' = Count(events', s) + Count(serving', s)
    BY DEF Announced, Count, Positions
  <2>3. QED BY <1>3, <2>1, <2>2
<1>6. NoPacketStranded'
  BY <1>3, <1>5 DEF NoPacketStranded
<1>7. QED BY <1>4, <1>6 DEF PacketInv

LEMMA UnchangedPackets ==
  ASSUME PacketInv, UNCHANGED <<runtimes, held, events, serving>>,
         polling' = polling \/ (polling' = FALSE /\ serving = <<>>),
         phase' = phase \/ (phase = "running" /\ phase' = "crashed")
  PROVE  PacketInv'
<1>1. StreamsOfRuntimes' = StreamsOfRuntimes BY DEF StreamsOfRuntimes
<1>2. PacketTypeOK' BY <1>1 DEF PacketInv, PacketTypeOK
<1>3. Quiet' BY DEF PacketInv, Quiet
<1>4. \A s : Announced(s)' = Announced(s) BY DEF Announced
<1>5. NoPacketStranded' BY <1>4 DEF PacketInv, NoPacketStranded
<1>6. QED BY <1>2, <1>3, <1>5 DEF PacketInv

LEMMA ArrivePackets ==
  ASSUME PacketInv, NEW n \in runtimes, Arrive(n)
  PROVE  PacketInv'
<1> DEFINE s == StreamOf(n)
           size == QueueSize(s)
           more == Min({held[s] + 1, size})
<1>1. /\ phase = "running" /\ phase' = phase /\ runtimes' = runtimes
      /\ held' = [held EXCEPT ![s] = more] /\ events' = Append(events, s)
      /\ UNCHANGED <<serving, polling>>
  BY DEF Arrive, vars, resolverVars, pipelineVars
<1>2. s \in StreamsOfRuntimes BY DEF StreamsOfRuntimes
<1>3. size \in Nat BY DEF QueueSize
<1> HIDE DEF s, size
<1>4. s \in Streams => more \in Nat /\ more <= held[s] + 1
  <2>1. ASSUME s \in Streams PROVE more \in Nat /\ more <= held[s] + 1
    <3>1. held[s] + 1 \in Nat BY <2>1 DEF PacketInv, PacketTypeOK
    <3>2. {held[s] + 1, size} \in SUBSET Nat /\ {held[s] + 1, size} # {} BY <1>3, <3>1
    <3>3. more \in {held[s] + 1, size} /\ \A x \in {held[s] + 1, size} : more <= x
      BY <3>2, MinIsLeast
    <3> HIDE DEF more
    <3>4. QED BY <3>2, <3>3
  <2>2. QED BY <2>1
<1> HIDE DEF more
<1>5. StreamsOfRuntimes' = StreamsOfRuntimes BY <1>1 DEF StreamsOfRuntimes
<1>6. held' \in [Streams -> Nat] BY <1>1, <1>4 DEF PacketInv, PacketTypeOK
<1>7. events' \in Seq(StreamsOfRuntimes)
  BY <1>1, <1>2, AppendProperties DEF PacketInv, PacketTypeOK
<1>8. PacketTypeOK' BY <1>1, <1>5, <1>6, <1>7 DEF PacketInv, PacketTypeOK
<1>9. Quiet' BY <1>1 DEF PacketInv, Quiet
<1>10. ASSUME NEW r \in Streams PROVE held'[r] <= Announced(r)'
  <2>1. held[r] <= Announced(r) /\ held[r] \in Nat
    BY <1>1 DEF PacketInv, NoPacketStranded, PacketTypeOK
  <2>2. Announced(r) \in Nat /\ Count(events, r) \in Nat /\ Count(serving, r) \in Nat
    BY AnnouncedNat DEF PacketInv
  <2>3. Announced(r) = Count(events, r) + Count(serving, r) BY AnnouncedCounts
  <2>4. Announced(r)' = Count(events', r) + Count(serving', r)
    BY DEF Announced, Count, Positions
  <2>5. Count(events', r) = Count(events, r) + (IF s = r THEN 1 ELSE 0)
    BY <1>1, <1>2, CountAppend DEF PacketInv, PacketTypeOK
  <2>6. Announced(r)' = Announced(r) + (IF s = r THEN 1 ELSE 0)
    BY <1>1, <2>2, <2>3, <2>4, <2>5
  <2>7. CASE s = r
    <3>1. held'[r] = more /\ more \in Nat /\ more <= held[r] + 1
      BY <1>1, <1>4, <2>7 DEF PacketInv, PacketTypeOK
    <3>2. QED BY <2>1, <2>2, <2>6, <2>7, <3>1
  <2>8. CASE s # r
    <3>1. held'[r] = held[r] BY <1>1, <2>8 DEF PacketInv, PacketTypeOK
    <3>2. QED BY <2>1, <2>2, <2>6, <2>8, <3>1
  <2>9. QED BY <2>7, <2>8
<1>11. NoPacketStranded' BY <1>10 DEF NoPacketStranded
<1>12. QED BY <1>8, <1>9, <1>11 DEF PacketInv

\* poll() takes events: they count as before, since the last poll left none.
LEMMA PollBeginPackets ==
  ASSUME PacketInv, PollBegin
  PROVE  PacketInv'
<1> DEFINE taken == Min({2, Len(events)})
<1>1. /\ phase = "running"
      /\ serving' = SubSeq(events, 1, taken)
      /\ events' = SubSeq(events, taken + 1, Len(events))
      /\ polling' = TRUE
      /\ UNCHANGED <<phase, runtimes, held>>
  BY DEF PollBegin, vars, resolverVars, pipelineVars
<1>2. taken \in 0..Len(events)
  <2>1. Len(events) \in Nat BY LenProperties DEF PacketInv, PacketTypeOK
  <2>2. {2, Len(events)} \in SUBSET Nat /\ {2, Len(events)} # {} BY <2>1
  <2>3. taken \in {2, Len(events)} /\ \A x \in {2, Len(events)} : taken <= x
    BY <2>2, MinIsLeast
  <2> HIDE DEF taken
  <2>4. QED BY <2>1, <2>3
<1> HIDE DEF taken
<1>3. StreamsOfRuntimes' = StreamsOfRuntimes BY <1>1 DEF StreamsOfRuntimes
<1>4. events \in Seq(StreamsOfRuntimes) BY DEF PacketInv, PacketTypeOK
<1>5. serving = <<>> BY DEF PollBegin, PacketInv, Quiet
<1>6. ASSUME NEW s
      PROVE  /\ serving' \in Seq(StreamsOfRuntimes) /\ events' \in Seq(StreamsOfRuntimes)
             /\ Count(events, s) = Count(serving', s) + Count(events', s)
  BY <1>1, <1>2, <1>4, CountSplit
<1>7. PacketTypeOK' BY <1>1, <1>3, <1>6 DEF PacketInv, PacketTypeOK
<1>8. Quiet' BY <1>1 DEF PacketInv, Quiet
<1>9. ASSUME NEW s PROVE Announced(s)' = Announced(s)
  <2>1. Count(serving, s) = 0 BY <1>5, CountOfNone
  <2>2. Count(events, s) \in Nat BY AnnouncedNat DEF PacketInv
  <2>3. Announced(s)' = Count(events', s) + Count(serving', s)
    BY DEF Announced, Count, Positions
  <2>4. Count(events', s) \in Nat /\ Count(serving', s) \in Nat
    BY <1>6, PositionsFinite
  <2>5. Announced(s) = Count(events, s) + Count(serving, s) BY AnnouncedCounts
  <2>6. QED BY <1>6, <2>1, <2>2, <2>3, <2>4, <2>5
<1>10. NoPacketStranded' BY <1>1, <1>9 DEF PacketInv, NoPacketStranded
<1>11. QED BY <1>7, <1>8, <1>10 DEF PacketInv

\* One event less, and one packet less, if there was any.
LEMMA PollEventPackets ==
  ASSUME PacketInv, PollEvent
  PROVE  PacketInv'
<1> DEFINE s == Head(serving)
<1>1. /\ phase = "running" /\ polling /\ serving # <<>> /\ serving' = Tail(serving)
      /\ UNCHANGED <<events, polling, runtimes>>
      /\ phase' = phase \/ phase' = "crashed"
      /\ \/ ~HasPacket(s) /\ held' = held
         \/ HasPacket(s) /\ held' = [held EXCEPT ![s] = @ - 1]
  BY DEF PollEvent, Served, Crash, vars, resolverVars, pipelineVars
<1> HIDE DEF s
<1>2. StreamsOfRuntimes' = StreamsOfRuntimes BY <1>1 DEF StreamsOfRuntimes
<1>3. serving \in Seq(StreamsOfRuntimes) BY DEF PacketInv, PacketTypeOK
<1>4. ASSUME NEW r
      PROVE  /\ serving' \in Seq(StreamsOfRuntimes)
             /\ Count(serving, r) = Count(serving', r) + (IF s = r THEN 1 ELSE 0)
  BY <1>1, <1>3, CountTail DEF s
<1>5. held' \in [Streams -> Nat]
  <2>1. CASE held' = held BY <2>1 DEF PacketInv, PacketTypeOK
  <2>2. CASE HasPacket(s) /\ held' = [held EXCEPT ![s] = @ - 1]
    <3>1. held \in [Streams -> Nat] /\ held[s] > 0 BY <2>2 DEF PacketInv, PacketTypeOK, HasPacket
    <3>2. s \in Streams => held[s] - 1 \in Nat BY <3>1
    <3>3. QED BY <2>2, <3>1, <3>2
  <2>3. QED BY <1>1, <2>1, <2>2
<1>6. PacketTypeOK' BY <1>1, <1>2, <1>4, <1>5 DEF PacketInv, PacketTypeOK
<1>7. Quiet' BY <1>1 DEF PacketInv, Quiet
<1>8. ASSUME NEW r \in Streams PROVE held'[r] <= Announced(r)'
  <2>1. held[r] <= Announced(r) /\ held[r] \in Nat /\ held'[r] \in Nat
    BY <1>1, <1>5 DEF PacketInv, NoPacketStranded, PacketTypeOK
  <2>2. Announced(r) = Count(events, r) + Count(serving, r) BY AnnouncedCounts
  <2>3. Announced(r)' = Count(events', r) + Count(serving', r)
    BY DEF Announced, Count, Positions
  <2>4. Count(events, r) \in Nat /\ Count(serving', r) \in Nat
    BY <1>4, AnnouncedNat, PositionsFinite DEF PacketInv
  <2>5. Announced(r) = Announced(r)' + (IF s = r THEN 1 ELSE 0)
    BY <1>1, <1>4, <2>2, <2>3, <2>4
  <2>6. Announced(r)' \in Nat BY <1>1, <2>3, <2>4
  <2>7. CASE s = r /\ held' = held
    <3>1. held[r] = 0
      <4>1. ~HasPacket(s) \/ held' = [held EXCEPT ![s] = @ - 1] BY <1>1
      <4>2. ~(held[r] > 0)
        <5>1. CASE ~HasPacket(s) BY <2>7, <5>1 DEF HasPacket
        <5>2. CASE held' = [held EXCEPT ![s] = @ - 1]
          <6>1. held'[r] = held[r] - 1 BY <2>7, <5>2 DEF PacketInv, PacketTypeOK
          <6>2. QED BY <2>1, <2>7, <6>1
        <5>3. QED BY <4>1, <5>1, <5>2
      <4>3. QED BY <2>1, <4>2
    <3>2. QED BY <2>6, <2>7, <3>1
  <2>8. CASE s = r /\ held' = [held EXCEPT ![s] = @ - 1]
    <3>1. held'[r] = held[r] - 1 BY <2>8 DEF PacketInv, PacketTypeOK
    <3>2. QED BY <2>1, <2>5, <2>6, <2>8, <3>1
  <2>9. CASE s # r
    <3>1. held'[r] = held[r] BY <1>1, <2>9 DEF PacketInv, PacketTypeOK
    <3>2. QED BY <2>1, <2>5, <2>6, <2>9, <3>1
  <2>10. QED BY <1>1, <2>7, <2>8, <2>9
<1>9. NoPacketStranded' BY <1>8 DEF NoPacketStranded
<1>10. QED BY <1>6, <1>7, <1>9 DEF PacketInv

LEMMA PacketStep_Inv ==
  ASSUME PacketInv, [RuntimeNext]_allPipelineVars
  PROVE  PacketInv'
<1>1. CASE Prepare BY <1>1, PreparePackets
<1>2. ASSUME NEW n \in runtimes, Arrive(n) PROVE PacketInv'
  BY <1>2, ArrivePackets
<1>3. ASSUME NEW n \in runtimes, PollStage(n) PROVE PacketInv'
  <2>1. UNCHANGED <<runtimes, held, events, serving, polling>>
          /\ (phase' = phase \/ (phase = "running" /\ phase' = "crashed"))
    BY <1>3 DEF PollStage, SlamPoll, Crash, vars, resolverVars, pipelineVars
  <2>2. QED BY <2>1, UnchangedPackets
<1>4. ASSUME NEW stream, NEW enable, EnableStream(stream, enable) PROVE PacketInv'
  <2>1. UNCHANGED <<runtimes, held, events, serving, polling, phase>>
    BY <1>4 DEF EnableStream, vars, resolverVars, pipelineVars
  <2>2. QED BY <2>1, UnchangedPackets
<1>5. CASE SlamOutput
  <2>1. UNCHANGED <<runtimes, held, events, serving, polling, phase>>
    BY <1>5 DEF SlamOutput, vars, resolverVars, pipelineVars
  <2>2. QED BY <2>1, UnchangedPackets
<1>6. CASE PollBegin BY <1>6, PollBeginPackets
<1>7. CASE PollEvent BY <1>7, PollEventPackets
<1>8. CASE PollEnd
  <2>1. UNCHANGED <<runtimes, held, events, serving, phase>> /\ polling' = FALSE
          /\ serving = <<>>
    BY <1>8 DEF PollEnd, vars, resolverVars, pipelineVars
  <2>2. QED BY <2>1, UnchangedPackets
<1>9. CASE UNCHANGED allPipelineVars
  <2>1. UNCHANGED <<runtimes, held, events, serving, polling, phase>>
    BY <1>9 DEF allPipelineVars, runtimeVars, vars, resolverVars, pipelineVars
  <2>2. QED BY <2>1, UnchangedPackets
<1>10. QED
  BY <1>1, <1>2, <1>3, <1>4, <1>5, <1>6, <1>7, <1>8, <1>9 DEF RuntimeNext

\* For each packet in an output queue there is an event that makes poll() fetch it,
\* although events are taken two at a time and may outlive their packet (poll,
\* XOutNode.poll).
THEOREM NoPacketStrandedHolds == RuntimeSpec => []NoPacketStranded
<1>1. RuntimeInit => PacketInv BY PacketInit_Inv
<1>2. PacketInv /\ [RuntimeNext]_allPipelineVars => PacketInv'
  BY PacketStep_Inv
<1>3. PacketInv => NoPacketStranded BY DEF PacketInv
<1>4. QED BY <1>1, <1>2, <1>3, PTL DEF RuntimeSpec

-----------------------------------------------------------------------------
(* CameraRuntime: what ends a worker *)

\* A clock is only moved for a frame that somebody watches, shows or searches for tags.
MovedFor == watched # {} \/ Runs("show") \/ Runs("apriltag")

\* What RunsOn says of a worker that ends. Inductive, and with it each step that ends the
\* worker is one that RunsOn allows.
RunsInv ==
  /\ \A h \in handlers : h[2] \in runtimes
  /\ waiting \subseteq PollStages
  /\ enabled \subseteq watched
  /\ moved => MovedFor

MayEnd ==
  \/ Runs("nn")
  \/ Runs("slam") /\ "waitForPose" \notin flags /\ MovedFor
  \/ /\ Runs("apriltag") /\ "solvePNP" \in flags
     /\ \/ "undistort" \in flags
        \/ "doMultiTarget" \in flags /\ \E raw \in Sightings : Cardinality(Known(raw)) > 1

LEMMA RunsInit_Inv == RuntimeInit => RunsInv
BY DEF RuntimeInit, PipelineInit, RunsInv

\* Steps that leave the stages and the clock alone.
LEMMA RunsSame ==
  ASSUME RunsInv, UNCHANGED <<runtimes, handlers, moved, enabled, watched>>,
         waiting' \subseteq PollStages
  PROVE  RunsInv'
<1>1. PollStages' = PollStages BY DEF PollStages
<1>2. MovedFor' <=> MovedFor BY DEF MovedFor, Runs
<1>3. QED BY <1>1, <1>2 DEF RunsInv

\* A stage that starts comes with its handler.
LEMMA RunsPrepare ==
  ASSUME RunsInv, Prepare
  PROVE  RunsInv'
<1>1. UNCHANGED <<moved, enabled, watched, waiting>>
  BY DEF Prepare, runtimeVars
<1>2. CASE UNCHANGED <<runtimes, handlers>>
  BY <1>1, <1>2, RunsSame DEF RunsInv
<1>3. CASE StartStage /\ ~UNCHANGED <<runtimes, handlers>>
  <2>1. runtimes' = runtimes \cup {Top.name} /\ handlers' = handlers \cup Attached(Top)
    BY <1>3 DEF StartStage
  <2>2. \A h \in Attached(Top) : h[2] = Top.name BY DEF Attached
  <2>3. runtimes \subseteq runtimes' BY <2>1
  <2>4. PollStages \subseteq PollStages' BY <2>3 DEF PollStages
  <2>5. MovedFor => MovedFor' BY <1>1, <2>3 DEF MovedFor, Runs
  <2>6. QED BY <1>1, <2>1, <2>2, <2>4, <2>5 DEF RunsInv
<1>4. QED
  BY <1>2, <1>3 DEF Prepare, PipelineNext, Resolve, BuildEntry, GetStage, BuildStage, Built,
     StartEntry, StartRequirement, Started, pipelineVars

LEMMA ConsumersRun ==
  ASSUME RunsInv, NEW n \in runtimes, NEW c \in Consumers(n)
  PROVE  c \in runtimes
BY DEF Consumers, RunsInv

\* Fewer detections have fewer known tags.
LEMMA FewerKnown ==
  ASSUME NEW raw \in Sightings, NEW dets \in SUBSET raw
  PROVE  /\ IsFiniteSet(Known(raw)) /\ IsFiniteSet(Known(dets))
         /\ Cardinality(Known(raw)) \in Nat /\ Cardinality(Known(dets)) \in Nat
         /\ Cardinality(Known(dets)) <= Cardinality(Known(raw))
<1>1. IsFiniteSet(raw) BY RuntimeAssumption
<1>2. Known(raw) \subseteq raw /\ Known(dets) \subseteq Known(raw) BY DEF Known
<1>3. IsFiniteSet(Known(raw)) BY <1>1, <1>2, FS_Subset
<1>4. QED BY <1>2, <1>3, FS_Subset, FS_CardinalityType

\* An error of _process_dets: of the solver for many tags, which was given two known ones,
\* or of the one for a tag, when it undistorts its corners.
LEMMA ErrorIsNoResult == Error # {} /\ Error # "poses"
BY RuntimeAssumption

LEMMA ProcessingRaises ==
  ASSUME NEW raw \in Sightings, NEW dets \in SUBSET raw, ProcessingMayRaise(dets)
  PROVE  /\ "solvePNP" \in flags
         /\ \/ "undistort" \in flags
            \/ "doMultiTarget" \in flags /\ Cardinality(Known(raw)) > 1
<1> DEFINE multi == IF "doMultiTarget" \in flags THEN MultiPnP(dets) ELSE {{}}
<1>1. "solvePNP" \in flags /\ (Error \in multi \/ Error \in SinglePnP)
  BY DEF ProcessingMayRaise
<1>2. ASSUME Error \in SinglePnP PROVE "undistort" \in flags
  <2>1. Error # "poses" BY ErrorIsNoResult
  <2>2. QED BY <1>2, <2>1 DEF SinglePnP
<1>3. ASSUME Error \in multi PROVE "doMultiTarget" \in flags /\ Cardinality(Known(raw)) > 1
  <2>1. Error # {} BY ErrorIsNoResult
  <2>2. "doMultiTarget" \in flags /\ Error \in MultiPnP(dets) BY <1>3, <2>1
  <2>3. ~(Cardinality(Known(dets)) < 2) BY <2>1, <2>2 DEF MultiPnP
  <2>4. QED BY <2>2, <2>3, FewerKnown
<1>4. QED BY <1>1, <1>2, <1>3

\* What may raise for a packet is something that MayEnd allows.
LEMMA RaisingMayEnd ==
  ASSUME RunsInv, NEW c \in runtimes, NEW raw \in Sightings, MayRaise(c, raw)
  PROVE  MayEnd
<1>1. CASE c[1] = "nn" BY <1>1 DEF MayEnd, Runs
<1>2. CASE c[1] # "nn"
  <2> DEFINE dets == IF HasStream(c) THEN HandleDevice(raw) ELSE ProcessHost(raw)
  <2>1. c[1] = "apriltag" /\ ProcessingMayRaise(dets) BY <1>2 DEF MayRaise
  <2>2. dets \in SUBSET raw BY DEF HandleDevice, ProcessHost
  <2> HIDE DEF dets
  <2>3. /\ "solvePNP" \in flags
        /\ \/ "undistort" \in flags
           \/ "doMultiTarget" \in flags /\ Cardinality(Known(raw)) > 1
    BY <2>1, <2>2, ProcessingRaises
  <2>4. QED BY <2>1, <2>3 DEF MayEnd, Runs
<1>3. QED BY <1>1, <1>2

LEMMA RunsPollEvent ==
  ASSUME RunsInv, PollEvent
  PROVE  RunsInv' /\ (phase' = "crashed" => MayEnd)
<1> DEFINE s == Head(serving)
<1>1. /\ phase = "running" /\ UNCHANGED <<flags, enabled, watched, waiting>>
      /\ \E n \in {n \in EventTargets : StreamOf(n) = s} :
           \/ UNCHANGED <<vars, moved>>
           \/ /\ moved' = (moved \/ \E c \in Consumers(n) : TakesTimestamp(c))
              /\ \E raw \in Sightings :
                   \/ UNCHANGED vars
                   \/ (\E c \in Consumers(n) : MayRaise(c, raw)) /\ Crash
  BY DEF PollEvent
<1> HIDE DEF s
<1>2. PICK n \in EventTargets :
        \/ UNCHANGED <<vars, moved>>
        \/ /\ moved' = (moved \/ \E c \in Consumers(n) : TakesTimestamp(c))
           /\ \E raw \in Sightings :
                \/ UNCHANGED vars
                \/ (\E c \in Consumers(n) : MayRaise(c, raw)) /\ Crash
  BY <1>1
<1>3. n \in runtimes BY DEF EventTargets
<1>4. UNCHANGED <<runtimes, handlers>>
  BY <1>2 DEF Crash, vars, pipelineVars
<1>5. moved' => MovedFor
  <2>1. ASSUME NEW c \in Consumers(n), TakesTimestamp(c) PROVE MovedFor
    <3>1. c \in runtimes BY <1>3, ConsumersRun
    <3>2. QED BY <2>1, <3>1 DEF TakesTimestamp, ShowsFrame, MovedFor, Runs, RunsInv
  <2>2. QED BY <1>2, <2>1 DEF RunsInv
<1>6. MovedFor' <=> MovedFor BY <1>1, <1>4 DEF MovedFor, Runs
<1>7. PollStages' = PollStages BY <1>4 DEF PollStages
<1>8. RunsInv' BY <1>1, <1>4, <1>5, <1>6, <1>7 DEF RunsInv
<1>9. phase' = "crashed" => MayEnd
  <2>1. CASE UNCHANGED vars
    <3>1. phase' = "running" BY <1>1, <2>1 DEF vars, resolverVars
    <3>2. QED BY <3>1
  <2>2. CASE \E raw \in Sightings : \E c \in Consumers(n) : MayRaise(c, raw)
    BY <1>3, <2>2, ConsumersRun, RaisingMayEnd
  <2>3. QED BY <1>2, <2>1, <2>2
<1>10. QED BY <1>8, <1>9

LEMMA RunsPollStage ==
  ASSUME RunsInv, NEW n \in runtimes, PollStage(n)
  PROVE  RunsInv' /\ (phase' = "crashed" => MayEnd)
<1>1. /\ phase = "running" /\ waiting' = waiting \ {n}
      /\ UNCHANGED <<flags, enabled, watched, moved>>
      /\ \/ UNCHANGED vars
         \/ n[1] = "slam" /\ moved /\ "waitForPose" \notin flags /\ Crash
  BY DEF PollStage, SlamPoll
<1>2. UNCHANGED <<runtimes, handlers>> BY <1>1 DEF Crash, vars, pipelineVars
<1>3. RunsInv' BY <1>1, <1>2, RunsSame DEF RunsInv
<1>4. ASSUME phase' = "crashed" PROVE MayEnd
  <2>1. ~UNCHANGED vars BY <1>1, <1>4 DEF vars, resolverVars
  <2>2. QED BY <1>1, <2>1 DEF MayEnd, Runs, RunsInv
<1>5. QED BY <1>3, <1>4

LEMMA RunsStep ==
  ASSUME RunsInv, [RuntimeNext]_allPipelineVars
  PROVE  RunsInv' /\ (phase = "running" /\ phase' = "crashed" => MayEnd)
<1>1. CASE Prepare
  <2>1. phase' # "crashed" \/ phase' = phase
    BY <1>1 DEF Prepare, PipelineNext, Resolve, ResolverNext, ResolvePreset, PresetsResolved,
       ProcessOne, BuildEntry, GetStage, BuildStage, Built, StartEntry, StartRequirement,
       StartStage, Started, Raise, resolverVars
  <2>2. QED BY <1>1, <2>1, RunsPrepare
<1>2. ASSUME NEW n \in runtimes, Arrive(n) PROVE RunsInv' /\ phase' = phase
  <2>1. UNCHANGED <<phase, runtimes, handlers, moved, enabled, watched, waiting>>
    BY <1>2 DEF Arrive, vars, resolverVars, pipelineVars
  <2>2. QED BY <2>1, RunsSame DEF RunsInv
<1>3. ASSUME NEW n \in runtimes, PollStage(n)
      PROVE  RunsInv' /\ (phase' = "crashed" => MayEnd)
  BY <1>3, RunsPollStage
<1>4. ASSUME NEW stream, NEW enable, EnableStream(stream, enable)
      PROVE  RunsInv' /\ phase' = phase
  <2>1. /\ UNCHANGED <<phase, runtimes, handlers, moved, waiting>>
        /\ watched' = watched \cup enabled'
    BY <1>4 DEF EnableStream, vars, resolverVars, pipelineVars
  <2>2. MovedFor => MovedFor' BY <2>1 DEF MovedFor, Runs
  <2>3. PollStages' = PollStages BY <2>1 DEF PollStages
  <2>4. QED BY <2>1, <2>2, <2>3 DEF RunsInv
<1>5. CASE SlamOutput
  <2>1. UNCHANGED <<phase, runtimes, handlers, moved, enabled, watched, waiting>>
    BY <1>5 DEF SlamOutput, vars, resolverVars, pipelineVars
  <2>2. QED BY <2>1, RunsSame DEF RunsInv
<1>6. CASE PollBegin
  <2>1. /\ UNCHANGED <<phase, runtimes, handlers, moved, enabled, watched>>
        /\ waiting' = PollStages
    BY <1>6 DEF PollBegin, vars, resolverVars, pipelineVars
  <2>2. QED BY <2>1, RunsSame
<1>7. CASE PollEvent BY <1>7, RunsPollEvent
<1>8. CASE PollEnd
  <2>1. UNCHANGED <<phase, runtimes, handlers, moved, enabled, watched, waiting>>
    BY <1>8 DEF PollEnd, vars, resolverVars, pipelineVars
  <2>2. QED BY <2>1, RunsSame DEF RunsInv
<1>9. CASE UNCHANGED allPipelineVars
  <2>1. UNCHANGED <<phase, runtimes, handlers, moved, enabled, watched, waiting>>
    BY <1>9 DEF allPipelineVars, runtimeVars, vars, resolverVars, pipelineVars
  <2>2. QED BY <2>1, RunsSame DEF RunsInv
<1>10. QED
  BY <1>1, <1>2, <1>3, <1>4, <1>5, <1>6, <1>7, <1>8, <1>9 DEF RuntimeNext

\* What ends a worker that runs is only ever an object detector, the slam stage together
\* with another that takes the timestamps of packets, or an apriltag stage that undistorts
\* or that solves for many tags and may see two known ones at once (MoeNetPipeline.poll,
\* handle_frame, _process_dets, SaiSlamRuntime.poll).
THEOREM RunsOnHolds == RuntimeSpec => RunsOn
<1>1. RuntimeInit => RunsInv BY RunsInit_Inv
<1>2. RunsInv /\ [RuntimeNext]_allPipelineVars => RunsInv' BY RunsStep
<1> DEFINE Ends == phase = "running" /\ phase' = "crashed" =>
       \/ Runs("nn")
       \/ /\ Runs("slam") /\ "waitForPose" \notin flags
          /\ watched # {} \/ Runs("show") \/ Runs("apriltag")
       \/ /\ Runs("apriltag") /\ "solvePNP" \in flags
          /\ \/ "undistort" \in flags
             \/ "doMultiTarget" \in flags
                  /\ \E raw \in Sightings : Cardinality(Known(raw)) > 1
<1>3. RunsInv /\ [RuntimeNext]_allPipelineVars => [Ends]_allPipelineVars
  BY RunsStep DEF MayEnd, MovedFor
<1>4. QED BY <1>1, <1>2, <1>3, PTL DEF RuntimeSpec, RunsOn

-----------------------------------------------------------------------------
(* DeviceManager *)

States == {"find", "attach", "attached", "failed", "stopped"}

DevTypeOK ==
  /\ \A w \in Workers : selector[w] \in OakSelector /\ retry[w] \in RetryConfig
  /\ booted \subseteq Devices
  /\ search \in [Workers -> States]
  /\ found \in [Workers -> Devices \cup {NoDevice}]
  /\ retries \in [Workers -> Nat]

\* The workers that have a camera, how far one counts among the devices of its selector,
\* and whether the others leave it so many.
Holders == {w \in Workers : search[w] = "attached"}
CountsTo(w) == IF ByOrdinal(selector[w]) THEN selector[w].ordinal ELSE 1
Enough(w) == Cardinality(Matching(selector[w])) >= Cardinality(Workers) - 1 + CountsTo(w)

\* 1 if the device that w is about to boot was taken from it.
Collided(w) == IF search[w] = "attach" /\ found[w] \in booted THEN 1 ELSE 0

\* Nobody has the device of another, and nobody has more than one.
Apart ==
  /\ \A w \in Workers :
       /\ search[w] \in {"attach", "attached"} => found[w] \in Matching(selector[w])
       /\ search[w] = "attached" => found[w] \in booted
  /\ \A v, w \in Holders : v # w => found[v] # found[w]
  /\ Cardinality(booted) <= Cardinality(Holders)

\* If there are enough devices, each try that failed is another worker's success.
TriesPaid ==
  \A w \in Workers : Enough(w) =>
    /\ search[w] \in {"find", "attach"} =>
         retries[w] + Collided(w) <= Cardinality(Holders)
    /\ search[w] \in {"failed", "stopped"} => retry[w].tries < Cardinality(Workers)

\* Inductive.
DevicesInv == DevTypeOK /\ Apart /\ TriesPaid

LEMMA DevicesInit_Inv == DevicesInit => DevicesInv
<1> SUFFICES ASSUME DevicesInit PROVE DevicesInv
  OBVIOUS
<1>1. DevTypeOK
  <2>1. \A w \in Workers : selector[w] \in OakSelector /\ retry[w] \in RetryConfig
    BY DeviceAssumption DEF DevicesInit, WorkerInitConfig
  <2>2. QED BY <2>1, DeviceAssumption DEF DevicesInit, DevTypeOK, States
<1>2. Holders = {} BY DEF DevicesInit, Holders
<1>3. Cardinality(Holders) = 0 /\ Cardinality(booted) = 0
  BY <1>2, FS_EmptySet DEF DevicesInit
<1>4. Apart
  BY <1>2, <1>3 DEF DevicesInit, Apart
<1>5. TriesPaid
  BY <1>3 DEF DevicesInit, TriesPaid, Collided
<1>6. QED BY <1>1, <1>4, <1>5 DEF DevicesInv

LEMMA FiniteOfDevices ==
  /\ Cardinality(Workers) \in Nat
  /\ \A S \in SUBSET Workers : IsFiniteSet(S) /\ Cardinality(S) \in Nat
                                 /\ Cardinality(S) <= Cardinality(Workers)
  /\ \A S \in SUBSET Devices : IsFiniteSet(S) /\ Cardinality(S) \in Nat
  /\ \A sel : Matching(sel) \in SUBSET Devices
<1>1. IsFiniteSet(Workers) /\ IsFiniteSet(Devices) BY DeviceAssumption
<1>2. \A S \in SUBSET Workers : IsFiniteSet(S) /\ Cardinality(S) <= Cardinality(Workers)
  BY <1>1, FS_Subset
<1>3. \A S \in SUBSET Devices : IsFiniteSet(S)
  BY <1>1, FS_Subset
<1>4. QED
  BY <1>1, <1>2, <1>3, FS_CardinalityType DEF Matching, Described, InfoMatches

\* A worker that has no camera yet leaves one more worker than there are holders.
LEMMA HoldersAreOthers ==
  ASSUME NEW w \in Workers, search[w] # "attached"
  PROVE  Cardinality(Holders) <= Cardinality(Workers) - 1
<1>1. IsFiniteSet(Workers) BY DeviceAssumption
<1>2. IsFiniteSet(Workers \ {w}) /\ Cardinality(Workers \ {w}) = Cardinality(Workers) - 1
  BY <1>1, FS_RemoveElement
<1>3. Holders \in SUBSET (Workers \ {w}) BY DEF Holders
<1>4. QED BY <1>2, <1>3, FS_Subset

\* If there are enough devices, the others' leave so many that the search finds one.
LEMMA EnoughAreLeft ==
  ASSUME DevicesInv, NEW w \in Workers, Enough(w), search[w] # "attached"
  PROVE  Cardinality(Matching(selector[w]) \cap Available) >= CountsTo(w)
<1> DEFINE M == Matching(selector[w])
<1>1. IsFiniteSet(M) /\ M \subseteq Devices /\ IsFiniteSet(booted)
        /\ Cardinality(M) \in Nat /\ Cardinality(booted) \in Nat
        /\ IsFiniteSet(M \cap booted) /\ Cardinality(M \cap booted) \in Nat
        /\ Cardinality(M \cap Available) \in Nat
  <2>1. M \in SUBSET Devices /\ booted \in SUBSET Devices
          /\ M \cap booted \in SUBSET Devices /\ M \cap Available \in SUBSET Devices
    BY FiniteOfDevices DEF DevicesInv, DevTypeOK
  <2>2. QED BY <2>1, FiniteOfDevices
<1>2. M \cap Available = M \ booted BY <1>1 DEF Available
<1>3. Cardinality(M \ booted) = Cardinality(M) - Cardinality(M \cap booted)
  BY <1>1, FS_Difference
<1>4. Cardinality(M \cap booted) <= Cardinality(booted)
  BY <1>1, FS_Intersection
<1>5. Cardinality(booted) <= Cardinality(Workers) - 1
  <2>1. Holders \in SUBSET Workers BY DEF Holders
  <2>2. Cardinality(Holders) \in Nat /\ Cardinality(Workers) \in Nat
    BY <2>1, FiniteOfDevices
  <2>3. QED BY <1>1, <2>2, HoldersAreOthers DEF DevicesInv, Apart
<1>6. CountsTo(w) \in Nat /\ Cardinality(Workers) \in Nat
  BY FiniteOfDevices DEF DevicesInv, DevTypeOK, OakSelector, CountsTo, ByOrdinal
<1>7. Cardinality(M) >= Cardinality(Workers) - 1 + CountsTo(w)
  BY DEF Enough
<1> HIDE DEF M
<1>8. Cardinality(M \cap Available) = Cardinality(M) - Cardinality(M \cap booted)
  BY <1>2, <1>3
<1>9. Cardinality(M \cap Available) >= CountsTo(w)
  BY <1>1, <1>4, <1>5, <1>6, <1>7, <1>8
<1>10. QED BY <1>9 DEF M

\* A try that fails (NotFound), of a worker for which there are not enough devices or
\* from which another took the one it had found.
LEMMA NotFoundPaid ==
  ASSUME DevicesInv, NEW w \in Workers, search[w] \in {"find", "attach"}, NotFound(w),
         Enough(w) => Collided(w) = 1
  PROVE  DevicesInv'
<1>1. /\ retries' = [retries EXCEPT ![w] = retries[w] + 1]
      /\ found' = [found EXCEPT ![w] = NoDevice]
      /\ UNCHANGED <<selector, retry, booted>>
  BY DEF NotFound
<1> DEFINE next0 == IF ~OutOfTries(w) THEN "find"
                    ELSE IF retry[w].optional THEN "stopped" ELSE "failed"
<1>2. search' = [search EXCEPT ![w] = next0]
  BY DEF NotFound
<1>3. next0 \in {"find", "stopped", "failed"} OBVIOUS
<1>4. DevTypeOK'
  BY <1>1, <1>2, <1>3 DEF DevicesInv, DevTypeOK, States
<1>5. Holders' = Holders
  BY <1>2, <1>3 DEF Holders, DevicesInv, DevTypeOK
<1>6. \A v \in Workers : Matching(selector[v])' = Matching(selector[v])
  BY <1>1 DEF Matching, ByOrdinal, InfoMatches, Described
<1>7. Apart'
  <2>1. ASSUME NEW v \in Workers
        PROVE  /\ search'[v] \in {"attach", "attached"} => found'[v] \in Matching(selector[v])'
               /\ search'[v] = "attached" => found'[v] \in booted'
    <3>1. CASE v = w
      BY <1>2, <1>3, <3>1 DEF DevicesInv, DevTypeOK
    <3>2. CASE v # w
      <4>1. search'[v] = search[v] /\ found'[v] = found[v]
        BY <1>1, <1>2, <3>2 DEF DevicesInv, DevTypeOK
      <4>2. QED BY <1>1, <1>6, <4>1 DEF DevicesInv, Apart
    <3>3. QED BY <3>1, <3>2
  <2>2. ASSUME NEW u \in Holders, NEW v \in Holders, u # v PROVE found'[u] # found'[v]
    <3>1. u # w /\ v # w BY DEF Holders
    <3>2. found'[u] = found[u] /\ found'[v] = found[v]
      BY <1>1, <3>1 DEF DevicesInv, DevTypeOK, Holders
    <3>3. QED BY <3>2, <2>2 DEF DevicesInv, Apart
  <2>3. Cardinality(booted') <= Cardinality(Holders')
    BY <1>1, <1>5 DEF DevicesInv, Apart
  <2>4. QED BY <1>5, <2>1, <2>2, <2>3 DEF Apart
<1>8. TriesPaid'
  <2>1. Holders \in SUBSET Workers BY DEF Holders
  <2>2. Cardinality(Holders) \in Nat /\ Cardinality(Workers) \in Nat
    BY <2>1, FiniteOfDevices
  <2>3. ASSUME NEW v \in Workers, Enough(v)'
        PROVE  /\ search'[v] \in {"find", "attach"} =>
                    retries'[v] + Collided(v)' <= Cardinality(Holders)
               /\ search'[v] \in {"failed", "stopped"} => retry'[v].tries < Cardinality(Workers)
    <3>1. Enough(v)
      BY <1>1, <1>6, <2>3 DEF Enough, CountsTo, ByOrdinal
    <3>2. CASE v # w
      <4>1. search'[v] = search[v] /\ retries'[v] = retries[v] /\ found'[v] = found[v]
        BY <1>1, <1>2, <3>2 DEF DevicesInv, DevTypeOK
      <4>2. QED BY <1>1, <3>1, <4>1 DEF DevicesInv, TriesPaid, Collided
    <3>3. CASE v = w
      <4>1. retries[w] + 1 <= Cardinality(Holders)
        BY <3>1, <3>3 DEF DevicesInv, TriesPaid
      <4>2. Cardinality(Holders) <= Cardinality(Workers) - 1
        BY HoldersAreOthers
      <4>3. retries[w] \in Nat /\ retries'[w] = retries[w] + 1 /\ search'[w] = next0
              /\ retry[w].tries \in Int /\ retry' = retry
        BY <1>1, <1>2 DEF DevicesInv, DevTypeOK, RetryConfig
      <4>4. next0 # "find" => retries[w] + 1 >= retry[w].tries
        BY DEF OutOfTries
      <4>5. Collided(w)' = 0 /\ search'[w] # "attach"
        BY <1>3, <4>3 DEF Collided
      <4>6. QED
        BY <1>1, <2>2, <3>3, <4>1, <4>2, <4>3, <4>4, <4>5
    <3>4. QED BY <3>2, <3>3
  <2>4. QED BY <1>5, <2>3 DEF TriesPaid
<1>9. QED BY <1>4, <1>7, <1>8 DEF DevicesInv

LEMMA FindKeeps ==
  ASSUME DevicesInv, NEW w \in Workers, Find(w)
  PROVE  DevicesInv'
<1> DEFINE C == Matching(selector[w]) \cap Available
<1>1. search[w] = "find"
        /\ (IF Cardinality(C) < CountsTo(w) THEN NotFound(w)
            ELSE \E d \in C : /\ found' = [found EXCEPT ![w] = d]
                              /\ search' = [search EXCEPT ![w] = "attach"]
                              /\ UNCHANGED <<selector, retry, booted, retries>>)
  BY DEF Find, CountsTo
<1>2. CASE Cardinality(C) < CountsTo(w)
  <2>1. ~Enough(w)
    <3>1. C \in SUBSET Devices BY FiniteOfDevices
    <3>2. Cardinality(C) \in Nat BY <3>1, FiniteOfDevices
    <3>3. CountsTo(w) \in Nat
      BY DEF DevicesInv, DevTypeOK, OakSelector, CountsTo, ByOrdinal
    <3>4. QED BY <1>1, <1>2, <3>2, <3>3, EnoughAreLeft
  <2>2. QED BY <1>1, <1>2, <2>1, NotFoundPaid
<1>3. CASE ~(Cardinality(C) < CountsTo(w))
  <2>1. PICK d \in C : /\ found' = [found EXCEPT ![w] = d]
                       /\ search' = [search EXCEPT ![w] = "attach"]
                       /\ UNCHANGED <<selector, retry, booted, retries>>
    BY <1>1, <1>3
  <2>2. d \in Devices /\ d \notin booted /\ d \in Matching(selector[w])
    BY DEF Available
  <2>3. DevTypeOK'
    BY <2>1, <2>2 DEF DevicesInv, DevTypeOK, States
  <2>4. Holders' = Holders
    BY <1>1, <2>1 DEF Holders, DevicesInv, DevTypeOK
  <2>5. \A v \in Workers : Matching(selector[v])' = Matching(selector[v])
    BY <2>1 DEF Matching, ByOrdinal, InfoMatches, Described
  <2>6. \A v \in Workers : v # w =>
          search'[v] = search[v] /\ found'[v] = found[v] /\ retries'[v] = retries[v]
    BY <2>1 DEF DevicesInv, DevTypeOK
  <2>7. search'[w] = "attach" /\ found'[w] = d /\ retries'[w] = retries[w]
    BY <2>1 DEF DevicesInv, DevTypeOK
  <2>8. Apart'
    <3>1. ASSUME NEW v \in Workers
          PROVE  /\ search'[v] \in {"attach", "attached"} => found'[v] \in Matching(selector[v])'
                 /\ search'[v] = "attached" => found'[v] \in booted'
      BY <2>1, <2>2, <2>5, <2>6, <2>7 DEF DevicesInv, Apart
    <3>2. ASSUME NEW u \in Holders, NEW v \in Holders, u # v PROVE found'[u] # found'[v]
      <4>1. u # w /\ v # w /\ u \in Workers /\ v \in Workers BY <1>1 DEF Holders
      <4>2. QED BY <2>6, <3>2, <4>1 DEF DevicesInv, Apart
    <3>3. Cardinality(booted') <= Cardinality(Holders')
      BY <2>1, <2>4 DEF DevicesInv, Apart
    <3>4. QED BY <2>4, <3>1, <3>2, <3>3 DEF Apart
  <2>9. TriesPaid'
    <3>1. ASSUME NEW v \in Workers, Enough(v)'
          PROVE  /\ search'[v] \in {"find", "attach"} =>
                      retries'[v] + Collided(v)' <= Cardinality(Holders)
                 /\ search'[v] \in {"failed", "stopped"} => retry'[v].tries < Cardinality(Workers)
      <4>1. Enough(v)
        BY <2>1, <2>5, <3>1 DEF Enough, CountsTo, ByOrdinal
      <4>2. CASE v # w
        BY <2>1, <2>6, <4>1, <4>2 DEF DevicesInv, TriesPaid, Collided
      <4>3. CASE v = w
        <5>1. Collided(w)' = 0 /\ Collided(w) = 0
          BY <1>1, <2>1, <2>2, <2>7 DEF Collided
        <5>2. QED BY <1>1, <2>7, <4>1, <4>3, <5>1 DEF DevicesInv, TriesPaid
      <4>4. QED BY <4>2, <4>3
    <3>2. QED BY <2>4, <3>1 DEF TriesPaid
  <2>10. QED BY <2>3, <2>8, <2>9 DEF DevicesInv
<1>4. QED BY <1>2, <1>3

LEMMA AttachKeeps ==
  ASSUME DevicesInv, NEW w \in Workers, Attach(w)
  PROVE  DevicesInv'
<1>1. search[w] = "attach" BY DEF Attach
<1>2. CASE found[w] \in booted
  <2>1. NotFound(w) /\ Collided(w) = 1
    BY <1>1, <1>2 DEF Attach, Collided
  <2>2. QED BY <1>1, <2>1, NotFoundPaid
<1>3. CASE found[w] \notin booted
  <2>1. /\ booted' = booted \cup {found[w]}
        /\ search' = [search EXCEPT ![w] = "attached"]
        /\ UNCHANGED <<selector, retry, found, retries>>
    BY <1>3 DEF Attach
  <2>2. found[w] \in Matching(selector[w]) /\ found[w] \in Devices
    BY <1>1, FiniteOfDevices DEF DevicesInv, Apart
  <2>3. DevTypeOK'
    BY <2>1, <2>2 DEF DevicesInv, DevTypeOK, States
  <2>4. Holders' = Holders \cup {w} /\ w \notin Holders
    BY <1>1, <2>1 DEF Holders, DevicesInv, DevTypeOK
  <2>5. IsFiniteSet(Holders) /\ IsFiniteSet(booted)
          /\ Cardinality(Holders) \in Nat /\ Cardinality(booted) \in Nat
    <3>1. Holders \in SUBSET Workers /\ booted \in SUBSET Devices
      BY DEF Holders, DevicesInv, DevTypeOK
    <3>2. QED BY <3>1, FiniteOfDevices
  <2>6. Cardinality(Holders') = Cardinality(Holders) + 1
          /\ Cardinality(booted') = Cardinality(booted) + 1
    BY <1>3, <2>1, <2>4, <2>5, FS_AddElement
  <2>7. \A v \in Workers : Matching(selector[v])' = Matching(selector[v])
    BY <2>1 DEF Matching, ByOrdinal, InfoMatches, Described
  <2>8. \A v \in Workers : v # w => search'[v] = search[v]
    BY <2>1 DEF DevicesInv, DevTypeOK
  <2>9. search'[w] = "attached"
    BY <2>1 DEF DevicesInv, DevTypeOK
  <2>10. Apart'
    <3>1. ASSUME NEW v \in Workers
          PROVE  /\ search'[v] \in {"attach", "attached"} => found'[v] \in Matching(selector[v])'
                 /\ search'[v] = "attached" => found'[v] \in booted'
      BY <2>1, <2>2, <2>7, <2>8, <2>9 DEF DevicesInv, Apart
    <3>2. ASSUME NEW u \in Holders \cup {w}, NEW v \in Holders \cup {w}, u # v
          PROVE  found'[u] # found'[v]
      <4>1. \A h \in Holders : found[h] \in booted BY DEF Holders, DevicesInv, Apart
      <4>2. QED BY <1>3, <2>1, <3>2, <4>1 DEF DevicesInv, Apart
    <3>3. Cardinality(booted') <= Cardinality(Holders')
      BY <2>5, <2>6 DEF DevicesInv, Apart
    <3>4. QED BY <2>4, <3>1, <3>2, <3>3 DEF Apart
  <2>11. TriesPaid'
    <3>1. ASSUME NEW v \in Workers, Enough(v)'
          PROVE  /\ search'[v] \in {"find", "attach"} =>
                      retries'[v] + Collided(v)' <= Cardinality(Holders')
                 /\ search'[v] \in {"failed", "stopped"} => retry'[v].tries < Cardinality(Workers)
      <4>1. Enough(v)
        BY <2>1, <2>7, <3>1 DEF Enough, CountsTo, ByOrdinal
      <4>2. CASE v # w
        <5>1. Collided(v)' <= Collided(v) + 1 /\ Collided(v) \in 0..1 /\ Collided(v)' \in 0..1
          BY DEF Collided
        <5>2. retries[v] \in Nat /\ retries'[v] = retries[v]
          BY <2>1 DEF DevicesInv, DevTypeOK
        <5>3. search[v] \in {"find", "attach"} => retries[v] + Collided(v) <= Cardinality(Holders)
          BY <4>1 DEF DevicesInv, TriesPaid
        <5>4. search[v] \in {"failed", "stopped"} => retry[v].tries < Cardinality(Workers)
          BY <4>1 DEF DevicesInv, TriesPaid
        <5>5. search'[v] = search[v] BY <2>8, <4>2
        <5>6. QED BY <2>1, <2>5, <2>6, <5>1, <5>2, <5>3, <5>4, <5>5
      <4>3. CASE v = w
        BY <2>9, <4>3
      <4>4. QED BY <4>2, <4>3
    <3>2. QED BY <3>1 DEF TriesPaid
  <2>12. QED BY <2>3, <2>10, <2>11 DEF DevicesInv
<1>4. QED BY <1>2, <1>3

LEMMA DevicesInvStep == DevicesInv /\ [DevicesNext]_deviceVars => DevicesInv'
<1> SUFFICES ASSUME DevicesInv, [DevicesNext]_deviceVars PROVE DevicesInv'
  OBVIOUS
<1>1. CASE DevicesNext
  BY <1>1, FindKeeps, AttachKeeps DEF DevicesNext
<1>2. CASE UNCHANGED deviceVars
  BY <1>2 DEF deviceVars, DevicesInv, DevTypeOK, Apart, TriesPaid, Holders, Enough, Collided,
              CountsTo, Matching, ByOrdinal, InfoMatches, Described
<1>3. QED BY <1>1, <1>2

LEMMA MaxOfPair ==
  ASSUME NEW n \in Nat
  PROVE  Max({1, n}) = IF n > 1 THEN n ELSE 1
BY DEF Max

\* Each worker has a camera of its selector and of its own, and one that gave up had too
\* few tries or too few devices, for any number of workers and devices (find_oak,
\* attach_oak).
THEOREM GetsItsCameraHolds == DevicesSpec => []GetsItsCamera
<1>1. DevicesInv => GetsItsCamera
  <2> SUFFICES ASSUME DevicesInv, NEW w \in Workers
               PROVE  /\ search[w] = "attached" =>
                           /\ found[w] \in Matching(selector[w])
                           /\ \A v \in Workers \ {w} : search[v] = "attached" => found[v] # found[w]
                      /\ search[w] \in {"failed", "stopped"} =>
                           \/ retry[w].tries < Cardinality(Workers)
                           \/ Cardinality(Matching(selector[w])) <
                                Cardinality(Workers) - 1 + Max({1, selector[w].ordinal})
    BY DEF GetsItsCamera
  <2>1. search[w] = "attached" =>
          /\ found[w] \in Matching(selector[w])
          /\ \A v \in Workers \ {w} : search[v] = "attached" => found[v] # found[w]
    BY DEF DevicesInv, Apart, Holders
  <2>2. search[w] \in {"failed", "stopped"} =>
          retry[w].tries < Cardinality(Workers) \/ ~Enough(w)
    BY DEF DevicesInv, TriesPaid
  <2>3. selector[w].ordinal \in Nat
    BY DEF DevicesInv, DevTypeOK, OakSelector
  <2>4. Max({1, selector[w].ordinal}) = CountsTo(w) /\ CountsTo(w) \in Nat
    BY <2>3, MaxOfPair DEF CountsTo, ByOrdinal
  <2>5. Cardinality(Workers) \in Nat /\ Cardinality(Matching(selector[w])) \in Nat
    BY FiniteOfDevices
  <2>6. QED BY <2>1, <2>2, <2>4, <2>5 DEF Enough
<1>2. QED BY <1>1, DevicesInit_Inv, DevicesInvStep, PTL DEF DevicesSpec

-----------------------------------------------------------------------------
(* AprilTagField *)

FieldTypeOK ==
  /\ field \in FieldNamed \/ field \in FieldInline \/ field \in FieldRef
  /\ target \in StageForms
  /\ field.kind = "named" => target.kind = "inline"
  /\ field.kind = "ref" => files[field.path] \in FieldFile \/ files[field.path] = Invalid

\* Inductive.
FieldInv ==
  FieldTypeOK /\ (resolved => converted = Convert(field, target))

LEMMA InlineTyped ==
  ASSUME NEW format \in Formats, NEW tags \in Seq(AprilTagDefinition)
  PROVE  Inline(format, tags) \in FieldInline /\ Inline(format, tags) # Invalid
           /\ Inline(format, tags) # Nothing
<1>1. Inline(format, tags) \in FieldInline BY DEF Inline, FieldInline
<1>2. QED BY <1>1, FieldAssumption

LEMMA InlineFields ==
  ASSUME NEW format, NEW tags
  PROVE  /\ Inline(format, tags).kind = "inline" /\ Inline(format, tags).format = format
         /\ Inline(format, tags).tags = tags
BY DEF Inline

Placed(tags, format) ==
  {[tags[i] EXCEPT !.pose = IF format = "sai" THEN Inverted(@) ELSE @] : i \in DOMAIN tags}

LEMMA TagsWithPlaced ==
  /\ \A f : f.kind # "ref" => TagsWith(f) = Placed(f.tags, f.format)
  /\ \A f : f.kind = "ref" /\ Readable(f) => TagsWith(f) = Placed(files[f.path].tags, f.format)
  /\ \A format : Placed(<<>>, format) = {}
<1>1. ASSUME NEW f, f.kind # "ref" PROVE TagsWith(f) = Placed(f.tags, f.format)
  BY <1>1 DEF TagsWith, Placed
<1>2. ASSUME NEW f, f.kind = "ref", Readable(f)
      PROVE  TagsWith(f) = Placed(files[f.path].tags, f.format)
  BY <1>2 DEF TagsWith, Placed
<1>3. \A format : Placed(<<>>, format) = {} BY DEF Placed
<1>4. QED BY <1>1, <1>2, <1>3

LEMMA AsInlineSaiTyped ==
  ASSUME NEW f \in FieldInline
  PROVE  AsInlineSai(f) # Invalid /\ AsInlineSai(f).kind = "inline"
<1>1. f.kind = "inline" /\ f.format \in Formats /\ f.tags \in Seq(AprilTagDefinition)
        /\ f # Invalid
  BY FieldAssumption DEF FieldInline
<1>2. CASE f.format = "sai" BY <1>1, <1>2 DEF AsInlineSai
<1>3. CASE f.format # "sai"
  <2> DEFINE tags == [i \in DOMAIN f.tags |-> ToSai(f.tags[i])]
  <2>1. ASSUME NEW tag \in AprilTagDefinition PROVE ToSai(tag) \in AprilTagDefinition
    <3>1. tag.pose \in [of : Nat, inverse : BOOLEAN] BY DEF AprilTagDefinition
    <3>2. Inverted(tag.pose) \in [of : Nat, inverse : BOOLEAN] BY <3>1 DEF Inverted
    <3>3. QED BY <3>2 DEF ToSai, AprilTagDefinition
  <2>2. DOMAIN f.tags = 1..Len(f.tags) /\ Len(f.tags) \in Nat BY <1>1, LenProperties
  <2>3. \A i \in 1..Len(f.tags) : f.tags[i] \in AprilTagDefinition BY <1>1, ElementOfSeq
  <2>4. tags \in [1..Len(f.tags) -> AprilTagDefinition] BY <2>1, <2>2, <2>3
  <2>5. tags \in Seq(AprilTagDefinition) BY <2>2, <2>4, SeqDef
  <2>6. AsInlineSai(f) = Inline("sai", tags) BY <1>3 DEF AsInlineSai
  <2> HIDE DEF tags
  <2>7. "sai" \in Formats BY DEF Formats
  <2>8. Inline("sai", tags).kind = "inline" BY DEF Inline
  <2>9. QED BY <2>5, <2>6, <2>7, <2>8, InlineTyped
<1>4. QED BY <1>2, <1>3

\* Only the conversions to the forms of stages are ever made, so that no tag is turned.
LEMMA ConvertIntact ==
  ASSUME FieldTypeOK, resolved, converted = Convert(field, target)
  PROVE  FieldIntact
<1> DEFINE file == files[field.path]
           inlineWpi == [kind |-> "inline", format |-> "wpi"]
           refSai == [kind |-> "ref", format |-> "sai"]
<1>1. target = inlineWpi \/ target = refSai
  BY DEF FieldTypeOK, StageForms
<1>2. \A f : f \in FieldInline \/ f \in FieldRef => f # Invalid /\ f # Nothing
  BY FieldAssumption
<1>3. Invalid # Nothing BY FieldAssumption
<1>4. inlineWpi.kind = "inline" /\ inlineWpi.format = "wpi"
        /\ refSai.kind = "ref" /\ refSai.format = "sai"
  OBVIOUS
<1>5. CASE field \in FieldNamed
  <2>1. field.kind = "named" BY <1>5 DEF FieldNamed
  <2>2. converted = Invalid BY <2>1 DEF Convert
  <2>3. QED BY <1>3, <2>1, <2>2 DEF FieldIntact
<1>6. CASE field \in FieldInline
  <2>1. field.kind = "inline" /\ field.format \in {"wpi", "sai"}
          /\ field.tags \in Seq(AprilTagDefinition) /\ field # Invalid /\ field # Nothing
    BY <1>2, <1>6 DEF FieldInline, Formats
  <2>2. Load(field) = field BY <2>1 DEF Load
  <2>3. CASE target = refSai
    <3>1. FormOf(field) # target BY <1>4, <2>1, <2>3 DEF FormOf
    <3>2. \E f : f # Invalid /\ f.kind = "inline" /\ converted = Store(f)
      <4>1. CASE field.format = "sai"
        BY <1>4, <2>1, <2>2, <2>3, <3>1, <4>1 DEF Convert, NeedLoad
      <4>2. CASE field.format = "wpi"
        <5>1. AsInlineSai(field) # Invalid /\ AsInlineSai(field).kind = "inline"
          BY <1>6, AsInlineSaiTyped
        <5>2. converted = Store(AsInlineSai(field))
          BY <1>4, <2>1, <2>2, <2>3, <3>1, <4>2, <5>1 DEF Convert, NeedLoad
        <5>3. QED BY <5>1, <5>2
      <4>3. QED BY <2>1, <4>1, <4>2
    <3>3. converted = Nothing BY <3>2 DEF Store
    <3>4. QED BY <1>3, <1>4, <2>3, <3>3 DEF FieldIntact
  <2>4. CASE target = inlineWpi
    <3>1. CASE field.format = "wpi"
      <4>1. FormOf(field) = target BY <2>1, <2>4, <3>1 DEF FormOf
      <4>2. converted = field BY <2>1, <4>1 DEF Convert
      <4>3. QED BY <2>1, <4>1, <4>2 DEF FieldIntact
    <3>2. CASE field.format = "sai"
      <4>1. FormOf(field) # target BY <1>4, <2>4, <3>2 DEF FormOf
      <4>2. AsInlineWpi(field) = (IF field.tags # <<>> THEN Invalid ELSE Inline("wpi", <<>>))
        BY <3>2 DEF AsInlineWpi
      <4>3. converted = AsInlineWpi(field)
        BY <1>4, <2>1, <2>2, <2>4, <3>2, <4>1 DEF Convert, NeedLoad
      <4>4. CASE field.tags # <<>>
        BY <1>3, <3>2, <4>2, <4>3, <4>4 DEF FieldIntact
      <4>5. CASE field.tags = <<>>
        <5>1. converted = Inline("wpi", <<>>) BY <4>2, <4>3, <4>5
        <5>2. "wpi" \in Formats /\ <<>> \in Seq(AprilTagDefinition) BY DEF Formats
        <5>3. converted # Invalid /\ converted # Nothing BY <5>1, <5>2, InlineTyped
        <5>4. converted.kind = "inline" /\ converted.format = "wpi" /\ converted.tags = <<>>
          BY <5>1, InlineFields
        <5>5. FormOf(converted) = target BY <2>4, <5>4 DEF FormOf
        <5>6. TagsWith(converted) = {} /\ TagsWith(field) = {}
          BY <2>1, <4>5, <5>4, TagsWithPlaced
        <5>7. QED BY <5>3, <5>5, <5>6 DEF FieldIntact
      <4>6. QED BY <4>4, <4>5
    <3>3. QED BY <2>1, <3>1, <3>2
  <2>5. QED BY <1>1, <2>3, <2>4
<1>7. CASE field \in FieldRef
  <2>1. field.kind = "ref" /\ field.format \in {"wpi", "sai"}
          /\ field # Invalid /\ field # Nothing
          /\ (file \in FieldFile \/ file = Invalid)
    BY <1>2, <1>7 DEF FieldRef, Formats, FieldTypeOK
  <2> HIDE DEF file
  <2>2. ReadFile(field) = IF Readable(field) THEN file ELSE Invalid
    BY <2>1 DEF ReadFile, Readable, file
  <2>3. Readable(field) => file # Invalid /\ file \in FieldFile
    BY <2>1 DEF Readable, file
  <2>4. CASE field.format = "sai" /\ target = refSai
    <3>1. FormOf(field) = target BY <2>1, <2>4 DEF FormOf
    <3>2. converted = field BY <2>1, <3>1 DEF Convert
    <3>3. QED BY <2>1, <3>1, <3>2 DEF FieldIntact
  <2>5. CASE field.format = "sai" /\ target = inlineWpi
    <3>1. FormOf(field) # target BY <1>4, <2>1, <2>5 DEF FormOf
    <3>2. Load(field) = Invalid BY <2>1, <2>5 DEF Load
    <3>3. converted = Invalid
      BY <1>4, <2>1, <2>5, <3>1, <3>2 DEF Convert, NeedLoad
    <3>4. QED BY <1>3, <2>5, <3>3 DEF FieldIntact
  <2>6. CASE field.format = "wpi"
    <3>1. FormOf(field) # target BY <1>1, <1>4, <2>1, <2>6 DEF FormOf
    <3>2. NeedLoad(field, target) BY <1>1, <1>4, <2>6 DEF NeedLoad
    <3>3. CASE ~Readable(field)
      <4>1. Load(field) = Invalid BY <2>1, <2>2, <3>3 DEF Load
      <4>2. converted = Invalid BY <2>1, <3>1, <3>2, <4>1 DEF Convert
      <4>3. QED BY <1>3, <3>3, <4>2 DEF FieldIntact
    <3>4. CASE Readable(field)
      <4> DEFINE f == Inline("wpi", file.tags)
      <4>1. file.tags \in Seq(AprilTagDefinition) BY <2>3, <3>4 DEF FieldFile
      <4>2. f \in FieldInline /\ f # Invalid /\ f # Nothing
        <5>1. "wpi" \in Formats BY DEF Formats
        <5>2. QED BY <4>1, <5>1, InlineTyped
      <4>3. f.kind = "inline" /\ f.format = "wpi" /\ f.tags = file.tags
        BY InlineFields
      <4>4. Load(field) = f BY <2>1, <2>2, <2>3, <2>6, <3>4 DEF Load
      <4> HIDE DEF f
      <4>5. CASE target = refSai
        <5>1. AsInlineSai(f) # Invalid /\ AsInlineSai(f).kind = "inline"
          BY <4>2, AsInlineSaiTyped
        <5>2. converted = Store(AsInlineSai(f))
          BY <1>4, <2>1, <3>1, <3>2, <4>2, <4>3, <4>4, <4>5, <5>1 DEF Convert
        <5>3. converted = Nothing BY <5>1, <5>2 DEF Store
        <5>4. QED BY <1>3, <1>4, <4>5, <5>3 DEF FieldIntact
      <4>6. CASE target = inlineWpi
        <5>1. converted = f
          BY <1>4, <2>1, <3>1, <3>2, <4>2, <4>3, <4>4, <4>6 DEF Convert
        <5>2. FormOf(f) = target BY <4>3, <4>6 DEF FormOf
        <5>3. TagsWith(f) = TagsWith(field)
          BY <2>1, <2>6, <3>4, <4>3, TagsWithPlaced DEF file
        <5>4. QED BY <4>2, <5>1, <5>2, <5>3 DEF FieldIntact
      <4>7. QED BY <1>1, <4>5, <4>6
    <3>5. QED BY <3>3, <3>4
  <2>7. QED BY <1>1, <2>1, <2>4, <2>5, <2>6
<1>8. QED BY <1>5, <1>6, <1>7 DEF FieldTypeOK

\* Of a field that a stage is configured with, the stage gets the same tags in the same
\* places, or it was refused for a reason (convert, load, _resolve_stage_apriltag,
\* _resolve_stage_slam).
THEOREM FieldIntactHolds == FieldSpec => []FieldIntact
<1>1. FieldInit => FieldInv
  <2> SUFFICES ASSUME FieldInit PROVE FieldInv
    OBVIOUS
  <2>1. field \in FieldNamed \/ field \in FieldInline \/ field \in FieldRef
    BY FieldAssumption DEF FieldInit
  <2>2. field.kind = "ref" => files[field.path] \in FieldFile \/ files[field.path] = Invalid
    BY FieldAssumption DEF FieldInit
  <2>3. QED BY <2>1, <2>2 DEF FieldInit, FieldInv, FieldTypeOK
<1>2. FieldInv /\ [ResolveField]_fieldVars => FieldInv'
  <2> SUFFICES ASSUME FieldInv, [ResolveField]_fieldVars PROVE FieldInv'
    OBVIOUS
  <2>1. UNCHANGED <<field, target, files>>
    BY DEF ResolveField, fieldVars
  <2>2. FieldTypeOK' BY <2>1 DEF FieldInv, FieldTypeOK
  <2>3. \A f, form : Convert(f, form)' = Convert(f, form)
    BY <2>1 DEF Convert, Load, ReadFile, Store, NeedLoad, AsInlineSai, AsInlineWpi, FormOf
  <2>4. resolved' => converted' = Convert(field, target)
    <3>1. CASE ResolveField BY <3>1 DEF ResolveField
    <3>2. CASE UNCHANGED fieldVars BY <3>2 DEF fieldVars, FieldInv
    <3>3. QED BY <3>1, <3>2
  <2>5. QED BY <2>1, <2>2, <2>3, <2>4 DEF FieldInv
<1>3. FieldInv => FieldIntact
  <2> SUFFICES ASSUME FieldInv PROVE FieldIntact
    OBVIOUS
  <2>1. CASE resolved BY <2>1, ConvertIntact DEF FieldInv
  <2>2. CASE ~resolved BY <2>2 DEF FieldIntact
  <2>3. QED BY <2>1, <2>2
<1>4. QED BY <1>1, <1>2, <1>3, PTL DEF FieldSpec
=============================================================================
