--------------------------- MODULE Estimator_proof ---------------------------
(***************************************************************************)
(* What holds of the parts under the estimator for all values of their     *)
(* constants: the yaw of the NavX board, the tracked interpolations, the   *)
(* correction between the two histories of poses, the filter that replays  *)
(* measurements which come out of order, and the one on top of it that     *)
(* replays those whose value was updated.                                  *)
(***************************************************************************)
EXTENDS NavX, Interpolation, SimplePoseEstimator, CascadingReplayFilter, FiniteSetTheorems,
        SequenceTheorems, WellFoundedInduction, TLAPS

-----------------------------------------------------------------------------
(* NavX *)

\* An offset is an angle of the history's range, so the difference to it is corrected by
\* one turn at most (apply_offset).
LEMMA ShiftedRange ==
  ASSUME NEW y \in -180..180, yawOffset \in -180..180
  PROVE  Shifted(y) \in -180..180
BY DEF Shifted, Raised, Lowered

\* One sample moves the angle by the shorter way (next_angle).
LEMMA TurnOfSample ==
  ASSUME NavXTypeOK, NEW new \in Angles, NextAngle(new)
  PROVE  Angle' - Angle \in -180..180
<1>1. new \in -180..180 /\ lastAngle \in -180..180 /\ crossings \in Int
  BY NavXAssumption DEF NavXTypeOK
<1>2. CASE BottomCrossing(new)
  <2>1. crossings' = crossings /\ lastAngle' = new
    BY <1>1, <1>2 DEF NextAngle, Crossed
  <2>2. CASE new - lastAngle >= 180
    BY <1>1, <2>1, <2>2 DEF Angle
  <2>3. CASE new - lastAngle <= -180
    BY <1>1, <2>1, <2>3 DEF Angle
  <2>4. QED BY <1>2, <2>2, <2>3 DEF BottomCrossing
<1>3. CASE ~BottomCrossing(new)
  BY <1>1, <1>3 DEF NextAngle, Crossed, BottomCrossing, Angle
<1>4. QED BY <1>2, <1>3

LEMMA NavXTypeInit == NavXInit => NavXTypeOK
<1> SUFFICES ASSUME NavXInit PROVE NavXTypeOK
  OBVIOUS
<1>1. YawHistory \in Nat /\ MaxTurns \in Nat /\ 0 \in Angles
  BY NavXAssumption
<1>2. recent \in [0..(YawHistory - 1) -> Angles] /\ nextRecent \in 0..YawHistory
  BY <1>1 DEF NavXInit
<1>3. 0 \in -MaxTurns..MaxTurns /\ 0 \in -180..360
  BY <1>1
<1>4. QED BY <1>1, <1>2, <1>3 DEF NavXInit, NavXTypeOK

LEMMA HistoryTyped ==
  ASSUME NavXTypeOK, NEW y \in Angles, UpdateHistory(y)
  PROVE  recent' \in [0..(YawHistory - 1) -> Angles] /\ nextRecent' \in 0..YawHistory
BY NavXAssumption DEF NavXTypeOK, UpdateHistory

LEMMA TrackerTyped ==
  ASSUME NavXTypeOK, NEW y \in Angles, NextAngle(y)
  PROVE  /\ lastAngle' \in Angles /\ crossings' \in -MaxTurns..MaxTurns
         /\ lastRate' \in -180..360
<1>1. y \in -180..180 /\ lastAngle \in -180..180
  BY NavXAssumption DEF NavXTypeOK
<1>2. Rate(y) \in -180..360
  BY <1>1 DEF Rate
<1>3. QED BY <1>2 DEF NextAngle

LEMMA NavXTypeStep == NavXTypeOK /\ [NavXNext]_navxVars => NavXTypeOK'
<1> SUFFICES ASSUME NavXTypeOK, [NavXNext]_navxVars PROVE NavXTypeOK'
  OBVIOUS
<1>1. ASSUME NEW y \in Angles, SetYPR(y) PROVE NavXTypeOK'
  BY <1>1 DEF SetYPR, NavXTypeOK, trackerVars
<1>2. ASSUME NEW y \in Angles, SetAHRSData(y) PROVE NavXTypeOK'
  <2>1. UpdateHistory(y) BY <1>2 DEF SetAHRSData
  <2>2. QED BY <1>2, <2>1, HistoryTyped DEF SetAHRSData, NavXTypeOK, trackerVars
<1>3. ASSUME NEW y \in Angles, SetAHRSPosData(y) PROVE NavXTypeOK'
  <2>1. UpdateHistory(y) BY <1>3 DEF SetAHRSPosData
  <2>2. lastAngle' \in Angles /\ crossings' \in -MaxTurns..MaxTurns /\ lastRate' \in -180..360
    <3>1. CASE listening
      BY <1>3, <3>1 DEF SetAHRSPosData, NavXTypeOK, trackerVars
    <3>2. CASE ~listening
      BY <1>3, <3>2, TrackerTyped DEF SetAHRSPosData
    <3>3. QED BY <3>1, <3>2
  <2>3. QED BY <1>3, <2>1, <2>2, HistoryTyped DEF SetAHRSPosData, NavXTypeOK
<1>4. ASSUME NEW supported \in BOOLEAN, SetBoardState(supported) PROVE NavXTypeOK'
  BY <1>4 DEF SetBoardState, NavXTypeOK, trackerVars
<1>5. CASE RegisterClock
  BY <1>5 DEF RegisterClock, NavXTypeOK, trackerVars
<1>6. CASE ZeroYaw
  BY <1>6 DEF ZeroYaw, Averages, NavXTypeOK, trackerVars
<1>7. CASE UNCHANGED navxVars
  BY <1>7 DEF navxVars, NavXTypeOK
<1>8. QED
  BY <1>1, <1>2, <1>3, <1>4, <1>5, <1>6, <1>7 DEF NavXNext, Packet

\* The yaw that is given out stays in one turn, whatever offset was taken from whatever
\* history and whatever the board supports (AHRS.yaw, zero_yaw).
THEOREM YawInRangeHolds == NavXSpec => []YawInRange
<1>1. NavXTypeOK => YawInRange
  <2> SUFFICES ASSUME NavXTypeOK PROVE YawInRange
    OBVIOUS
  <2>1. yaw \in -180..180 /\ yawOffset \in -180..180
    BY NavXAssumption DEF NavXTypeOK
  <2>2. Shifted(yaw) \in -180..180 BY <2>1, ShiftedRange
  <2>3. QED BY <2>1, <2>2 DEF YawInRange, Yaw
<1>2. QED BY <1>1, NavXTypeInit, NavXTypeStep, PTL DEF NavXSpec

\* The accumulated angle follows the board by the shorter way (ContinuousAngleTracker).
THEOREM ShortestTurnHolds == NavXSpec => ShortestTurn
<1>1. NavXTypeOK /\ [NavXNext]_navxVars => [Angle' - Angle \in -180..180]_navxVars
  <2> SUFFICES ASSUME NavXTypeOK, NavXNext PROVE Angle' - Angle \in -180..180
    OBVIOUS
  <2>1. Angle \in Int
    BY NavXAssumption DEF NavXTypeOK, Angle
  <2>2. CASE UNCHANGED trackerVars
    <3>1. Angle' = Angle BY <2>2 DEF trackerVars, Angle
    <3>2. QED BY <2>1, <3>1
  <2>3. ASSUME NEW y \in Angles, NextAngle(y) PROVE Angle' - Angle \in -180..180
    BY <2>3, TurnOfSample
  <2>4. UNCHANGED trackerVars \/ \E y \in Angles : NextAngle(y)
    BY DEF NavXNext, Packet, SetYPR, SetAHRSData, SetAHRSPosData, SetBoardState,
           RegisterClock, ZeroYaw
  <2>5. QED BY <2>2, <2>3, <2>4
<1>2. QED
  BY <1>1, NavXTypeInit, NavXTypeStep, PTL DEF NavXSpec, ShortestTurn
-----------------------------------------------------------------------------
(* Sets of numbers *)

LEMMA LeastExists ==
  ASSUME NEW S \in SUBSET Nat, S # {}
  PROVE  \E m \in S : \A s \in S : m <= s
<1>1. PICK m \in S : \A s \in S : ~(<<s, m>> \in OpToRel(<, Nat))
  BY NatLessThanWellFounded, WFMin
<1>2. ASSUME NEW s \in S PROVE m <= s
  <2>1. m \in Nat /\ s \in Nat OBVIOUS
  <2>2. s < m => <<s, m>> \in OpToRel(<, Nat)
    BY <2>1 DEF OpToRel
  <2>3. ~(s < m) BY <1>1, <2>2
  <2>4. QED BY <2>1, <2>3
<1>3. QED BY <1>2

LEMMA GreatestExists ==
  ASSUME NEW n \in Nat, NEW S \in SUBSET (0..n), S # {}
  PROVE  \E m \in S : \A s \in S : s <= m
<1> DEFINE T == {n - s : s \in S}
<1>1. T \in SUBSET Nat
  <2>1. ASSUME NEW s \in S PROVE n - s \in Nat
    OBVIOUS
  <2>2. QED BY <2>1
<1>0. T # {}
  OBVIOUS
<1>2. PICK t \in T : \A u \in T : t <= u
  BY <1>0, <1>1, LeastExists
<1>3. PICK m \in S : t = n - m
  OBVIOUS
<1>4. ASSUME NEW s \in S PROVE s <= m
  <2>1. n - s \in T OBVIOUS
  <2>2. t <= n - s BY <1>2, <2>1
  <2>3. QED BY <1>3, <2>2
<1>5. QED BY <1>4

-----------------------------------------------------------------------------
(* Interpolation *)

Bounds == Bound \cup {NoBound}
TrackedBounds == [bottom : Bounds, top : Bounds, mod : Nat]

LEMMA BoundsTyped ==
  ASSUME snapshots \in [Keys -> Values \cup {Absent}], NEW key \in Keys
  PROVE  Bottom(key) \in Bounds /\ Top(key) \in Bounds
<1>1. ASSUME NEW k \in Sampled PROVE At(k) \in Bounds
  BY <1>1 DEF Sampled, At, Bounds, Bound
<1>2. MaxKey \in Nat /\ Sampled \subseteq 0..MaxKey
  BY InterpolationAssumption DEF Sampled, Keys
<1>3. Bottom(key) \in Bounds
  <2> DEFINE S == {k \in Sampled : k <= key}
  <2>1. CASE S = {}
    BY <2>1 DEF Bottom, Bounds
  <2>2. CASE S # {}
    <3>1. S \in SUBSET (0..MaxKey) BY <1>2
    <3>2. PICK m \in S : \A s \in S : s <= m
      BY <1>2, <2>2, <3>1, GreatestExists
    <3>3. \E k \in Sampled : k <= key /\ \A j \in Sampled : j <= key => j <= k
      BY <3>2
    <3>4. QED BY <1>1, <2>2, <3>3 DEF Bottom
  <2>3. QED BY <2>1, <2>2
<1>4. Top(key) \in Bounds
  <2> DEFINE S == {k \in Sampled : k >= key}
  <2>1. CASE S = {}
    BY <2>1 DEF Top, Bounds
  <2>2. CASE S # {}
    <3>1. S \in SUBSET Nat
      <4>1. 0..MaxKey \subseteq Nat BY <1>2
      <4>2. QED BY <1>2, <4>1
    <3>2. PICK m \in S : \A s \in S : m <= s
      BY <2>2, <3>1, LeastExists
    <3>3. m >= key /\ \A j \in Sampled : j >= key => j >= m
      BY <1>2, <3>1, <3>2
    <3>4. QED BY <1>1, <2>2, <3>2, <3>3 DEF Top
  <2>3. QED BY <2>1, <2>2
<1>5. QED BY <1>3, <1>4

\* Inductive: a value whose count is the buffer's has the bounds of now, and no count is
\* ahead of the buffer's, so a change of the buffer makes every count an old one.
CountsMeanBounds ==
  \A i \in Trackers : tracked[i] # Absent =>
    /\ tracked[i].mod <= modcount
    /\ tracked[i].mod = modcount => SameBounds(i)

InterpInv ==
  /\ snapshots \in [Keys -> Values \cup {Absent}] /\ modcount \in Nat
  /\ tracked \in [Trackers -> TrackedBounds \cup {Absent}]
  /\ CountsMeanBounds

LEMMA InterpInvInit == InterpInit => InterpInv
BY DEF InterpInit, InterpInv, CountsMeanBounds

\* A change of the buffer (add, clear).
LEMMA BufferChanges ==
  ASSUME InterpInv, modcount' = modcount + 1, UNCHANGED tracked,
         snapshots' \in [Keys -> Values \cup {Absent}]
  PROVE  InterpInv'
<1>1. modcount' \in Nat /\ tracked' \in [Trackers -> TrackedBounds \cup {Absent}]
  BY DEF InterpInv
<1>2. ASSUME NEW i \in Trackers, tracked'[i] # Absent
      PROVE  tracked'[i].mod <= modcount' /\ tracked'[i].mod # modcount'
  <2>1. tracked[i].mod \in Nat /\ tracked[i].mod <= modcount /\ modcount \in Nat
    BY <1>2 DEF InterpInv, CountsMeanBounds, TrackedBounds
  <2>2. QED BY <2>1
<1>3. CountsMeanBounds'
  BY <1>2 DEF CountsMeanBounds
<1>4. QED BY <1>1, <1>3 DEF InterpInv

\* What refresh makes of a tracked value.
LEMMA RefreshedValue ==
  ASSUME InterpInv, NEW i \in Trackers, tracked[i] # Absent
  PROVE  /\ Refreshed(i) \in TrackedBounds
         /\ Refreshed(i).mod <= modcount
         /\ Refreshed(i).mod = modcount =>
              Refreshed(i).bottom = Bottom(KeyOf[i]) /\ Refreshed(i).top = Top(KeyOf[i])
<1>1. tracked[i] \in TrackedBounds /\ tracked[i].mod <= modcount
  BY DEF InterpInv, CountsMeanBounds
<1>2. KeyOf[i] \in Keys BY InterpolationAssumption
<1>3. Bottom(KeyOf[i]) \in Bounds /\ Top(KeyOf[i]) \in Bounds
  BY <1>2, BoundsTyped DEF InterpInv
<1>4. CASE tracked[i].mod = modcount \/ GetsWorse(i)
  BY <1>1, <1>4 DEF Refreshed, InterpInv, CountsMeanBounds, SameBounds
<1>5. CASE ~(tracked[i].mod = modcount \/ GetsWorse(i))
  BY <1>1, <1>3, <1>5 DEF Refreshed, TrackedBounds
<1>6. QED BY <1>4, <1>5

\* The tracked values change, and the buffer stays as it is.
LEMMA TrackedChange ==
  ASSUME InterpInv, UNCHANGED <<snapshots, modcount>>,
         tracked' \in [Trackers -> TrackedBounds \cup {Absent}],
         \A i \in Trackers : tracked'[i] # Absent =>
           /\ tracked'[i].mod <= modcount
           /\ tracked'[i].mod = modcount =>
                tracked'[i].bottom = Bottom(KeyOf[i]) /\ tracked'[i].top = Top(KeyOf[i])
  PROVE  InterpInv'
<1>1. \A i \in Trackers : Bottom(KeyOf[i])' = Bottom(KeyOf[i]) /\ Top(KeyOf[i])' = Top(KeyOf[i])
  BY DEF Bottom, Top, Sampled, At
<1>2. CountsMeanBounds'
  BY <1>1 DEF CountsMeanBounds, SameBounds
<1>3. QED BY <1>2 DEF InterpInv

LEMMA InterpInvStep == InterpInv /\ [InterpNext]_interpVars => InterpInv'
<1> SUFFICES ASSUME InterpInv, [InterpNext]_interpVars PROVE InterpInv'
  OBVIOUS
<1>0. \A i \in Trackers : KeyOf[i] \in Keys
  BY InterpolationAssumption
<1>1. ASSUME NEW key \in Keys, NEW value \in Values, Add(key, value) PROVE InterpInv'
  <2>1. snapshots' \in [Keys -> Values \cup {Absent}]
    BY <1>1 DEF Add, InterpInv
  <2>2. QED BY <1>1, <2>1, BufferChanges DEF Add
<1>2. CASE ClearBuffer
  BY <1>2, BufferChanges DEF ClearBuffer
<1>3. ASSUME NEW i \in Trackers, Track(i) PROVE InterpInv'
  <2>1. [bottom |-> Bottom(KeyOf[i]), top |-> Top(KeyOf[i]), mod |-> modcount] \in TrackedBounds
    BY <1>0, BoundsTyped DEF InterpInv, TrackedBounds
  <2>2. tracked' \in [Trackers -> TrackedBounds \cup {Absent}]
    BY <1>3, <2>1 DEF Track, InterpInv
  <2>3. ASSUME NEW j \in Trackers, tracked'[j] # Absent
        PROVE  /\ tracked'[j].mod <= modcount
               /\ tracked'[j].mod = modcount =>
                    tracked'[j].bottom = Bottom(KeyOf[j]) /\ tracked'[j].top = Top(KeyOf[j])
    BY <1>3, <2>3 DEF Track, InterpInv, CountsMeanBounds, SameBounds
  <2>4. QED BY <1>3, <2>2, <2>3, TrackedChange DEF Track
<1>4. ASSUME NEW i \in Trackers, AskFresh(i) PROVE InterpInv'
  <2>1. tracked[i] \in TrackedBounds /\ SameBounds(i)
    BY <1>4 DEF AskFresh, IsFresh, InterpInv, CountsMeanBounds
  <2>2. [tracked[i] EXCEPT !.mod = modcount] \in TrackedBounds
    BY <2>1 DEF TrackedBounds, InterpInv
  <2>3. tracked' = [tracked EXCEPT ![i] = [tracked[i] EXCEPT !.mod = modcount]]
    BY <1>4 DEF AskFresh
  <2>4. tracked' \in [Trackers -> TrackedBounds \cup {Absent}]
    BY <2>2, <2>3 DEF InterpInv
  <2>5. ASSUME NEW j \in Trackers, tracked'[j] # Absent
        PROVE  /\ tracked'[j].mod <= modcount
               /\ tracked'[j].mod = modcount =>
                    tracked'[j].bottom = Bottom(KeyOf[j]) /\ tracked'[j].top = Top(KeyOf[j])
    <3>1. CASE j = i
      BY <2>1, <2>3, <3>1 DEF InterpInv, SameBounds, TrackedBounds
    <3>2. CASE j # i
      BY <2>3, <2>5, <3>2 DEF InterpInv, CountsMeanBounds, SameBounds
    <3>3. QED BY <3>1, <3>2
  <2>6. QED BY <1>4, <2>4, <2>5, TrackedChange DEF AskFresh
<1>5. ASSUME NEW i \in Trackers, Refresh(i) PROVE InterpInv'
  <2>1. tracked' \in [Trackers -> TrackedBounds \cup {Absent}]
    BY <1>5, RefreshedValue DEF Refresh, InterpInv
  <2>2. ASSUME NEW j \in Trackers, tracked'[j] # Absent
        PROVE  /\ tracked'[j].mod <= modcount
               /\ tracked'[j].mod = modcount =>
                    tracked'[j].bottom = Bottom(KeyOf[j]) /\ tracked'[j].top = Top(KeyOf[j])
    <3>1. CASE j = i
      <4>1. tracked'[j] = Refreshed(i) BY <1>5, <3>1 DEF Refresh, InterpInv
      <4>2. QED BY <1>5, <3>1, <4>1, RefreshedValue DEF Refresh
    <3>2. CASE j # i
      BY <1>5, <2>2, <3>2 DEF Refresh, InterpInv, CountsMeanBounds, SameBounds
    <3>3. QED BY <3>1, <3>2
  <2>3. QED BY <1>5, <2>1, <2>2, TrackedChange DEF Refresh
<1>6. CASE ReadDerived
  <2>1. ASSUME NEW j \in Trackers, tracked'[j] # Absent
        PROVE  /\ tracked'[j].mod <= modcount
               /\ tracked'[j].mod = modcount =>
                    tracked'[j].bottom = Bottom(KeyOf[j]) /\ tracked'[j].top = Top(KeyOf[j])
    BY <1>6, <2>1 DEF ReadDerived, InterpInv, CountsMeanBounds, SameBounds
  <2>2. tracked' \in [Trackers -> TrackedBounds \cup {Absent}]
    BY <1>6 DEF ReadDerived, InterpInv
  <2>3. QED BY <1>6, <2>1, <2>2, TrackedChange DEF ReadDerived
<1>7. CASE RefreshDerived
  <2>1. \A j \in Trackers : tracked'[j] = Refreshed(j) /\ tracked[j] # Absent
    BY <1>7 DEF RefreshDerived, AllTracked
  <2>2. tracked' = [j \in Trackers |-> Refreshed(j)]
    BY <1>7 DEF RefreshDerived
  <2>3. tracked' \in [Trackers -> TrackedBounds \cup {Absent}]
    BY <2>1, <2>2, RefreshedValue
  <2>4. ASSUME NEW j \in Trackers, tracked'[j] # Absent
        PROVE  /\ tracked'[j].mod <= modcount
               /\ tracked'[j].mod = modcount =>
                    tracked'[j].bottom = Bottom(KeyOf[j]) /\ tracked'[j].top = Top(KeyOf[j])
    BY <2>1, RefreshedValue
  <2>5. QED BY <1>7, <2>3, <2>4, TrackedChange DEF RefreshDerived
<1>8. CASE UNCHANGED interpVars
  <2>1. UNCHANGED <<snapshots, modcount, tracked>>
    BY <1>8 DEF interpVars
  <2>2. ASSUME NEW j \in Trackers, tracked'[j] # Absent
        PROVE  /\ tracked'[j].mod <= modcount
               /\ tracked'[j].mod = modcount =>
                    tracked'[j].bottom = Bottom(KeyOf[j]) /\ tracked'[j].top = Top(KeyOf[j])
    BY <2>1, <2>2 DEF InterpInv, CountsMeanBounds, SameBounds
  <2>3. tracked' \in [Trackers -> TrackedBounds \cup {Absent}]
    BY <2>1 DEF InterpInv
  <2>4. QED BY <2>1, <2>2, <2>3, TrackedChange
<1>9. QED
  BY <1>1, <1>2, <1>3, <1>4, <1>5, <1>6, <1>7, <1>8 DEF InterpNext

LEMMA FreshFromInv == InterpInv => FreshIsCurrent
BY DEF InterpInv, CountsMeanBounds, FreshIsCurrent, IsFresh, SameBounds, Argument, Current

LEMMA DerivedFromInv == InterpInv => DerivedIsCurrent
<1> SUFFICES ASSUME InterpInv, AllTracked, lastArgs # Absent, DerivedFresh
             PROVE  lastArgs = [i \in Trackers |-> Current(i)]
  BY DEF DerivedIsCurrent
<1>1. \A i \in Trackers : Argument(i) = Current(i)
  BY FreshFromInv DEF DerivedFresh, AllTracked, FreshIsCurrent
<1>2. lastArgs = [i \in Trackers |-> Argument(i)]
  BY DEF DerivedFresh, Arguments
<1>3. QED BY <1>1, <1>2

\* A tracked value that says it is fresh is the buffer's value of now (is_fresh).
THEOREM FreshIsCurrentHolds == InterpSpec => []FreshIsCurrent
BY InterpInvInit, InterpInvStep, FreshFromInv, PTL DEF InterpSpec

\* A derived value that says it is fresh is that of the current arguments
\* (Derived.is_fresh).
THEOREM DerivedIsCurrentHolds == InterpSpec => []DerivedIsCurrent
BY InterpInvInit, InterpInvStep, DerivedFromInv, PTL DEF InterpSpec

-----------------------------------------------------------------------------
(* SimplePoseEstimator *)

PoseTypeOK == f2r \in SUBSET PoseTimes /\ f2o \in SUBSET PoseTimes

LEMMA OldestAndNewest ==
  ASSUME NEW b \in SUBSET PoseTimes, b # {}
  PROVE  /\ Oldest(b) \in b /\ \A u \in b : Oldest(b) <= u
         /\ Newest(b) \in b /\ \A u \in b : u <= Newest(b)
<1>1. MaxPoseTime \in Nat /\ b \in SUBSET (0..MaxPoseTime) /\ b \in SUBSET Nat
  BY PoseAssumption DEF PoseTimes
<1>2. \E t \in b : \A u \in b : t <= u
  BY <1>1, LeastExists
<1>3. \E t \in b : \A u \in b : u <= t
  BY <1>1, GreatestExists
<1>4. \E t \in b : \A u \in b : t >= u
  BY <1>1, <1>3
<1>5. Oldest(b) \in b /\ \A u \in b : Oldest(b) <= u
  BY <1>2 DEF Oldest
<1>6. Newest(b) \in b /\ \A u \in b : Newest(b) >= u
  BY <1>4 DEF Newest
<1>7. QED BY <1>1, <1>5, <1>6

\* The newest element is the one that no other exceeds.
LEMMA NewestUnique ==
  ASSUME NEW b \in SUBSET PoseTimes, NEW t \in b, \A u \in b : u <= t
  PROVE  Newest(b) = t
<1>1. Newest(b) \in b /\ t <= Newest(b) /\ Newest(b) <= t
  BY OldestAndNewest
<1>2. PoseTimes \subseteq Int BY PoseAssumption DEF PoseTimes
<1>3. t \in Int /\ Newest(b) \in Int BY <1>1, <1>2
<1>4. QED BY <1>1, <1>3

\* odom_to_robot compares two ends of each history; what comes out is the last time that
\* both cover.
LEMMA CorrectionIsLatest ==
  ASSUME PoseTypeOK
  PROVE  Correction = IF Covered(f2o) \cap Covered(f2r) = {} THEN o2r
                      ELSE Newest(Covered(f2o) \cap Covered(f2r))
<1> DEFINE both == Covered(f2o) \cap Covered(f2r)
<1>1. CASE f2o = {} \/ f2r = {}
  BY <1>1 DEF Correction, Covered
<1>2. CASE f2o # {} /\ f2r # {}
  <2> DEFINE from == Larger(Oldest(f2o), Oldest(f2r))
             to == Smaller(Newest(f2o), Newest(f2r))
  <2>1. /\ Oldest(f2o) \in PoseTimes /\ Newest(f2o) \in PoseTimes
        /\ Oldest(f2r) \in PoseTimes /\ Newest(f2r) \in PoseTimes
    BY <1>2, OldestAndNewest DEF PoseTypeOK
  <2>2. from \in PoseTimes /\ to \in PoseTimes
    BY <2>1 DEF Larger, Smaller
  <2>3. both = {t \in PoseTimes : from <= t /\ t <= to}
    BY <1>2, <2>1 DEF Covered, Larger, Smaller, PoseTimes
  <2>4. CASE to < from
    <3>1. both = {} BY <2>2, <2>3, <2>4 DEF PoseTimes
    <3>2. QED BY <1>2, <2>4, <3>1 DEF Correction
  <2>5. CASE ~(to < from)
    <3>1. to \in both /\ \A u \in both : u <= to
      BY <2>2, <2>3, <2>5 DEF PoseTimes
    <3>2. Newest(both) = to
      BY <2>3, <3>1, NewestUnique
    <3>3. QED BY <1>2, <2>5, <3>1, <3>2 DEF Correction
  <2>6. QED BY <2>4, <2>5
<1>3. QED BY <1>1, <1>2

PoseInv == PoseTypeOK /\ LatestCommonPair

\* A correction is that of the last time which both histories cover, for any history and
\* any order of the samples (odom_to_robot).
THEOREM LatestCommonPairHolds == PoseSpec => []LatestCommonPair
<1>1. PoseInit => PoseInv
  BY DEF PoseInit, PoseInv, PoseTypeOK, LatestCommonPair
<1>2. PoseInv /\ [PoseNext]_poseVars => PoseInv'
  <2> SUFFICES ASSUME PoseInv, [PoseNext]_poseVars PROVE PoseInv'
    OBVIOUS
  <2>1. ASSUME NEW t \in PoseTimes, RecordF2R(t) PROVE PoseInv'
    BY <2>1 DEF RecordF2R, WithSample, PoseInv, PoseTypeOK, LatestCommonPair
  <2>2. ASSUME NEW t \in PoseTimes, RecordF2O(t) PROVE PoseInv'
    BY <2>2 DEF RecordF2O, WithSample, PoseInv, PoseTypeOK, LatestCommonPair
  <2>3. CASE OdomToRobot
    <3>1. answer' = latest'
      BY <2>3, CorrectionIsLatest DEF OdomToRobot, PoseInv
    <3>2. QED BY <2>3, <3>1 DEF OdomToRobot, PoseInv, PoseTypeOK, LatestCommonPair
  <2>4. CASE Forget
    BY <2>4 DEF Forget, PoseInv, PoseTypeOK, LatestCommonPair
  <2>5. CASE UNCHANGED poseVars
    BY <2>5 DEF poseVars, PoseInv, PoseTypeOK, LatestCommonPair
  <2>6. QED BY <2>1, <2>2, <2>3, <2>4, <2>5 DEF PoseNext
<1>3. QED BY <1>1, <1>2, PTL DEF PoseSpec, PoseInv

-----------------------------------------------------------------------------
(* Sets in order, sequences *)

\* A strict total order, as a relation.
TotalOn(R, S) ==
  /\ \A a, b \in S : a = b \/ <<a, b>> \in R \/ <<b, a>> \in R
  /\ \A a, b, c \in S : <<a, b>> \in R /\ <<b, c>> \in R => <<a, c>> \in R

\* A finite set that is not empty has a last element, or else there would be a smallest
\* set without one.
LEMMA LastOfSet ==
  ASSUME NEW S, IsFiniteSet(S), S # {}, NEW R, TotalOn(R, S)
  PROVE  \E m \in S : \A a \in S \ {m} : <<a, m>> \in R
<1> DEFINE HasLast(T) == \E m \in T : \A a \in T \ {m} : <<a, m>> \in R
           Sizes == {n \in Nat : \E T \in SUBSET S : T # {} /\ Cardinality(T) = n /\ ~HasLast(T)}
<1>1. \A T \in SUBSET S : IsFiniteSet(T) /\ Cardinality(T) \in Nat
  BY FS_Subset, FS_CardinalityType
<1>2. CASE Sizes # {}
  <2>1. PICK n \in Sizes : \A k \in Sizes : n <= k
    BY <1>2, LeastExists
  <2>2. PICK T \in SUBSET S : T # {} /\ Cardinality(T) = n /\ ~HasLast(T)
    BY <2>1
  <2>3. PICK x \in T : TRUE BY <2>2
  <2> DEFINE U == T \ {x}
  <2>4. Cardinality(U) = n - 1 /\ U \in SUBSET S
    BY <1>1, <2>2, <2>3, FS_RemoveElement
  <2>5. CASE U = {}
    BY <2>2, <2>3, <2>5
  <2>6. CASE U # {}
    <3>1. Cardinality(U) \in Nat /\ n \in Nat BY <1>1, <2>4
    <3>2. ~(n <= n - 1) BY <3>1
    <3>3. HasLast(U)
      <4>1. Cardinality(U) \notin Sizes
        <5> HIDE DEF Sizes
        <5>1. QED BY <2>1, <2>4, <3>2
      <4>2. QED BY <2>4, <2>6, <3>1, <4>1
    <3>4. PICK m \in U : \A a \in U \ {m} : <<a, m>> \in R BY <3>3
    <3>5. m \in S /\ x \in S /\ m # x BY <2>2, <2>3, <2>4, <3>4
    <3>6. CASE <<x, m>> \in R
      <4>1. \A a \in T \ {m} : <<a, m>> \in R BY <3>4, <3>6
      <4>2. QED BY <2>2, <3>4, <4>1
    <3>7. CASE <<m, x>> \in R
      <4>1. \A a \in T \ {x} : <<a, x>> \in R
        <5>1. SUFFICES ASSUME NEW a \in T \ {x} PROVE <<a, x>> \in R
          OBVIOUS
        <5>2. CASE a = m BY <3>7, <5>2
        <5>3. CASE a # m
          <6>1. <<a, m>> \in R /\ a \in S BY <2>2, <3>4, <5>1, <5>3
          <6>2. QED BY <3>5, <3>7, <6>1 DEF TotalOn
        <5>4. QED BY <5>2, <5>3
      <4>2. QED BY <2>2, <2>3, <4>1
    <3>8. <<x, m>> \in R \/ <<m, x>> \in R BY <3>5 DEF TotalOn
    <3>9. QED BY <3>6, <3>7, <3>8
  <2>7. QED BY <2>5, <2>6
<1>3. CASE Sizes = {}
  <2>1. Cardinality(S) \in Nat /\ S \in SUBSET S BY <1>1
  <2>2. QED BY <1>3, <2>1
<1>4. QED BY <1>2, <1>3

LEMMA OrderedExists ==
  ASSUME NEW S, IsFiniteSet(S), NEW R, TotalOn(R, S)
  PROVE  \E q \in SetToSeqs(S) : \A i, j \in DOMAIN q : i < j => <<q[i], q[j]>> \in R
<1> DEFINE Enumerates(q, T) ==
             /\ q \in [1..Cardinality(T) -> T]
             /\ \A i, j \in 1..Cardinality(T) : i < j => <<q[i], q[j]>> \in R /\ q[i] # q[j]
           Sizes == {n \in Nat : \E T \in SUBSET S : Cardinality(T) = n /\ ~\E q : Enumerates(q, T)}
<1>1. \A T \in SUBSET S : IsFiniteSet(T) /\ Cardinality(T) \in Nat
  BY FS_Subset, FS_CardinalityType
<1>2. CASE Sizes # {}
  <2>1. PICK n \in Sizes : \A k \in Sizes : n <= k
    BY <1>2, LeastExists
  <2>2. PICK T \in SUBSET S : Cardinality(T) = n /\ ~\E q : Enumerates(q, T)
    BY <2>1
  <2>3. CASE T = {}
    <3>1. 1..Cardinality(T) = {} BY <2>3, FS_EmptySet
    <3>2. Enumerates([i \in {} |-> i], T) BY <2>3, <3>1
    <3>3. QED BY <2>2, <3>2
  <2>4. CASE T # {}
    <3>1. TotalOn(R, T) BY <2>2 DEF TotalOn
    <3>2. PICK m \in T : \A a \in T \ {m} : <<a, m>> \in R
      BY <1>1, <2>4, <3>1, LastOfSet
    <3> DEFINE U == T \ {m}
    <3>3. Cardinality(U) = n - 1 /\ U \in SUBSET S
      BY <1>1, <2>2, <3>2, FS_RemoveElement
    <3>4. Cardinality(U) \in Nat /\ n \in Nat BY <1>1, <3>3
    <3>5. n - 1 \notin Sizes BY <2>1, <3>3, <3>4
    <3>6. PICK p : Enumerates(p, U) BY <3>3, <3>4, <3>5
    <3> DEFINE q == [i \in 1..n |-> IF i = n THEN m ELSE p[i]]
    <3>7. \A i \in 1..n : i # n => i \in 1..Cardinality(U)
      BY <3>3, <3>4
    <3>8. q \in [1..n -> T]
      BY <3>2, <3>6, <3>7
    <3>9. ASSUME NEW i \in 1..n, NEW j \in 1..n, i < j
          PROVE  <<q[i], q[j]>> \in R /\ q[i] # q[j]
      <4>0. i # n /\ i \in 1..Cardinality(U)
        <5> HIDE DEF U, Sizes
        <5>1. i \in Int /\ j \in Int /\ i < j /\ j <= n BY <3>4, <3>9
        <5>2. QED BY <3>4, <3>7, <5>1
      <4>1. i # n /\ i \in 1..Cardinality(U) /\ p[i] \in U BY <3>6, <4>0
      <4>2. CASE j = n BY <3>2, <4>1, <4>2
      <4>3. CASE j # n
        <5>1. j \in 1..Cardinality(U) BY <3>7, <4>3
        <5>2. <<p[i], p[j]>> \in R /\ p[i] # p[j] BY <3>6, <3>9, <4>1, <5>1
        <5>3. QED BY <4>1, <4>3, <5>2
      <4>4. QED BY <4>2, <4>3
    <3> HIDE DEF q
    <3>10. Enumerates(q, T) BY <2>2, <3>8, <3>9
    <3>11. QED BY <2>2, <3>10
  <2>5. QED BY <2>3, <2>4
<1>3. CASE Sizes = {}
  <2>1. Cardinality(S) \in Nat /\ S \in SUBSET S BY <1>1
  <2>2. PICK q : Enumerates(q, S) BY <1>3, <2>1
  <2>3. \A i, j \in 1..Cardinality(S) : i # j => q[i] # q[j]
    <3>1. SUFFICES ASSUME NEW i \in 1..Cardinality(S), NEW j \in 1..Cardinality(S), i # j
                   PROVE  q[i] # q[j]
      OBVIOUS
    <3>2. i < j \/ j < i BY <2>1, <3>1
    <3>3. QED BY <2>2, <3>2
  <2>4. q \in SetToSeqs(S) BY <2>2, <2>3 DEF SetToSeqs
  <2>5. QED BY <2>2, <2>4
<1>4. QED BY <1>2, <1>3

\* A sequence without repetition that is as long as a finite set has all of it.
LEMMA SeqsOfSet ==
  ASSUME NEW S, IsFiniteSet(S), NEW q \in SetToSeqs(S)
  PROVE  /\ q \in Seq(S) /\ ToSet(q) = S
         /\ \A i, j \in DOMAIN q : i # j => q[i] # q[j]
<1>1. Cardinality(S) \in Nat BY FS_CardinalityType
<1>2. q \in [1..Cardinality(S) -> S] /\ q \in Seq(S)
        /\ \A i, j \in 1..Cardinality(S) : i # j => q[i] # q[j]
  BY <1>1 DEF SetToSeqs
<1>3. q \in Injection(1..Cardinality(S), S)
  BY <1>2 DEF Injection, IsInjective
<1>4. IsFiniteSet(1..Cardinality(S)) /\ Cardinality(1..Cardinality(S)) = Cardinality(S)
  BY <1>1, FS_Interval
<1>5. q \in Surjection(1..Cardinality(S), S)
  BY <1>3, <1>4, FS_Injection
<1>6. \A x \in S : \E i \in 1..Cardinality(S) : q[i] = x
  BY <1>5 DEF Surjection
<1>7. ToSet(q) = S BY <1>2, <1>6 DEF ToSet
<1>8. QED BY <1>2, <1>7

LEMMA PlacesAppended ==
  ASSUME NEW a \in Nat, NEW b \in Nat
  PROVE  /\ \A x \in 1 .. a + b : x \in 1..a \/ \E y \in 1..b : x = a + y
         /\ \A y \in 1..b : a + y \in 1 .. a + b /\ a + y > a
         /\ \A x \in 1..a : x \in 1 .. a + b
<1>1. ASSUME NEW x \in 1 .. a + b PROVE x \in 1..a \/ \E y \in 1..b : x = a + y
  <2>1. CASE x <= a BY <2>1
  <2>2. CASE x > a
    <3>1. x - a \in 1..b /\ x = a + (x - a) BY <2>2
    <3>2. QED BY <3>1
  <2>3. QED BY <2>1, <2>2
<1>2. QED BY <1>1

LEMMA Appending ==
  ASSUME NEW S, NEW a \in Seq(S), NEW b \in Seq(S)
  PROVE  /\ a \o b \in Seq(S) /\ Len(a) \in Nat /\ Len(b) \in Nat
         /\ Len(a \o b) = Len(a) + Len(b)
         /\ \A i \in 1..Len(a) : (a \o b)[i] = a[i]
         /\ \A j \in 1..Len(b) : (a \o b)[Len(a) + j] = b[j]
<1>1. /\ a \o b \in Seq(S) /\ Len(a) \in Nat /\ Len(b) \in Nat
      /\ Len(a \o b) = Len(a) + Len(b)
      /\ \A i \in 1 .. Len(a) + Len(b) :
           (a \o b)[i] = IF i <= Len(a) THEN a[i] ELSE b[i - Len(a)]
  BY ConcatProperties, LenProperties
<1>2. \A i \in 1..Len(a) : i \in 1 .. Len(a) + Len(b) /\ i <= Len(a) BY <1>1
<1>3. \A j \in 1..Len(b) : /\ Len(a) + j \in 1 .. Len(a) + Len(b) /\ ~(Len(a) + j <= Len(a))
                           /\ Len(a) + j - Len(a) = j
  BY <1>1
<1>4. QED BY <1>1, <1>2, <1>3

-----------------------------------------------------------------------------
(* ReplayFilter: the heap *)

LEMMA NumbersOfMeasurement ==
  \A a \in Measurement : a.ts \in Nat /\ a.id \in Nat
<1>1. Ids \subseteq Nat /\ Times \subseteq Nat
  BY ReplayAssumption DEF Times
<1>2. QED BY <1>1 DEF Measurement

LEMMA InOrderSorts ==
  ASSUME NEW S \in SUBSET Measurement, IsFiniteSet(S),
         \A a, b \in S : a.id = b.id => a = b
  PROVE  /\ InOrder(S) \in Seq(S) /\ ToSet(InOrder(S)) = S
         /\ \A i, j \in DOMAIN InOrder(S) : i # j => InOrder(S)[i] # InOrder(S)[j]
         /\ Ascending(InOrder(S))
<1> DEFINE R == {p \in S \X S : Before(p[1], p[2])}
<1>0. \A a \in S : a.ts \in Int /\ a.id \in Int
  BY NumbersOfMeasurement
<1>1. \A a, b \in S : <<a, b>> \in R <=> Before(a, b) OBVIOUS
<1>2. TotalOn(R, S)
  <2>1. ASSUME NEW a \in S, NEW b \in S PROVE a = b \/ Before(a, b) \/ Before(b, a)
    BY <1>0 DEF Before
  <2>2. ASSUME NEW a \in S, NEW b \in S, NEW c \in S, Before(a, b), Before(b, c)
        PROVE  Before(a, c)
    BY <1>0, <2>2 DEF Before
  <2> HIDE DEF R
  <2>3. QED BY <1>1, <2>1, <2>2 DEF TotalOn
<1>3. PICK p \in SetToSeqs(S) : \A i, j \in DOMAIN p : i < j => <<p[i], p[j]>> \in R
  BY <1>2, OrderedExists
<1>4. \A i, j \in DOMAIN p : i < j => Before(p[i], p[j]) BY <1>3
<1> DEFINE q == CHOOSE r \in SetToSeqs(S) : \A i, j \in DOMAIN r : i < j => Before(r[i], r[j])
<1>5. q \in SetToSeqs(S) /\ \A i, j \in DOMAIN q : i < j => Before(q[i], q[j])
  BY <1>4
<1>6. InOrder(S) = q BY DEF InOrder, Sorted
<1> HIDE DEF q
<1>7. q \in Seq(S) /\ ToSet(q) = S /\ \A i, j \in DOMAIN q : i # j => q[i] # q[j]
  BY <1>5, SeqsOfSet
<1>8. \A i \in DOMAIN q : q[i] \in S BY <1>7
<1>9. Ascending(q) BY <1>0, <1>5, <1>8 DEF Ascending, Before
<1>10. QED BY <1>6, <1>7, <1>9

LEMMA NumbersSorted ==
  ASSUME NEW n \in Nat, NEW S \in SUBSET (1..n)
  PROVE  /\ Sorted(S, <) \in Seq(S) /\ ToSet(Sorted(S, <)) = S
         /\ \A i, j \in DOMAIN Sorted(S, <) : i < j => Sorted(S, <)[i] < Sorted(S, <)[j]
<1> DEFINE R == {p \in S \X S : p[1] < p[2]}
<1>0. IsFiniteSet(S) /\ \A a \in S : a \in Int
  <2>1. IsFiniteSet(1..n) BY FS_Interval
  <2>2. IsFiniteSet(S) BY <2>1, FS_Subset
  <2>3. \A a \in 1..n : a \in Int OBVIOUS
  <2>4. QED BY <2>2, <2>3
<1>1. \A a, b \in S : <<a, b>> \in R <=> a < b OBVIOUS
<1>2. TotalOn(R, S)
  <2> HIDE DEF R
  <2>1. QED BY <1>0, <1>1 DEF TotalOn
<1>3. PICK p \in SetToSeqs(S) : \A i, j \in DOMAIN p : i < j => <<p[i], p[j]>> \in R
  BY <1>0, <1>2, OrderedExists
<1>4. \A i, j \in DOMAIN p : i < j => p[i] < p[j] BY <1>3
<1> DEFINE q == CHOOSE r \in SetToSeqs(S) : \A i, j \in DOMAIN r : i < j => r[i] < r[j]
<1>5. q \in SetToSeqs(S) /\ \A i, j \in DOMAIN q : i < j => q[i] < q[j]
  BY <1>4
<1>6. Sorted(S, <) = q BY DEF Sorted
<1> HIDE DEF q
<1>7. q \in Seq(S) /\ ToSet(q) = S
  BY <1>0, <1>5, SeqsOfSet
<1>8. QED BY <1>5, <1>6, <1>7

-----------------------------------------------------------------------------
(* ReplayFilter: the histories *)

\* Of a sequence in the order of its timestamps PopAfter leaves those up to the cutoff.
LEMMA PopAfterKeeps ==
  ASSUME NEW S, \A x \in S : x.ts \in Int,
         NEW q \in Seq(S), Ascending(q), NEW cutoff \in Int
  PROVE  \E n \in 0..Len(q) :
           /\ PopAfter(q, cutoff) \in Seq(S) /\ Len(PopAfter(q, cutoff)) = n
           /\ \A i \in 1..n : PopAfter(q, cutoff)[i] = q[i]
           /\ \A i \in 1..Len(q) : i <= n <=> q[i].ts <= cutoff
<1> DEFINE upTo == {i \in DOMAIN q : q[i].ts <= cutoff} \cup {0}
           n == Max(upTo)
<1>1. Len(q) \in Nat /\ DOMAIN q = 1..Len(q) /\ \A i \in 1..Len(q) : q[i] \in S /\ q[i].ts \in Int
  BY ElementOfSeq
<1>2. upTo \in SUBSET (0..Len(q)) /\ upTo # {} BY <1>1
<1>3. PICK m \in upTo : \A i \in upTo : i <= m
  BY <1>1, <1>2, GreatestExists
<1>4. \A i \in upTo : m >= i BY <1>1, <1>2, <1>3
<1>5. n \in upTo /\ \A i \in upTo : n >= i BY <1>4 DEF Max
<1>6. n \in 0..Len(q) BY <1>2, <1>5
<1>7. PopAfter(q, cutoff) = SubSeq(q, 1, n) BY DEF PopAfter
<1>8. ASSUME NEW i \in 1..Len(q) PROVE i <= n <=> q[i].ts <= cutoff
  <2>1. CASE q[i].ts <= cutoff
    <3>1. i \in upTo BY <1>1, <2>1
    <3>2. n >= i BY <1>5, <3>1
    <3>3. QED BY <1>1, <1>6, <2>1, <3>2
  <2>2. CASE i <= n
    <3>1. n # 0 /\ n \in 1..Len(q) BY <1>1, <1>6, <2>2
    <3>2. q[n].ts <= cutoff BY <1>5, <3>1
    <3>3. q[i].ts <= q[n].ts
      <4>1. i = n \/ i < n BY <1>1, <3>1, <2>2
      <4>2. CASE i = n BY <1>1, <4>2
      <4>3. CASE i < n BY <1>1, <3>1, <4>3 DEF Ascending
      <4>4. QED BY <4>1, <4>2, <4>3
    <3>4. q[i].ts <= cutoff BY <1>1, <3>1, <3>2, <3>3
    <3>5. QED BY <2>2, <3>4
  <2>3. QED BY <2>1, <2>2
<1> HIDE DEF n
<1>9. 1 \in Int /\ n \in Int /\ \A i \in 1..n : q[i] \in S BY <1>1, <1>6
<1>10. /\ SubSeq(q, 1, n) \in Seq(S)
       /\ Len(SubSeq(q, 1, n)) = IF 1 <= n THEN n - 1 + 1 ELSE 0
       /\ \A i \in 1 .. n - 1 + 1 : SubSeq(q, 1, n)[i] = q[1 + i - 1]
  BY <1>9, SubSeqProperties
<1>11. Len(SubSeq(q, 1, n)) = n /\ \A i \in 1..n : SubSeq(q, 1, n)[i] = q[i]
  BY <1>6, <1>10
<1>12. /\ PopAfter(q, cutoff) \in Seq(S) /\ Len(PopAfter(q, cutoff)) = n
       /\ \A i \in 1..n : PopAfter(q, cutoff)[i] = q[i]
  BY <1>7, <1>10, <1>11
<1>13. QED BY <1>6, <1>8, <1>12

\* And PopBefore those from the cutoff on.
LEMMA PopBeforeKeeps ==
  ASSUME NEW S, \A x \in S : x.ts \in Int,
         NEW q \in Seq(S), Ascending(q), NEW cutoff \in Int
  PROVE  \E n \in 0..Len(q) :
           /\ PopBefore(q, cutoff) \in Seq(S) /\ Len(PopBefore(q, cutoff)) = Len(q) - n
           /\ \A i \in 1 .. Len(q) - n : PopBefore(q, cutoff)[i] = q[n + i]
           /\ \A i \in 1..Len(q) : i <= n <=> q[i].ts < cutoff
<1> DEFINE from == {i \in DOMAIN q : q[i].ts >= cutoff} \cup {Len(q) + 1}
           m == Min(from)
<1>1. Len(q) \in Nat /\ DOMAIN q = 1..Len(q) /\ \A i \in 1..Len(q) : q[i] \in S /\ q[i].ts \in Int
  BY ElementOfSeq
<1>2. from \in SUBSET (1 .. Len(q) + 1) /\ from \in SUBSET Nat /\ from # {} BY <1>1
<1>3. m \in from /\ \A i \in from : m <= i
  BY <1>2, LeastExists DEF Min
<1>4. m \in 1 .. Len(q) + 1 BY <1>2, <1>3
<1>5. PopBefore(q, cutoff) = SubSeq(q, m, Len(q)) BY DEF PopBefore
<1>6. ASSUME NEW i \in 1..Len(q) PROVE i <= m - 1 <=> q[i].ts < cutoff
  <2>1. CASE i <= m - 1
    <3>1. ~(m <= i) BY <1>1, <1>4, <2>1
    <3>2. i \notin from BY <1>3, <3>1
    <3>3. ~(q[i].ts >= cutoff) BY <1>1, <3>2
    <3>4. QED BY <1>1, <2>1, <3>3
  <2>2. CASE ~(i <= m - 1)
    <3>1. m <= i /\ m \in 1..Len(q) BY <1>1, <1>4, <2>2
    <3>2. q[m].ts >= cutoff BY <1>1, <1>3, <3>1
    <3>3. q[m].ts <= q[i].ts
      <4>1. m = i \/ m < i BY <1>1, <3>1
      <4>2. CASE m = i BY <1>1, <4>2
      <4>3. CASE m < i BY <1>1, <3>1, <4>3 DEF Ascending
      <4>4. QED BY <4>1, <4>2, <4>3
    <3>4. ~(q[i].ts < cutoff) BY <1>1, <3>1, <3>2, <3>3
    <3>5. QED BY <2>2, <3>4
  <2>3. QED BY <2>1, <2>2
<1> HIDE DEF m
<1> DEFINE n == m - 1
<1>7. n \in 0..Len(q) /\ Len(q) \in Int /\ m \in Int BY <1>1, <1>4
<1>8. \A i \in m..Len(q) : q[i] \in S BY <1>1, <1>4
<1>9. /\ SubSeq(q, m, Len(q)) \in Seq(S)
      /\ Len(SubSeq(q, m, Len(q))) = IF m <= Len(q) THEN Len(q) - m + 1 ELSE 0
      /\ \A i \in 1 .. Len(q) - m + 1 : SubSeq(q, m, Len(q))[i] = q[m + i - 1]
  BY <1>7, <1>8, SubSeqProperties
<1>10. Len(SubSeq(q, m, Len(q))) = Len(q) - n
  BY <1>1, <1>4, <1>9
<1>11. \A i \in 1 .. Len(q) - n : SubSeq(q, m, Len(q))[i] = q[n + i]
  <2>1. SUFFICES ASSUME NEW i \in 1 .. Len(q) - n PROVE SubSeq(q, m, Len(q))[i] = q[n + i]
    OBVIOUS
  <2>2. i \in 1 .. Len(q) - m + 1 /\ m + i - 1 = n + i BY <1>1, <1>7
  <2>3. QED BY <1>9, <2>2
<1>12. QED BY <1>5, <1>6, <1>7, <1>9, <1>10, <1>11

-----------------------------------------------------------------------------
(* ReplayFilter: what the histories say of the filter *)

Filter == [queue : SUBSET Measurement, mhist : Seq(Measurement), shist : Seq(FilterState),
           filt : FilterState]

\* How many measurements the filter integrated before those in its history.
Forgotten(d) == Len(d.filt.seen) - Len(d.mhist)

\* State i of the history is what the filter was after some of the measurements, older
\* ones before and younger ones after; of states with one timestamp the last is after all
\* the measurements with that timestamp.
Saved(d, i) ==
  LET s == d.shist[i]
      n == Len(s.seen)
  IN  /\ n \in Forgotten(d) .. Len(d.filt.seen)
      /\ \A p \in 1..n : s.seen[p] = d.filt.seen[p]
      /\ \A p \in 1..Len(d.filt.seen) : p > Forgotten(d) =>
           /\ p <= n => d.filt.seen[p].ts <= s.ts
           /\ p > n => /\ s.ts <= d.filt.seen[p].ts
                       /\ s.ts = d.filt.seen[p].ts =>
                            \E k \in 1..Len(d.shist) : k > i /\ d.shist[k].ts = s.ts

\* The measurements of the history are the last that the filter integrated, and there is a
\* state for each of their timestamps and for no other.
Consistent(d) ==
  /\ Ascending(d.mhist) /\ Ascending(d.shist)
  /\ Forgotten(d) >= 0
  /\ \A j \in 1..Len(d.mhist) :
       /\ d.mhist[j] = d.filt.seen[Forgotten(d) + j]
       /\ \E i \in 1..Len(d.shist) : d.shist[i].ts = d.mhist[j].ts
  /\ \A i \in 1..Len(d.shist) :
       /\ Saved(d, i)
       /\ \E j \in 1..Len(d.mhist) : d.shist[i].ts = d.mhist[j].ts
  /\ Smooth = FALSE => d.mhist = <<>> /\ d.shist = <<>>

\* Neither history is ahead of t.
UpTo(d, t) ==
  /\ \A j \in 1..Len(d.mhist) : d.mhist[j].ts <= t
  /\ \A i \in 1..Len(d.shist) : d.shist[i].ts <= t

LEMMA FilterTyped ==
  ASSUME NEW d \in Filter
  PROVE  /\ d.queue \in SUBSET Measurement
         /\ d.mhist \in Seq(Measurement) /\ d.shist \in Seq(FilterState)
         /\ Len(d.mhist) \in Nat /\ Len(d.shist) \in Nat /\ Len(d.filt.seen) \in Nat
         /\ DOMAIN d.mhist = 1..Len(d.mhist) /\ DOMAIN d.shist = 1..Len(d.shist)
         /\ DOMAIN d.filt.seen = 1..Len(d.filt.seen)
         /\ d.filt \in FilterState /\ d.filt.seen \in Seq(Measurement) /\ d.filt.ts \in Nat
         /\ \A j \in 1..Len(d.mhist) : d.mhist[j] \in Measurement /\ d.mhist[j].ts \in Nat
         /\ \A p \in 1..Len(d.filt.seen) :
              d.filt.seen[p] \in Measurement /\ d.filt.seen[p].ts \in Nat
         /\ \A i \in 1..Len(d.shist) :
              /\ d.shist[i] \in FilterState /\ d.shist[i].ts \in Nat
              /\ d.shist[i].seen \in Seq(Measurement) /\ Len(d.shist[i].seen) \in Nat
         /\ Forgotten(d) \in Int
<1>1. Times \subseteq Nat BY ReplayAssumption DEF Times
<1>2. \A s \in FilterState : s.ts \in Nat /\ s.seen \in Seq(Measurement)
  BY <1>1 DEF FilterState
<1>3. /\ d.queue \in SUBSET Measurement /\ d.filt \in FilterState
      /\ d.mhist \in Seq(Measurement) /\ d.shist \in Seq(FilterState)
  BY DEF Filter
<1>4. /\ Len(d.mhist) \in Nat /\ Len(d.shist) \in Nat /\ Len(d.filt.seen) \in Nat
      /\ DOMAIN d.mhist = 1..Len(d.mhist) /\ DOMAIN d.shist = 1..Len(d.shist)
      /\ DOMAIN d.filt.seen = 1..Len(d.filt.seen)
  BY <1>2, <1>3, LenProperties
<1>5. \A j \in 1..Len(d.mhist) : d.mhist[j] \in Measurement /\ d.mhist[j].ts \in Nat
  BY <1>3, ElementOfSeq, NumbersOfMeasurement
<1>6. \A p \in 1..Len(d.filt.seen) : d.filt.seen[p] \in Measurement /\ d.filt.seen[p].ts \in Nat
  BY <1>2, <1>3, ElementOfSeq, NumbersOfMeasurement
<1>7. \A i \in 1..Len(d.shist) : d.shist[i] \in FilterState
  BY <1>3, ElementOfSeq
<1>8. \A i \in 1..Len(d.shist) :
        d.shist[i].ts \in Nat /\ d.shist[i].seen \in Seq(Measurement) /\ Len(d.shist[i].seen) \in Nat
  BY <1>2, <1>7, LenProperties
<1>9. QED BY <1>2, <1>3, <1>4, <1>5, <1>6, <1>7, <1>8 DEF Forgotten

\* The measurements that a filter has before it is reverted, it has or waits for afterwards;
\* what waits in addition is younger than t. Nothing of r is younger than t but its state
\* where the history does not reach back.
Reverted(d, t, r) ==
  /\ r \in Filter /\ Consistent(r) /\ UpTo(r, t) /\ UpTo(r, r.filt.ts)
  /\ r.filt.ts <= d.filt.ts
  /\ Len(r.filt.seen) <= Len(d.filt.seen)
  /\ \A p \in 1..Len(r.filt.seen) : r.filt.seen[p] = d.filt.seen[p]
  /\ d.queue \subseteq r.queue
  /\ \A p \in 1..Len(d.filt.seen) : p > Len(r.filt.seen) => d.filt.seen[p] \in r.queue
  /\ \A m \in r.queue \ d.queue :
       t < m.ts /\ \E p \in 1..Len(d.filt.seen) : m = d.filt.seen[p] /\ m.ts <= d.filt.ts

\* revert_to finds a state.
LEMMA RevertToState ==
  ASSUME NEW d \in Filter, Consistent(d), UpTo(d, d.filt.ts), NEW t \in Int, Reaches(d, t)
  PROVE  LET r == RevertTo(d, t)
         IN  /\ Reverted(d, t, r)
             /\ \E i \in 1..Len(d.shist) : r.filt = d.shist[i] /\ d.shist[i].ts <= t
             /\ \A i \in 1..Len(r.shist) : r.shist[i] = d.shist[i]
             /\ Len(r.shist) <= Len(d.shist)
             /\ \A m \in r.queue \ d.queue :
                  \E p \in 1..Len(d.filt.seen) : p > Len(r.filt.seen) /\ m = d.filt.seen[p]
<1> DEFINE kept == PopAfter(d.shist, t)
           before == PopAfter(d.mhist, t)
           seen == d.filt.seen
           F == Forgotten(d)
           r == RevertTo(d, t)
<1>1. /\ Len(d.mhist) \in Nat /\ Len(d.shist) \in Nat /\ Len(seen) \in Nat
      /\ d.mhist \in Seq(Measurement) /\ d.shist \in Seq(FilterState)
      /\ \A j \in 1..Len(d.mhist) : d.mhist[j] \in Measurement /\ d.mhist[j].ts \in Nat
      /\ \A i \in 1..Len(d.shist) : d.shist[i] \in FilterState /\ d.shist[i].ts \in Nat
                                      /\ Len(d.shist[i].seen) \in Nat
      /\ F \in Int /\ F = Len(seen) - Len(d.mhist) /\ F >= 0 /\ d.queue \in SUBSET Measurement
      /\ DOMAIN d.mhist = 1..Len(d.mhist) /\ d.filt.ts \in Nat
      /\ DOMAIN d.shist = 1..Len(d.shist)
  BY FilterTyped DEF Forgotten, Consistent
<1>2. \A s \in FilterState : s.ts \in Int
  BY ReplayAssumption DEF FilterState, Times
<1>3. \A m \in Measurement : m.ts \in Int
  BY NumbersOfMeasurement
<1>4. Ascending(d.shist) /\ Ascending(d.mhist) BY DEF Consistent
<1>5. PICK c \in 0..Len(d.shist) :
           /\ kept \in Seq(FilterState) /\ Len(kept) = c
           /\ \A i \in 1..c : kept[i] = d.shist[i]
           /\ \A i \in 1..Len(d.shist) : i <= c <=> d.shist[i].ts <= t
  BY <1>1, <1>2, <1>4, PopAfterKeeps
<1>6. PICK b \in 0..Len(d.mhist) :
           /\ before \in Seq(Measurement) /\ Len(before) = b
           /\ \A j \in 1..b : before[j] = d.mhist[j]
           /\ \A j \in 1..Len(d.mhist) : j <= b <=> d.mhist[j].ts <= t
  BY <1>1, <1>3, <1>4, PopAfterKeeps
<1> HIDE DEF kept, before, F, seen
<1>7. kept # <<>> /\ c \in 1..Len(d.shist)
  <2>1. kept # <<>> BY DEF Reaches, kept
  <2>2. c # 0 BY <1>5, <2>1, EmptySeq
  <2>3. QED BY <1>1, <2>1, <2>2
<1> DEFINE state == d.shist[c]
           n == Len(state.seen)
<1>8. Last(kept) = state BY <1>5, <1>7 DEF Last
<1>9. state \in FilterState /\ state.ts <= t /\ state.ts \in Nat /\ n \in Nat
  BY <1>1, <1>5, <1>7
<1>10. Saved(d, c) BY <1>7 DEF Consistent
<1>11. /\ n \in F..Len(seen)
       /\ \A p \in 1..n : state.seen[p] = seen[p]
       /\ \A p \in 1..Len(seen) : p > F =>
            /\ p <= n => seen[p].ts <= state.ts
            /\ p > n => /\ state.ts <= seen[p].ts
                        /\ state.ts = seen[p].ts =>
                             \E k \in 1..Len(d.shist) : k > c /\ d.shist[k].ts = state.ts
  BY <1>10 DEF Saved, F, seen
<1>0. /\ F \in Int /\ n \in Nat /\ b \in Nat /\ b <= Len(d.mhist) /\ F >= 0
      /\ Len(d.mhist) \in Nat /\ Len(seen) \in Nat /\ Len(seen) = F + Len(d.mhist)
  BY <1>1, <1>6, <1>9
<1>12. \A j \in 1..Len(d.mhist) : F + j \in 1..Len(seen) /\ F + j > F /\ d.mhist[j] = seen[F + j]
  <2>1. \A j \in 1..Len(d.mhist) : d.mhist[j] = seen[F + j] BY DEF Consistent, F, seen
  <2>2. \A j \in 1..Len(d.mhist) : F + j \in 1..Len(seen) /\ F + j > F BY <1>0
  <2>3. QED BY <2>1, <2>2
<1>13. \A i \in 1..Len(d.shist) : d.shist[i].ts <= t => d.shist[i].ts <= state.ts
  <2>1. SUFFICES ASSUME NEW i \in 1..Len(d.shist), d.shist[i].ts <= t
                 PROVE  d.shist[i].ts <= state.ts
    OBVIOUS
  <2>2. i <= c BY <1>5, <2>1
  <2>3. CASE i = c BY <1>9, <2>3
  <2>4. CASE i < c BY <1>1, <1>4, <1>7, <2>4 DEF Ascending
  <2>5. QED BY <1>1, <1>7, <2>2, <2>3, <2>4
<1> HIDE DEF state, n
<1>14. ASSUME NEW j \in 1..Len(d.mhist) PROVE j <= b <=> F + j <= n
  <2> DEFINE p == F + j
  <2>1. p \in 1..Len(seen) /\ p > F /\ d.mhist[j] = seen[p] BY <1>12
  <2>2. d.mhist[j].ts \in Nat BY <1>1
  <2>3. ASSUME j <= b, ~(p <= n) PROVE FALSE
    <3>1. d.mhist[j].ts <= t BY <1>6, <2>3
    <3>2. p > n BY <1>0, <2>3
    <3>3. state.ts <= d.mhist[j].ts BY <1>11, <2>1, <3>2
    <3>4. PICK i \in 1..Len(d.shist) : d.shist[i].ts = d.mhist[j].ts
      BY DEF Consistent
    <3>5. d.mhist[j].ts <= state.ts BY <1>13, <3>1, <3>4
    <3>6. state.ts = seen[p].ts BY <1>9, <2>1, <2>2, <3>3, <3>5
    <3>7. PICK k \in 1..Len(d.shist) : k > c /\ d.shist[k].ts = state.ts
      BY <1>11, <2>1, <3>2, <3>6
    <3>8. k <= c BY <1>5, <1>9, <3>7
    <3>9. QED BY <1>7, <3>7, <3>8
  <2>4. ASSUME p <= n, ~(j <= b) PROVE FALSE
    <3>1. d.mhist[j].ts <= state.ts BY <1>11, <2>1, <2>4
    <3>2. d.mhist[j].ts <= t BY <1>9, <2>2, <3>1
    <3>3. QED BY <1>6, <2>4, <3>2
  <2>5. QED BY <2>3, <2>4
<1>15. n = F + b
  <2>1. b \in Nat /\ b <= Len(d.mhist) /\ n \in Nat /\ F \in Int /\ F <= n /\ n <= F + Len(d.mhist)
    BY <1>1, <1>9, <1>11, <1>6
  <2>2. ASSUME n < F + b PROVE FALSE
    <3>1. b \in 1..Len(d.mhist) BY <2>1, <2>2
    <3>2. F + b <= n BY <1>14, <2>1, <3>1
    <3>3. QED BY <2>1, <2>2, <3>2
  <2>3. ASSUME n > F + b PROVE FALSE
    <3>1. n - F \in 1..Len(d.mhist) BY <2>1, <2>3
    <3>2. F + (n - F) <= n BY <2>1
    <3>3. n - F <= b BY <1>14, <3>1, <3>2
    <3>4. QED BY <2>1, <2>3, <3>3
  <2>4. QED BY <2>1, <2>2, <2>3
<1> DEFINE undone == {d.mhist[i] : i \in b + 1 .. Len(d.mhist)}
           back == {m \in undone : state.ts <= m.ts}
<1>16. r = [queue |-> d.queue \cup back, mhist |-> before, shist |-> kept, filt |-> state]
  <2>1. d.shist # <<>> BY <1>1, <1>7, EmptySeq
  <2>2. QED BY <1>6, <1>7, <1>8, <2>1 DEF RevertTo, kept, before
<1>17. \A j \in b + 1 .. Len(d.mhist) :
         /\ j \in 1..Len(d.mhist) /\ t < d.mhist[j].ts /\ state.ts <= d.mhist[j].ts
         /\ F + j > n /\ F + j \in 1..Len(seen) /\ d.mhist[j] = seen[F + j]
  <2>1. SUFFICES ASSUME NEW j \in b + 1 .. Len(d.mhist)
                 PROVE /\ j \in 1..Len(d.mhist) /\ t < d.mhist[j].ts /\ state.ts <= d.mhist[j].ts
                       /\ F + j > n /\ F + j \in 1..Len(seen) /\ d.mhist[j] = seen[F + j]
    OBVIOUS
  <2>2. j \in 1..Len(d.mhist) /\ ~(j <= b) BY <1>1, <1>6
  <2>3. ~(d.mhist[j].ts <= t) /\ d.mhist[j].ts \in Nat BY <1>1, <1>6, <2>2
  <2>4. t < d.mhist[j].ts /\ state.ts <= d.mhist[j].ts BY <1>9, <2>3
  <2>5. F + j > n BY <1>0, <1>15, <2>2
  <2>6. QED BY <1>12, <2>2, <2>4, <2>5
<1>18. r \in Filter
  <2>1. back \in SUBSET Measurement BY <1>1, <1>17
  <2>2. QED BY <1>1, <1>5, <1>6, <1>9, <1>16, <2>1 DEF Filter
<1> HIDE DEF r, back, undone
<1>19. /\ r.mhist = before /\ r.shist = kept /\ r.filt = state /\ r.filt.seen = state.seen
       /\ Len(r.mhist) = b /\ Len(r.shist) = c /\ Len(r.filt.seen) = n /\ Forgotten(r) = F
       /\ r.queue = d.queue \cup back
  <2>1. r.mhist = before /\ r.shist = kept /\ r.filt = state /\ r.queue = d.queue \cup back
    BY <1>16
  <2>2. Len(r.mhist) = b /\ Len(r.shist) = c /\ Len(r.filt.seen) = n
    BY <1>5, <1>6, <2>1 DEF n
  <2>3. Forgotten(r) = F BY <1>0, <1>15, <2>2 DEF Forgotten
  <2>4. QED BY <2>1, <2>2, <2>3
<1>20. UpTo(r, t) /\ UpTo(r, r.filt.ts)
  <2>1. \A i \in 1..c : i \in 1..Len(d.shist) /\ d.shist[i].ts <= t /\ d.shist[i].ts <= state.ts
    BY <1>5, <1>7, <1>13, <1>1
  <2>2. \A j \in 1..b : d.mhist[j].ts <= t /\ d.mhist[j].ts <= state.ts
    <3>1. SUFFICES ASSUME NEW j \in 1..b PROVE d.mhist[j].ts <= t /\ d.mhist[j].ts <= state.ts
      OBVIOUS
    <3>2. j \in 1..Len(d.mhist) /\ d.mhist[j].ts <= t BY <1>1, <1>6
    <3>3. PICK i \in 1..Len(d.shist) : d.shist[i].ts = d.mhist[j].ts
      BY <3>2 DEF Consistent
    <3>4. QED BY <1>13, <3>2, <3>3
  <2>3. QED BY <1>5, <1>6, <1>19, <2>1, <2>2 DEF UpTo
<1>21. Consistent(r)
  <2>1. Ascending(r.mhist) /\ Ascending(r.shist)
    <3>1. DOMAIN before = 1..b /\ DOMAIN kept = 1..c BY <1>5, <1>6, LenProperties
    <3>2. \A i \in 1..b : i \in DOMAIN d.mhist BY <1>1, <1>6
    <3>3. \A i \in 1..c : i \in DOMAIN d.shist BY <1>1, <1>5
    <3>4. QED BY <1>4, <1>5, <1>6, <1>19, <3>1, <3>2, <3>3 DEF Ascending
  <2>2. ASSUME NEW j \in 1..b
        PROVE  /\ before[j] = state.seen[F + j]
               /\ \E i \in 1..c : kept[i].ts = before[j].ts
    <3>1. j \in 1..Len(d.mhist) /\ d.mhist[j].ts <= t /\ before[j] = d.mhist[j]
      BY <1>1, <1>6
    <3>2. F + j \in 1..n BY <1>1, <1>15, <1>6
    <3>3. state.seen[F + j] = seen[F + j] BY <1>11, <3>2
    <3>4. PICK i \in 1..Len(d.shist) : d.shist[i].ts = d.mhist[j].ts
      BY <3>1 DEF Consistent
    <3>5. i \in 1..c BY <1>5, <3>1, <3>4
    <3>6. QED BY <1>5, <1>12, <3>1, <3>3, <3>4, <3>5
  <2>3. ASSUME NEW i \in 1..c
        PROVE  Saved(r, i) /\ \E j \in 1..b : kept[i].ts = before[j].ts
    <3>1. i \in 1..Len(d.shist) /\ kept[i] = d.shist[i] /\ d.shist[i].ts <= t
      BY <1>1, <1>5
    <3>2. PICK j \in 1..Len(d.mhist) : d.shist[i].ts = d.mhist[j].ts
      BY <3>1 DEF Consistent
    <3>3. j \in 1..b BY <1>6, <3>1, <3>2
    <3>4. \E k \in 1..b : kept[i].ts = before[k].ts BY <1>6, <3>1, <3>2, <3>3
    <3> DEFINE l == Len(d.shist[i].seen)
    <3>5. Saved(d, i) BY <3>1 DEF Consistent
    <3>6. /\ l \in F..Len(seen)
          /\ \A p \in 1..l : d.shist[i].seen[p] = seen[p]
          /\ \A p \in 1..Len(seen) : p > F =>
               /\ p <= l => seen[p].ts <= d.shist[i].ts
               /\ p > l => /\ d.shist[i].ts <= seen[p].ts
                           /\ d.shist[i].ts = seen[p].ts =>
                             \E k \in 1..Len(d.shist) : k > i /\ d.shist[k].ts = d.shist[i].ts
      BY <3>5 DEF Saved, F, seen
    <3> HIDE DEF l
    <3>7. l \in F..n
      <4>1. ASSUME l > n PROVE FALSE
        <5>0. l \in Int /\ l <= Len(seen) BY <1>0, <3>6
        <5>1. l - F \in b + 1 .. Len(d.mhist) BY <1>0, <1>15, <4>1, <5>0
        <5>2. t < seen[F + (l - F)].ts /\ seen[F + (l - F)].ts \in Nat BY <1>1, <1>17, <5>1
        <5>3. F + (l - F) = l /\ l \in 1..Len(seen) /\ l > F /\ l <= l
          BY <1>0, <1>15, <4>1, <5>0
        <5>4. seen[l].ts <= d.shist[i].ts BY <3>6, <5>3
        <5>5. t < seen[l].ts /\ seen[l].ts \in Nat BY <5>2, <5>3
        <5>6. d.shist[i].ts \in Nat /\ t \in Nat /\ d.shist[i].ts <= t BY <1>1, <3>1
        <5>7. QED BY <5>4, <5>5, <5>6
      <4>2. l \in Int /\ F <= l BY <1>0, <3>6
      <4>3. n \in Int /\ F \in Int BY <1>0, <1>1, <1>9
      <4>4. QED BY <4>1, <4>2, <4>3
    <3>8. \A p \in 1..l : p \in 1..n /\ d.shist[i].seen[p] = state.seen[p]
      BY <1>1, <1>9, <1>11, <3>6, <3>7
    <3>9. ASSUME NEW p \in 1..n, p > F
          PROVE /\ p <= l => state.seen[p].ts <= d.shist[i].ts
                /\ p > l => /\ d.shist[i].ts <= state.seen[p].ts
                            /\ d.shist[i].ts = state.seen[p].ts =>
                                 \E k \in 1..c : k > i /\ kept[k].ts = d.shist[i].ts
      <4>1. p \in 1..Len(seen) /\ state.seen[p] = seen[p] BY <1>1, <1>11
      <4>2. ASSUME p > l, d.shist[i].ts = state.seen[p].ts
            PROVE \E k \in 1..c : k > i /\ kept[k].ts = d.shist[i].ts
        <5>1. PICK k \in 1..Len(d.shist) : k > i /\ d.shist[k].ts = d.shist[i].ts
          BY <3>6, <3>9, <4>1, <4>2
        <5>2. k \in 1..c BY <1>5, <3>1, <5>1
        <5>3. QED BY <1>5, <5>1, <5>2
      <4>3. QED BY <3>6, <3>9, <4>1, <4>2
    <3>10. Saved(r, i)
      <4>1. r.shist[i] = d.shist[i] /\ Len(r.shist[i].seen) = l BY <1>19, <3>1 DEF l
      <4>2. QED BY <1>19, <3>7, <3>8, <3>9, <4>1 DEF Saved
    <3>11. QED BY <3>4, <3>10
  <2>4. Smooth = FALSE => r.mhist = <<>> /\ r.shist = <<>>
    BY <1>1, <1>7, EmptySeq DEF Consistent
  <2>5. \A j \in 1..Len(r.mhist) :
          /\ r.mhist[j] = r.filt.seen[Forgotten(r) + j]
          /\ \E i \in 1..Len(r.shist) : r.shist[i].ts = r.mhist[j].ts
    BY <1>19, <2>2
  <2>6. \A i \in 1..Len(r.shist) :
          Saved(r, i) /\ \E j \in 1..Len(r.mhist) : r.shist[i].ts = r.mhist[j].ts
    BY <1>19, <2>3
  <2>7. QED BY <1>1, <1>19, <2>1, <2>4, <2>5, <2>6 DEF Consistent
<1>22. \A m \in back : \E j \in b + 1 .. Len(d.mhist) : m = d.mhist[j]
  BY DEF back, undone
<1>23. \A m \in r.queue \ d.queue :
         t < m.ts /\ \E p \in 1..Len(seen) : p > n /\ m = seen[p] /\ m.ts <= d.filt.ts
  <2>1. SUFFICES ASSUME NEW m \in back
                 PROVE  t < m.ts /\ \E p \in 1..Len(seen) : p > n /\ m = seen[p] /\ m.ts <= d.filt.ts
    BY <1>19
  <2>2. PICK j \in b + 1 .. Len(d.mhist) : m = d.mhist[j] BY <1>22
  <2>3. d.mhist[j].ts <= d.filt.ts BY <1>17 DEF UpTo
  <2>4. QED BY <1>17, <2>2, <2>3
<1>24. \A p \in 1..Len(seen) : p > n => seen[p] \in r.queue
  <2>1. SUFFICES ASSUME NEW p \in 1..Len(seen), p > n PROVE seen[p] \in back
    BY <1>19
  <2>2. p - F \in b + 1 .. Len(d.mhist) /\ F + (p - F) = p
    BY <1>0, <1>15, <2>1
  <2>3. d.mhist[p - F] = seen[p] /\ state.ts <= d.mhist[p - F].ts
    BY <1>17, <2>2
  <2>4. QED BY <2>2, <2>3 DEF back, undone
<1>25. r.filt.ts <= d.filt.ts BY <1>7, <1>19 DEF UpTo, state
<1>26. Reverted(d, t, r)
  BY <1>1, <1>11, <1>18, <1>19, <1>20, <1>21, <1>23, <1>24, <1>25 DEF Reverted, seen
<1>27. /\ \E i \in 1..Len(d.shist) : r.filt = d.shist[i] /\ d.shist[i].ts <= t
       /\ \A i \in 1..Len(r.shist) : r.shist[i] = d.shist[i]
       /\ Len(r.shist) <= Len(d.shist)
  BY <1>1, <1>5, <1>7, <1>9, <1>19 DEF state
<1>28. \A m \in r.queue \ d.queue :
         \E p \in 1..Len(d.filt.seen) : p > Len(r.filt.seen) /\ m = d.filt.seen[p]
  BY <1>19, <1>23 DEF seen
<1>29. QED BY <1>26, <1>27, <1>28 DEF r

\* revert_to does not reach back: the oldest state is restored, and all is queued again.
LEMMA RevertToOldest ==
  ASSUME NEW d \in Filter, Consistent(d), UpTo(d, d.filt.ts), NEW t \in Int,
         d.shist # <<>>, ~Reaches(d, t)
  PROVE  Reverted(d, t, RevertTo(d, t))
<1> DEFINE r == RevertTo(d, t)
           seen == d.filt.seen
           state == d.shist[1]
           back == {m \in {d.mhist[i] : i \in 1..Len(d.mhist)} : state.ts <= m.ts}
           n == Len(state.seen)
           F == Forgotten(d)
<1>1. /\ Len(d.mhist) \in Nat /\ Len(d.shist) \in Nat /\ Len(seen) \in Nat
      /\ d.mhist \in Seq(Measurement) /\ d.shist \in Seq(FilterState)
      /\ \A j \in 1..Len(d.mhist) : d.mhist[j] \in Measurement /\ d.mhist[j].ts \in Nat
      /\ \A i \in 1..Len(d.shist) : d.shist[i] \in FilterState /\ d.shist[i].ts \in Nat
                                      /\ Len(d.shist[i].seen) \in Nat
      /\ F \in Int /\ F = Len(seen) - Len(d.mhist) /\ F >= 0 /\ d.queue \in SUBSET Measurement
      /\ d.filt.ts \in Nat
      /\ DOMAIN d.shist = 1..Len(d.shist)
  BY FilterTyped DEF Forgotten, Consistent
<1>2. 1 \in 1..Len(d.shist) BY <1>1, EmptySeq
<1>3. \A s \in FilterState : s.ts \in Int
  BY ReplayAssumption DEF FilterState, Times
<1>4. \A m \in Measurement : m.ts \in Int
  BY NumbersOfMeasurement
<1>5. Ascending(d.shist) /\ Ascending(d.mhist) BY DEF Consistent
<1>6. PopAfter(d.shist, t) = <<>> BY DEF Reaches
<1>7. \A i \in 1..Len(d.shist) : t < d.shist[i].ts /\ state.ts <= d.shist[i].ts
  <2>1. PICK c \in 0..Len(d.shist) :
             /\ Len(PopAfter(d.shist, t)) = c
             /\ \A i \in 1..Len(d.shist) : i <= c <=> d.shist[i].ts <= t
    BY <1>1, <1>3, <1>5, PopAfterKeeps
  <2>2. c = 0 BY <1>6, <2>1, EmptySeq
  <2>3. \A i \in 1..Len(d.shist) : t < d.shist[i].ts BY <1>1, <2>1, <2>2
  <2>4. ASSUME NEW i \in 1..Len(d.shist) PROVE state.ts <= d.shist[i].ts
    <3>1. CASE i = 1 BY <1>1, <1>2, <3>1
    <3>2. CASE i > 1 BY <1>1, <1>2, <1>5, <3>2 DEF Ascending
    <3>3. QED BY <3>1, <3>2
  <2>5. QED BY <2>3, <2>4
<1>8. \A j \in 1..Len(d.mhist) : t < d.mhist[j].ts /\ state.ts <= d.mhist[j].ts
  BY <1>7 DEF Consistent
<1>9. PopAfter(d.mhist, t) = <<>>
  <2>1. PICK b \in 0..Len(d.mhist) :
             /\ PopAfter(d.mhist, t) \in Seq(Measurement) /\ Len(PopAfter(d.mhist, t)) = b
             /\ \A j \in 1..Len(d.mhist) : j <= b <=> d.mhist[j].ts <= t
    BY <1>1, <1>4, <1>5, PopAfterKeeps
  <2>2. ASSUME b # 0 PROVE FALSE
    <3>1. b \in 1..Len(d.mhist) BY <1>1, <2>2
    <3>2. d.mhist[b].ts <= t BY <2>1, <3>1
    <3>3. QED BY <1>1, <1>8, <3>1, <3>2
  <2>3. QED BY <2>1, <2>2, EmptySeq
<1>10. r = [queue |-> d.queue \cup back, mhist |-> <<>>, shist |-> <<>>, filt |-> state]
  <2>1. Len(PopAfter(d.mhist, t)) + 1 = 1 BY <1>9
  <2>2. QED BY <1>6, <1>9, <2>1 DEF RevertTo
<1> HIDE DEF r
<1>11. back \in SUBSET Measurement /\ \A j \in 1..Len(d.mhist) : d.mhist[j] \in back
  BY <1>1, <1>8
<1>12. r \in Filter
  <2>1. <<>> \in Seq(Measurement) /\ <<>> \in Seq(FilterState) BY EmptySeq
  <2>2. QED BY <1>1, <1>2, <1>10, <1>11, <2>1 DEF Filter
<1>13. \A m \in back : \E j \in 1..Len(d.mhist) : m = d.mhist[j] OBVIOUS
<1> HIDE DEF back
<1>14. /\ r.queue = d.queue \cup back /\ Len(r.mhist) = 0 /\ Len(r.shist) = 0
       /\ r.mhist = <<>> /\ r.shist = <<>> /\ r.filt = state /\ r.filt.seen = state.seen
       /\ Len(r.filt.seen) = n /\ n \in Nat
  BY <1>1, <1>2, <1>10
<1>15. UpTo(r, t) /\ UpTo(r, r.filt.ts) BY <1>14 DEF UpTo
<1>16. Consistent(r)
  BY <1>14 DEF Consistent, Forgotten, Ascending
<1>17. Saved(d, 1) BY <1>2 DEF Consistent
<1>18. n \in F..Len(seen) /\ \A p \in 1..n : state.seen[p] = seen[p]
  BY <1>17 DEF Saved
<1>19. \A j \in 1..Len(d.mhist) : d.mhist[j] = seen[F + j] /\ d.mhist[j].ts <= d.filt.ts
  BY DEF Consistent, UpTo
<1> HIDE DEF n, seen, F, state
<1>20. \A j \in 1..Len(d.mhist) : F + j \in 1..Len(seen)
  BY <1>1
<1>21. \A p \in 1..Len(seen) : p > n => p - F \in 1..Len(d.mhist) /\ F + (p - F) = p
  <2>1. F \in Int /\ n \in Nat /\ F <= n /\ Len(seen) \in Nat /\ Len(d.mhist) \in Nat
          /\ Len(seen) = F + Len(d.mhist)
    BY <1>1, <1>14, <1>18
  <2>2. ASSUME NEW p \in 1..Len(seen), p > n
        PROVE  p - F \in 1..Len(d.mhist) /\ F + (p - F) = p
    <3>1. p \in Int /\ p > F /\ p <= F + Len(d.mhist) BY <2>1, <2>2
    <3>2. QED BY <2>1, <3>1
  <2>3. QED BY <2>2
<1>22. \A p \in 1..Len(seen) : p > n => seen[p] \in back
  BY <1>11, <1>19, <1>21
<1>23. \A m \in r.queue \ d.queue :
         t < m.ts /\ \E p \in 1..Len(seen) : m = seen[p] /\ m.ts <= d.filt.ts
  BY <1>8, <1>13, <1>14, <1>19, <1>20
<1>24. r.filt.ts <= d.filt.ts /\ n <= Len(seen) BY <1>1, <1>2, <1>14, <1>18 DEF UpTo, state
<1>25. Reverted(d, t, r)
  BY <1>12, <1>14, <1>15, <1>16, <1>18, <1>22, <1>23, <1>24 DEF Reverted, seen
<1>26. QED BY <1>25 DEF r

LEMMA RevertKeeps ==
  ASSUME NEW d \in Filter, Consistent(d), UpTo(d, d.filt.ts), NEW t \in Int
  PROVE  Reverted(d, t, RevertTo(d, t))
<1>1. CASE d.shist = <<>>
  <2>1. RevertTo(d, t) = d BY <1>1 DEF RevertTo
  <2>2. Len(d.shist) = 0 /\ Len(d.mhist) \in Nat /\ d.filt.ts \in Nat
          /\ Len(d.filt.seen) \in Nat
    BY <1>1, FilterTyped
  <2>3. 1..Len(d.mhist) = {} BY <2>2 DEF Consistent
  <2>4. UpTo(d, t) BY <2>2, <2>3 DEF UpTo
  <2>5. QED BY <2>1, <2>2, <2>4 DEF Reverted
<1>2. CASE d.shist # <<>>
  BY <1>2, RevertToState, RevertToOldest
<1>3. QED BY <1>1, <1>2

-----------------------------------------------------------------------------
(* ReplayFilter: the measurements that are due *)

\* The places after which the filter is saved: the last of each timestamp.
EndsOf(due) == {i \in DOMAIN due : i = Len(due) \/ due[i + 1].ts # due[i].ts}

LEMMA EndsOfDue ==
  ASSUME NEW due \in Seq(Measurement), Ascending(due)
  PROVE  /\ EndsOf(due) \in SUBSET (1..Len(due))
         /\ \A i \in 1..Len(due) : \E e \in EndsOf(due) : due[e].ts = due[i].ts
         /\ \A e \in EndsOf(due) : \A i \in 1..Len(due) : i > e => due[e].ts < due[i].ts
<1>1. /\ Len(due) \in Nat /\ DOMAIN due = 1..Len(due)
      /\ \A i \in 1..Len(due) : due[i] \in Measurement /\ due[i].ts \in Nat
  BY ElementOfSeq, NumbersOfMeasurement
<1>2. EndsOf(due) \in SUBSET (1..Len(due)) BY <1>1 DEF EndsOf
<1>3. ASSUME NEW i \in 1..Len(due) PROVE \E e \in EndsOf(due) : due[e].ts = due[i].ts
  <2> DEFINE same == {k \in 1..Len(due) : due[k].ts = due[i].ts}
  <2>1. same \in SUBSET (0..Len(due)) /\ same # {} BY <1>1
  <2>2. PICK e \in same : \A k \in same : k <= e BY <1>1, <2>1, GreatestExists
  <2>3. CASE e = Len(due) BY <1>1, <2>2, <2>3 DEF EndsOf
  <2>4. CASE e # Len(due)
    <3>0. e \in 1..Len(due) /\ Len(due) \in Nat BY <1>1
    <3>1. e + 1 \in 1..Len(due) /\ ~(e + 1 <= e) BY <2>4, <3>0
    <3>2. e + 1 \notin same BY <2>2, <3>1
    <3>3. due[e + 1].ts # due[e].ts BY <2>2, <3>1, <3>2
    <3>4. QED BY <1>1, <2>2, <3>3 DEF EndsOf
  <2>5. QED BY <2>3, <2>4
<1>4. ASSUME NEW e \in EndsOf(due), NEW i \in 1..Len(due), i > e PROVE due[e].ts < due[i].ts
  <2>1. e \in 1..Len(due) /\ e + 1 \in 1..Len(due) /\ e # Len(due) /\ e < e + 1
    BY <1>1, <1>2, <1>4
  <2>2. due[e + 1].ts # due[e].ts BY <2>1 DEF EndsOf
  <2>3. due[e].ts <= due[e + 1].ts BY <1>1, <2>1 DEF Ascending
  <2> DEFINE a == due[e].ts
             b == due[e + 1].ts
             c == due[i].ts
  <2>4. a \in Nat /\ b \in Nat /\ c \in Nat BY <1>1, <2>1
  <2>5. b <= c
    <3>1. CASE i = e + 1 BY <2>4, <3>1
    <3>2. CASE i > e + 1 BY <1>1, <2>1, <3>2 DEF Ascending
    <3>3. e \in Int /\ i \in Int BY <2>1
    <3>4. QED BY <1>4, <3>1, <3>2, <3>3
  <2> HIDE DEF a, b, c
  <2>6. a < c BY <2>2, <2>3, <2>4, <2>5 DEF a, b
  <2>7. QED BY <2>6 DEF a, c
<1>5. QED BY <1>2, <1>3, <1>4

\* The filter after the first i of the measurements that are due.
After(d, due, i) == [ts |-> due[i].ts, seen |-> d.filt.seen \o SubSeq(due, 1, i)]

LEMMA AfterTyped ==
  ASSUME NEW d \in Filter, NEW due \in Seq(Measurement), NEW i \in 1..Len(due)
  PROVE  /\ After(d, due, i) \in FilterState
         /\ After(d, due, i).ts = due[i].ts
         /\ Len(After(d, due, i).seen) = Len(d.filt.seen) + i
         /\ \A p \in 1..Len(d.filt.seen) : After(d, due, i).seen[p] = d.filt.seen[p]
         /\ \A k \in 1..i : After(d, due, i).seen[Len(d.filt.seen) + k] = due[k]
<1>1. /\ Len(due) \in Nat /\ \A k \in 1..Len(due) : due[k] \in Measurement
      /\ d.filt.seen \in Seq(Measurement)
  BY FilterTyped, ElementOfSeq
<1> DEFINE q == SubSeq(due, 1, i)
<1>2. \A k \in 1..i : k \in 1..Len(due) BY <1>1
<1>3. q \in Seq(Measurement) /\ Len(q) = i /\ \A k \in 1..i : q[k] = due[k]
  <2>0. 1 \in Int /\ i \in Int /\ \A k \in 1..i : due[k] \in Measurement BY <1>1, <1>2
  <2>1. /\ q \in Seq(Measurement) /\ Len(q) = IF 1 <= i THEN i - 1 + 1 ELSE 0
        /\ \A k \in 1 .. i - 1 + 1 : q[k] = due[1 + k - 1]
    BY <2>0, SubSeqProperties
  <2> HIDE DEF q
  <2>2. QED BY <2>1
<1> HIDE DEF q
<1>4. /\ d.filt.seen \o q \in Seq(Measurement)
      /\ Len(d.filt.seen \o q) = Len(d.filt.seen) + i
      /\ \A p \in 1..Len(d.filt.seen) : (d.filt.seen \o q)[p] = d.filt.seen[p]
      /\ \A k \in 1..i : (d.filt.seen \o q)[Len(d.filt.seen) + k] = q[k]
  <2> DEFINE a == d.filt.seen
  <2>1. a \in Seq(Measurement) /\ q \in Seq(Measurement) BY <1>1, <1>3
  <2> HIDE DEF a
  <2>2. /\ a \o q \in Seq(Measurement) /\ Len(a \o q) = Len(a) + Len(q)
        /\ \A p \in 1..Len(a) : (a \o q)[p] = a[p]
        /\ \A k \in 1..Len(q) : (a \o q)[Len(a) + k] = q[k]
    BY <2>1, Appending
  <2>3. QED BY <1>3, <2>2 DEF a
<1>5. due[i].ts \in Times BY <1>1 DEF Measurement
<1>6. QED BY <1>3, <1>4, <1>5 DEF After, FilterState, q

\* The places of due after which the filter is saved, in order.
EndsAre(ends, due) ==
  /\ ends \in Seq(EndsOf(due)) /\ ToSet(ends) = EndsOf(due)
  /\ \A i, j \in DOMAIN ends : i < j => ends[i] < ends[j]

\* The histories of r are those of d with what is due behind them.
Appended(d, due, ends, r) ==
  /\ r \in Filter
  /\ Len(r.mhist) = Len(d.mhist) + Len(due)
  /\ \A j \in 1..Len(d.mhist) : r.mhist[j] = d.mhist[j]
  /\ \A j \in 1..Len(due) : r.mhist[Len(d.mhist) + j] = due[j]
  /\ Len(r.shist) = Len(d.shist) + Len(ends)
  /\ \A i \in 1..Len(d.shist) : r.shist[i] = d.shist[i]
  /\ \A j \in 1..Len(ends) : r.shist[Len(d.shist) + j] = After(d, due, ends[j])
  /\ r.filt = After(d, due, Len(due))

LEMMA EndsInDue ==
  ASSUME NEW due \in Seq(Measurement), Ascending(due), NEW ends, EndsAre(ends, due)
  PROVE  /\ Len(ends) \in Nat /\ DOMAIN ends = 1..Len(ends)
         /\ \A j \in 1..Len(ends) : ends[j] \in 1..Len(due)
         /\ \A i \in 1..Len(due) : \E j \in 1..Len(ends) : due[ends[j]].ts = due[i].ts
         /\ \A j \in 1..Len(ends) : \A i \in 1..Len(due) :
              i > ends[j] => due[ends[j]].ts < due[i].ts
         /\ \A i, j \in 1..Len(ends) : i < j => ends[i] < ends[j]
<1>1. /\ EndsOf(due) \in SUBSET (1..Len(due))
      /\ \A i \in 1..Len(due) : \E e \in EndsOf(due) : due[e].ts = due[i].ts
      /\ \A e \in EndsOf(due) : \A i \in 1..Len(due) : i > e => due[e].ts < due[i].ts
  BY EndsOfDue
<1>2. ends \in Seq(EndsOf(due)) BY DEF EndsAre
<1>3. /\ Len(ends) \in Nat /\ DOMAIN ends = 1..Len(ends)
      /\ \A j \in 1..Len(ends) : ends[j] \in EndsOf(due)
  BY <1>2, ElementOfSeq, LenProperties
<1>4. \A e \in EndsOf(due) : \E j \in 1..Len(ends) : ends[j] = e
  BY <1>3 DEF EndsAre, ToSet
<1>5. ASSUME NEW i \in 1..Len(due) PROVE \E j \in 1..Len(ends) : due[ends[j]].ts = due[i].ts
  <2>1. PICK e \in EndsOf(due) : due[e].ts = due[i].ts BY <1>1
  <2>2. PICK j \in 1..Len(ends) : ends[j] = e BY <1>4
  <2>3. QED BY <2>1, <2>2
<1>6. \A j \in 1..Len(ends) : ends[j] \in 1..Len(due) BY <1>1, <1>3
<1>7. \A i, j \in 1..Len(ends) : i < j => ends[i] < ends[j] BY <1>3 DEF EndsAre
<1>8. QED BY <1>1, <1>3, <1>5, <1>6, <1>7

LEMMA AppendedHere ==
  ASSUME NEW d \in Filter, NEW due \in Seq(Measurement), due # <<>>, Ascending(due),
         NEW ends, EndsAre(ends, due), NEW Q \in SUBSET Measurement
  PROVE  Appended(d, due, ends,
           [queue |-> Q, mhist |-> d.mhist \o due,
            shist |-> d.shist \o [j \in DOMAIN ends |-> After(d, due, ends[j])],
            filt |-> After(d, due, Len(due))])
<1> DEFINE new == [j \in DOMAIN ends |-> After(d, due, ends[j])]
           a == d.mhist
           b == d.shist
           m == a \o due
           s == b \o new
           f == After(d, due, Len(due))
           r == [queue |-> Q, mhist |-> m, shist |-> s, filt |-> f]
<1>1. a \in Seq(Measurement) /\ b \in Seq(FilterState)
  BY FilterTyped
<1>2. Len(due) \in 1..Len(due)
  <2>1. Len(due) \in Nat /\ Len(due) # 0 BY LenProperties, EmptySeq
  <2>2. QED BY <2>1
<1>3. /\ Len(ends) \in Nat /\ DOMAIN ends = 1..Len(ends)
      /\ \A j \in 1..Len(ends) : ends[j] \in 1..Len(due)
  BY EndsInDue
<1>4. \A i \in 1..Len(due) : After(d, due, i) \in FilterState BY AfterTyped
<1>5. f \in FilterState BY <1>2, <1>4
<1>6. new \in Seq(FilterState) /\ Len(new) = Len(ends)
        /\ \A j \in 1..Len(ends) : new[j] = After(d, due, ends[j])
  <2>1. \A j \in 1..Len(ends) : After(d, due, ends[j]) \in FilterState BY <1>3, <1>4
  <2>2. new \in [1..Len(ends) -> FilterState] BY <1>3, <2>1
  <2>3. new \in Seq(FilterState) BY <1>3, <2>2
  <2>4. DOMAIN new = 1..Len(ends) /\ \A j \in 1..Len(ends) : new[j] = After(d, due, ends[j])
    BY <1>3
  <2> HIDE DEF new
  <2>5. QED BY <1>3, <2>3, <2>4, LenProperties
<1> HIDE DEF new, f, a, b
<1>7. /\ m \in Seq(Measurement) /\ Len(m) = Len(a) + Len(due)
      /\ \A j \in 1..Len(a) : m[j] = a[j]
      /\ \A j \in 1..Len(due) : m[Len(a) + j] = due[j]
  BY <1>1, Appending
<1>8. /\ s \in Seq(FilterState) /\ Len(s) = Len(b) + Len(new)
      /\ \A j \in 1..Len(b) : s[j] = b[j]
      /\ \A j \in 1..Len(new) : s[Len(b) + j] = new[j]
  <2>1. b \in Seq(FilterState) /\ new \in Seq(FilterState) BY <1>1, <1>6
  <2>2. QED BY <2>1, Appending
<1> HIDE DEF m, s
<1>9. r \in Filter BY <1>5, <1>7, <1>8 DEF Filter
<1>10. r.mhist = m /\ r.shist = s /\ r.filt = f OBVIOUS
<1> HIDE DEF r
<1>11. Appended(d, due, ends, r)
  BY <1>6, <1>7, <1>8, <1>9, <1>10 DEF Appended, a, b, f
<1>12. QED BY <1>11 DEF r, m, s, f, a, b, new

\* What is due goes behind the histories.
LEMMA AppendKeeps ==
  ASSUME NEW d \in Filter, Consistent(d), Smooth = TRUE,
         NEW due \in Seq(Measurement), due # <<>>, Ascending(due),
         \A j \in 1..Len(due) : UpTo(d, due[j].ts),
         NEW ends, EndsAre(ends, due), NEW r, Appended(d, due, ends, r)
  PROVE  /\ Consistent(r) /\ UpTo(r, r.filt.ts)
         /\ \A i \in 1..Len(r.shist) :
              \/ i \in 1..Len(d.shist) /\ r.shist[i] = d.shist[i]
              \/ \E e \in 1..Len(due) : r.shist[i] = After(d, due, e)
<1> DEFINE seen == d.filt.seen
           N == Len(seen)
           L == Len(d.shist)
           M == Len(d.mhist)
           D == Len(due)
           K == Len(ends)
           F == Forgotten(d)
<1>1. /\ M \in Nat /\ L \in Nat /\ N \in Nat /\ F \in Int /\ F >= 0 /\ N = F + M
      /\ DOMAIN d.mhist = 1..M /\ DOMAIN d.shist = 1..L
  BY FilterTyped DEF Forgotten, Consistent
<1>2. /\ \A j \in 1..M : d.mhist[j].ts \in Nat
      /\ \A i \in 1..L : d.shist[i].ts \in Nat /\ Len(d.shist[i].seen) \in Nat
  BY FilterTyped
<1>3. D \in Nat /\ DOMAIN due = 1..D /\ \A j \in 1..D : due[j] \in Measurement /\ due[j].ts \in Nat
  BY ElementOfSeq, LenProperties, NumbersOfMeasurement
<1>4. D \in 1..D BY <1>3, EmptySeq
<1>5. \A j \in 1..K : \A i \in 1..D : i > ends[j] => due[ends[j]].ts < due[i].ts
  BY EndsInDue
<1>6. /\ K \in Nat /\ DOMAIN ends = 1..K /\ \A j \in 1..K : ends[j] \in 1..D
      /\ \A i, j \in 1..K : i < j => ends[i] < ends[j]
  BY EndsInDue
<1>7. \A i \in 1..D : \E j \in 1..K : due[ends[j]].ts = due[i].ts
  BY EndsInDue
<1>8. \A i \in 1..D : /\ After(d, due, i).ts = due[i].ts
                      /\ Len(After(d, due, i).seen) = N + i
                      /\ \A p \in 1..N : After(d, due, i).seen[p] = seen[p]
                      /\ \A k \in 1..i : After(d, due, i).seen[N + k] = due[k]
  BY AfterTyped
<1>11. /\ Len(r.mhist) = M + D
       /\ \A j \in 1..M : r.mhist[j] = d.mhist[j]
       /\ \A j \in 1..D : r.mhist[M + j] = due[j]
  BY DEF Appended
<1>12. /\ Len(r.shist) = L + K
       /\ \A i \in 1..L : r.shist[i] = d.shist[i]
       /\ \A j \in 1..K : r.shist[L + j] = After(d, due, ends[j])
  BY DEF Appended
<1>13. /\ r.filt.ts = due[D].ts /\ Len(r.filt.seen) = N + D
       /\ \A p \in 1..N : r.filt.seen[p] = seen[p]
       /\ \A k \in 1..D : r.filt.seen[N + k] = due[k]
  BY <1>4, <1>8 DEF Appended
<1>14. r \in Filter /\ DOMAIN r.mhist = 1..Len(r.mhist) /\ DOMAIN r.shist = 1..Len(r.shist)
  BY FilterTyped DEF Appended
<1> DEFINE T(j) == due[ends[j]].ts
<1>15. \A j \in 1..K : T(j) \in Nat /\ \A i \in 1..D : i > ends[j] => T(j) < due[i].ts
  BY <1>3, <1>5, <1>6
<1>16. \A i \in 1..D : /\ \A j \in 1..M : d.mhist[j].ts <= due[i].ts
                       /\ \A k \in 1..L : d.shist[k].ts <= due[i].ts
  BY DEF UpTo, D
<1>17. \A i, j \in 1..D : i <= j => due[i].ts <= due[j].ts
  <2>1. SUFFICES ASSUME NEW i \in 1..D, NEW j \in 1..D, i <= j PROVE due[i].ts <= due[j].ts
    OBVIOUS
  <2>2. CASE i = j BY <1>3, <2>2
  <2>3. CASE i < j BY <1>3, <2>3 DEF Ascending
  <2>4. QED BY <1>3, <2>1, <2>2, <2>3
<1>18. \A i, j \in 1..K : i < j => T(i) < T(j)
  <2>1. SUFFICES ASSUME NEW i \in 1..K, NEW j \in 1..K, i < j PROVE T(i) < T(j)
    OBVIOUS
  <2>2. ends[i] < ends[j] BY <1>6, <2>1
  <2>3. ends[j] > ends[i] BY <1>6, <2>2
  <2>4. QED BY <1>6, <1>15, <2>3
<1> HIDE DEF T, F, seen, N, L, M, D, K
<1>a. /\ M \in Nat /\ L \in Nat /\ N \in Nat /\ D \in Nat /\ K \in Nat /\ F \in Nat
      /\ N = F + M
  BY <1>1, <1>3, <1>6
<1>b. /\ \A x \in 1 .. M + D : x \in 1..M \/ \E y \in 1..D : x = M + y
      /\ \A x \in 1 .. N + D : x \in 1..N \/ \E y \in 1..D : x = N + y
      /\ \A x \in 1 .. L + K : x \in 1..L \/ \E y \in 1..K : x = L + y
  BY <1>a, PlacesAppended
<1>19. Forgotten(r) = F
  <2>1. Len(r.filt.seen) = N + D /\ Len(r.mhist) = M + D BY <1>11, <1>13
  <2>2. QED BY <1>a, <2>1 DEF Forgotten
<1>20. UpTo(r, r.filt.ts)
  <2>1. ASSUME NEW j \in 1 .. M + D PROVE r.mhist[j].ts <= due[D].ts
    <3>1. CASE j \in 1..M BY <1>4, <1>11, <1>16, <3>1
    <3>2. CASE \E y \in 1..D : j = M + y
      <4>1. PICK y \in 1..D : j = M + y BY <3>2
      <4>2. y <= D BY <1>3
      <4>3. QED BY <1>4, <1>11, <1>17, <4>1, <4>2
    <3>3. QED BY <1>b, <3>1, <3>2
  <2>2. ASSUME NEW i \in 1 .. L + K PROVE r.shist[i].ts <= due[D].ts
    <3>1. CASE i \in 1..L BY <1>4, <1>12, <1>16, <3>1
    <3>2. CASE \E y \in 1..K : i = L + y
      <4>1. PICK y \in 1..K : i = L + y BY <3>2
      <4>2. ends[y] \in 1..D /\ ends[y] <= D BY <1>3, <1>6
      <4>3. r.shist[i].ts = due[ends[y]].ts BY <1>8, <1>12, <4>1, <4>2
      <4>4. QED BY <1>4, <1>17, <4>2, <4>3
    <3>3. QED BY <1>b, <3>1, <3>2
  <2>3. QED BY <1>11, <1>12, <1>13, <2>1, <2>2 DEF UpTo
<1>21. Ascending(r.mhist)
  <2>0. DOMAIN r.mhist = 1 .. M + D BY <1>11, <1>14
  <2>1. SUFFICES ASSUME NEW i \in 1 .. M + D, NEW j \in 1 .. M + D, i < j
                 PROVE  r.mhist[i].ts <= r.mhist[j].ts
    BY <2>0 DEF Ascending
  <2>2. CASE j \in 1..M
    <3>1. i \in 1..M /\ DOMAIN d.mhist = 1..M
      BY <1>1, <2>1, <2>2
    <3>2. QED BY <1>11, <2>1, <2>2, <3>1 DEF Consistent, Ascending
  <2>3. CASE \E y \in 1..D : j = M + y
    <3>1. PICK y \in 1..D : j = M + y BY <2>3
    <3>2. CASE i \in 1..M BY <1>11, <1>16, <3>1, <3>2
    <3>3. CASE \E x \in 1..D : i = M + x
      <4>1. PICK x \in 1..D : i = M + x BY <3>3
      <4>2. x <= y BY <1>a, <2>1, <3>1, <4>1
      <4>3. QED BY <1>11, <1>17, <3>1, <4>1, <4>2
    <3>4. QED BY <1>b, <3>2, <3>3
  <2>4. QED BY <1>b, <2>2, <2>3
<1>22. Ascending(r.shist)
  <2>0. DOMAIN r.shist = 1 .. L + K BY <1>12, <1>14
  <2>1. SUFFICES ASSUME NEW i \in 1 .. L + K, NEW j \in 1 .. L + K, i < j
                 PROVE  r.shist[i].ts <= r.shist[j].ts
    BY <2>0 DEF Ascending
  <2>2. CASE j \in 1..L
    <3>1. i \in 1..L /\ DOMAIN d.shist = 1..L
      BY <1>1, <2>1, <2>2
    <3>2. QED BY <1>12, <2>1, <2>2, <3>1 DEF Consistent, Ascending
  <2>3. CASE \E y \in 1..K : j = L + y
    <3>1. PICK y \in 1..K : j = L + y BY <2>3
    <3>2. r.shist[j].ts = T(y) BY <1>6, <1>8, <1>12, <3>1 DEF T
    <3>3. CASE i \in 1..L BY <1>6, <1>12, <1>16, <3>2, <3>3 DEF T
    <3>4. CASE \E x \in 1..K : i = L + x
      <4>1. PICK x \in 1..K : i = L + x BY <3>4
      <4>2. x < y BY <1>a, <2>1, <3>1, <4>1
      <4>3. r.shist[i].ts = T(x) BY <1>6, <1>8, <1>12, <4>1 DEF T
      <4>4. T(x) < T(y) BY <1>18, <4>2
      <4>5. T(x) \in Nat /\ T(y) \in Nat BY <1>15
      <4>6. QED BY <3>2, <4>3, <4>4, <4>5
    <3>5. QED BY <1>b, <3>3, <3>4
  <2>4. QED BY <1>b, <2>2, <2>3
<1>23. ASSUME NEW j \in 1 .. M + D
       PROVE  /\ r.mhist[j] = r.filt.seen[F + j]
              /\ \E i \in 1 .. L + K : r.shist[i].ts = r.mhist[j].ts
  <2>1. CASE j \in 1..M
    <3>1. d.mhist[j] = seen[F + j] /\ \E i \in 1..L : d.shist[i].ts = d.mhist[j].ts
      BY <2>1 DEF Consistent, F, L, M, seen
    <3>2. F + j \in 1..N BY <1>1, <2>1
    <3>3. \A i \in 1..L : i \in 1 .. L + K BY <1>1, <1>6
    <3>4. QED BY <1>11, <1>12, <1>13, <2>1, <3>1, <3>2, <3>3
  <2>2. CASE \E y \in 1..D : j = M + y
    <3>1. PICK y \in 1..D : j = M + y BY <2>2
    <3>2. F + j = N + y BY <1>1, <1>3, <3>1
    <3>3. PICK k \in 1..K : due[ends[k]].ts = due[y].ts BY <1>7
    <3>4. L + k \in 1 .. L + K BY <1>1, <1>6, PlacesAppended
    <3>5. r.shist[L + k].ts = due[y].ts BY <1>6, <1>8, <1>12, <3>3
    <3>6. QED BY <1>11, <1>13, <3>1, <3>2, <3>4, <3>5
  <2>3. QED BY <1>b, <2>1, <2>2
<1>24. ASSUME NEW i \in 1..L
       PROVE  Saved(r, i) /\ \E j \in 1 .. M + D : r.shist[i].ts = r.mhist[j].ts
  <2> DEFINE s == d.shist[i]
             n == Len(s.seen)
  <2>1. Saved(d, i) /\ \E j \in 1..M : d.shist[i].ts = d.mhist[j].ts
    BY DEF Consistent, L, M
  <2>2. /\ n \in F..N
        /\ \A p \in 1..n : s.seen[p] = seen[p]
        /\ \A p \in 1..N : p > F =>
             /\ p <= n => seen[p].ts <= s.ts
             /\ p > n => /\ s.ts <= seen[p].ts
                         /\ s.ts = seen[p].ts => \E k \in 1..L : k > i /\ d.shist[k].ts = s.ts
    BY <2>1 DEF Saved, F, N, L, seen
  <2>3. n \in Nat BY <1>2
  <2>4. r.shist[i] = s /\ Len(r.shist[i].seen) = n BY <1>12
  <2> HIDE DEF s, n
  <2>5. n \in F .. N + D /\ \A p \in 1..n : p \in 1..N
    BY <1>1, <1>3, <2>2, <2>3
  <2>6. \A p \in 1..n : s.seen[p] = r.filt.seen[p] BY <1>13, <2>2, <2>5
  <2>7. ASSUME NEW p \in 1 .. N + D, p > F
        PROVE  /\ p <= n => r.filt.seen[p].ts <= s.ts
               /\ p > n => /\ s.ts <= r.filt.seen[p].ts
                           /\ s.ts = r.filt.seen[p].ts =>
                                \E k \in 1 .. L + K : k > i /\ r.shist[k].ts = s.ts
    <3>1. CASE p \in 1..N
      <4>1. r.filt.seen[p] = seen[p] BY <1>13, <3>1
      <4>2. \A k \in 1..L : k \in 1 .. L + K /\ r.shist[k] = d.shist[k] BY <1>1, <1>6, <1>12
      <4>3. QED BY <2>2, <2>7, <3>1, <4>1, <4>2
    <3>2. CASE \E y \in 1..D : p = N + y
      <4>1. PICK y \in 1..D : p = N + y BY <3>2
      <4>2. r.filt.seen[p] = due[y] /\ s.ts <= due[y].ts BY <1>13, <1>16, <4>1 DEF s
      <4>3. PICK k \in 1..K : due[ends[k]].ts = due[y].ts BY <1>7
      <4>4. L + k \in 1 .. L + K /\ L + k > i BY <1>1, <1>6
      <4>5. r.shist[L + k].ts = due[y].ts BY <1>6, <1>8, <1>12, <4>3
      <4>6. ~(p <= n) BY <1>a, <2>2, <2>3, <4>1
      <4>7. QED BY <4>2, <4>4, <4>5, <4>6
    <3>3. QED BY <1>b, <3>1, <3>2
  <2>8. Saved(r, i)
    BY <1>12, <1>13, <1>19, <2>4, <2>5, <2>6, <2>7 DEF Saved
  <2>9. \E j \in 1 .. M + D : r.shist[i].ts = r.mhist[j].ts
    <3>1. \A j \in 1..M : j \in 1 .. M + D BY <1>1, <1>3
    <3>2. QED BY <1>11, <1>12, <2>1, <3>1
  <2>10. QED BY <2>8, <2>9
<1>25. ASSUME NEW k \in 1..K
       PROVE  Saved(r, L + k) /\ \E j \in 1 .. M + D : r.shist[L + k].ts = r.mhist[j].ts
  <2> DEFINE e == ends[k]
             s == After(d, due, e)
  <2>1. e \in 1..D /\ e \in Nat /\ e <= D BY <1>3, <1>6
  <2>2. /\ s.ts = due[e].ts /\ Len(s.seen) = N + e
        /\ \A p \in 1..N : s.seen[p] = seen[p]
        /\ \A x \in 1..e : s.seen[N + x] = due[x]
    BY <1>8, <2>1
  <2>3. r.shist[L + k] = s BY <1>12
  <2>4. s.ts \in Nat /\ \A i \in 1..D : i > e => s.ts < due[i].ts
    BY <1>15, <2>2 DEF T
  <2> HIDE DEF s, e
  <2>5. N + e \in F .. N + D BY <1>1, <1>3, <2>1
  <2>6. ASSUME NEW p \in 1 .. N + e PROVE s.seen[p] = r.filt.seen[p]
    <3>1. CASE p \in 1..N BY <1>13, <2>2, <3>1
    <3>2. CASE \E y \in 1..e : p = N + y
      <4>1. PICK y \in 1..e : p = N + y BY <3>2
      <4>2. y \in 1..D BY <1>3, <2>1
      <4>3. QED BY <1>13, <2>2, <4>1, <4>2
    <3>3. QED BY <1>1, <2>1, <3>1, <3>2, PlacesAppended
  <2>7. ASSUME NEW p \in 1 .. N + D, p > F
        PROVE  /\ p <= N + e => r.filt.seen[p].ts <= s.ts
               /\ p > N + e => s.ts <= r.filt.seen[p].ts /\ s.ts # r.filt.seen[p].ts
    <3>1. CASE p \in 1..N
      <4>1. p - F \in 1..M /\ F + (p - F) = p
        <5>1. p \in Int /\ p <= F + M BY <1>1, <3>1
        <5>2. QED BY <1>1, <2>7, <5>1
      <4>2. d.mhist[p - F] = seen[p] BY <4>1 DEF Consistent, F, M, seen
      <4>3. seen[p].ts <= s.ts BY <1>16, <2>1, <2>2, <4>1, <4>2
      <4>4. ~(p > N + e) BY <1>1, <2>1, <3>1
      <4>5. QED BY <1>13, <3>1, <4>3, <4>4
    <3>2. CASE \E y \in 1..D : p = N + y
      <4>1. PICK y \in 1..D : p = N + y BY <3>2
      <4>2. r.filt.seen[p] = due[y] /\ y \in Nat /\ due[y].ts \in Nat BY <1>3, <1>13, <4>1
      <4>3. ASSUME p <= N + e PROVE r.filt.seen[p].ts <= s.ts
        <5>1. y <= e BY <1>1, <2>1, <4>1, <4>2, <4>3
        <5>2. QED BY <1>17, <2>1, <2>2, <4>2, <5>1
      <4>4. ASSUME p > N + e PROVE s.ts < due[y].ts
        <5>1. y > e BY <1>1, <2>1, <4>1, <4>2, <4>4
        <5>2. QED BY <2>4, <5>1
      <4>5. s.ts < due[y].ts => s.ts <= due[y].ts /\ s.ts # due[y].ts BY <2>4, <4>2
      <4>6. QED BY <4>2, <4>3, <4>4, <4>5
    <3>3. QED BY <1>b, <3>1, <3>2
  <2>8. Saved(r, L + k)
    BY <1>12, <1>13, <1>19, <2>2, <2>3, <2>5, <2>6, <2>7 DEF Saved
  <2>9. M + e \in 1 .. M + D BY <1>1, <1>3, <2>1
  <2>10. r.mhist[M + e] = due[e] BY <1>11, <2>1
  <2>11. QED BY <2>2, <2>3, <2>8, <2>9, <2>10
<1>26. ASSUME NEW i \in 1 .. L + K
       PROVE  Saved(r, i) /\ \E j \in 1 .. M + D : r.shist[i].ts = r.mhist[j].ts
  BY <1>b, <1>24, <1>25
<1>27. Consistent(r)
  <2>1. \A j \in 1..Len(r.mhist) :
          /\ r.mhist[j] = r.filt.seen[Forgotten(r) + j]
          /\ \E i \in 1..Len(r.shist) : r.shist[i].ts = r.mhist[j].ts
    BY <1>11, <1>12, <1>19, <1>23
  <2>2. \A i \in 1..Len(r.shist) :
          Saved(r, i) /\ \E j \in 1..Len(r.mhist) : r.shist[i].ts = r.mhist[j].ts
    BY <1>11, <1>12, <1>26
  <2>3. Forgotten(r) >= 0 BY <1>1, <1>19
  <2>4. QED BY <1>21, <1>22, <2>1, <2>2, <2>3 DEF Consistent
<1>28. ASSUME NEW i \in 1 .. L + K
       PROVE  \/ i \in 1..L /\ r.shist[i] = d.shist[i]
              \/ \E e \in 1..D : r.shist[i] = After(d, due, e)
  BY <1>b, <1>6, <1>12
<1>29. QED BY <1>12, <1>20, <1>27, <1>28 DEF D, L

\* What integrating the measurements due, those of d up to t, makes of d.
Integrated(d, t, due, r) ==
  /\ due \in Seq(Measurement) /\ ToSet(due) = {m \in d.queue : m.ts <= t}
  /\ \A i, j \in DOMAIN due : i # j => due[i] # due[j]
  /\ Ascending(due)
  /\ r \in Filter /\ Consistent(r) /\ UpTo(r, r.filt.ts)
  /\ r.queue = d.queue \ ToSet(due)
  /\ r.filt.seen = d.filt.seen \o due
  /\ due = <<>> => r = d
  /\ due # <<>> => r.filt.ts = due[Len(due)].ts
  /\ \A i \in 1..Len(r.shist) :
       \/ i \in 1..Len(d.shist) /\ r.shist[i] = d.shist[i]
       \/ \E e \in 1..Len(due) : r.shist[i] = After(d, due, e)

LEMMA IntegrateKeeps ==
  ASSUME NEW d \in Filter, Consistent(d), UpTo(d, d.filt.ts), NEW t \in Int,
         IsFiniteSet(d.queue), \A a, b \in d.queue : a.id = b.id => a = b,
         \A m \in d.queue : UpTo(d, m.ts)
  PROVE  \E due : Integrated(d, t, due, IntegrateDue(d, t))
<1> DEFINE S == {m \in d.queue : m.ts <= t}
           due == InOrder(S)
           ends == Sorted(EndsOf(due), <)
           r == IntegrateDue(d, t)
<1>1. d.queue \in SUBSET Measurement BY FilterTyped
<1>2. S \in SUBSET Measurement /\ IsFiniteSet(S) /\ \A a, b \in S : a.id = b.id => a = b
  BY <1>1, FS_Subset
<1>3. /\ due \in Seq(S) /\ ToSet(due) = S
      /\ \A i, j \in DOMAIN due : i # j => due[i] # due[j]
      /\ Ascending(due)
  <2> HIDE DEF S
  <2>1. QED BY <1>2, InOrderSorts
<1>4. due \in Seq(Measurement) /\ \A j \in 1..Len(due) : due[j] \in d.queue
  <2>1. \A j \in 1..Len(due) : due[j] \in S BY <1>3, ElementOfSeq
  <2>2. due \in Seq(Measurement)
    <3> HIDE DEF due
    <3>1. QED BY <1>2, <1>3
  <2>3. QED BY <2>1, <2>2
<1>5. /\ d.filt.seen \in Seq(Measurement) /\ d.shist \in Seq(FilterState)
      /\ d.mhist \in Seq(Measurement) /\ Len(d.filt.seen) \in Nat
  BY FilterTyped
<1>6. CASE due = <<>>
  <2>1. r = d BY <1>6 DEF IntegrateDue
  <2>2. d.filt.seen \o due = d.filt.seen BY <1>5, <1>6, ConcatEmptySeq
  <2>3. ToSet(due) = {} BY <1>6 DEF ToSet
  <2> HIDE DEF r, due
  <2>4. Integrated(d, t, due, r)
    BY <1>3, <1>4, <1>6, <2>1, <2>2, <2>3 DEF Integrated
  <2>5. QED BY <2>4 DEF r, due
<1>7. CASE due # <<>> /\ Smooth = FALSE
  <2>1. r = [d EXCEPT !.queue = @ \ ToSet(due), !.filt = After(d, due, Len(due))]
    BY <1>7 DEF IntegrateDue, After
  <2> HIDE DEF due, r, ends, S
  <2>2. Len(due) \in 1..Len(due)
    <3>1. Len(due) \in Nat /\ Len(due) # 0 BY <1>4, <1>7, LenProperties, EmptySeq
    <3>2. QED BY <3>1
  <2>3. /\ After(d, due, Len(due)) \in FilterState
        /\ After(d, due, Len(due)).ts = due[Len(due)].ts
        /\ After(d, due, Len(due)).seen = d.filt.seen \o SubSeq(due, 1, Len(due))
    BY <1>4, <2>2, AfterTyped DEF After
  <2>4. SubSeq(due, 1, Len(due)) = due BY <1>4, SubSeqFull
  <2>5. d.mhist = <<>> /\ d.shist = <<>> BY <1>7 DEF Consistent
  <2>6. /\ r \in Filter /\ r.mhist = <<>> /\ r.shist = <<>> /\ r.queue = d.queue \ ToSet(due)
        /\ r.filt = After(d, due, Len(due))
    BY <2>1, <2>3, <2>5 DEF Filter
  <2>7. Len(r.mhist) = 0 /\ Len(r.shist) = 0 /\ DOMAIN r.mhist = {} /\ DOMAIN r.shist = {}
    BY <2>6
  <2>8. Forgotten(r) >= 0
    <3>1. Len(r.filt.seen) \in Nat BY <2>6, FilterTyped
    <3>2. QED BY <2>7, <3>1 DEF Forgotten
  <2>9. Consistent(r) BY <2>6, <2>7, <2>8 DEF Consistent, Ascending
  <2>10. UpTo(r, r.filt.ts) BY <2>7 DEF UpTo
  <2>11. Integrated(d, t, due, r)
    <3>1. r.filt.seen = d.filt.seen \o due /\ r.filt.ts = due[Len(due)].ts
      BY <2>3, <2>4, <2>6
    <3>2. \A i \in 1..Len(r.shist) : FALSE BY <2>7
    <3>3. r \in Filter /\ r.queue = d.queue \ ToSet(due) BY <2>6
    <3>4. QED BY <1>3, <1>4, <1>7, <2>9, <2>10, <3>1, <3>2, <3>3 DEF Integrated, S
  <2>12. QED BY <2>11 DEF r, due
<1>8. CASE due # <<>> /\ Smooth = TRUE
  <2> DEFINE new == [j \in DOMAIN ends |-> After(d, due, ends[j])]
  <2>1. r = [queue |-> d.queue \ ToSet(due), mhist |-> d.mhist \o due,
             shist |-> d.shist \o new, filt |-> After(d, due, Len(due))]
    <3>1. d = [queue |-> d.queue, mhist |-> d.mhist, shist |-> d.shist, filt |-> d.filt]
      BY DEF Filter
    <3>2. r = [d EXCEPT !.queue = @ \ ToSet(due), !.filt = After(d, due, Len(due)),
                        !.mhist = @ \o due, !.shist = @ \o new]
      BY <1>8 DEF IntegrateDue, After, EndsOf
    <3> HIDE DEF r, due, new
    <3>3. QED BY <3>1, <3>2
  <2>2. EndsAre(ends, due)
    <3> HIDE DEF due
    <3>1. Len(due) \in Nat /\ EndsOf(due) \in SUBSET (1..Len(due))
      BY <1>3, <1>4, EndsOfDue, LenProperties
    <3>2. QED BY <3>1, NumbersSorted DEF EndsAre
  <2>a. \A j \in 1..Len(due) : UpTo(d, due[j].ts) BY <1>4
  <2> HIDE DEF due, ends, r, S
  <2>3. Appended(d, due, ends, r)
    <3>1. d.queue \ ToSet(due) \in SUBSET Measurement BY <1>1
    <3> HIDE DEF new
    <3>2. Appended(d, due, ends,
            [queue |-> d.queue \ ToSet(due), mhist |-> d.mhist \o due,
             shist |-> d.shist \o [j \in DOMAIN ends |-> After(d, due, ends[j])],
             filt |-> After(d, due, Len(due))])
      <4>1. due \in Seq(Measurement) /\ due # <<>> /\ Ascending(due) BY <1>3, <1>4, <1>8
      <4>2. QED BY <2>2, <3>1, <4>1, AppendedHere
    <3>3. QED BY <2>1, <3>2 DEF new
  <2> HIDE DEF new
  <2>4. /\ Consistent(r) /\ UpTo(r, r.filt.ts)
        /\ \A i \in 1..Len(r.shist) :
              \/ i \in 1..Len(d.shist) /\ r.shist[i] = d.shist[i]
              \/ \E e \in 1..Len(due) : r.shist[i] = After(d, due, e)
    BY <1>3, <1>4, <1>8, <2>2, <2>3, <2>a, AppendKeeps
  <2>5. r \in Filter /\ r.filt = After(d, due, Len(due)) BY <2>3 DEF Appended
  <2>6. SubSeq(due, 1, Len(due)) = due BY <1>4, SubSeqFull
  <2>7. r.filt.seen = d.filt.seen \o due /\ r.filt.ts = due[Len(due)].ts
    <3>1. /\ After(d, due, Len(due)).seen = d.filt.seen \o SubSeq(due, 1, Len(due))
          /\ After(d, due, Len(due)).ts = due[Len(due)].ts
      BY DEF After
    <3>2. QED BY <2>5, <2>6, <3>1
  <2>8. r.queue = d.queue \ ToSet(due) BY <2>1
  <2>9. Integrated(d, t, due, r)
    BY <1>3, <1>4, <1>8, <2>4, <2>5, <2>7, <2>8 DEF Integrated, S
  <2>10. QED BY <2>9 DEF r, due
<1>9. Smooth \in BOOLEAN BY ReplayAssumption
<1>10. QED BY <1>6, <1>7, <1>8, <1>9

\* Expiring drops the oldest measurements and the states with their timestamps.
LEMMA ExpireKeeps ==
  ASSUME NEW d \in Filter, Consistent(d), UpTo(d, d.filt.ts)
  PROVE  LET r == Expire(d)
         IN  /\ r \in Filter /\ Consistent(r) /\ UpTo(r, r.filt.ts)
             /\ r.queue = d.queue /\ r.filt = d.filt
             /\ \A i \in 1..Len(r.shist) : \E k \in 1..Len(d.shist) : r.shist[i] = d.shist[k]
<1> DEFINE cutoff == d.filt.ts - HistoryLength
           M == Len(d.mhist)
           L == Len(d.shist)
           N == Len(d.filt.seen)
           F == Forgotten(d)
           r == Expire(d)
           seen == d.filt.seen
<1>1. /\ M \in Nat /\ L \in Nat /\ N \in Nat /\ F \in Int /\ F >= 0 /\ N = F + M
      /\ d.mhist \in Seq(Measurement) /\ d.shist \in Seq(FilterState)
      /\ d.queue \in SUBSET Measurement /\ d.filt \in FilterState
      /\ DOMAIN d.mhist = 1..M /\ DOMAIN d.shist = 1..L
      /\ \A j \in 1..M : d.mhist[j].ts \in Nat
      /\ \A i \in 1..L : d.shist[i].ts \in Nat /\ Len(d.shist[i].seen) \in Nat
  <2>1. F \in Int /\ N = F + M
    <3>1. N \in Nat /\ M \in Nat /\ F = N - M BY FilterTyped DEF Forgotten
    <3> HIDE DEF N, M, F
    <3>2. QED BY <3>1
  <2>2. F >= 0 BY DEF Consistent
  <2>3. QED BY <2>1, <2>2, FilterTyped
<1>2. cutoff \in Int /\ d.filt.ts \in Nat BY ReplayAssumption, FilterTyped
<1>3. CASE Smooth = FALSE
  <2>1. r = d BY <1>3 DEF Expire
  <2>2. QED BY <2>1
<1>4. CASE Smooth = TRUE
  <2>1. (\A s \in FilterState : s.ts \in Int) /\ (\A m \in Measurement : m.ts \in Int)
    BY ReplayAssumption, NumbersOfMeasurement DEF FilterState, Times
  <2>2. Ascending(d.mhist) /\ Ascending(d.shist) BY DEF Consistent
  <2> HIDE DEF cutoff
  <2> DEFINE ms == PopBefore(d.mhist, cutoff)
             ss == PopBefore(d.shist, cutoff)
  <2>3. PICK b \in 0..M :
           /\ ms \in Seq(Measurement) /\ Len(ms) = M - b
           /\ \A i \in 1 .. M - b : ms[i] = d.mhist[b + i]
           /\ \A i \in 1..M : i <= b <=> d.mhist[i].ts < cutoff
    BY <1>1, <1>2, <2>1, <2>2, PopBeforeKeeps
  <2>4. PICK c \in 0..L :
           /\ ss \in Seq(FilterState) /\ Len(ss) = L - c
           /\ \A i \in 1 .. L - c : ss[i] = d.shist[c + i]
           /\ \A i \in 1..L : i <= c <=> d.shist[i].ts < cutoff
    BY <1>1, <1>2, <2>1, <2>2, PopBeforeKeeps
  <2> HIDE DEF ms, ss
  <2>5. r = [d EXCEPT !.mhist = ms, !.shist = ss] BY <1>4 DEF Expire, ms, ss, cutoff
  <2>6. /\ r \in Filter /\ r.mhist = ms /\ r.shist = ss /\ r.queue = d.queue /\ r.filt = d.filt
    BY <2>3, <2>4, <2>5 DEF Filter
  <2>7. /\ Len(r.mhist) = M - b /\ Len(r.shist) = L - c
        /\ DOMAIN r.mhist = 1..Len(r.mhist) /\ DOMAIN r.shist = 1..Len(r.shist)
    BY <2>3, <2>4, <2>6, LenProperties
  <2> HIDE DEF r, F, M, L, N, seen
  <2>8. /\ M \in Nat /\ L \in Nat /\ b \in Nat /\ c \in Nat /\ b <= M /\ c <= L
        /\ N \in Nat /\ F \in Int /\ F >= 0 /\ N = F + M
    BY <1>1, <2>3, <2>4
  <2>9. Forgotten(r) = F + b
    <3>1. Len(r.filt.seen) = N BY <2>6 DEF N
    <3>2. QED BY <2>7, <2>8, <3>1 DEF Forgotten
  <2>10. \A i \in 1 .. M - b : b + i \in 1..M /\ b + i > b BY <2>8
  <2>11. \A i \in 1 .. L - c : c + i \in 1..L /\ c + i > c BY <2>8
  <2>12. \A j \in 1..M : j > b => j - b \in 1 .. M - b /\ b + (j - b) = j BY <2>8
  <2>13. \A j \in 1..L : j > c => j - c \in 1 .. L - c /\ c + (j - c) = j BY <2>8
  <2>14. \A i \in 1 .. M - b : r.mhist[i] = d.mhist[b + i] /\ ~(d.mhist[b + i].ts < cutoff)
    <3>1. \A i \in 1 .. M - b : ~(b + i <= b) BY <2>8
    <3>2. QED BY <2>3, <2>6, <2>10, <3>1
  <2>15. \A i \in 1 .. L - c : r.shist[i] = d.shist[c + i] /\ ~(d.shist[c + i].ts < cutoff)
    <3>1. \A i \in 1 .. L - c : ~(c + i <= c) BY <2>8
    <3>2. QED BY <2>4, <2>6, <2>11, <3>1
  <2>16. UpTo(r, r.filt.ts)
    BY <2>6, <2>7, <2>10, <2>11, <2>14, <2>15 DEF UpTo, M, L
  <2>17. Ascending(r.mhist) /\ Ascending(r.shist)
    <3>1. \A i, j \in 1 .. M - b : i < j => b + i < b + j BY <2>8
    <3>2. \A i, j \in 1 .. L - c : i < j => c + i < c + j BY <2>8
    <3>3. \A i, j \in 1..M : i < j => d.mhist[i].ts <= d.mhist[j].ts
      BY <1>1, <2>2 DEF Ascending, M
    <3>4. \A i, j \in 1..L : i < j => d.shist[i].ts <= d.shist[j].ts
      BY <1>1, <2>2 DEF Ascending, L
    <3>5. \A i, j \in 1 .. M - b : i < j => r.mhist[i].ts <= r.mhist[j].ts
      BY <2>10, <2>14, <3>1, <3>3
    <3>6. \A i, j \in 1 .. L - c : i < j => r.shist[i].ts <= r.shist[j].ts
      BY <2>11, <2>15, <3>2, <3>4
    <3>7. QED BY <2>7, <3>5, <3>6 DEF Ascending
  <2>18. ASSUME NEW j \in 1 .. M - b
         PROVE  /\ r.mhist[j] = seen[F + b + j]
                /\ \E i \in 1 .. L - c : r.shist[i].ts = r.mhist[j].ts
    <3>1. /\ d.mhist[b + j] = seen[F + (b + j)]
          /\ \E i \in 1..L : d.shist[i].ts = d.mhist[b + j].ts
      BY <2>10 DEF Consistent, F, M, L, seen
    <3>2. F + (b + j) = F + b + j BY <2>8
    <3>3. PICK i \in 1..L : d.shist[i].ts = d.mhist[b + j].ts BY <3>1
    <3>4. ~(d.shist[i].ts < cutoff) BY <2>14, <3>3
    <3>5. i > c BY <2>4, <2>8, <3>4
    <3>6. QED BY <2>13, <2>14, <2>15, <3>1, <3>2, <3>3, <3>5
  <2>19. ASSUME NEW i \in 1 .. L - c
         PROVE  Saved(r, i) /\ \E j \in 1 .. M - b : r.shist[i].ts = r.mhist[j].ts
    <3> DEFINE k == c + i
               s == d.shist[k]
               n == Len(s.seen)
    <3>1. k \in 1..L /\ r.shist[i] = s BY <2>11, <2>15
    <3>2. Saved(d, k) /\ \E j \in 1..M : s.ts = d.mhist[j].ts
      BY <3>1 DEF Consistent, L, M
    <3>3. /\ n \in F..N
          /\ \A p \in 1..n : s.seen[p] = seen[p]
          /\ \A p \in 1..N : p > F =>
               /\ p <= n => seen[p].ts <= s.ts
               /\ p > n => /\ s.ts <= seen[p].ts
                           /\ s.ts = seen[p].ts => \E l \in 1..L : l > k /\ d.shist[l].ts = s.ts
      BY <3>2 DEF Saved, F, N, L, seen
    <3>4. n \in Nat /\ s.ts \in Nat /\ ~(s.ts < cutoff) /\ k \in Nat
      BY <1>1, <2>11, <2>15, <3>1 DEF L
    <3>5. PICK j \in 1..M : s.ts = d.mhist[j].ts BY <3>2
    <3>6. j > b BY <2>3, <2>8, <3>4, <3>5
    <3>7. \E l \in 1 .. M - b : r.shist[i].ts = r.mhist[l].ts
      BY <2>12, <2>14, <3>1, <3>5, <3>6
    <3> HIDE DEF n, s, k
    <3>8. n \in F + b .. N
      <4>1. ASSUME n < F + b PROVE FALSE
        <5>1. F + b \in 1..N /\ F + b > F /\ F + b > n /\ b \in 1..M
          BY <2>8, <3>3, <3>4, <4>1
        <5>2. d.mhist[b] = seen[F + b] BY <5>1 DEF Consistent, F, M, seen
        <5>3. s.ts <= d.mhist[b].ts BY <3>3, <5>1, <5>2
        <5>4. d.mhist[b].ts < cutoff
          <6>1. b <= b BY <2>8
          <6>2. QED BY <2>3, <5>1, <6>1
        <5>5. d.mhist[b].ts \in Nat BY <1>1, <5>1 DEF M
        <5>6. QED BY <1>2, <3>4, <5>3, <5>4, <5>5 DEF cutoff
      <4>2. n \in Int /\ F + b \in Int /\ n <= N BY <2>8, <3>3, <3>4
      <4>3. QED BY <4>1, <4>2
    <3>9. ASSUME NEW p \in 1..N, p > F + b
          PROVE  /\ p <= n => seen[p].ts <= s.ts
                 /\ p > n => /\ s.ts <= seen[p].ts
                             /\ s.ts = seen[p].ts =>
                                  \E l \in 1 .. L - c : l > i /\ r.shist[l].ts = s.ts
      <4>1. p > F BY <2>8, <3>9
      <4>2. ASSUME p > n, s.ts = seen[p].ts
            PROVE  \E l \in 1 .. L - c : l > i /\ r.shist[l].ts = s.ts
        <5>1. PICK l \in 1..L : l > k /\ d.shist[l].ts = s.ts BY <3>3, <4>1, <4>2
        <5>2. l > c /\ l - c > i BY <2>8, <5>1 DEF k
        <5>3. QED BY <2>13, <2>15, <5>1, <5>2
      <4>3. QED BY <3>3, <4>1, <4>2
    <3>10. Saved(r, i)
      <4>1. /\ r.shist[i] = s /\ Len(r.shist[i].seen) = n /\ r.filt.seen = seen
            /\ Len(r.filt.seen) = N
        BY <2>6, <3>1 DEF n, N, seen
      <4>2. QED BY <2>7, <2>9, <3>3, <3>8, <3>9, <4>1 DEF Saved
    <3>11. QED BY <3>7, <3>10
  <2>20. Consistent(r)
    <3>1. \A j \in 1..Len(r.mhist) :
            /\ r.mhist[j] = r.filt.seen[Forgotten(r) + j]
            /\ \E i \in 1..Len(r.shist) : r.shist[i].ts = r.mhist[j].ts
      BY <2>6, <2>7, <2>9, <2>18 DEF seen
    <3>2. \A i \in 1..Len(r.shist) :
            Saved(r, i) /\ \E j \in 1..Len(r.mhist) : r.shist[i].ts = r.mhist[j].ts
      BY <2>7, <2>19
    <3>3. Forgotten(r) >= 0 BY <2>8, <2>9
    <3>4. QED BY <1>4, <2>17, <3>1, <3>2, <3>3 DEF Consistent
  <2>21. \A i \in 1..Len(r.shist) : \E k \in 1..Len(d.shist) : r.shist[i] = d.shist[k]
    BY <2>7, <2>11, <2>15 DEF L
  <2>22. QED BY <2>6, <2>16, <2>20, <2>21 DEF r
<1>5. Smooth \in BOOLEAN BY ReplayAssumption
<1>6. QED BY <1>3, <1>4, <1>5

\* Nothing in the histories depends on the time of the filter or on the queue.
LEMMA SameHistories ==
  ASSUME NEW d \in Filter, Consistent(d), NEW r \in Filter,
         r.mhist = d.mhist, r.shist = d.shist, r.filt.seen = d.filt.seen
  PROVE  Consistent(r)
<1>1. Forgotten(r) = Forgotten(d) BY DEF Forgotten
<1>2. \A i \in 1..Len(d.shist) : Saved(d, i) => Saved(r, i) BY <1>1 DEF Saved
<1>3. Ascending(d.mhist) /\ Ascending(d.shist) /\ Forgotten(d) >= 0
        /\ (Smooth = FALSE => d.mhist = <<>> /\ d.shist = <<>>)
  BY DEF Consistent
<1>4. \A j \in 1..Len(d.mhist) :
        /\ d.mhist[j] = d.filt.seen[Forgotten(d) + j]
        /\ \E i \in 1..Len(d.shist) : d.shist[i].ts = d.mhist[j].ts
  BY DEF Consistent
<1>5. \A i \in 1..Len(d.shist) :
        /\ Saved(d, i)
        /\ \E j \in 1..Len(d.mhist) : d.shist[i].ts = d.mhist[j].ts
  BY DEF Consistent
<1>6. QED BY <1>1, <1>2, <1>3, <1>4, <1>5 DEF Consistent

LEMMA UpToLater ==
  ASSUME NEW d \in Filter, NEW t \in Int, UpTo(d, t), NEW u \in Int, t <= u
  PROVE  UpTo(d, u)
<1>1. /\ \A j \in 1..Len(d.mhist) : d.mhist[j].ts \in Nat
      /\ \A i \in 1..Len(d.shist) : d.shist[i].ts \in Nat
  BY FilterTyped
<1>2. QED BY <1>1 DEF UpTo

LEMMA ProjectKeeps ==
  ASSUME NEW d \in Filter, Consistent(d), UpTo(d, d.filt.ts), NEW t \in Times, d.filt.ts <= t
  PROVE  LET r == Project(d, t)
         IN  /\ r \in Filter /\ Consistent(r) /\ UpTo(r, r.filt.ts)
             /\ r.queue = d.queue /\ r.shist = d.shist /\ r.filt.seen = d.filt.seen
             /\ r.filt.ts = t
<1> DEFINE r == Project(d, t)
<1>1. r = [d EXCEPT !.filt.ts = t] BY DEF Project
<1>2. /\ r.queue = d.queue /\ r.mhist = d.mhist /\ r.shist = d.shist
      /\ r.filt.seen = d.filt.seen /\ r.filt.ts = t /\ r \in Filter
  BY <1>1 DEF Filter, FilterState
<1> HIDE DEF r
<1>3. Consistent(r) BY <1>2, SameHistories
<1>4. t \in Int /\ d.filt.ts \in Int BY ReplayAssumption, FilterTyped DEF Times
<1>5. UpTo(d, t) BY <1>4, UpToLater
<1>6. UpTo(r, t) BY <1>2, <1>5 DEF UpTo
<1>7. QED BY <1>2, <1>3, <1>6 DEF r

-----------------------------------------------------------------------------
(* ReplayFilter: what an operation keeps *)

\* Of the measurements obs each is integrated or waits.
Keeps(d, obs) ==
  /\ d \in Filter /\ Consistent(d) /\ UpTo(d, d.filt.ts)
  /\ obs \in SUBSET Measurement /\ IsFiniteSet(obs)
  /\ \A a, b \in obs : a.id = b.id => a = b
  /\ ToSet(d.filt.seen) \cup d.queue = obs
  /\ ToSet(d.filt.seen) \cap d.queue = {}

\* The filter and each of its saved states integrated each measurement once, in order, and
\* nothing that is younger than the state.
Exactly(d) ==
  /\ Ascending(d.filt.seen) /\ Once(d.filt.seen)
  /\ \A p \in 1..Len(d.filt.seen) : d.filt.seen[p].ts <= d.filt.ts
  /\ \A i \in 1..Len(d.shist) : \A p \in 1..Len(d.shist[i].seen) :
       d.shist[i].seen[p].ts <= d.shist[i].ts

\* Nothing that waits is older than what was integrated, or is it.
Follows(d) ==
  \A m \in d.queue : \A p \in 1..Len(d.filt.seen) :
    d.filt.seen[p].ts <= m.ts /\ d.filt.seen[p].id # m.id

LEMMA HeadIsLeast ==
  ASSUME NEW S \in SUBSET Measurement, IsFiniteSet(S), S # {},
         \A a, b \in S : a.id = b.id => a = b
  PROVE  /\ Head(InOrder(S)).ts \in Nat
         /\ \A m \in S : Head(InOrder(S)).ts <= m.ts
<1> DEFINE q == InOrder(S)
<1>1. q \in Seq(S) /\ ToSet(q) = S /\ Ascending(q)
  BY InOrderSorts
<1> HIDE DEF q
<1>2. /\ Len(q) \in Nat /\ DOMAIN q = 1..Len(q)
      /\ \A i \in 1..Len(q) : q[i] \in S /\ q[i].ts \in Nat
  BY <1>1, ElementOfSeq, LenProperties, NumbersOfMeasurement
<1>3. \A m \in S : \E i \in 1..Len(q) : m = q[i] BY <1>1, <1>2 DEF ToSet
<1>4. 1 \in 1..Len(q) /\ Head(q) = q[1]
  <2>1. PICK i \in 1..Len(q) : TRUE BY <1>3
  <2>2. q # <<>> BY <1>2, <2>1
  <2>3. QED BY <1>1, <1>2, <2>1, <2>2, HeadTailProperties
<1>5. ASSUME NEW m \in S PROVE q[1].ts <= m.ts
  <2>1. PICK i \in 1..Len(q) : m = q[i] BY <1>3
  <2>2. CASE i = 1 BY <1>2, <2>1, <2>2
  <2>3. CASE i > 1 BY <1>1, <1>2, <1>4, <2>1, <2>3 DEF Ascending
  <2>4. QED BY <2>2, <2>3
<1>6. QED BY <1>2, <1>4, <1>5 DEF q

\* The filter that _integrate_measurements integrates into: reverted, if it must be.
Base(d) == IF MustRevert(d) THEN RevertTo(d, RevertTime(d)) ELSE d

\* Nothing that waits then is older than the histories, and what has to be integrated again
\* is not younger than the filter was.
LEMMA BaseKeeps ==
  ASSUME NEW d, NEW obs, Keeps(d, obs)
  PROVE  LET b == Base(d)
         IN  /\ b \in Filter /\ Consistent(b) /\ UpTo(b, b.filt.ts)
             /\ \A m \in b.queue : UpTo(b, m.ts)
             /\ b.filt.ts <= d.filt.ts
             /\ b.queue \in SUBSET obs /\ d.queue \subseteq b.queue
             /\ ToSet(b.filt.seen) \subseteq ToSet(d.filt.seen)
             /\ ToSet(b.filt.seen) \cup b.queue = obs
             /\ \A m \in b.queue \ d.queue : m.ts <= d.filt.ts
<1> DEFINE b == Base(d)
           h == Head(InOrder(d.queue)).ts
<1>1. /\ d \in Filter /\ Consistent(d) /\ UpTo(d, d.filt.ts) /\ d.filt.ts \in Nat
      /\ d.queue \in SUBSET Measurement /\ IsFiniteSet(d.queue)
      /\ \A x, y \in d.queue : x.id = y.id => x = y
      /\ d.queue \in SUBSET obs /\ obs \in SUBSET Measurement
      /\ DOMAIN d.filt.seen = 1..Len(d.filt.seen)
  <2>1. d \in Filter /\ Consistent(d) /\ UpTo(d, d.filt.ts) BY DEF Keeps
  <2>2. d.queue \in SUBSET obs /\ obs \in SUBSET Measurement /\ IsFiniteSet(obs) BY DEF Keeps
  <2>3. IsFiniteSet(d.queue) BY <2>2, FS_Subset
  <2>4. \A x, y \in d.queue : x.id = y.id => x = y BY <2>2 DEF Keeps
  <2>5. d.filt.ts \in Nat /\ d.queue \in SUBSET Measurement
          /\ DOMAIN d.filt.seen = 1..Len(d.filt.seen)
    BY <2>1, FilterTyped
  <2>6. QED BY <2>1, <2>2, <2>3, <2>4, <2>5
<1>2. \A m \in obs : m.ts \in Nat BY <1>1, NumbersOfMeasurement
<1>3. ToSet(d.filt.seen) \cup d.queue = obs BY DEF Keeps
<1>4. CASE ~MustRevert(d)
  <2>1. b = d BY <1>4 DEF Base
  <2>2. ASSUME NEW m \in d.queue PROVE UpTo(d, m.ts)
    <3>1. CASE Smooth
      <4>1. h \in Nat /\ h <= m.ts BY <1>1, HeadIsLeast
      <4>2. ~(h < d.filt.ts) BY <1>4, <3>1 DEF MustRevert
      <4>3. m.ts \in Nat BY <1>1, <1>2
      <4> HIDE DEF h
      <4>4. d.filt.ts <= m.ts BY <1>1, <4>1, <4>2, <4>3
      <4>5. d.filt.ts \in Int /\ m.ts \in Int BY <1>1, <4>3
      <4>6. QED BY <1>1, <4>4, <4>5, UpToLater
    <3>2. CASE ~Smooth
      <4>1. d.mhist = <<>> /\ d.shist = <<>> BY <1>1, <3>2 DEF Consistent
      <4>2. QED BY <4>1 DEF UpTo
    <3>3. QED BY <3>1, <3>2
  <2>3. d.filt.ts <= d.filt.ts BY <1>1
  <2> HIDE DEF b
  <2>4. \A m \in b.queue \ d.queue : m.ts <= d.filt.ts BY <2>1
  <2>5. QED BY <1>1, <1>3, <2>1, <2>2, <2>3, <2>4 DEF b
<1>5. CASE MustRevert(d)
  <2> DEFINE t == RevertTime(d)
  <2>1. d.queue # {} BY <1>5 DEF MustRevert
  <2>2. h \in Nat /\ \A m \in d.queue : h <= m.ts BY <1>1, <2>1, HeadIsLeast
  <2>3. t = h - 1 BY DEF RevertTime
  <2> HIDE DEF h, t
  <2>4. t \in Int BY <2>2, <2>3
  <2>5. b = RevertTo(d, t) BY <1>5 DEF Base, t
  <2> HIDE DEF b
  <2>6. Reverted(d, t, b) BY <1>1, <2>4, <2>5, RevertKeeps
  <2>7. /\ b \in Filter /\ Consistent(b) /\ UpTo(b, t) /\ UpTo(b, b.filt.ts)
        /\ b.filt.ts <= d.filt.ts
        /\ Len(b.filt.seen) <= Len(d.filt.seen)
        /\ \A p \in 1..Len(b.filt.seen) : b.filt.seen[p] = d.filt.seen[p]
        /\ d.queue \subseteq b.queue
        /\ \A p \in 1..Len(d.filt.seen) : p > Len(b.filt.seen) => d.filt.seen[p] \in b.queue
        /\ \A m \in b.queue \ d.queue :
             t < m.ts /\ \E p \in 1..Len(d.filt.seen) : m = d.filt.seen[p] /\ m.ts <= d.filt.ts
    BY <2>6 DEF Reverted
  <2>8. /\ DOMAIN b.filt.seen = 1..Len(b.filt.seen)
        /\ Len(b.filt.seen) \in Nat /\ Len(d.filt.seen) \in Nat
    BY <1>1, <2>7, FilterTyped
  <2>9. ASSUME NEW m \in b.queue \ d.queue PROVE m \in obs /\ m.ts <= d.filt.ts
    BY <1>1, <1>3, <2>7 DEF ToSet
  <2>10. b.queue \in SUBSET obs BY <1>1, <2>9
  <2>11. \A p \in 1..Len(b.filt.seen) : p \in 1..Len(d.filt.seen) BY <2>7, <2>8
  <2>12. ToSet(b.filt.seen) \subseteq ToSet(d.filt.seen)
    BY <1>1, <2>7, <2>8, <2>11 DEF ToSet
  <2>13. ToSet(d.filt.seen) \subseteq ToSet(b.filt.seen) \cup b.queue
    <3>1. SUFFICES ASSUME NEW p \in 1..Len(d.filt.seen)
                   PROVE  d.filt.seen[p] \in ToSet(b.filt.seen) \cup b.queue
      BY <1>1 DEF ToSet
    <3>2. CASE p > Len(b.filt.seen) BY <2>7, <3>2
    <3>3. CASE p \in 1..Len(b.filt.seen) BY <2>7, <2>8, <3>3 DEF ToSet
    <3>4. QED BY <2>8, <3>2, <3>3
  <2>14. ToSet(b.filt.seen) \cup b.queue = obs BY <1>3, <2>7, <2>10, <2>12, <2>13
  <2>15. ASSUME NEW m \in b.queue PROVE UpTo(b, m.ts)
    <3>1. m.ts \in Nat BY <1>2, <2>10
    <3>2. t < m.ts
      <4>1. CASE m \in d.queue BY <2>2, <2>3, <3>1, <4>1
      <4>2. CASE m \notin d.queue BY <2>7, <4>2
      <4>3. QED BY <4>1, <4>2
    <3>3. t <= m.ts /\ m.ts \in Int BY <2>4, <3>1, <3>2
    <3>4. QED BY <2>4, <2>7, <3>3, UpToLater
  <2>16. QED BY <2>7, <2>9, <2>10, <2>12, <2>14, <2>15 DEF b
<1>6. QED BY <1>4, <1>5

\* _integrate_measurements before it predicts.
LEMMA IntegratedKeeps ==
  ASSUME NEW d, NEW obs, Keeps(d, obs), NEW t \in Times, d.filt.ts <= t
  PROVE  LET r == IntegrateDue(Base(d), t)
         IN  /\ Keeps(r, obs) /\ r.filt.ts <= t
             /\ \E due : Integrated(Base(d), t, due, r)
<1> DEFINE b == Base(d)
           r == IntegrateDue(b, t)
<1>1. /\ b \in Filter /\ Consistent(b) /\ UpTo(b, b.filt.ts)
      /\ \A m \in b.queue : UpTo(b, m.ts)
      /\ b.filt.ts <= d.filt.ts
      /\ b.queue \in SUBSET obs /\ d.queue \subseteq b.queue
      /\ ToSet(b.filt.seen) \subseteq ToSet(d.filt.seen)
      /\ ToSet(b.filt.seen) \cup b.queue = obs
      /\ \A m \in b.queue \ d.queue : m.ts <= d.filt.ts
  BY BaseKeeps
<1> HIDE DEF b
<1>2. /\ obs \in SUBSET Measurement /\ IsFiniteSet(obs)
      /\ \A x, y \in obs : x.id = y.id => x = y
      /\ ToSet(d.filt.seen) \cap d.queue = {} /\ d \in Filter
  BY DEF Keeps
<1>3. t \in Nat /\ d.filt.ts \in Nat /\ b.filt.ts \in Nat
  BY <1>1, <1>2, ReplayAssumption, FilterTyped DEF Times
<1>4. IsFiniteSet(b.queue) /\ \A x, y \in b.queue : x.id = y.id => x = y
  <2>1. IsFiniteSet(b.queue) BY <1>1, <1>2, FS_Subset
  <2>2. QED BY <1>1, <1>2, <2>1
<1>5. t \in Int BY <1>3
<1>6. PICK due : Integrated(b, t, due, r)
  BY <1>1, <1>4, <1>5, IntegrateKeeps
<1> HIDE DEF r
<1>7. /\ due \in Seq(Measurement) /\ ToSet(due) = {m \in b.queue : m.ts <= t}
      /\ r \in Filter /\ Consistent(r) /\ UpTo(r, r.filt.ts)
      /\ r.queue = b.queue \ ToSet(due)
      /\ r.filt.seen = b.filt.seen \o due
      /\ due = <<>> => r = b
      /\ due # <<>> => r.filt.ts = due[Len(due)].ts
  BY <1>6 DEF Integrated
<1>8. b.filt.seen \in Seq(Measurement) BY <1>1, FilterTyped
<1>9. ToSet(r.filt.seen) = ToSet(b.filt.seen) \cup ToSet(due)
  <2> DEFINE s == b.filt.seen
  <2>1. s \in Seq(Measurement) /\ r.filt.seen = s \o due BY <1>7, <1>8
  <2> HIDE DEF s
  <2>2. /\ s \o due \in Seq(Measurement) /\ Len(s) \in Nat /\ Len(due) \in Nat
        /\ Len(s \o due) = Len(s) + Len(due)
        /\ \A i \in 1..Len(s) : (s \o due)[i] = s[i]
        /\ \A j \in 1..Len(due) : (s \o due)[Len(s) + j] = due[j]
    BY <1>7, <2>1, Appending
  <2>3. /\ DOMAIN s = 1..Len(s) /\ DOMAIN due = 1..Len(due)
        /\ DOMAIN (s \o due) = 1 .. Len(s) + Len(due)
    BY <1>7, <2>1, <2>2, LenProperties
  <2>4. /\ \A x \in 1 .. Len(s) + Len(due) :
             x \in 1..Len(s) \/ \E y \in 1..Len(due) : x = Len(s) + y
        /\ \A y \in 1..Len(due) : Len(s) + y \in 1 .. Len(s) + Len(due)
        /\ \A x \in 1..Len(s) : x \in 1 .. Len(s) + Len(due)
    BY <2>2, PlacesAppended
  <2>5. ToSet(s \o due) \subseteq ToSet(s) \cup ToSet(due)
    <3>1. SUFFICES ASSUME NEW x \in 1 .. Len(s) + Len(due)
                   PROVE  (s \o due)[x] \in ToSet(s) \cup ToSet(due)
      BY <2>3 DEF ToSet
    <3>2. CASE x \in 1..Len(s) BY <2>2, <2>3, <3>2 DEF ToSet
    <3>3. CASE \E y \in 1..Len(due) : x = Len(s) + y
      <4>1. PICK y \in 1..Len(due) : x = Len(s) + y BY <3>3
      <4>2. (s \o due)[x] = due[y] BY <2>2, <4>1
      <4>3. QED BY <2>3, <4>2 DEF ToSet
    <3>4. QED BY <2>4, <3>2, <3>3
  <2>6. ToSet(s) \subseteq ToSet(s \o due)
    BY <2>2, <2>3, <2>4 DEF ToSet
  <2>7. ToSet(due) \subseteq ToSet(s \o due)
    BY <2>2, <2>3, <2>4 DEF ToSet
  <2>8. QED BY <2>1, <2>5, <2>6, <2>7 DEF s
<1>10. ToSet(r.filt.seen) \cup r.queue = obs
  <2>1. ToSet(due) \subseteq b.queue BY <1>7
  <2>2. QED BY <1>1, <1>7, <1>9, <2>1
<1>11. ASSUME NEW m \in ToSet(r.filt.seen), m \in r.queue PROVE FALSE
  <2>1. m \in b.queue /\ m \notin ToSet(due) /\ m \in ToSet(b.filt.seen)
    BY <1>7, <1>9, <1>11
  <2>2. ~(m.ts <= t) BY <1>7, <2>1
  <2>3. m.ts \in Nat BY <1>1, <1>2, <2>1, NumbersOfMeasurement
  <2>4. ~(m.ts <= d.filt.ts) BY <1>3, <2>2, <2>3
  <2>5. m \in d.queue BY <1>1, <2>1, <2>4
  <2>6. QED BY <1>1, <1>2, <2>1, <2>5
<1>12. r.filt.ts <= t
  <2>1. CASE due = <<>> BY <1>1, <1>3, <1>7, <2>1
  <2>2. CASE due # <<>>
    <3>1. Len(due) \in 1..Len(due) /\ DOMAIN due = 1..Len(due)
      <4>1. Len(due) \in Nat /\ Len(due) # 0 /\ DOMAIN due = 1..Len(due)
        BY <1>7, <2>2, LenProperties, EmptySeq
      <4>2. QED BY <4>1
    <3>2. due[Len(due)] \in ToSet(due) BY <3>1 DEF ToSet
    <3>3. QED BY <1>7, <2>2, <3>2
  <2>3. QED BY <2>1, <2>2
<1>13. Keeps(r, obs) BY <1>2, <1>7, <1>10, <1>11 DEF Keeps
<1>14. QED BY <1>6, <1>12, <1>13 DEF r, b

LEMMA BaseExactly ==
  ASSUME NEW d, NEW obs, Keeps(d, obs), Smooth = TRUE, Exactly(d), ~TooLate(d)
  PROVE  Exactly(Base(d)) /\ Follows(Base(d))
<1> DEFINE seen == d.filt.seen
           h == Head(InOrder(d.queue)).ts
           t == RevertTime(d)
           b == Base(d)
<1>1. /\ d \in Filter /\ Consistent(d) /\ UpTo(d, d.filt.ts) /\ d.filt.ts \in Nat
      /\ Len(seen) \in Nat /\ DOMAIN seen = 1..Len(seen)
      /\ \A p \in 1..Len(seen) : seen[p] \in Measurement /\ seen[p].ts \in Nat
  BY FilterTyped DEF Keeps
<1>2. /\ d.queue \in SUBSET obs /\ obs \in SUBSET Measurement /\ IsFiniteSet(obs)
      /\ \A x, y \in obs : x.id = y.id => x = y
      /\ ToSet(seen) \cup d.queue = obs /\ ToSet(seen) \cap d.queue = {}
  BY DEF Keeps
<1>3. \A m \in d.queue : \A p \in 1..Len(seen) : seen[p].id # m.id
  <2>1. \A p \in 1..Len(seen) : seen[p] \in ToSet(seen) BY <1>1 DEF ToSet
  <2>2. QED BY <1>2, <2>1
<1>4. \A m \in d.queue : m.ts \in Nat BY <1>2, NumbersOfMeasurement
<1>5. \A p \in 1..Len(seen) : seen[p].ts <= d.filt.ts BY DEF Exactly
<1>6. d.queue # {} => h \in Nat /\ \A m \in d.queue : h <= m.ts
  <2>1. IsFiniteSet(d.queue) /\ d.queue \in SUBSET Measurement BY <1>2, FS_Subset
  <2>2. \A x, y \in d.queue : x.id = y.id => x = y BY <1>2
  <2>3. QED BY <2>1, <2>2, HeadIsLeast
<1> HIDE DEF h
<1>7. CASE ~MustRevert(d)
  <2>1. b = d BY <1>7 DEF Base
  <2>2. ASSUME NEW m \in d.queue, NEW p \in 1..Len(seen) PROVE seen[p].ts <= m.ts
    <3>1. ~(h < d.filt.ts) BY <1>7 DEF MustRevert, h
    <3>2. h \in Nat /\ h <= m.ts BY <1>6
    <3>3. d.filt.ts <= m.ts BY <1>1, <1>4, <3>1, <3>2
    <3>4. seen[p].ts \in Nat /\ seen[p].ts <= d.filt.ts BY <1>1, <1>5
    <3>5. m.ts \in Nat BY <1>4
    <3>6. QED BY <1>1, <3>3, <3>4, <3>5
  <2>3. Follows(d) BY <1>3, <2>2 DEF Follows
  <2>4. QED BY <2>1, <2>3
<1>8. CASE MustRevert(d) /\ ~Reaches(d, t)
  <2>1. seen = <<>> BY <1>8 DEF TooLate
  <2>2. Len(d.mhist) = 0
    <3>1. Len(d.mhist) \in Nat /\ 0 - Len(d.mhist) >= 0
      BY <1>1, <2>1, FilterTyped DEF Consistent, Forgotten
    <3>2. QED BY <3>1
  <2>3. d.shist = <<>>
    <3>1. \A i \in 1..Len(d.shist) : FALSE BY <1>1, <2>2 DEF Consistent
    <3>2. Len(d.shist) \in Nat /\ d.shist \in Seq(FilterState) BY <1>1, FilterTyped
    <3>3. Len(d.shist) = 0 BY <3>1, <3>2
    <3>4. QED BY <3>2, <3>3, EmptySeq
  <2>4. b = d BY <1>8, <2>3 DEF Base, RevertTo
  <2>5. Follows(d) BY <2>1 DEF Follows
  <2>6. QED BY <2>4, <2>5
<1>9. CASE MustRevert(d) /\ Reaches(d, t)
  <2>1. d.queue # {} BY <1>9 DEF MustRevert
  <2>2. t = h - 1 BY DEF RevertTime, h
  <2> HIDE DEF t
  <2>3. t \in Int BY <1>6, <2>1, <2>2
  <2>4. b = RevertTo(d, t) BY <1>9 DEF Base, t
  <2> HIDE DEF b
  <2>5. /\ Reverted(d, t, b)
        /\ \E i \in 1..Len(d.shist) : b.filt = d.shist[i] /\ d.shist[i].ts <= t
        /\ \A i \in 1..Len(b.shist) : b.shist[i] = d.shist[i]
        /\ Len(b.shist) <= Len(d.shist)
        /\ \A m \in b.queue \ d.queue :
             \E p \in 1..Len(seen) : p > Len(b.filt.seen) /\ m = seen[p]
    BY <1>1, <1>9, <2>3, <2>4, RevertToState
  <2>6. /\ b \in Filter /\ Len(b.filt.seen) <= Len(seen)
        /\ \A p \in 1..Len(b.filt.seen) : b.filt.seen[p] = seen[p]
        /\ \A m \in b.queue \ d.queue : t < m.ts
    BY <2>5 DEF Reverted
  <2>7. /\ DOMAIN b.filt.seen = 1..Len(b.filt.seen) /\ Len(b.filt.seen) \in Nat
        /\ Len(b.shist) \in Nat /\ Len(d.shist) \in Nat
        /\ \A p \in 1..Len(b.filt.seen) : b.filt.seen[p].ts \in Nat
    BY <1>1, <2>6, FilterTyped
  <2>8. \A p \in 1..Len(b.filt.seen) : p \in 1..Len(seen) /\ b.filt.seen[p] = seen[p]
    BY <1>1, <2>6, <2>7
  <2>9. Ascending(b.filt.seen) /\ Once(b.filt.seen)
    BY <1>1, <2>7, <2>8 DEF Exactly, Ascending, Once
  <2>10. PICK k \in 1..Len(d.shist) : b.filt = d.shist[k] /\ d.shist[k].ts <= t BY <2>5
  <2>11. \A p \in 1..Len(b.filt.seen) : b.filt.seen[p].ts <= b.filt.ts
    BY <2>10 DEF Exactly
  <2>12. \A i \in 1..Len(b.shist) : i \in 1..Len(d.shist) /\ b.shist[i] = d.shist[i]
    BY <2>5, <2>7
  <2>13. Exactly(b) BY <2>9, <2>11, <2>12 DEF Exactly
  <2>14. ASSUME NEW m \in b.queue, NEW p \in 1..Len(b.filt.seen)
         PROVE  b.filt.seen[p].ts <= m.ts /\ b.filt.seen[p].id # m.id
    <3>1. b.filt.seen[p].ts <= b.filt.ts /\ b.filt.ts <= t /\ b.filt.ts \in Nat
      BY <2>6, <2>10, <2>11, FilterTyped
    <3>2. CASE m \in d.queue
      <4>1. h <= m.ts /\ m.ts \in Nat /\ h \in Nat BY <1>4, <1>6, <2>1, <3>2
      <4>2. b.filt.seen[p].ts <= m.ts BY <2>2, <2>7, <3>1, <4>1
      <4>3. QED BY <1>3, <2>8, <3>2, <4>2
    <3>3. CASE m \notin d.queue
      <4>1. PICK l \in 1..Len(seen) : l > Len(b.filt.seen) /\ m = seen[l] BY <2>5, <3>3
      <4>2. t < m.ts /\ m.ts \in Nat BY <1>1, <2>6, <3>3, <4>1
      <4>3. b.filt.seen[p].ts <= m.ts BY <2>3, <2>7, <3>1, <4>2
      <4>4. l # p /\ p \in 1..Len(seen) /\ b.filt.seen[p] = seen[p] BY <2>7, <2>8, <4>1
      <4>5. seen[p].id # seen[l].id BY <1>1, <4>4 DEF Exactly, Once
      <4>6. QED BY <4>1, <4>3, <4>4, <4>5
    <3>4. QED BY <3>2, <3>3
  <2>15. Follows(b) BY <2>14 DEF Follows
  <2>16. QED BY <2>13, <2>15 DEF b
<1>10. QED BY <1>7, <1>8, <1>9

LEMMA IntegratedExactly ==
  ASSUME NEW d \in Filter, Exactly(d), Follows(d),
         \A x, y \in d.queue : x.id = y.id => x = y,
         NEW t \in Times, NEW due, NEW r, Integrated(d, t, due, r)
  PROVE  Exactly(r)
<1> DEFINE seen == d.filt.seen
           N == Len(seen)
           D == Len(due)
<1>1. /\ due \in Seq(Measurement) /\ ToSet(due) = {m \in d.queue : m.ts <= t}
      /\ \A i, j \in DOMAIN due : i # j => due[i] # due[j]
      /\ Ascending(due) /\ r \in Filter
      /\ r.filt.seen = seen \o due
      /\ due = <<>> => r = d
      /\ due # <<>> => r.filt.ts = due[Len(due)].ts
      /\ \A i \in 1..Len(r.shist) :
           \/ i \in 1..Len(d.shist) /\ r.shist[i] = d.shist[i]
           \/ \E e \in 1..Len(due) : r.shist[i] = After(d, due, e)
  BY DEF Integrated
<1>2. CASE due = <<>> BY <1>1, <1>2
<1>3. CASE due # <<>>
  <2>1. /\ seen \in Seq(Measurement) /\ N \in Nat /\ DOMAIN seen = 1..N
        /\ \A p \in 1..N : seen[p].ts \in Nat /\ seen[p] \in Measurement
    BY FilterTyped
  <2>2. D \in Nat /\ DOMAIN due = 1..D /\ \A j \in 1..D : due[j].ts \in Nat /\ due[j] \in d.queue
    <3>1. D \in Nat /\ DOMAIN due = 1..D /\ \A j \in 1..D : due[j] \in Measurement
      BY <1>1, ElementOfSeq, LenProperties
    <3>2. \A j \in 1..D : due[j] \in ToSet(due) BY <3>1 DEF ToSet
    <3>3. QED BY <1>1, <3>1, <3>2, NumbersOfMeasurement
  <2>3. D \in 1..D
    <3>1. D # 0 BY <1>1, <1>3, EmptySeq
    <3>2. QED BY <2>2, <3>1
  <2>4. \A j \in 1..D : \A p \in 1..N : seen[p].ts <= due[j].ts /\ seen[p].id # due[j].id
    BY <2>2 DEF Follows
  <2>5. \A i, j \in 1..D : i <= j => due[i].ts <= due[j].ts
    <3>1. SUFFICES ASSUME NEW i \in 1..D, NEW j \in 1..D, i <= j PROVE due[i].ts <= due[j].ts
      OBVIOUS
    <3>2. CASE i = j BY <2>2, <3>2
    <3>3. CASE i < j BY <1>1, <2>2, <3>3 DEF Ascending
    <3>4. QED BY <2>2, <3>1, <3>2, <3>3
  <2>6. \A i, j \in 1..D : i # j => due[i].id # due[j].id
    <3>1. \A i, j \in 1..D : i # j => due[i] # due[j] BY <1>1, <2>2
    <3>2. \A j \in 1..D : due[j] \in d.queue BY <2>2
    <3> HIDE DEF D
    <3>3. QED BY <3>1, <3>2
  <2> HIDE DEF seen, N, D
  <2>7. /\ r.filt.seen \in Seq(Measurement) /\ Len(r.filt.seen) = N + D
        /\ \A i \in 1..N : r.filt.seen[i] = seen[i]
        /\ \A j \in 1..D : r.filt.seen[N + j] = due[j]
        /\ DOMAIN r.filt.seen = 1 .. N + D
    <3>1. /\ seen \o due \in Seq(Measurement) /\ Len(seen \o due) = N + D
          /\ \A i \in 1..N : (seen \o due)[i] = seen[i]
          /\ \A j \in 1..D : (seen \o due)[N + j] = due[j]
      BY <1>1, <2>1, Appending DEF N, D
    <3>2. DOMAIN (seen \o due) = 1 .. N + D BY <3>1, LenProperties
    <3>3. r.filt.seen = seen \o due BY <1>1 DEF seen
    <3>4. QED BY <3>1, <3>2, <3>3
  <2>8. \A x \in 1 .. N + D : x \in 1..N \/ \E y \in 1..D : x = N + y
    BY <2>1, <2>2, PlacesAppended
  <2>9. Ascending(r.filt.seen)
    <3>1. SUFFICES ASSUME NEW i \in 1 .. N + D, NEW j \in 1 .. N + D, i < j
                   PROVE  r.filt.seen[i].ts <= r.filt.seen[j].ts
      BY <2>7 DEF Ascending
    <3>2. CASE j \in 1..N
      <4>1. i \in 1..N BY <2>1, <3>1, <3>2
      <4>2. QED BY <2>1, <2>7, <3>1, <3>2, <4>1 DEF Exactly, Ascending, seen
    <3>3. CASE \E y \in 1..D : j = N + y
      <4>1. PICK y \in 1..D : j = N + y BY <3>3
      <4>2. CASE i \in 1..N BY <2>4, <2>7, <4>1, <4>2
      <4>3. CASE \E x \in 1..D : i = N + x
        <5>1. PICK x \in 1..D : i = N + x BY <4>3
        <5>2. x <= y BY <2>1, <2>2, <3>1, <4>1, <5>1
        <5>3. QED BY <2>5, <2>7, <4>1, <5>1, <5>2
      <4>4. QED BY <2>8, <4>2, <4>3
    <3>4. QED BY <2>8, <3>2, <3>3
  <2>10. Once(r.filt.seen)
    <3>1. SUFFICES ASSUME NEW i \in 1 .. N + D, NEW j \in 1 .. N + D, i # j
                   PROVE  r.filt.seen[i].id # r.filt.seen[j].id
      BY <2>7 DEF Once
    <3>2. CASE i \in 1..N /\ j \in 1..N
      BY <2>1, <2>7, <3>1, <3>2 DEF Exactly, Once, seen
    <3>3. CASE i \in 1..N /\ \E y \in 1..D : j = N + y BY <2>4, <2>7, <3>3
    <3>4. CASE j \in 1..N /\ \E y \in 1..D : i = N + y BY <2>4, <2>7, <3>4
    <3>5. CASE (\E x \in 1..D : i = N + x) /\ (\E y \in 1..D : j = N + y)
      BY <2>6, <2>7, <3>1, <3>5
    <3>6. QED BY <2>8, <3>2, <3>3, <3>4, <3>5
  <2>11. ASSUME NEW p \in 1 .. N + D PROVE r.filt.seen[p].ts <= due[D].ts
    <3>1. CASE p \in 1..N BY <2>3, <2>4, <2>7, <3>1
    <3>2. CASE \E y \in 1..D : p = N + y
      <4>1. PICK y \in 1..D : p = N + y BY <3>2
      <4>2. y <= D BY <2>2
      <4>3. QED BY <2>3, <2>5, <2>7, <4>1, <4>2
    <3>3. QED BY <2>8, <3>1, <3>2
  <2>12. ASSUME NEW i \in 1..Len(r.shist), NEW p \in 1..Len(r.shist[i].seen)
         PROVE  r.shist[i].seen[p].ts <= r.shist[i].ts
    <3>1. CASE i \in 1..Len(d.shist) /\ r.shist[i] = d.shist[i]
      BY <3>1 DEF Exactly
    <3>2. CASE \E e \in 1..D : r.shist[i] = After(d, due, e)
      <4>1. PICK e \in 1..D : r.shist[i] = After(d, due, e) BY <3>2
      <4>2. /\ r.shist[i].ts = due[e].ts /\ Len(r.shist[i].seen) = N + e
            /\ \A x \in 1..N : r.shist[i].seen[x] = seen[x]
            /\ \A x \in 1..e : r.shist[i].seen[N + x] = due[x]
        <5>1. e \in 1..Len(due) BY DEF D
        <5>2. /\ After(d, due, e).ts = due[e].ts
              /\ Len(After(d, due, e).seen) = Len(d.filt.seen) + e
              /\ \A x \in 1..Len(d.filt.seen) : After(d, due, e).seen[x] = d.filt.seen[x]
              /\ \A x \in 1..e : After(d, due, e).seen[Len(d.filt.seen) + x] = due[x]
          BY <1>1, <5>1, AfterTyped
        <5>3. QED BY <4>1, <5>2 DEF N, seen
      <4>3. e \in Nat /\ e <= D BY <2>2
      <4>4. CASE p \in 1..N BY <2>4, <4>2, <4>4
      <4>5. CASE \E x \in 1..e : p = N + x
        <5>1. PICK x \in 1..e : p = N + x BY <4>5
        <5>2. x \in 1..D /\ x <= e BY <2>2, <4>3
        <5>3. QED BY <2>5, <4>2, <5>1, <5>2
      <4>6. \A x \in 1 .. N + e : x \in 1..N \/ \E y \in 1..e : x = N + y
        BY <2>1, <4>3, PlacesAppended
      <4>7. p \in 1 .. N + e BY <4>2
      <4>8. QED BY <4>4, <4>5, <4>6, <4>7
    <3>3. QED BY <1>1, <3>1, <3>2 DEF D
  <2>13. r.filt.ts = due[D].ts BY <1>1, <1>3 DEF D
  <2>14. QED BY <2>7, <2>9, <2>10, <2>11, <2>12, <2>13 DEF Exactly
<1>4. QED BY <1>2, <1>3

LEMMA ProjectKeepsAll ==
  ASSUME NEW d, NEW obs, Keeps(d, obs), NEW t \in Times, d.filt.ts <= t
  PROVE  /\ Keeps(Project(d, t), obs) /\ Project(d, t).filt.ts <= t
         /\ Exactly(d) => Exactly(Project(d, t))
<1> DEFINE r == Project(d, t)
<1>1. d \in Filter /\ Consistent(d) /\ UpTo(d, d.filt.ts) BY DEF Keeps
<1>2. /\ r \in Filter /\ Consistent(r) /\ UpTo(r, r.filt.ts)
      /\ r.queue = d.queue /\ r.shist = d.shist /\ r.filt.seen = d.filt.seen
      /\ r.filt.ts = t
  BY <1>1, ProjectKeeps
<1>3. t \in Nat /\ d.filt.ts \in Nat /\ \A p \in 1..Len(d.filt.seen) : d.filt.seen[p].ts \in Nat
  BY <1>1, ReplayAssumption, FilterTyped DEF Times
<1> HIDE DEF r
<1>4. Keeps(r, obs) BY <1>2 DEF Keeps
<1>5. ASSUME Exactly(d) PROVE Exactly(r)
  <2>1. \A p \in 1..Len(d.filt.seen) : d.filt.seen[p].ts <= t BY <1>3, <1>5 DEF Exactly
  <2>2. QED BY <1>2, <1>5, <2>1 DEF Exactly
<1>6. r.filt.ts <= t BY <1>2, <1>3
<1>7. QED BY <1>4, <1>5, <1>6 DEF r

LEMMA ExpireKeepsAll ==
  ASSUME NEW d, NEW obs, Keeps(d, obs)
  PROVE  /\ Keeps(Expire(d), obs) /\ Expire(d).filt = d.filt
         /\ Exactly(d) => Exactly(Expire(d))
<1> DEFINE r == Expire(d)
<1>1. d \in Filter /\ Consistent(d) /\ UpTo(d, d.filt.ts) BY DEF Keeps
<1>2. /\ r \in Filter /\ Consistent(r) /\ UpTo(r, r.filt.ts)
      /\ r.queue = d.queue /\ r.filt = d.filt
      /\ \A i \in 1..Len(r.shist) : \E k \in 1..Len(d.shist) : r.shist[i] = d.shist[k]
  BY <1>1, ExpireKeeps
<1> HIDE DEF r
<1>3. Keeps(r, obs) BY <1>2 DEF Keeps
<1>4. ASSUME Exactly(d) PROVE Exactly(r)
  <2>1. ASSUME NEW i \in 1..Len(r.shist), NEW p \in 1..Len(r.shist[i].seen)
        PROVE  r.shist[i].seen[p].ts <= r.shist[i].ts
    <3>1. PICK k \in 1..Len(d.shist) : r.shist[i] = d.shist[k] BY <1>2
    <3>2. QED BY <1>4, <3>1 DEF Exactly
  <2>2. QED BY <1>2, <1>4, <2>1 DEF Exactly
<1>5. QED BY <1>2, <1>3, <1>4 DEF r

\* _integrate_measurements keeps all measurements, and their order where it may.
LEMMA IntegrateKeepsAll ==
  ASSUME NEW d, NEW obs, Keeps(d, obs), NEW t \in Times, d.filt.ts <= t
  PROVE  /\ Keeps(Integrate(d, t), obs) /\ Integrate(d, t).filt.ts <= t
         /\ Smooth = TRUE /\ Exactly(d) /\ ~TooLate(d) => Exactly(Integrate(d, t))
<1> DEFINE b == Base(d)
           r == IntegrateDue(b, t)
<1>1. Keeps(r, obs) /\ r.filt.ts <= t BY IntegratedKeeps
<1>2. PICK due : Integrated(b, t, due, r) BY IntegratedKeeps
<1>3. ASSUME Smooth = TRUE, Exactly(d), ~TooLate(d) PROVE Exactly(r)
  <2>1. Exactly(b) /\ Follows(b) BY <1>3, BaseExactly
  <2>2. b \in Filter /\ b.queue \in SUBSET obs BY BaseKeeps
  <2>3. \A x, y \in b.queue : x.id = y.id => x = y BY <2>2 DEF Keeps
  <2> HIDE DEF b, r
  <2>4. QED BY <1>2, <2>1, <2>2, <2>3, IntegratedExactly
<1>4. Integrate(d, t) \in {r, Project(r, t)} BY DEF Integrate, Base
<1> HIDE DEF r, b
<1>5. CASE Integrate(d, t) = r BY <1>1, <1>3, <1>5
<1>6. CASE Integrate(d, t) = Project(r, t) BY <1>1, <1>3, <1>6, ProjectKeepsAll
<1>7. QED BY <1>4, <1>5, <1>6

-----------------------------------------------------------------------------
(* ReplayFilter: the invariant *)

\* The filter is not ahead of the time it was given last, and as long as nothing came too
\* late, it is exact.
ReplayInv ==
  /\ Keeps(Data, observed)
  /\ now \in Times /\ filt.ts <= now
  /\ Smooth = TRUE /\ ~late => Exactly(Data)

LEMMA ReplayInvInit == Init => ReplayInv
<1> SUFFICES ASSUME Init PROVE ReplayInv
  OBVIOUS
<1>1. /\ Data.queue = {} /\ Data.mhist = <<>> /\ Data.shist = <<>>
      /\ Data.filt.seen = <<>> /\ Data.filt.ts = 0 /\ Data.filt = [ts |-> 0, seen |-> <<>>]
      /\ Data = [queue |-> {}, mhist |-> <<>>, shist |-> <<>>, filt |-> Data.filt]
  BY DEF Init, Data
<1>2. 0 \in Times /\ now = 0 /\ filt.ts = 0 /\ observed = {} BY ReplayAssumption DEF Init, Times
<1>3. Data.filt \in FilterState
  <2>1. <<>> \in Seq(Measurement) BY EmptySeq
  <2>2. QED BY <1>1, <1>2, <2>1 DEF FilterState
<1>4. Data \in Filter
  <2>1. <<>> \in Seq(Measurement) /\ <<>> \in Seq(FilterState) BY EmptySeq
  <2>2. QED BY <1>1, <1>3, <2>1 DEF Filter
<1>5. /\ Len(Data.mhist) = 0 /\ Len(Data.shist) = 0 /\ Len(Data.filt.seen) = 0
      /\ DOMAIN Data.mhist = {} /\ DOMAIN Data.shist = {} /\ DOMAIN Data.filt.seen = {}
  BY <1>1
<1>6. Consistent(Data) BY <1>1, <1>5 DEF Consistent, Ascending, Forgotten
<1>7. UpTo(Data, Data.filt.ts) BY <1>5 DEF UpTo
<1>8. ToSet(Data.filt.seen) = {} BY <1>5 DEF ToSet
<1>9. IsFiniteSet({}) BY FS_EmptySet
<1>10. Keeps(Data, observed) BY <1>1, <1>2, <1>4, <1>6, <1>7, <1>8, <1>9 DEF Keeps
<1>11. Exactly(Data) BY <1>5 DEF Exactly, Ascending, Once
<1>12. QED BY <1>2, <1>10, <1>11 DEF ReplayInv

\* observe() queues a measurement that is new.
LEMMA ObserveKeeps ==
  ASSUME NEW d, NEW obs, Keeps(d, obs), NEW m \in Measurement, m.id \notin {o.id : o \in obs},
         NEW r \in Filter, r.queue = d.queue \cup {m},
         r.mhist = d.mhist, r.shist = d.shist, r.filt = d.filt
  PROVE  Keeps(r, obs \cup {m}) /\ (Exactly(d) => Exactly(r))
<1>1. /\ d \in Filter /\ Consistent(d) /\ UpTo(d, d.filt.ts)
      /\ obs \in SUBSET Measurement /\ IsFiniteSet(obs)
      /\ \A a, b \in obs : a.id = b.id => a = b
      /\ ToSet(d.filt.seen) \cup d.queue = obs
      /\ ToSet(d.filt.seen) \cap d.queue = {}
  BY DEF Keeps
<1>2. m \notin obs OBVIOUS
<1>3. Consistent(r) BY <1>1, SameHistories
<1>4. UpTo(r, r.filt.ts) BY <1>1 DEF UpTo
<1>5. IsFiniteSet(obs \cup {m}) BY <1>1, FS_AddElement
<1>6. \A a, b \in obs \cup {m} : a.id = b.id => a = b BY <1>1
<1>7. Keeps(r, obs \cup {m})
  BY <1>1, <1>2, <1>3, <1>4, <1>5, <1>6 DEF Keeps
<1>8. Exactly(d) => Exactly(r) BY DEF Exactly
<1>9. QED BY <1>7, <1>8

\* clear() drops the histories.
LEMMA ClearKeeps ==
  ASSUME NEW d, NEW obs, Keeps(d, obs), NEW r,
         r = [queue |-> d.queue, mhist |-> <<>>, shist |-> <<>>, filt |-> d.filt]
  PROVE  Keeps(r, obs) /\ (Exactly(d) => Exactly(r))
<1>1. d \in Filter BY DEF Keeps
<1>2. /\ r \in Filter /\ r.mhist = <<>> /\ r.shist = <<>>
      /\ r.queue = d.queue /\ r.filt = d.filt
  <2>1. <<>> \in Seq(Measurement) /\ <<>> \in Seq(FilterState) BY EmptySeq
  <2>2. QED BY <1>1, <2>1 DEF Filter
<1>3. Len(r.mhist) = 0 /\ Len(r.shist) = 0 /\ DOMAIN r.mhist = {} /\ DOMAIN r.shist = {}
  BY <1>2
<1>4. Forgotten(r) >= 0
  <2>1. Len(r.filt.seen) \in Nat BY <1>2, FilterTyped
  <2>2. QED BY <1>3, <2>1 DEF Forgotten
<1>5. Consistent(r) BY <1>2, <1>3, <1>4 DEF Consistent, Ascending
<1>6. UpTo(r, r.filt.ts) BY <1>3 DEF UpTo
<1>7. Keeps(r, obs) BY <1>2, <1>5, <1>6 DEF Keeps
<1>8. Exactly(d) => Exactly(r) BY <1>2, <1>3 DEF Exactly
<1>9. QED BY <1>7, <1>8

LEMMA ReplayInvNext == ReplayInv /\ [Next]_vars => ReplayInv'
<1> SUFFICES ASSUME ReplayInv, [Next]_vars PROVE ReplayInv'
  OBVIOUS
<1>1. /\ Keeps(Data, observed) /\ Data.filt = filt
      /\ now \in Times /\ filt.ts <= now
      /\ Smooth = TRUE /\ ~late => Exactly(Data)
  BY DEF ReplayInv, Data
<1>2. Data' = [queue |-> queue', mhist |-> mhist', shist |-> shist', filt |-> filt']
  BY DEF Data
<1>3. Data' = [queue |-> Data'.queue, mhist |-> Data'.mhist, shist |-> Data'.shist,
               filt |-> Data'.filt] /\ Data'.filt = filt'
  BY <1>2
<1>4. Data \in Filter /\ filt.ts \in Nat
  <2>1. Data \in Filter BY <1>1 DEF Keeps
  <2>2. QED BY <1>1, <2>1, FilterTyped
<1>5. Times \subseteq Nat BY ReplayAssumption DEF Times
<1>6. ASSUME NEW i \in Ids, NEW t \in 1..MaxTime, Observe([id |-> i, ts |-> t, val |-> 0])
      PROVE  ReplayInv'
  <2> DEFINE m == [id |-> i, ts |-> t, val |-> 0]
  <2>1. m \in Measurement
    <3>1. t \in Times BY ReplayAssumption DEF Times
    <3>2. QED BY <3>1 DEF Measurement
  <2> HIDE DEF m
  <2>2. /\ m.id \notin {o.id : o \in observed}
        /\ queue' = queue \cup {m} /\ observed' = observed \cup {m}
        /\ mhist' = mhist /\ shist' = shist /\ filt' = filt /\ now' = now /\ late' = late
    BY <1>6 DEF Observe, m
  <2>3. /\ Data'.queue = Data.queue \cup {m} /\ Data'.mhist = Data.mhist
        /\ Data'.shist = Data.shist /\ Data'.filt = Data.filt
    BY <1>2, <2>2 DEF Data
  <2>4. Data' \in Filter
    BY <1>3, <1>4, <2>1, <2>3 DEF Filter
  <2>5. Keeps(Data', observed \cup {m}) /\ (Exactly(Data) => Exactly(Data'))
    BY <1>1, <2>1, <2>2, <2>3, <2>4, ObserveKeeps
  <2>6. QED BY <1>1, <2>2, <2>5 DEF ReplayInv
<1>7. ASSUME NEW t \in Times, Predict(t) PROVE ReplayInv'
  <2>1. t >= now /\ now' = t /\ observed' = observed BY <1>7 DEF Predict, PredictOn
  <2>2. Data.filt.ts <= t /\ t \in Nat BY <1>1, <1>4, <1>5, <2>1
  <2>3. ASSUME NEW r, SetData(r), Keeps(r, observed), r.filt.ts <= t
        PROVE  Data' = r /\ Keeps(Data', observed') /\ now' \in Times /\ filt'.ts <= now'
    <3>1. r = [queue |-> r.queue, mhist |-> r.mhist, shist |-> r.shist, filt |-> r.filt]
      BY <2>3 DEF Keeps, Filter
    <3>2. Data' = r BY <1>2, <2>3, <3>1 DEF SetData
    <3>3. QED BY <1>3, <2>1, <2>3, <3>2
  <2>4. CASE SetData(Expire(Integrate(Data, t))) /\ late' = (late \/ TooLate(Data))
    <3>1. /\ Keeps(Integrate(Data, t), observed) /\ Integrate(Data, t).filt.ts <= t
          /\ Smooth = TRUE /\ Exactly(Data) /\ ~TooLate(Data) => Exactly(Integrate(Data, t))
      BY <1>1, <2>2, IntegrateKeepsAll
    <3> DEFINE r == Expire(Integrate(Data, t))
    <3>2. /\ Keeps(r, observed) /\ r.filt.ts <= t
          /\ Exactly(Integrate(Data, t)) => Exactly(r)
      BY <3>1, ExpireKeepsAll
    <3> HIDE DEF r
    <3>3. SetData(r) BY <2>4 DEF r
    <3>4. Data' = r /\ Keeps(Data', observed') /\ now' \in Times /\ filt'.ts <= now'
      BY <2>3, <3>2, <3>3
    <3>5. Smooth = TRUE /\ ~late' => Exactly(Data') BY <1>1, <2>4, <3>1, <3>2, <3>4
    <3>6. QED BY <3>4, <3>5 DEF ReplayInv
  <2>5. CASE SetData(Expire(Project(Data, t))) /\ late' = late
    <3>1. /\ Keeps(Project(Data, t), observed) /\ Project(Data, t).filt.ts <= t
          /\ Exactly(Data) => Exactly(Project(Data, t))
      BY <1>1, <2>2, ProjectKeepsAll
    <3> DEFINE r == Expire(Project(Data, t))
    <3>2. /\ Keeps(r, observed) /\ r.filt.ts <= t
          /\ Exactly(Project(Data, t)) => Exactly(r)
      BY <3>1, ExpireKeepsAll
    <3> HIDE DEF r
    <3>3. SetData(r) BY <2>5 DEF r
    <3>4. Data' = r /\ Keeps(Data', observed') /\ now' \in Times /\ filt'.ts <= now'
      BY <2>3, <3>2, <3>3
    <3>5. Smooth = TRUE /\ ~late' => Exactly(Data') BY <1>1, <2>5, <3>1, <3>2, <3>4
    <3>6. QED BY <3>4, <3>5 DEF ReplayInv
  <2>6. QED BY <1>7, <2>4, <2>5 DEF Predict, PredictOn
<1>8. CASE Clear
  <2>1. mhist' = <<>> /\ shist' = <<>> /\ queue' = queue /\ filt' = filt
          /\ now' = now /\ observed' = observed /\ late' = late
    BY <1>8 DEF Clear
  <2>2. Data' = [queue |-> Data.queue, mhist |-> <<>>, shist |-> <<>>, filt |-> Data.filt]
    BY <1>2, <2>1 DEF Data
  <2>3. Keeps(Data', observed) /\ (Exactly(Data) => Exactly(Data'))
    BY <1>1, <2>2, ClearKeeps
  <2>4. QED BY <1>1, <2>1, <2>3 DEF ReplayInv
<1>9. CASE Enable \/ UNCHANGED vars
  <2>1. UNCHANGED <<queue, mhist, shist, filt, now, observed, late>>
    BY <1>9 DEF Enable, vars, dataVars
  <2>2. Data' = Data BY <2>1 DEF Data
  <2>3. QED BY <1>1, <2>1, <2>2 DEF ReplayInv
<1>10. QED BY <1>6, <1>7, <1>8, <1>9 DEF Next

LEMMA ReplayInvAlways == Spec => []ReplayInv
<1>1. QED BY ReplayInvInit, ReplayInvNext, PTL DEF Spec

\* No measurement is lost, whatever the bounds and the three options of the filter: each
\* that was given to observe() is integrated or waits, and not both (integrate_measurements,
\* revert_to).
THEOREM NothingLostHolds == Spec => []NothingLost
<1>1. ReplayInv => NothingLost
  <2> SUFFICES ASSUME ReplayInv PROVE NothingLost
    OBVIOUS
  <2>1. Keeps(Data, observed) /\ Data.filt.seen = filt.seen /\ Data.queue = queue
    BY DEF ReplayInv, Data
  <2>2. /\ \A a, b \in observed : a.id = b.id => a = b
        /\ ToSet(filt.seen) \cup queue = observed
        /\ ToSet(filt.seen) \cap queue = {}
    BY <2>1 DEF Keeps
  <2>3. {m.id : m \in observed} = SeenIds \cup {m.id : m \in queue}
    BY <2>2 DEF SeenIds
  <2>4. SeenIds \cap {m.id : m \in queue} = {}
    BY <2>2 DEF SeenIds
  <2>5. QED BY <2>3, <2>4 DEF NothingLost
<1>2. QED BY <1>1, ReplayInvAlways, PTL

\* With smooth_lagged_data, as long as the history reached back to each late measurement,
\* the filter has integrated each measurement once and in the order of the timestamps.
THEOREM ExactHolds == Smooth = TRUE => (Spec => []Exact)
<1>1. ReplayInv /\ Smooth = TRUE => Exact
  BY DEF ReplayInv, Exactly, Exact, Data
<1>2. ASSUME Smooth = TRUE PROVE Spec => []Exact
  <2>1. ReplayInv => Exact BY <1>1, <1>2
  <2>2. QED BY <2>1, ReplayInvAlways, PTL
<1>3. QED BY <1>2

\* The histories are what revert_to relies on: the last saved state is the state of the
\* filter, or else something newer with the same timestamp would be missing.
LEMMA ConsistentIsRecent ==
  ASSUME NEW d \in Filter, Consistent(d)
  PROVE  /\ Ascending(d.mhist) /\ Ascending(d.shist)
         /\ d.mhist = <<>> <=> d.shist = <<>>
         /\ d.shist # <<>> =>
              /\ Last(d.shist).seen = d.filt.seen
              /\ d.mhist = SubSeq(d.filt.seen, Len(d.filt.seen) - Len(d.mhist) + 1,
                                  Len(d.filt.seen))
<1> DEFINE seen == d.filt.seen
           N == Len(seen)
           M == Len(d.mhist)
           L == Len(d.shist)
           F == Forgotten(d)
<1>1. /\ N \in Nat /\ M \in Nat /\ L \in Nat /\ F = N - M
      /\ seen \in Seq(Measurement) /\ d.mhist \in Seq(Measurement) /\ d.shist \in Seq(FilterState)
      /\ DOMAIN seen = 1..N /\ DOMAIN d.mhist = 1..M /\ DOMAIN d.shist = 1..L
      /\ \A j \in 1..M : d.mhist[j].ts \in Nat
      /\ \A p \in 1..N : seen[p] \in Measurement
      /\ \A i \in 1..L : d.shist[i].ts \in Nat /\ d.shist[i].seen \in Seq(Measurement)
  BY FilterTyped DEF Forgotten
<1>2. /\ Ascending(d.mhist) /\ Ascending(d.shist) /\ F >= 0
      /\ \A j \in 1..M : d.mhist[j] = seen[F + j] /\ \E i \in 1..L : d.shist[i].ts = d.mhist[j].ts
      /\ \A i \in 1..L : Saved(d, i) /\ \E j \in 1..M : d.shist[i].ts = d.mhist[j].ts
  BY DEF Consistent
<1> HIDE DEF F, N, M, L, seen
<1>3. (d.mhist = <<>> <=> M = 0) /\ (d.shist = <<>> <=> L = 0)
  BY <1>1, EmptySeq DEF M, L
<1>4. M = 0 <=> L = 0
  <2>1. ASSUME M # 0 PROVE L # 0
    <3>1. 1 \in 1..M BY <1>1, <2>1
    <3>2. PICK i \in 1..L : TRUE BY <1>2, <3>1
    <3>3. QED BY <3>2
  <2>2. ASSUME L # 0 PROVE M # 0
    <3>1. 1 \in 1..L BY <1>1, <2>2
    <3>2. PICK j \in 1..M : TRUE BY <1>2, <3>1
    <3>3. QED BY <3>2
  <2>3. QED BY <2>1, <2>2
<1>5. ASSUME d.shist # <<>>
      PROVE  Last(d.shist).seen = seen /\ d.mhist = SubSeq(seen, N - M + 1, N)
  <2>1. L \in 1..L /\ M \in 1..M
    <3>1. L # 0 /\ M # 0 BY <1>3, <1>4, <1>5
    <3>2. QED BY <1>1, <3>1
  <2> DEFINE s == d.shist[L]
             n == Len(s.seen)
  <2>2. Last(d.shist) = s BY DEF Last, L
  <2>3. /\ n \in F..N
        /\ \A p \in 1..n : s.seen[p] = seen[p]
        /\ \A p \in 1..N : p > F /\ p > n =>
             /\ s.ts <= seen[p].ts
             /\ s.ts = seen[p].ts => \E k \in 1..L : k > L /\ d.shist[k].ts = s.ts
    <3>1. Saved(d, L) BY <1>2, <2>1
    <3>2. QED BY <3>1 DEF Saved, F, N, L, seen
  <2>4. s.seen \in Seq(Measurement) /\ n \in Nat /\ s.ts \in Nat /\ DOMAIN s.seen = 1..n
    BY <1>1, <2>1, LenProperties
  <2>5. PICK i \in 1..L : d.shist[i].ts = d.mhist[M].ts BY <1>2, <2>1
  <2>6. d.mhist[M].ts <= s.ts
    <3>1. CASE i = L BY <1>1, <2>1, <2>5, <3>1
    <3>2. CASE i < L BY <1>1, <1>2, <2>1, <2>5, <3>2 DEF Ascending
    <3>3. QED BY <2>1, <3>1, <3>2
  <2> HIDE DEF s, n
  <2>7. n = N
    <3>1. ASSUME n < N PROVE FALSE
      <4>1. F \in Int /\ N = F + M /\ n \in Int /\ F <= n BY <1>1, <2>3
      <4>2. N \in 1..N /\ N > F /\ N > n BY <1>1, <1>2, <3>1, <4>1
      <4>3. d.mhist[M] = seen[N] BY <1>2, <2>1, <4>1
      <4>4. s.ts <= seen[N].ts BY <2>3, <4>2
      <4>5. d.mhist[M].ts \in Nat BY <1>1, <2>1
      <4>6. s.ts = seen[N].ts BY <2>4, <2>6, <4>3, <4>4, <4>5
      <4>7. PICK k \in 1..L : k > L BY <2>3, <4>2, <4>6
      <4>8. QED BY <1>1, <4>7
    <3>2. n <= N /\ n \in Int BY <2>3, <2>4
    <3>3. QED BY <1>1, <3>1, <3>2
  <2>8. s.seen = seen BY <1>1, <2>3, <2>4, <2>7, SeqEqual DEF n, N
  <2> DEFINE q == SubSeq(seen, F + 1, N)
  <2>9. /\ F + 1 \in Int /\ N \in Int /\ F + 1 <= N /\ N - (F + 1) + 1 = M /\ N - M + 1 = F + 1
        /\ F \in Nat
    BY <1>1, <1>2, <2>1
  <2>10. \A i1 \in F + 1 .. N : i1 \in 1..N BY <2>9
  <2>11. \A i1 \in F + 1 .. N : seen[i1] \in Measurement BY <1>1, <2>10
  <2>12. /\ q \in Seq(Measurement)
         /\ Len(q) = IF F + 1 <= N THEN N - (F + 1) + 1 ELSE 0
         /\ \A j \in 1 .. N - (F + 1) + 1 : q[j] = seen[F + 1 + j - 1]
    BY <2>9, <2>11, SubSeqProperties
  <2> HIDE DEF q
  <2>13. Len(q) = M /\ \A j \in 1..M : q[j] = d.mhist[j]
    <3>1. \A j \in 1..M : F + 1 + j - 1 = F + j BY <2>9
    <3>2. \A j \in 1 .. N - (F + 1) + 1 : q[j] = seen[F + 1 + j - 1] BY <2>12
    <3>3. \A j \in 1..M : q[j] = seen[F + j]
      <4>1. SUFFICES ASSUME NEW j \in 1..M PROVE q[j] = seen[F + j]
        OBVIOUS
      <4>2. j \in 1 .. N - (F + 1) + 1 BY <2>9
      <4>3. q[j] = seen[F + 1 + j - 1] BY <3>2, <4>2
      <4>4. QED BY <3>1, <4>3
    <3>4. Len(q) = M BY <2>9, <2>12
    <3>5. QED BY <1>2, <3>3, <3>4
  <2>14. d.mhist = q BY <1>1, <2>12, <2>13, SeqEqual DEF M
  <2>15. QED BY <2>2, <2>8, <2>9, <2>14 DEF q
<1>6. QED BY <1>2, <1>3, <1>4, <1>5 DEF seen, N, M

\* Whatever came late, expired or was cleared, the histories have what revert_to needs.
THEOREM HistoryIsRecentHolds == Spec => []HistoryIsRecent
<1>1. ReplayInv => HistoryIsRecent
  <2> SUFFICES ASSUME ReplayInv PROVE HistoryIsRecent
    OBVIOUS
  <2>1. Data \in Filter /\ Consistent(Data) BY DEF ReplayInv, Keeps
  <2>2. Data.mhist = mhist /\ Data.shist = shist /\ Data.filt = filt BY DEF Data
  <2>3. /\ Ascending(Data.mhist) /\ Ascending(Data.shist)
        /\ Data.mhist = <<>> <=> Data.shist = <<>>
        /\ Data.shist # <<>> =>
             /\ Last(Data.shist).seen = Data.filt.seen
             /\ Data.mhist = SubSeq(Data.filt.seen, Len(Data.filt.seen) - Len(Data.mhist) + 1,
                                    Len(Data.filt.seen))
    BY <2>1, ConsistentIsRecent
  <2>4. QED BY <2>2, <2>3 DEF HistoryIsRecent
<1>2. QED BY <1>1, ReplayInvAlways, PTL
-----------------------------------------------------------------------------
(* CascadingReplayFilter: what the histories say when updates leave holes in them *)

\* The last time that q has the measurement of e, it has the value of e.
NewestIs(q, e) ==
  \E k \in 1..Len(q) :
    /\ q[k].id = e.id /\ q[k].val = e.val
    /\ \A l \in 1..Len(q) : l > k => q[l].id # e.id

Begins(p, q) == Len(p) <= Len(q) /\ \A k \in 1..Len(p) : p[k] = q[k]

Has(q, i) == \E k \in 1..Len(q) : q[k].id = i

Waits(d, i) == \E m \in d.queue : m.id = i

\* A measurement waits or is in the history, and either once.
Separate(d) ==
  /\ IsFiniteSet(d.queue)
  /\ \A a, b \in d.queue : a.id = b.id => a = b
  /\ \A j, k \in 1..Len(d.mhist) : j # k => d.mhist[j].id # d.mhist[k].id
  /\ \A m \in d.queue : \A j \in 1..Len(d.mhist) : d.mhist[j].id # m.id

\* Each saved state is one that the filter went through, and the last is its present one.
Stages(d) ==
  /\ Ascending(d.mhist) /\ Ascending(d.shist)
  /\ \A i \in 1..Len(d.shist) : 1 <= Len(d.shist[i].seen) /\ Begins(d.shist[i].seen, d.filt.seen)
  /\ \A i, k \in 1..Len(d.shist) : i <= k => Len(d.shist[i].seen) <= Len(d.shist[k].seen)
  /\ Len(d.shist) > 0 => Len(d.shist[Len(d.shist)].seen) = Len(d.filt.seen)
  /\ Smooth = FALSE => Len(d.shist) = 0

\* For each measurement of the history there is a state with its timestamp, from which on it
\* counts with its value.
Recorded(d) ==
  \A j \in 1..Len(d.mhist) : \E i \in 1..Len(d.shist) :
    /\ d.shist[i].ts = d.mhist[j].ts
    /\ \A k \in 1..Len(d.shist) : i <= k => NewestIs(d.shist[k].seen, d.mhist[j])

\* What a saved state lacks waits already, or reverting to the state would queue it.
Requeues(d) ==
  \A i \in 1..Len(d.shist) : \A p \in 1..Len(d.filt.seen) :
    \/ Has(d.shist[i].seen, d.filt.seen[p].id)
    \/ Waits(d, d.filt.seen[p].id)
    \/ \E j \in 1..Len(d.mhist) :
         d.mhist[j].id = d.filt.seen[p].id /\ d.shist[i].ts <= d.mhist[j].ts

\* Each measurement is of one that was observed, which is integrated or waits.
FromObserved(m, obs) == \E o \in obs : o.id = m.id /\ o.ts = m.ts

Accounted(d, obs) ==
  /\ \A a, b \in obs : a.id = b.id => a.ts = b.ts
  /\ \A m \in d.queue : FromObserved(m, obs)
  /\ \A j \in 1..Len(d.mhist) : FromObserved(d.mhist[j], obs)
  /\ \A p \in 1..Len(d.filt.seen) : FromObserved(d.filt.seen[p], obs)
  /\ \A o \in obs : Has(d.filt.seen, o.id) \/ Waits(d, o.id)

Replays(d, obs) ==
  /\ d \in Filter /\ UpTo(d, d.filt.ts)
  /\ Separate(d) /\ Stages(d) /\ Recorded(d) /\ Requeues(d) /\ Accounted(d, obs)

\* No state has integrated something younger than itself, or something before an older one.
Orderly(d) ==
  /\ Ascending(d.filt.seen)
  /\ \A p \in 1..Len(d.filt.seen) : d.filt.seen[p].ts <= d.filt.ts
  /\ \A i \in 1..Len(d.shist) : \A p \in 1..Len(d.shist[i].seen) :
       d.shist[i].seen[p].ts <= d.shist[i].ts

CascadeInv ==
  /\ Replays(Data, observed)
  /\ cur \in Nat /\ now \in Times /\ filt.ts <= now
  /\ Smooth = TRUE /\ ~late => Orderly(Data)
  /\ Smooth = TRUE /\ ~late /\ ~doubled => Once(filt.seen)

-----------------------------------------------------------------------------
(* CascadingReplayFilter: what an update takes out of the history *)

LEMMA WithoutKeeps ==
  ASSUME NEW S, NEW q \in Seq(S), NEW T
  PROVE  LET w == Without(q, T)
         IN  /\ w \in Seq(S)
             /\ \E at \in Seq(1..Len(q)) :
                  /\ Len(at) = Len(w)
                  /\ \A k \in 1..Len(w) : at[k] \in 1..Len(q) /\ w[k] = q[at[k]] /\ w[k] \notin T
                  /\ \A i, j \in 1..Len(w) : i < j => at[i] < at[j]
                  /\ \A i \in 1..Len(q) : q[i] \notin T => \E k \in 1..Len(w) : w[k] = q[i]
<1> DEFINE left == {i \in DOMAIN q : q[i] \notin T}
           at == Sorted(left, <)
           w == Without(q, T)
<1>1. Len(q) \in Nat /\ DOMAIN q = 1..Len(q) /\ \A i \in 1..Len(q) : q[i] \in S
  BY LenProperties, ElementOfSeq
<1>2. left \in SUBSET (1..Len(q)) BY <1>1
<1>3. \A i : i \in left <=> i \in 1..Len(q) /\ q[i] \notin T BY <1>1
<1>4. w = [k \in DOMAIN at |-> q[at[k]]] BY DEF Without
<1> HIDE DEF left, w
<1>5. /\ at \in Seq(left) /\ ToSet(at) = left
      /\ \A i, j \in DOMAIN at : i < j => at[i] < at[j]
  BY <1>1, <1>2, NumbersSorted
<1> HIDE DEF at
<1>6. Len(at) \in Nat /\ DOMAIN at = 1..Len(at) /\ \A k \in 1..Len(at) : at[k] \in left
  BY <1>5, LenProperties, ElementOfSeq
<1>7. \A k \in 1..Len(at) : at[k] \in 1..Len(q) /\ q[at[k]] \in S /\ q[at[k]] \notin T
  BY <1>1, <1>3, <1>6
<1>8. w \in Seq(S) /\ Len(w) = Len(at) /\ \A k \in 1..Len(w) : w[k] = q[at[k]]
  <2>1. w \in [1..Len(at) -> S] BY <1>4, <1>6, <1>7
  <2>2. w \in Seq(S) BY <1>6, <2>1
  <2>3. DOMAIN w = 1..Len(at) BY <2>1
  <2>4. Len(w) = Len(at) BY <1>6, <2>2, <2>3, LenProperties
  <2>5. QED BY <1>4, <1>6, <2>2, <2>4
<1>9. ASSUME NEW i \in 1..Len(q), q[i] \notin T PROVE \E k \in 1..Len(w) : w[k] = q[i]
  <2>1. i \in ToSet(at) BY <1>3, <1>5, <1>9
  <2>2. PICK k \in 1..Len(at) : at[k] = i BY <1>6, <2>1 DEF ToSet
  <2>3. QED BY <1>8, <2>2
<1>10. at \in Seq(1..Len(q))
  <2>1. at \in [1..Len(at) -> 1..Len(q)]
    <3>1. at \in [1..Len(at) -> left] BY <1>5, <1>6
    <3>2. QED BY <1>2, <3>1
  <2>2. QED BY <1>6, <2>1
<1>11. \A i, j \in 1..Len(w) : i < j => at[i] < at[j] BY <1>5, <1>6, <1>8
<1>12. /\ Len(at) = Len(w)
       /\ \A k \in 1..Len(w) : at[k] \in 1..Len(q) /\ w[k] = q[at[k]] /\ w[k] \notin T
  BY <1>7, <1>8
<1>13. QED BY <1>8, <1>9, <1>10, <1>11, <1>12 DEF w

\* Taking the measurements of an updated value out of the history and queueing them again
\* keeps what the histories are good for; those that remain have the present value.
LEMMA CascadeKeeps ==
  ASSUME NEW d, NEW obs, Replays(d, obs), cur \in Nat
  PROVE  LET r == Cascade(d)
         IN  /\ Replays(r, obs) /\ r.filt = d.filt /\ r.shist = d.shist
             /\ \A j \in 1..Len(d.mhist) : d.mhist[j].id \in Tracked =>
                  \/ \E m \in r.queue : m.id = d.mhist[j].id /\ m.val = cur /\ m.ts = d.mhist[j].ts
                  \/ \E k \in 1..Len(r.mhist) : r.mhist[k] = d.mhist[j] /\ d.mhist[j].val = cur
<1> DEFINE stale == Stale(d)
           again == {Reread(m) : m \in stale}
           w == Without(d.mhist, stale)
           r == Cascade(d)
           M == Len(d.mhist)
<1>1. d \in Filter /\ UpTo(d, d.filt.ts) /\ Separate(d) /\ Stages(d) /\ Recorded(d)
        /\ Requeues(d) /\ Accounted(d, obs)
  BY DEF Replays
<1>2. /\ d.queue \in SUBSET Measurement /\ d.mhist \in Seq(Measurement) /\ M \in Nat
      /\ DOMAIN d.mhist = 1..M
      /\ \A j \in 1..M : d.mhist[j] \in Measurement /\ d.mhist[j].ts \in Nat
      /\ \A i \in 1..Len(d.shist) : d.shist[i].ts \in Nat
      /\ d.filt.ts \in Nat
  BY <1>1, FilterTyped
<1>3. stale = {m \in {d.mhist[j] : j \in 1..M} : IsStale(m)} BY <1>2 DEF Stale, ToSet
<1>4. \A m : m \in stale <=> (\E j \in 1..M : m = d.mhist[j]) /\ IsStale(m) BY <1>3
<1>5. r = [d EXCEPT !.queue = @ \cup again, !.mhist = w] BY DEF Cascade
<1> HIDE DEF stale, w, r
<1>6. \A m \in Measurement : /\ Reread(m) \in Measurement /\ Reread(m).id = m.id
                             /\ Reread(m).ts = m.ts /\ Reread(m).val = cur
  BY DEF Reread, Measurement
<1>7. stale \in SUBSET Measurement BY <1>2, <1>4
<1>8. again \in SUBSET Measurement BY <1>6, <1>7
<1>9. \A a : a \in again <=> \E m \in stale : a = Reread(m) OBVIOUS
<1>10. \A a \in again : \E j \in 1..M : /\ a.id = d.mhist[j].id /\ a.ts = d.mhist[j].ts
                                        /\ a.val = cur /\ IsStale(d.mhist[j])
                                        /\ d.mhist[j] \in stale
  BY <1>4, <1>6, <1>7, <1>9
<1>11. IsFiniteSet(again)
  <2> DEFINE J == {j \in 1..M : d.mhist[j] \in stale}
             f == [j \in J |-> Reread(d.mhist[j])]
  <2>1. IsFiniteSet(1..M) BY <1>2, FS_Interval
  <2>2. IsFiniteSet(J) BY <2>1, FS_Subset
  <2>3. f \in [J -> again] BY <1>9
  <2>4. \A a \in again : \E j \in J : f[j] = a
    <3>1. SUFFICES ASSUME NEW m \in stale PROVE \E j \in J : f[j] = Reread(m)
      BY <1>9
    <3>2. PICK j \in 1..M : m = d.mhist[j] BY <1>4
    <3>3. j \in J BY <3>2
    <3>4. QED BY <3>2, <3>3
  <2> HIDE DEF f, J, again
  <2>5. f \in Surjection(J, again) BY <2>3, <2>4 DEF Surjection
  <2>6. QED BY <2>2, <2>5, FS_Surjection
<1> HIDE DEF again
<1>12. PICK at \in Seq(1..M) :
            /\ Len(at) = Len(w)
            /\ \A k \in 1..Len(w) : at[k] \in 1..M /\ w[k] = d.mhist[at[k]] /\ w[k] \notin stale
            /\ \A i, j \in 1..Len(w) : i < j => at[i] < at[j]
            /\ \A i \in 1..M : d.mhist[i] \notin stale => \E k \in 1..Len(w) : w[k] = d.mhist[i]
  <2> DEFINE q == d.mhist
  <2>1. q \in Seq(Measurement) /\ w = Without(q, stale) BY <1>2 DEF w
  <2> HIDE DEF q
  <2>2. \E at \in Seq(1..Len(q)) :
            /\ Len(at) = Len(w)
            /\ \A k \in 1..Len(w) : at[k] \in 1..Len(q) /\ w[k] = q[at[k]] /\ w[k] \notin stale
            /\ \A i, j \in 1..Len(w) : i < j => at[i] < at[j]
            /\ \A i \in 1..Len(q) : q[i] \notin stale => \E k \in 1..Len(w) : w[k] = q[i]
    BY <2>1, WithoutKeeps
  <2>3. QED BY <2>2 DEF q
<1>13. w \in Seq(Measurement) BY <1>2, WithoutKeeps DEF w
<1>14. Len(w) \in Nat /\ DOMAIN w = 1..Len(w) BY <1>13, LenProperties
<1>15. /\ r \in Filter /\ r.queue = d.queue \cup again /\ r.mhist = w
       /\ r.shist = d.shist /\ r.filt = d.filt
  <2>1. d.queue \cup again \in SUBSET Measurement BY <1>2, <1>8
  <2>2. QED BY <1>1, <1>5, <1>13, <2>1 DEF Filter
<1>16. UpTo(r, r.filt.ts) BY <1>1, <1>12, <1>15 DEF UpTo
<1>17. Separate(r)
  <2>0. IsFiniteSet(d.queue) BY <1>1 DEF Separate
  <2>1. IsFiniteSet(r.queue) BY <1>11, <1>15, <2>0, FS_Union
  <2>2. \A a, b \in again : a.id = b.id => a = b
    <3>1. SUFFICES ASSUME NEW m \in stale, NEW n \in stale, Reread(m).id = Reread(n).id
                   PROVE  Reread(m) = Reread(n)
      BY <1>9
    <3>2. PICK j \in 1..M, k \in 1..M : m = d.mhist[j] /\ n = d.mhist[k] BY <1>4
    <3>3. d.mhist[j].id = d.mhist[k].id BY <1>2, <1>6, <3>1, <3>2
    <3>4. j = k BY <1>1, <3>3 DEF Separate
    <3>5. QED BY <3>2, <3>4
  <2>3. \A a \in again, b \in d.queue : a.id # b.id
    BY <1>1, <1>10 DEF Separate
  <2>4. \A a, b \in r.queue : a.id = b.id => a = b
    <3>1. SUFFICES ASSUME NEW a \in r.queue, NEW b \in r.queue, a.id = b.id PROVE a = b
      OBVIOUS
    <3>2. CASE a \in again /\ b \in again BY <2>2, <3>1, <3>2
    <3>3. CASE a \in d.queue /\ b \in d.queue BY <1>1, <3>1, <3>3 DEF Separate
    <3>4. QED BY <1>15, <2>3, <3>1, <3>2, <3>3
  <2>5. ASSUME NEW j \in 1..Len(w), NEW k \in 1..Len(w), j # k PROVE w[j].id # w[k].id
    <3>1. at[j] # at[k]
      <4>1. j < k \/ k < j BY <1>14, <2>5
      <4>2. at[j] \in Int /\ at[k] \in Int BY <1>12
      <4>3. at[j] < at[k] \/ at[k] < at[j] BY <1>12, <4>1
      <4>4. QED BY <4>2, <4>3
    <3>2. QED BY <1>1, <1>12, <3>1 DEF Separate
  <2>6. ASSUME NEW m \in r.queue, NEW k \in 1..Len(w) PROVE w[k].id # m.id
    <3>1. CASE m \in d.queue BY <1>1, <1>12, <3>1 DEF Separate
    <3>2. CASE m \in again
      <4>1. PICK j \in 1..M : m.id = d.mhist[j].id /\ d.mhist[j] \in stale BY <1>10, <3>2
      <4>2. at[k] # j /\ at[k] \in 1..M /\ w[k] = d.mhist[at[k]] BY <1>12, <4>1
      <4>3. QED BY <1>1, <4>1, <4>2 DEF Separate
    <3>3. QED BY <1>15, <3>1, <3>2
  <2>7. QED BY <1>15, <2>1, <2>4, <2>5, <2>6 DEF Separate
<1>18. Stages(r)
  <2>1. Ascending(w)
    <3>1. SUFFICES ASSUME NEW i \in 1..Len(w), NEW j \in 1..Len(w), i < j
                   PROVE  w[i].ts <= w[j].ts
      BY <1>14 DEF Ascending
    <3>2. at[i] < at[j] /\ at[i] \in 1..M /\ at[j] \in 1..M BY <1>12, <3>1
    <3>3. d.mhist[at[i]].ts <= d.mhist[at[j]].ts BY <1>1, <1>2, <3>2 DEF Stages, Ascending
    <3>4. QED BY <1>12, <3>3
  <2>2. QED BY <1>1, <1>15, <2>1 DEF Stages
<1>19. Recorded(r)
  <2>1. SUFFICES ASSUME NEW k \in 1..Len(w)
                 PROVE  \E i \in 1..Len(d.shist) :
                          /\ d.shist[i].ts = w[k].ts
                          /\ \A n \in 1..Len(d.shist) : i <= n => NewestIs(d.shist[n].seen, w[k])
    BY <1>15 DEF Recorded
  <2>2. QED BY <1>1, <1>12 DEF Recorded
<1>20. Requeues(r)
  <2>1. SUFFICES ASSUME NEW i \in 1..Len(d.shist), NEW p \in 1..Len(d.filt.seen)
                 PROVE  \/ Has(d.shist[i].seen, d.filt.seen[p].id)
                        \/ Waits(r, d.filt.seen[p].id)
                        \/ \E k \in 1..Len(w) : w[k].id = d.filt.seen[p].id
                                                  /\ d.shist[i].ts <= w[k].ts
    BY <1>15 DEF Requeues
  <2>2. CASE Has(d.shist[i].seen, d.filt.seen[p].id) BY <2>2
  <2>3. CASE Waits(d, d.filt.seen[p].id) BY <1>15, <2>3 DEF Waits
  <2>4. CASE \E j \in 1..M : d.mhist[j].id = d.filt.seen[p].id /\ d.shist[i].ts <= d.mhist[j].ts
    <3>1. PICK j \in 1..M : d.mhist[j].id = d.filt.seen[p].id /\ d.shist[i].ts <= d.mhist[j].ts
      BY <2>4
    <3>2. CASE d.mhist[j] \notin stale BY <1>12, <3>1, <3>2
    <3>3. CASE d.mhist[j] \in stale
      <4>1. Reread(d.mhist[j]) \in r.queue BY <1>9, <1>15, <3>3
      <4>2. Reread(d.mhist[j]).id = d.filt.seen[p].id BY <1>2, <1>6, <3>1
      <4>3. QED BY <4>1, <4>2 DEF Waits
    <3>4. QED BY <3>2, <3>3
  <2>5. QED BY <1>1, <2>2, <2>3, <2>4 DEF Requeues
<1>21. Accounted(r, obs)
  <2>1. ASSUME NEW m \in r.queue PROVE FromObserved(m, obs)
    <3>1. CASE m \in d.queue BY <1>1, <3>1 DEF Accounted
    <3>2. CASE m \in again
      <4>1. PICK j \in 1..M : m.id = d.mhist[j].id /\ m.ts = d.mhist[j].ts BY <1>10, <3>2
      <4>2. FromObserved(d.mhist[j], obs) BY <1>1 DEF Accounted
      <4>3. QED BY <4>1, <4>2 DEF FromObserved
    <3>3. QED BY <1>15, <3>1, <3>2
  <2>2. \A k \in 1..Len(w) : FromObserved(w[k], obs) BY <1>1, <1>12 DEF Accounted
  <2>3. \A o \in obs : Has(d.filt.seen, o.id) \/ Waits(r, o.id)
    BY <1>1, <1>15 DEF Accounted, Waits
  <2>4. QED BY <1>1, <1>15, <2>1, <2>2, <2>3 DEF Accounted
<1>22. ASSUME NEW j \in 1..M, d.mhist[j].id \in Tracked
       PROVE  \/ \E m \in r.queue : m.id = d.mhist[j].id /\ m.val = cur /\ m.ts = d.mhist[j].ts
              \/ \E k \in 1..Len(w) : w[k] = d.mhist[j] /\ d.mhist[j].val = cur
  <2>1. CASE IsStale(d.mhist[j])
    <3>1. d.mhist[j] \in stale BY <1>4, <2>1
    <3>2. Reread(d.mhist[j]) \in r.queue BY <1>9, <1>15, <3>1
    <3>3. QED BY <1>2, <1>6, <3>2
  <2>2. CASE ~IsStale(d.mhist[j])
    <3>1. d.mhist[j].val = cur BY <1>22, <2>2 DEF IsStale
    <3>2. d.mhist[j] \notin stale BY <1>4, <2>2
    <3>3. QED BY <1>12, <3>1, <3>2
  <2>3. QED BY <2>1, <2>2
<1>23. Replays(r, obs) BY <1>15, <1>16, <1>17, <1>18, <1>19, <1>20, <1>21 DEF Replays
<1>24. QED BY <1>15, <1>22, <1>23 DEF r

-----------------------------------------------------------------------------
(* CascadingReplayFilter: reverting *)

\* revert_to with holes in the history: it queues all measurements of the history that are
\* younger than t, and with them all that the restored state lacks.
LEMMA RevertFillsHoles ==
  ASSUME NEW d, NEW obs, Replays(d, obs), NEW t \in Int
  PROVE  LET r == RevertTo(d, t)
         IN  /\ Replays(r, obs) /\ UpTo(r, t) /\ r.filt.ts <= d.filt.ts
             /\ Begins(r.filt.seen, d.filt.seen)
             /\ d.queue \subseteq r.queue
             /\ \A m \in r.queue \ d.queue : t < m.ts /\ m.ts <= d.filt.ts
             /\ \A j \in 1..Len(d.mhist) :
                  d.mhist[j] \in r.queue \/ \E k \in 1..Len(r.mhist) : r.mhist[k] = d.mhist[j]
             /\ Reaches(d, t) => \E i \in 1..Len(d.shist) : r.filt = d.shist[i] /\ d.shist[i].ts <= t
             /\ \A i \in 1..Len(r.shist) : i \in 1..Len(d.shist) /\ r.shist[i] = d.shist[i]
<1> DEFINE kept == PopAfter(d.shist, t)
           before == PopAfter(d.mhist, t)
           seen == d.filt.seen
           M == Len(d.mhist)
           L == Len(d.shist)
           N == Len(d.filt.seen)
           r == RevertTo(d, t)
<1>1. d \in Filter /\ UpTo(d, d.filt.ts) /\ Separate(d) /\ Stages(d) /\ Recorded(d)
        /\ Requeues(d) /\ Accounted(d, obs)
  BY DEF Replays
<1>2. /\ M \in Nat /\ L \in Nat /\ N \in Nat
      /\ d.mhist \in Seq(Measurement) /\ d.shist \in Seq(FilterState)
      /\ \A j \in 1..M : d.mhist[j] \in Measurement /\ d.mhist[j].ts \in Nat
      /\ \A i \in 1..L : d.shist[i] \in FilterState /\ d.shist[i].ts \in Nat
                           /\ Len(d.shist[i].seen) \in Nat
      /\ d.queue \in SUBSET Measurement
      /\ DOMAIN d.mhist = 1..M /\ DOMAIN d.shist = 1..L /\ d.filt.ts \in Nat
  BY <1>1, FilterTyped
<1>3. CASE d.shist = <<>>
  <2>1. r = d BY <1>3 DEF RevertTo
  <2>2. L = 0 BY <1>3
  <2>3. \A j \in 1..M : FALSE BY <1>1, <2>2 DEF Recorded
  <2>4. UpTo(d, t) BY <2>2, <2>3 DEF UpTo
  <2>5. ~Reaches(d, t)
    <3>1. \A x \in FilterState : x.ts \in Int
      BY ReplayAssumption DEF FilterState, Times
    <3>a. Ascending(d.shist) BY <1>1 DEF Stages
    <3>2. PICK c \in 0..L : kept \in Seq(FilterState) /\ Len(kept) = c
      BY <1>2, <3>1, <3>a, PopAfterKeeps
    <3>3. Len(kept) = 0 BY <2>2, <3>2
    <3>4. kept = <<>> BY <3>2, <3>3, EmptySeq
    <3>5. QED BY <3>4 DEF Reaches
  <2>6. Begins(seen, seen) /\ d.filt.ts <= d.filt.ts BY <1>2 DEF Begins
  <2> HIDE DEF r
  <2>7. \A m \in r.queue \ d.queue : FALSE BY <2>1
  <2>8. d.queue \subseteq r.queue /\ \A i \in 1..Len(r.shist) : FALSE BY <2>1, <2>2
  <2>9. QED BY <2>1, <2>3, <2>4, <2>5, <2>6, <2>7, <2>8 DEF r
<1>4. CASE d.shist # <<>>
  <2>1. \A x \in FilterState : x.ts \in Int
    BY ReplayAssumption DEF FilterState, Times
  <2>2. Ascending(d.shist) /\ Ascending(d.mhist) BY <1>1 DEF Stages
  <2>3. PICK c \in 0..L :
             /\ kept \in Seq(FilterState) /\ Len(kept) = c
             /\ \A i \in 1..c : kept[i] = d.shist[i]
             /\ \A i \in 1..L : i <= c <=> d.shist[i].ts <= t
    BY <1>2, <2>1, <2>2, PopAfterKeeps
  <2>4. PICK b \in 0..M :
             /\ before \in Seq(Measurement) /\ Len(before) = b
             /\ \A j \in 1..b : before[j] = d.mhist[j]
             /\ \A j \in 1..M : j <= b <=> d.mhist[j].ts <= t
    <3>1. \A x \in Measurement : x.ts \in Int BY NumbersOfMeasurement
    <3>2. QED BY <1>2, <2>2, <3>1, PopAfterKeeps
  <2>5. L # 0 BY <1>2, <1>4, EmptySeq
  <2> DEFINE s == IF c > 0 THEN c ELSE 1
             state == d.shist[s]
             undone == {d.mhist[i] : i \in Len(before) + 1 .. Len(d.mhist)}
             again == {m \in undone : state.ts <= m.ts}
  <2>6. s \in 1..L /\ (c > 0 => s = c) /\ (c = 0 => s = 1) /\ c \in Nat /\ b \in Nat
        /\ c <= L /\ b <= M
    BY <1>2, <2>3, <2>4, <2>5
  <2>7. (IF kept # <<>> THEN Last(kept) ELSE Head(d.shist)) = state
    <3>1. CASE c > 0
      <4>1. kept # <<>> BY <2>3, <3>1, EmptySeq
      <4>2. Last(kept) = kept[c] BY <2>3 DEF Last
      <4>3. c \in 1..c BY <2>6, <3>1
      <4>4. QED BY <2>3, <2>6, <3>1, <4>1, <4>2, <4>3
    <3>2. CASE c = 0
      <4>1. kept = <<>> BY <2>3, <3>2, EmptySeq
      <4>2. Head(d.shist) = d.shist[1] BY <1>2, <1>4, HeadTailProperties
      <4>3. QED BY <2>6, <3>2, <4>1, <4>2
    <3>3. QED BY <2>6, <3>1, <3>2
  <2>8. r = [queue |-> d.queue \cup again, mhist |-> before, shist |-> kept, filt |-> state]
    BY <1>4, <2>7 DEF RevertTo
  <2> HIDE DEF s, r, kept, before
  \* What stays in the history counts in the restored state already.
  <2>9. ASSUME NEW j \in 1..b
        PROVE  \E i \in 1..c : /\ d.shist[i].ts = d.mhist[j].ts
                               /\ \A k \in 1..L : i <= k => NewestIs(d.shist[k].seen, d.mhist[j])
    <3>1. j \in 1..M /\ j <= b BY <2>6
    <3>2. PICK i \in 1..L : /\ d.shist[i].ts = d.mhist[j].ts
                            /\ \A k \in 1..L : i <= k => NewestIs(d.shist[k].seen, d.mhist[j])
      BY <1>1, <3>1 DEF Recorded
    <3>3. i <= c BY <2>3, <2>4, <3>1, <3>2
    <3>4. i \in 1..c BY <2>6, <3>2, <3>3
    <3>5. QED BY <3>2, <3>4
  <2>10. ASSUME NEW j \in 1..b
         PROVE  Has(state.seen, d.mhist[j].id) /\ d.mhist[j].ts <= state.ts /\ s = c
    <3>1. PICK i \in 1..c : /\ d.shist[i].ts = d.mhist[j].ts
                            /\ \A k \in 1..L : i <= k => NewestIs(d.shist[k].seen, d.mhist[j])
      BY <2>9
    <3>2. c > 0 /\ i <= s /\ s = c /\ i \in 1..L BY <2>6, <3>1
    <3>3. NewestIs(state.seen, d.mhist[j]) BY <2>6, <3>1, <3>2
    <3>4. d.shist[i].ts <= state.ts
      <4>1. CASE i = s BY <1>2, <2>6, <4>1
      <4>2. CASE i < s BY <1>2, <2>2, <2>6, <3>2, <4>2 DEF Ascending
      <4>3. QED BY <2>6, <3>2, <4>1, <4>2
    <3>5. QED BY <3>1, <3>2, <3>3, <3>4 DEF NewestIs, Has
  \* What leaves it is queued again.
  <2>11. ASSUME NEW j \in 1..M, ~(j <= b)
         PROVE  d.mhist[j] \in again /\ t < d.mhist[j].ts
    <3>1. t < d.mhist[j].ts BY <1>2, <2>4, <2>11
    <3>2. state.ts <= d.mhist[j].ts
      <4>1. CASE c > 0
        <5>1. s <= c BY <2>6, <4>1
        <5>2. state.ts <= t /\ state.ts \in Nat BY <1>2, <2>3, <2>6, <5>1
        <5>3. QED BY <1>2, <3>1, <5>2
      <4>2. CASE c = 0
        <5>1. PICK i \in 1..L : d.shist[i].ts = d.mhist[j].ts BY <1>1 DEF Recorded
        <5>2. s = 1 BY <2>6, <4>2
        <5>3. CASE i = 1 BY <1>2, <2>6, <5>1, <5>2, <5>3
        <5>4. CASE 1 < i BY <1>2, <2>2, <2>6, <5>1, <5>2, <5>4 DEF Ascending
        <5>5. QED BY <1>2, <5>3, <5>4
      <4>3. QED BY <2>6, <4>1, <4>2
    <3>3. j \in Len(before) + 1 .. Len(d.mhist) BY <1>2, <2>4, <2>6, <2>11
    <3>4. QED BY <3>1, <3>2, <3>3
  <2>12. \A m \in again : \E j \in 1..M : m = d.mhist[j] /\ ~(j <= b) /\ t < m.ts
    <3>1. SUFFICES ASSUME NEW i \in Len(before) + 1 .. Len(d.mhist)
                   PROVE  i \in 1..M /\ ~(i <= b) /\ t < d.mhist[i].ts
      OBVIOUS
    <3>2. i \in 1..M /\ ~(i <= b) BY <1>2, <2>4, <2>6, <3>1
    <3>3. QED BY <2>11, <3>2
  <2> HIDE DEF undone, again
  <2>13. again \in SUBSET Measurement BY <1>2, <2>12
  <2>14. IsFiniteSet(again)
    <3> DEFINE J == {j \in 1..M : d.mhist[j] \in again}
               f == [j \in J |-> d.mhist[j]]
    <3>0. M \in Int BY <1>2
    <3>1. IsFiniteSet(1..M) BY <3>0, FS_Interval
    <3>2. IsFiniteSet(J) BY <3>1, FS_Subset
    <3>3. f \in [J -> again] OBVIOUS
    <3>4. \A a \in again : \E j \in J : f[j] = a
      <4>1. SUFFICES ASSUME NEW a \in again PROVE \E j \in J : f[j] = a
        OBVIOUS
      <4>2. PICK j \in 1..M : a = d.mhist[j] BY <2>12
      <4>3. j \in J BY <4>2
      <4>4. QED BY <4>2, <4>3
    <3> HIDE DEF f, J
    <3>5. f \in Surjection(J, again) BY <3>3, <3>4 DEF Surjection
    <3>6. QED BY <3>2, <3>5, FS_Surjection
  <2>15. /\ state \in FilterState /\ state.ts \in Nat /\ Len(state.seen) \in Nat
         /\ 1 <= Len(state.seen) /\ Begins(state.seen, seen)
    BY <1>1, <1>2, <2>6 DEF Stages
  <2> DEFINE n == Len(state.seen)
  <2>16. /\ r \in Filter /\ r.queue = d.queue \cup again /\ r.mhist = before
         /\ r.shist = kept /\ r.filt = state
    <3>1. d.queue \cup again \in SUBSET Measurement BY <1>2, <2>13
    <3> HIDE DEF state
    <3>2. QED BY <2>3, <2>4, <2>8, <2>15, <3>1 DEF Filter
  <2>17. n <= N /\ \A p \in 1..n : p \in 1..N /\ state.seen[p] = seen[p]
    BY <1>2, <2>15 DEF Begins
  <2>18. \A i \in 1..c : i \in 1..L /\ kept[i] = d.shist[i] /\ i <= s /\ c > 0 /\ s = c
    BY <2>3, <2>6
  <2>19. \A j \in 1..b : j \in 1..M /\ before[j] = d.mhist[j] /\ j <= b BY <2>4, <2>6
  <2>20. UpTo(r, t)
    BY <2>3, <2>4, <2>16, <2>18, <2>19 DEF UpTo
  <2>21. UpTo(r, r.filt.ts)
    <3>1. \A i \in 1..c : d.shist[i].ts <= state.ts
      <4>1. SUFFICES ASSUME NEW i \in 1..c PROVE d.shist[i].ts <= state.ts
        OBVIOUS
      <4>2. CASE i = s BY <1>2, <2>6, <4>2
      <4>3. CASE i < s BY <1>2, <2>2, <2>6, <2>18, <4>3 DEF Ascending
      <4>4. QED BY <2>6, <2>18, <4>2, <4>3
    <3>2. QED BY <2>3, <2>4, <2>10, <2>16, <2>18, <2>19, <3>1 DEF UpTo
  <2>22. r.filt.ts <= d.filt.ts BY <1>1, <2>6, <2>16 DEF UpTo
  <2>23. Separate(r)
    <3>1. IsFiniteSet(d.queue) /\ \A x, y \in d.queue : x.id = y.id => x = y
      BY <1>1 DEF Separate
    <3>a. IsFiniteSet(d.queue \cup again) BY <2>14, <3>1, FS_Union
    <3>2. IsFiniteSet(r.queue) BY <2>16, <3>a
    <3>3. \A x \in again : \A y \in d.queue : x.id # y.id
      BY <1>1, <2>12 DEF Separate
    <3>4. \A x, y \in again : x.id = y.id => x = y
      BY <1>1, <2>12 DEF Separate
    <3>5. \A x, y \in r.queue : x.id = y.id => x = y
      <4>1. SUFFICES ASSUME NEW x \in r.queue, NEW y \in r.queue, x.id = y.id PROVE x = y
        OBVIOUS
      <4>2. (x \in d.queue \/ x \in again) /\ (y \in d.queue \/ y \in again)
        BY <2>16
      <4>3. QED BY <3>1, <3>3, <3>4, <4>1, <4>2
    <3>6. \A x \in again : \A j \in 1..b : before[j].id # x.id
      <4>1. SUFFICES ASSUME NEW x \in again, NEW j \in 1..b PROVE before[j].id # x.id
        OBVIOUS
      <4>2. PICK k \in 1..M : x = d.mhist[k] /\ ~(k <= b) BY <2>12
      <4>3. j # k BY <2>19, <4>2
      <4>4. QED BY <1>1, <2>19, <4>2, <4>3 DEF Separate
    <3>7. \A x \in d.queue : \A j \in 1..b : before[j].id # x.id
      BY <1>1, <2>19 DEF Separate
    <3>8. \A j, k \in 1..b : j # k => before[j].id # before[k].id
      BY <1>1, <2>19 DEF Separate
    <3>9. QED BY <2>4, <2>16, <3>2, <3>5, <3>6, <3>7, <3>8 DEF Separate
  <2>24. Stages(r)
    <3>1. Ascending(before)
      <4>1. DOMAIN before = 1..b BY <2>4, LenProperties
      <4>2. QED BY <1>2, <2>2, <2>19, <4>1 DEF Ascending
    <3>2. Ascending(kept)
      <4>1. DOMAIN kept = 1..c BY <2>3, LenProperties
      <4>2. QED BY <1>2, <2>2, <2>18, <4>1 DEF Ascending
    <3>3. ASSUME NEW i \in 1..c
          PROVE  1 <= Len(kept[i].seen) /\ Begins(kept[i].seen, state.seen)
      <4>1. i \in 1..L /\ kept[i] = d.shist[i] /\ i <= s BY <2>18
      <4>2. Len(d.shist[i].seen) <= n /\ 1 <= Len(d.shist[i].seen)
              /\ Begins(d.shist[i].seen, seen)
        BY <1>1, <2>6, <4>1 DEF Stages
      <4>3. \A p \in 1..Len(d.shist[i].seen) : p \in 1..n BY <1>2, <2>15, <4>1, <4>2
      <4>4. QED BY <2>17, <4>1, <4>2, <4>3 DEF Begins
    <3>4. ASSUME NEW i \in 1..c, NEW k \in 1..c, i <= k
          PROVE  Len(kept[i].seen) <= Len(kept[k].seen)
      BY <1>1, <2>18, <3>4 DEF Stages
    <3>5. c > 0 => Len(kept[c].seen) = n
      <4>1. c > 0 => c \in 1..c BY <2>6
      <4>2. QED BY <2>18, <4>1
    <3>6. Smooth = FALSE => c = 0 BY <1>1, <2>5 DEF Stages
    <3>7. QED BY <2>3, <2>16, <3>1, <3>2, <3>3, <3>4, <3>5, <3>6 DEF Stages
  <2>25. Recorded(r)
    <3>1. SUFFICES ASSUME NEW j \in 1..b
                   PROVE  \E i \in 1..c :
                            /\ kept[i].ts = before[j].ts
                            /\ \A k \in 1..c : i <= k => NewestIs(kept[k].seen, before[j])
      BY <2>3, <2>4, <2>16 DEF Recorded
    <3>2. PICK i \in 1..c : /\ d.shist[i].ts = d.mhist[j].ts
                            /\ \A k \in 1..L : i <= k => NewestIs(d.shist[k].seen, d.mhist[j])
      BY <2>9
    <3>3. QED BY <2>18, <2>19, <3>2
  \* What the restored state lacks waits.
  <2>26. ASSUME NEW p \in 1..N PROVE Has(state.seen, seen[p].id) \/ Waits(r, seen[p].id)
    <3>1. CASE Waits(d, seen[p].id) BY <2>16, <3>1 DEF Waits
    <3>2. CASE \E j \in 1..M : d.mhist[j].id = seen[p].id
      <4>1. PICK j \in 1..M : d.mhist[j].id = seen[p].id BY <3>2
      <4>2. CASE j <= b
        <5>1. j \in 1..b BY <2>6, <4>2
        <5>2. QED BY <2>10, <4>1, <5>1
      <4>3. CASE ~(j <= b)
        <5>1. d.mhist[j] \in again BY <2>11, <4>3
        <5>2. QED BY <2>16, <4>1, <5>1 DEF Waits
      <4>4. QED BY <4>2, <4>3
    <3>3. QED BY <1>1, <2>6, <3>1, <3>2 DEF Requeues
  <2>27. Requeues(r)
    <3>1. SUFFICES ASSUME NEW i \in 1..c, NEW p \in 1..n
                   PROVE  \/ Has(kept[i].seen, state.seen[p].id)
                          \/ Waits(r, state.seen[p].id)
                          \/ \E j \in 1..b : before[j].id = state.seen[p].id
                                              /\ kept[i].ts <= before[j].ts
      <4>1. /\ Len(r.shist) = c /\ r.shist = kept /\ Len(r.mhist) = b /\ r.mhist = before
            /\ r.filt.seen = state.seen
        BY <2>3, <2>4, <2>16
      <4> HIDE DEF state
      <4>2. ASSUME NEW i \in 1..Len(r.shist), NEW p \in 1..Len(r.filt.seen)
            PROVE  \/ Has(r.shist[i].seen, r.filt.seen[p].id)
                   \/ Waits(r, r.filt.seen[p].id)
                   \/ \E j \in 1..Len(r.mhist) :
                        r.mhist[j].id = r.filt.seen[p].id /\ r.shist[i].ts <= r.mhist[j].ts
        BY <3>1, <4>1
      <4>3. QED BY <4>2 DEF Requeues
    <3>2. p \in 1..N /\ state.seen[p] = seen[p] /\ i \in 1..L /\ kept[i] = d.shist[i]
      BY <2>17, <2>18
    <3>3. CASE Waits(d, seen[p].id) BY <2>16, <3>2, <3>3 DEF Waits
    <3>4. CASE \E j \in 1..M : d.mhist[j].id = seen[p].id /\ d.shist[i].ts <= d.mhist[j].ts
      <4>1. PICK j \in 1..M : d.mhist[j].id = seen[p].id /\ d.shist[i].ts <= d.mhist[j].ts
        BY <3>4
      <4>2. CASE j <= b
        <5>1. j \in 1..b BY <2>6, <4>2
        <5>2. QED BY <2>19, <3>2, <4>1, <5>1
      <4>3. CASE ~(j <= b)
        <5>1. d.mhist[j] \in again BY <2>11, <4>3
        <5>2. QED BY <2>16, <3>2, <4>1, <5>1 DEF Waits
      <4>4. QED BY <4>2, <4>3
    <3>5. CASE Has(d.shist[i].seen, seen[p].id) BY <3>2, <3>5
    <3>6. QED BY <1>1, <3>2, <3>3, <3>4, <3>5 DEF Requeues
  <2>28. Accounted(r, obs)
    <3>1. \A m \in r.queue : FromObserved(m, obs)
      BY <1>1, <2>12, <2>16 DEF Accounted
    <3>2. \A j \in 1..b : FromObserved(before[j], obs) BY <1>1, <2>19 DEF Accounted
    <3>3. \A p \in 1..n : FromObserved(state.seen[p], obs) BY <1>1, <2>17 DEF Accounted
    <3>4. ASSUME NEW o \in obs PROVE Has(state.seen, o.id) \/ Waits(r, o.id)
      <4>1. CASE Has(seen, o.id)
        <5>1. PICK p \in 1..N : seen[p].id = o.id BY <4>1 DEF Has
        <5>2. QED BY <2>26, <5>1
      <4>2. CASE Waits(d, o.id) BY <2>16, <4>2 DEF Waits
      <4>3. QED BY <1>1, <4>1, <4>2 DEF Accounted
    <3>5. \A x, y \in obs : x.id = y.id => x.ts = y.ts BY <1>1 DEF Accounted
    <3>6. QED BY <2>4, <2>16, <3>1, <3>2, <3>3, <3>4, <3>5 DEF Accounted
  <2>29. Replays(r, obs)
    BY <2>16, <2>21, <2>23, <2>24, <2>25, <2>27, <2>28 DEF Replays
  <2>30. ASSUME NEW m \in r.queue \ d.queue PROVE t < m.ts /\ m.ts <= d.filt.ts
    <3>1. m \in again BY <2>16
    <3>2. QED BY <1>1, <2>12, <3>1 DEF UpTo
  <2>31. ASSUME NEW j \in 1..M
         PROVE  d.mhist[j] \in r.queue \/ \E k \in 1..Len(r.mhist) : r.mhist[k] = d.mhist[j]
    <3>1. CASE j <= b
      <4>1. j \in 1..b BY <2>6, <3>1
      <4>2. QED BY <2>4, <2>16, <2>19, <4>1
    <3>2. CASE ~(j <= b) BY <2>11, <2>16, <3>2
    <3>3. QED BY <3>1, <3>2
  <2>32. ASSUME Reaches(d, t) PROVE \E i \in 1..L : r.filt = d.shist[i] /\ d.shist[i].ts <= t
    <3>1. c # 0 BY <2>3, <2>32, EmptySeq DEF Reaches, kept
    <3>2. s \in 1..L /\ s <= c BY <2>6, <3>1
    <3>3. QED BY <2>3, <2>16, <3>2
  <2>33. \A i \in 1..Len(r.shist) : i \in 1..L /\ r.shist[i] = d.shist[i]
    BY <2>3, <2>16, <2>18
  <2>34. Begins(r.filt.seen, seen) BY <2>15, <2>16
  <2>35. d.queue \subseteq r.queue BY <2>16
  <2> HIDE DEF state
  <2>36. QED
    BY <2>20, <2>22, <2>29, <2>30, <2>31, <2>32, <2>33, <2>34, <2>35 DEF r
<1>5. QED BY <1>3, <1>4

-----------------------------------------------------------------------------
(* CascadingReplayFilter: integrating *)

LEMMA AppendFillsHoles ==
  ASSUME NEW d, NEW obs, Replays(d, obs), Smooth = TRUE,
         NEW due \in Seq(Measurement), due # <<>>, Ascending(due),
         \A i, j \in 1..Len(due) : i # j => due[i].id # due[j].id,
         \A j \in 1..Len(due) : due[j] \in d.queue /\ UpTo(d, due[j].ts),
         NEW ends, EndsAre(ends, due), NEW r, Appended(d, due, ends, r),
         r.queue = d.queue \ ToSet(due)
  PROVE  /\ Replays(r, obs)
         /\ \A i \in 1..Len(r.shist) :
              \/ i \in 1..Len(d.shist) /\ r.shist[i] = d.shist[i]
              \/ \E e \in 1..Len(due) : r.shist[i] = After(d, due, e)
<1> DEFINE seen == d.filt.seen
           N == Len(seen)
           L == Len(d.shist)
           M == Len(d.mhist)
           D == Len(due)
           K == Len(ends)
           end(x) == r.shist[L + x]
<1>1. d \in Filter /\ UpTo(d, d.filt.ts) /\ Separate(d) /\ Stages(d) /\ Recorded(d)
        /\ Requeues(d) /\ Accounted(d, obs)
  BY DEF Replays
<1>2. /\ M \in Nat /\ L \in Nat /\ N \in Nat
      /\ DOMAIN d.mhist = 1..M /\ DOMAIN d.shist = 1..L
      /\ \A j \in 1..M : d.mhist[j].ts \in Nat
      /\ \A i \in 1..L : d.shist[i].ts \in Nat /\ Len(d.shist[i].seen) \in Nat
  BY <1>1, FilterTyped
<1>3. D \in Nat /\ DOMAIN due = 1..D /\ \A j \in 1..D : due[j] \in Measurement /\ due[j].ts \in Nat
  BY ElementOfSeq, LenProperties, NumbersOfMeasurement
<1>4. D \in 1..D
  <2>1. D # 0 BY <1>3, EmptySeq
  <2>2. QED BY <1>3, <2>1
<1>5. /\ K \in Nat /\ DOMAIN ends = 1..K
      /\ \A x \in 1..K : ends[x] \in 1..D
      /\ \A y \in 1..D : \E x \in 1..K : due[ends[x]].ts = due[y].ts
      /\ \A x \in 1..K : \A y \in 1..D : y > ends[x] => due[ends[x]].ts < due[y].ts
      /\ \A x, z \in 1..K : x < z => ends[x] < ends[z]
  BY EndsInDue
<1>6. /\ r \in Filter
      /\ Len(r.mhist) = M + D /\ Len(r.shist) = L + K
      /\ \A j \in 1..M : r.mhist[j] = d.mhist[j]
      /\ \A y \in 1..D : r.mhist[M + y] = due[y]
      /\ \A i \in 1..L : r.shist[i] = d.shist[i]
      /\ \A x \in 1..K : end(x) = After(d, due, ends[x])
      /\ r.filt = After(d, due, D)
  BY DEF Appended
<1>7. ASSUME NEW e \in 1..D
      PROVE  /\ After(d, due, e).ts = due[e].ts
             /\ Len(After(d, due, e).seen) = N + e
             /\ \A p \in 1..N : After(d, due, e).seen[p] = seen[p]
             /\ \A y \in 1..e : After(d, due, e).seen[N + y] = due[y]
  BY <1>1, AfterTyped
<1>8. \A x \in 1..K : /\ end(x).ts = due[ends[x]].ts
                      /\ Len(end(x).seen) = N + ends[x]
                      /\ \A p \in 1..N : end(x).seen[p] = seen[p]
                      /\ \A y \in 1..ends[x] : end(x).seen[N + y] = due[y]
  <2>1. SUFFICES ASSUME NEW x \in 1..K
                 PROVE  /\ end(x).ts = due[ends[x]].ts
                        /\ Len(end(x).seen) = N + ends[x]
                        /\ \A p \in 1..N : end(x).seen[p] = seen[p]
                        /\ \A y \in 1..ends[x] : end(x).seen[N + y] = due[y]
    OBVIOUS
  <2>2. ends[x] \in 1..D /\ end(x) = After(d, due, ends[x]) BY <1>5, <1>6
  <2> HIDE DEF N, D, end
  <2>3. QED BY <1>7, <2>2
<1>9. /\ r.filt.ts = due[D].ts /\ Len(r.filt.seen) = N + D
      /\ \A p \in 1..N : r.filt.seen[p] = seen[p]
      /\ \A y \in 1..D : r.filt.seen[N + y] = due[y]
  BY <1>4, <1>6, <1>7
<1> HIDE DEF N, L, M, D, K, end, seen
<1>10. /\ \A j \in 1 .. M + D : j \in 1..M \/ \E y \in 1..D : j = M + y
       /\ \A p \in 1 .. N + D : p \in 1..N \/ \E y \in 1..D : p = N + y
       /\ \A i \in 1 .. L + K : i \in 1..L \/ \E x \in 1..K : i = L + x
       /\ \A y \in 1..D : M + y \in 1 .. M + D /\ M + y > M
       /\ \A j \in 1..M : j \in 1 .. M + D
       /\ \A x \in 1..K : L + x \in 1 .. L + K /\ L + x > L
       /\ \A i \in 1..L : i \in 1 .. L + K
  BY <1>2, <1>3, <1>5, PlacesAppended
<1>11. \A y, z \in 1..D : y <= z => due[y].ts <= due[z].ts
  <2>1. SUFFICES ASSUME NEW y \in 1..D, NEW z \in 1..D, y <= z PROVE due[y].ts <= due[z].ts
    OBVIOUS
  <2>2. CASE y = z BY <1>3, <2>2
  <2>3. CASE y < z BY <1>3, <2>3 DEF Ascending
  <2>4. QED BY <1>3, <2>1, <2>2, <2>3
<1>12. \A y \in 1..D : /\ due[y] \in d.queue
                       /\ \A j \in 1..M : d.mhist[j].ts <= due[y].ts /\ d.mhist[j].id # due[y].id
                       /\ \A i \in 1..L : d.shist[i].ts <= due[y].ts
  BY <1>1 DEF UpTo, Separate, M, L, D
<1>13. \A m : m \in r.queue <=> m \in d.queue /\ \A y \in 1..D : m # due[y]
  BY <1>3 DEF ToSet
<1>14. Separate(r)
  <2>1. IsFiniteSet(r.queue)
    <3>1. IsFiniteSet(d.queue) BY <1>1 DEF Separate
    <3>2. r.queue \subseteq d.queue OBVIOUS
    <3>3. QED BY <3>1, <3>2, FS_Subset
  <2>2. \A a, b \in r.queue : a.id = b.id => a = b BY <1>1, <1>13 DEF Separate
  <2>3. ASSUME NEW j \in 1 .. M + D, NEW k \in 1 .. M + D, j # k
        PROVE  r.mhist[j].id # r.mhist[k].id
    <3>1. CASE j \in 1..M /\ k \in 1..M BY <1>1, <1>6, <2>3, <3>1 DEF Separate, M
    <3>2. CASE j \in 1..M /\ \E y \in 1..D : k = M + y BY <1>6, <1>12, <3>2
    <3>3. CASE k \in 1..M /\ \E y \in 1..D : j = M + y BY <1>6, <1>12, <3>3
    <3>4. CASE (\E y \in 1..D : j = M + y) /\ \E y \in 1..D : k = M + y
      <4>1. PICK y \in 1..D, z \in 1..D : j = M + y /\ k = M + z BY <3>4
      <4>2. y # z BY <2>3, <4>1
      <4>3. due[y].id # due[z].id BY <4>2 DEF D
      <4>4. QED BY <1>6, <4>1, <4>3
    <3>5. QED BY <1>10, <3>1, <3>2, <3>3, <3>4
  <2>4. ASSUME NEW m \in r.queue, NEW j \in 1 .. M + D PROVE r.mhist[j].id # m.id
    <3>1. m \in d.queue /\ \A y \in 1..D : m # due[y] BY <1>13
    <3>2. CASE j \in 1..M BY <1>1, <1>6, <3>1, <3>2 DEF Separate, M
    <3>3. CASE \E y \in 1..D : j = M + y
      <4>1. PICK y \in 1..D : j = M + y BY <3>3
      <4>2. due[y] \in d.queue /\ m # due[y] BY <1>12, <3>1
      <4>3. due[y].id # m.id BY <1>1, <3>1, <4>2 DEF Separate
      <4>4. QED BY <1>6, <4>1, <4>3
    <3>4. QED BY <1>10, <3>2, <3>3
  <2>5. QED BY <1>6, <2>1, <2>2, <2>3, <2>4 DEF Separate
<1>15. Stages(r)
  <2>1. Ascending(r.mhist)
    <3>1. SUFFICES ASSUME NEW i \in 1 .. M + D, NEW j \in 1 .. M + D, i < j
                   PROVE  r.mhist[i].ts <= r.mhist[j].ts
      <4>1. DOMAIN r.mhist = 1 .. M + D BY <1>6, FilterTyped
      <4>2. QED BY <4>1 DEF Ascending
    <3>2. CASE j \in 1..M
      <4>1. i \in 1..M BY <1>2, <3>1, <3>2
      <4>2. Ascending(d.mhist) /\ DOMAIN d.mhist = 1..M BY <1>1, <1>2 DEF Stages
      <4>3. QED BY <1>6, <3>1, <3>2, <4>1, <4>2 DEF Ascending
    <3>3. CASE \E y \in 1..D : j = M + y
      <4>1. PICK y \in 1..D : j = M + y BY <3>3
      <4>2. CASE i \in 1..M BY <1>6, <1>12, <4>1, <4>2
      <4>3. CASE \E z \in 1..D : i = M + z
        <5>1. PICK z \in 1..D : i = M + z BY <4>3
        <5>2. z <= y BY <1>2, <1>3, <3>1, <4>1, <5>1
        <5>3. QED BY <1>6, <1>11, <4>1, <5>1, <5>2
      <4>4. QED BY <1>10, <4>2, <4>3
    <3>4. QED BY <1>10, <3>2, <3>3
  <2>2. \A x, z \in 1..K : x <= z => ends[x] <= ends[z]
    <3>1. SUFFICES ASSUME NEW x \in 1..K, NEW z \in 1..K, x <= z PROVE ends[x] <= ends[z]
      OBVIOUS
    <3>2. ends[x] \in Int /\ ends[z] \in Int BY <1>3, <1>5
    <3>3. CASE x = z BY <3>2, <3>3
    <3>4. CASE x < z BY <1>5, <3>2, <3>4
    <3>5. QED BY <1>5, <3>1, <3>3, <3>4
  <2>3. Ascending(r.shist)
    <3>1. SUFFICES ASSUME NEW i \in 1 .. L + K, NEW j \in 1 .. L + K, i < j
                   PROVE  r.shist[i].ts <= r.shist[j].ts
      <4>1. DOMAIN r.shist = 1 .. L + K BY <1>6, FilterTyped
      <4>2. QED BY <4>1 DEF Ascending
    <3>2. CASE j \in 1..L
      <4>1. i \in 1..L BY <1>2, <3>1, <3>2
      <4>2. Ascending(d.shist) /\ DOMAIN d.shist = 1..L BY <1>1, <1>2 DEF Stages
      <4>3. QED BY <1>6, <3>1, <3>2, <4>1, <4>2 DEF Ascending
    <3>3. CASE \E x \in 1..K : j = L + x
      <4>1. PICK x \in 1..K : j = L + x BY <3>3
      <4>2. r.shist[j].ts = due[ends[x]].ts /\ ends[x] \in 1..D
        BY <1>5, <1>8, <4>1 DEF end
      <4>3. CASE i \in 1..L BY <1>6, <1>12, <4>2, <4>3
      <4>4. CASE \E z \in 1..K : i = L + z
        <5>1. PICK z \in 1..K : i = L + z BY <4>4
        <5>2. r.shist[i].ts = due[ends[z]].ts /\ ends[z] \in 1..D
          BY <1>5, <1>8, <5>1 DEF end
        <5>3. z <= x BY <1>2, <1>5, <3>1, <4>1, <5>1
        <5>4. ends[z] <= ends[x] BY <2>2, <5>3
        <5>5. QED BY <1>11, <4>2, <5>2, <5>4
      <4>5. QED BY <1>10, <4>3, <4>4
    <3>4. QED BY <1>10, <3>2, <3>3
  <2>4. ASSUME NEW i \in 1 .. L + K
        PROVE  1 <= Len(r.shist[i].seen) /\ Begins(r.shist[i].seen, r.filt.seen)
    <3>1. CASE i \in 1..L
      <4>1. 1 <= Len(d.shist[i].seen) /\ Begins(d.shist[i].seen, seen)
        BY <1>1, <3>1 DEF Stages, L, seen
      <4>2. /\ Len(d.shist[i].seen) <= N /\ Len(d.shist[i].seen) \in Nat
            /\ \A p \in 1..Len(d.shist[i].seen) : d.shist[i].seen[p] = seen[p]
        BY <1>2, <3>1, <4>1 DEF Begins, N
      <4>3. \A p \in 1..Len(d.shist[i].seen) : p \in 1..N BY <1>2, <4>2
      <4>4. Len(d.shist[i].seen) <= N + D BY <1>2, <1>3, <4>2
      <4>5. Begins(d.shist[i].seen, r.filt.seen) BY <1>9, <4>2, <4>3, <4>4 DEF Begins
      <4>6. QED BY <1>6, <3>1, <4>1, <4>5
    <3>2. CASE \E x \in 1..K : i = L + x
      <4>1. PICK x \in 1..K : i = L + x BY <3>2
      <4>2. /\ Len(r.shist[i].seen) = N + ends[x] /\ ends[x] \in 1..D
            /\ \A p \in 1..N : r.shist[i].seen[p] = seen[p]
            /\ \A y \in 1..ends[x] : r.shist[i].seen[N + y] = due[y]
        BY <1>5, <1>8, <4>1 DEF end
      <4>3. ends[x] \in Nat /\ 1 <= ends[x] /\ ends[x] <= D BY <1>3, <4>2
      <4>4. \A p \in 1 .. N + ends[x] : p \in 1..N \/ \E y \in 1..ends[x] : p = N + y
        BY <1>2, <4>3, PlacesAppended
      <4>5. \A y \in 1..ends[x] : y \in 1..D BY <1>3, <4>3
      <4>6. \A p \in 1 .. N + ends[x] : r.shist[i].seen[p] = r.filt.seen[p]
        BY <1>9, <4>2, <4>4, <4>5
      <4>7. N + ends[x] <= N + D /\ 1 <= N + ends[x] BY <1>2, <1>3, <4>3
      <4>8. QED BY <1>9, <4>2, <4>6, <4>7 DEF Begins
    <3>3. QED BY <1>10, <3>1, <3>2
  <2>5. ASSUME NEW i \in 1 .. L + K, NEW k \in 1 .. L + K, i <= k
        PROVE  Len(r.shist[i].seen) <= Len(r.shist[k].seen)
    <3>1. CASE k \in 1..L
      <4>1. i \in 1..L BY <1>2, <2>5, <3>1
      <4>2. QED BY <1>1, <1>6, <2>5, <3>1, <4>1 DEF Stages, L
    <3>2. CASE \E x \in 1..K : k = L + x
      <4>1. PICK x \in 1..K : k = L + x BY <3>2
      <4>2. Len(r.shist[k].seen) = N + ends[x] /\ ends[x] \in 1..D
        BY <1>5, <1>8, <4>1 DEF end
      <4>3. CASE i \in 1..L
        <5>1. Len(d.shist[i].seen) <= N /\ Len(d.shist[i].seen) \in Nat
          BY <1>1, <1>2, <4>3 DEF Stages, Begins, L, N, seen
        <5>2. ends[x] \in Nat BY <1>3, <4>2
        <5>3. Len(d.shist[i].seen) <= N + ends[x] BY <1>2, <5>1, <5>2
        <5>4. QED BY <1>6, <4>2, <4>3, <5>3
      <4>4. CASE \E z \in 1..K : i = L + z
        <5>1. PICK z \in 1..K : i = L + z BY <4>4
        <5>2. Len(r.shist[i].seen) = N + ends[z] /\ ends[z] \in 1..D
          BY <1>5, <1>8, <5>1 DEF end
        <5>3. z <= x BY <1>2, <1>5, <2>5, <4>1, <5>1
        <5>4. ends[z] <= ends[x] BY <2>2, <5>3
        <5>5. QED BY <1>2, <1>3, <4>2, <5>2, <5>4
      <4>5. QED BY <1>10, <4>3, <4>4
    <3>3. QED BY <1>10, <3>1, <3>2
  <2>6. K > 0 /\ Len(r.shist[L + K].seen) = N + D
    <3>1. D \in EndsOf(due) BY <1>3, <1>4 DEF EndsOf, D
    <3>2. PICK x \in 1..K : ends[x] = D BY <1>5, <3>1 DEF EndsAre, ToSet
    <3>3. K \in 1..K /\ x <= K BY <1>5, <3>2
    <3>4. ends[K] = D
      <4>1. ends[x] <= ends[K] /\ ends[K] \in 1..D BY <1>5, <2>2, <3>3
      <4>2. QED BY <1>3, <3>2, <4>1
    <3>5. QED BY <1>5, <1>8, <3>3, <3>4 DEF end
  <2>7. QED BY <1>6, <1>9, <2>1, <2>3, <2>4, <2>5, <2>6 DEF Stages
<1>16. Recorded(r)
  <2>1. SUFFICES ASSUME NEW j \in 1 .. M + D
                 PROVE  \E i \in 1 .. L + K :
                          /\ r.shist[i].ts = r.mhist[j].ts
                          /\ \A k \in 1 .. L + K : i <= k => NewestIs(r.shist[k].seen, r.mhist[j])
    BY <1>6 DEF Recorded
  <2>2. CASE j \in 1..M
    <3>1. PICK i \in 1..L :
             /\ d.shist[i].ts = d.mhist[j].ts
             /\ \A k \in 1..L : i <= k => NewestIs(d.shist[k].seen, d.mhist[j])
      BY <1>1, <2>2 DEF Recorded, M, L
    <3>2. L \in 1..L /\ i <= L BY <1>2, <3>1
    <3>3. NewestIs(d.shist[L].seen, d.mhist[j]) BY <3>1, <3>2
    <3>4. Len(d.shist[L].seen) = N /\ \A p \in 1..N : d.shist[L].seen[p] = seen[p]
      <4>1. L > 0 BY <1>2, <3>2
      <4>2. Len(d.shist[L].seen) = N BY <1>1, <4>1 DEF Stages, L, N, seen
      <4>3. Begins(d.shist[L].seen, seen) BY <1>1, <3>2 DEF Stages, L, seen
      <4>4. QED BY <4>2, <4>3 DEF Begins
    <3>5. PICK p \in 1..N : /\ seen[p].id = d.mhist[j].id /\ seen[p].val = d.mhist[j].val
                            /\ \A l \in 1..N : l > p => seen[l].id # d.mhist[j].id
      BY <3>3, <3>4 DEF NewestIs
    <3>6. ASSUME NEW x \in 1..K PROVE NewestIs(end(x).seen, d.mhist[j])
      <4>1. /\ Len(end(x).seen) = N + ends[x] /\ ends[x] \in 1..D
            /\ \A q \in 1..N : end(x).seen[q] = seen[q]
            /\ \A y \in 1..ends[x] : end(x).seen[N + y] = due[y]
        BY <1>5, <1>8
      <4>2. ends[x] \in Nat /\ \A y \in 1..ends[x] : y \in 1..D BY <1>3, <4>1
      <4>3. /\ \A q \in 1 .. N + ends[x] : q \in 1..N \/ \E y \in 1..ends[x] : q = N + y
            /\ p \in 1 .. N + ends[x]
        BY <1>2, <4>2, PlacesAppended
      <4>4. ASSUME NEW l \in 1 .. N + ends[x], l > p PROVE end(x).seen[l].id # d.mhist[j].id
        <5>1. CASE l \in 1..N BY <3>5, <4>1, <4>4, <5>1
        <5>2. CASE \E y \in 1..ends[x] : l = N + y
          <6>1. PICK y \in 1..ends[x] : l = N + y BY <5>2
          <6>2. y \in 1..D BY <4>2
          <6>3. QED BY <1>12, <2>2, <4>1, <6>1, <6>2
        <5>3. QED BY <4>3, <5>1, <5>2
      <4>5. end(x).seen[p].id = d.mhist[j].id /\ end(x).seen[p].val = d.mhist[j].val
        BY <3>5, <4>1
      <4>6. QED BY <4>1, <4>3, <4>4, <4>5 DEF NewestIs
    <3>7. ASSUME NEW k \in 1 .. L + K, i <= k PROVE NewestIs(r.shist[k].seen, r.mhist[j])
      <4>1. CASE k \in 1..L BY <1>6, <2>2, <3>1, <3>7, <4>1
      <4>2. CASE \E x \in 1..K : k = L + x BY <1>6, <2>2, <3>6, <4>2 DEF end
      <4>3. QED BY <1>10, <4>1, <4>2
    <3>8. i \in 1 .. L + K /\ r.shist[i].ts = r.mhist[j].ts BY <1>6, <1>10, <2>2, <3>1
    <3>9. QED BY <3>7, <3>8
  <2>3. CASE \E y \in 1..D : j = M + y
    <3>1. PICK y \in 1..D : j = M + y BY <2>3
    <3>2. PICK x \in 1..K : due[ends[x]].ts = due[y].ts BY <1>5
    <3>3. y <= ends[x]
      <4>1. ends[x] \in 1..D /\ due[y].ts \in Nat BY <1>3, <1>5
      <4>2. ~(due[ends[x]].ts < due[y].ts) BY <3>2, <4>1
      <4>3. ~(y > ends[x]) BY <1>5, <4>2
      <4>4. QED BY <1>3, <4>1, <4>3
    <3>4. ASSUME NEW z \in 1..K, x <= z PROVE NewestIs(end(z).seen, due[y])
      <4>1. /\ Len(end(z).seen) = N + ends[z] /\ ends[z] \in 1..D
            /\ \A q \in 1..ends[z] : end(z).seen[N + q] = due[q]
        BY <1>5, <1>8
      <4>2. ends[x] <= ends[z] /\ ends[x] \in 1..D
        <5>1. CASE x = z BY <1>3, <1>5, <5>1
        <5>2. CASE x < z BY <1>3, <1>5, <5>2
        <5>3. QED BY <1>5, <3>4, <5>1, <5>2
      <4>3. y \in 1..ends[z] /\ ends[z] \in Nat BY <1>3, <3>3, <4>1, <4>2
      <4>4. N + y \in 1 .. N + ends[z] BY <1>2, <4>3, PlacesAppended
      <4>5. ASSUME NEW l \in 1 .. N + ends[z], l > N + y PROVE end(z).seen[l].id # due[y].id
        <5>1. PICK q \in 1..ends[z] : l = N + q
          <6>1. l \notin 1..N BY <1>2, <1>3, <4>5
          <6>2. QED BY <1>2, <4>3, <6>1, PlacesAppended
        <5>2. q # y /\ q \in 1..D BY <1>2, <1>3, <4>1, <4>5, <5>1
        <5>3. due[q].id # due[y].id BY <5>2 DEF D
        <5>4. QED BY <4>1, <5>1, <5>3
      <4>6. QED BY <4>1, <4>3, <4>4, <4>5 DEF NewestIs
    <3>5. ASSUME NEW k \in 1 .. L + K, L + x <= k PROVE NewestIs(r.shist[k].seen, r.mhist[j])
      <4>1. k \notin 1..L BY <1>2, <1>5, <3>5
      <4>2. PICK z \in 1..K : k = L + z BY <1>10, <4>1
      <4>3. x <= z BY <1>2, <1>5, <3>5, <4>2
      <4>4. QED BY <1>6, <3>1, <3>4, <4>2, <4>3 DEF end
    <3>6. L + x \in 1 .. L + K /\ r.shist[L + x].ts = r.mhist[j].ts
      BY <1>6, <1>8, <1>10, <3>1, <3>2 DEF end
    <3>7. QED BY <3>5, <3>6
  <2>4. QED BY <1>10, <2>2, <2>3
<1>17. Requeues(r)
  <2> DEFINE Kept(i, m) ==
        \/ Has(r.shist[i].seen, m.id) \/ Waits(r, m.id)
        \/ \E j \in 1 .. M + D : r.mhist[j].id = m.id /\ r.shist[i].ts <= r.mhist[j].ts
  <2>1. SUFFICES ASSUME NEW i \in 1 .. L + K, NEW p \in 1 .. N + D
                 PROVE  Kept(i, r.filt.seen[p])
    BY <1>6, <1>9 DEF Requeues
  <2>2. ASSUME NEW y \in 1..D, r.shist[i].ts <= due[y].ts, NEW m, m.id = due[y].id
        PROVE  Kept(i, m)
    BY <1>6, <1>10, <2>2
  <2>3. CASE i \in 1..L /\ p \in 1..N
    <3>1. \/ Has(d.shist[i].seen, seen[p].id) \/ Waits(d, seen[p].id)
          \/ \E j \in 1..M : d.mhist[j].id = seen[p].id /\ d.shist[i].ts <= d.mhist[j].ts
      BY <1>1, <2>3 DEF Requeues, L, N, M, seen
    <3>2. r.filt.seen[p] = seen[p] /\ r.shist[i] = d.shist[i] BY <1>6, <1>9, <2>3
    <3>3. CASE Has(d.shist[i].seen, seen[p].id) BY <3>2, <3>3
    <3>4. CASE Waits(d, seen[p].id)
      <4>1. PICK m \in d.queue : m.id = seen[p].id BY <3>4 DEF Waits
      <4>2. CASE m \in r.queue BY <3>2, <4>1, <4>2 DEF Waits
      <4>3. CASE m \notin r.queue
        <5>1. PICK y \in 1..D : m = due[y] BY <1>13, <4>3
        <5>2. r.shist[i].ts <= due[y].ts BY <1>12, <2>3, <3>2
        <5>3. QED BY <2>2, <3>2, <4>1, <5>1, <5>2
      <4>4. QED BY <4>2, <4>3
    <3>5. CASE \E j \in 1..M : d.mhist[j].id = seen[p].id /\ d.shist[i].ts <= d.mhist[j].ts
      BY <1>6, <1>10, <3>2, <3>5
    <3>6. QED BY <3>1, <3>3, <3>4, <3>5
  <2>4. CASE i \in 1..L /\ \E y \in 1..D : p = N + y
    <3>1. PICK y \in 1..D : p = N + y BY <2>4
    <3>2. r.filt.seen[p] = due[y] /\ r.shist[i].ts <= due[y].ts BY <1>6, <1>9, <1>12, <2>4, <3>1
    <3>3. QED BY <2>2, <3>2
  <2>5. CASE (\E x \in 1..K : i = L + x) /\ p \in 1..N
    <3>1. PICK x \in 1..K : i = L + x BY <2>5
    <3>2. Len(r.shist[i].seen) = N + ends[x] /\ ends[x] \in Nat /\ r.shist[i].seen[p] = seen[p]
      BY <1>3, <1>5, <1>8, <2>5, <3>1 DEF end
    <3>3. p \in 1 .. N + ends[x] BY <1>2, <2>5, <3>2, PlacesAppended
    <3>4. Has(r.shist[i].seen, r.filt.seen[p].id) BY <1>9, <2>5, <3>2, <3>3 DEF Has
    <3>5. QED BY <3>4
  <2>6. CASE (\E x \in 1..K : i = L + x) /\ \E y \in 1..D : p = N + y
    <3>1. PICK x \in 1..K, y \in 1..D : i = L + x /\ p = N + y BY <2>6
    <3>2. /\ Len(r.shist[i].seen) = N + ends[x] /\ ends[x] \in 1..D
          /\ \A q \in 1..ends[x] : r.shist[i].seen[N + q] = due[q]
          /\ r.shist[i].ts = due[ends[x]].ts /\ r.filt.seen[p] = due[y]
      BY <1>5, <1>8, <1>9, <3>1 DEF end
    <3>3. ends[x] \in Nat BY <1>3, <3>2
    <3>4. CASE y <= ends[x]
      <4>1. y \in 1..ends[x] BY <1>3, <3>3, <3>4
      <4>2. N + y \in 1 .. N + ends[x] BY <1>2, <3>3, <4>1, PlacesAppended
      <4>3. QED BY <3>2, <4>1, <4>2 DEF Has
    <3>5. CASE ~(y <= ends[x])
      <4>a. y > ends[x] BY <1>3, <3>3, <3>5
      <4>1. due[ends[x]].ts < due[y].ts BY <1>5, <4>a
      <4>2. r.shist[i].ts <= due[y].ts BY <1>3, <3>2, <4>1
      <4>3. QED BY <2>2, <3>2, <4>2
    <3>6. QED BY <3>4, <3>5
  <2> HIDE DEF Kept
  <2>7. QED BY <1>10, <2>3, <2>4, <2>5, <2>6
<1>18. Accounted(r, obs)
  <2>1. \A x, y \in obs : x.id = y.id => x.ts = y.ts BY <1>1 DEF Accounted
  <2>2. \A m \in d.queue : FromObserved(m, obs) BY <1>1 DEF Accounted
  <2>3. \A j \in 1..M : FromObserved(d.mhist[j], obs) BY <1>1 DEF Accounted, M
  <2>4. \A p \in 1..N : FromObserved(seen[p], obs) BY <1>1 DEF Accounted, N, seen
  <2>5. \A j \in 1 .. M + D : FromObserved(r.mhist[j], obs)
    BY <1>6, <1>10, <1>12, <2>2, <2>3
  <2>6. \A p \in 1 .. N + D : FromObserved(r.filt.seen[p], obs)
    BY <1>9, <1>10, <1>12, <2>2, <2>4
  <2>7. \A m \in r.queue : FromObserved(m, obs) BY <1>13, <2>2
  <2>8. ASSUME NEW o \in obs PROVE Has(r.filt.seen, o.id) \/ Waits(r, o.id)
    <3>1. Has(seen, o.id) \/ Waits(d, o.id) BY <1>1 DEF Accounted, seen
    <3>2. \A p \in 1..N : p \in 1 .. N + D BY <1>2, <1>3, PlacesAppended
    <3>3. \A y \in 1..D : N + y \in 1 .. N + D BY <1>2, <1>3, PlacesAppended
    <3>4. CASE Has(seen, o.id) BY <1>9, <3>2, <3>4 DEF Has, N
    <3>5. CASE Waits(d, o.id)
      <4>1. PICK m \in d.queue : m.id = o.id BY <3>5 DEF Waits
      <4>2. CASE m \in r.queue BY <4>1, <4>2 DEF Waits
      <4>3. CASE m \notin r.queue
        <5>1. PICK y \in 1..D : m = due[y] BY <1>13, <4>3
        <5>2. QED BY <1>9, <3>3, <4>1, <5>1 DEF Has
      <4>4. QED BY <4>2, <4>3
    <3>6. QED BY <3>1, <3>4, <3>5
  <2>9. QED BY <1>6, <1>9, <2>1, <2>5, <2>6, <2>7, <2>8 DEF Accounted
<1>19. UpTo(r, r.filt.ts)
  <2>1. ASSUME NEW j \in 1 .. M + D PROVE r.mhist[j].ts <= due[D].ts
    <3>1. CASE j \in 1..M BY <1>4, <1>6, <1>12, <3>1
    <3>2. CASE \E y \in 1..D : j = M + y
      <4>1. PICK y \in 1..D : j = M + y BY <3>2
      <4>2. y <= D BY <1>3
      <4>3. QED BY <1>4, <1>6, <1>11, <4>1, <4>2
    <3>3. QED BY <1>10, <3>1, <3>2
  <2>2. ASSUME NEW i \in 1 .. L + K PROVE r.shist[i].ts <= due[D].ts
    <3>1. CASE i \in 1..L BY <1>4, <1>6, <1>12, <3>1
    <3>2. CASE \E x \in 1..K : i = L + x
      <4>1. PICK x \in 1..K : i = L + x BY <3>2
      <4>2. r.shist[i].ts = due[ends[x]].ts /\ ends[x] \in 1..D BY <1>5, <1>8, <4>1 DEF end
      <4>3. ends[x] <= D BY <1>3, <4>2
      <4>4. QED BY <1>4, <1>11, <4>2, <4>3
    <3>3. QED BY <1>10, <3>1, <3>2
  <2>3. QED BY <1>6, <1>9, <2>1, <2>2 DEF UpTo
<1>20. ASSUME NEW i \in 1..Len(r.shist)
       PROVE  \/ i \in 1..L /\ r.shist[i] = d.shist[i]
              \/ \E e \in 1..D : r.shist[i] = After(d, due, e)
  <2>1. i \in 1 .. L + K BY <1>6
  <2>2. CASE i \in 1..L BY <1>6, <2>2
  <2>3. CASE \E x \in 1..K : i = L + x
    <3>1. PICK x \in 1..K : i = L + x BY <2>3
    <3>2. r.shist[i] = After(d, due, ends[x]) /\ ends[x] \in 1..D BY <1>5, <1>6, <3>1 DEF end
    <3>3. QED BY <3>2
  <2>4. QED BY <1>10, <2>1, <2>2, <2>3
<1>21. Replays(r, obs)
  BY <1>6, <1>14, <1>15, <1>16, <1>17, <1>18, <1>19 DEF Replays
<1>22. QED BY <1>20, <1>21 DEF L, D

\* r is d after all that waits and is due at t, in the order of due.
Caught(d, obs, t, due, r) ==
  /\ due \in Seq(Measurement) /\ ToSet(due) = {m \in d.queue : m.ts <= t} /\ Ascending(due)
  /\ \A i, j \in 1..Len(due) : i # j => due[i].id # due[j].id
  /\ Replays(r, obs)
  /\ r.queue = d.queue \ ToSet(due)
  /\ r.filt.seen = d.filt.seen \o due
  /\ due = <<>> => r = d
  /\ due # <<>> => r.filt.ts = due[Len(due)].ts
  /\ \A i \in 1..Len(r.shist) :
       \/ i \in 1..Len(d.shist) /\ r.shist[i] = d.shist[i]
       \/ \E e \in 1..Len(due) : r.shist[i] = After(d, due, e)
  /\ Smooth = TRUE =>
       /\ \A j \in 1..Len(d.mhist) : \E k \in 1..Len(r.mhist) : r.mhist[k] = d.mhist[j]
       /\ \A j \in 1..Len(due) : \E k \in 1..Len(r.mhist) : r.mhist[k] = due[j]

LEMMA DueFillsHoles ==
  ASSUME NEW d, NEW obs, Replays(d, obs), NEW t \in Int, \A m \in d.queue : UpTo(d, m.ts)
  PROVE  \E due : Caught(d, obs, t, due, IntegrateDue(d, t))
<1> DEFINE S == {m \in d.queue : m.ts <= t}
           due == InOrder(S)
           ends == Sorted(EndsOf(due), <)
           r == IntegrateDue(d, t)
<1>1. d \in Filter /\ Separate(d) /\ Stages(d) /\ Recorded(d) /\ Accounted(d, obs)
        /\ UpTo(d, d.filt.ts)
  BY DEF Replays
<1>2. S \in SUBSET Measurement /\ IsFiniteSet(S) /\ \A a, b \in S : a.id = b.id => a = b
  <2>1. d.queue \in SUBSET Measurement BY <1>1, FilterTyped
  <2>2. IsFiniteSet(d.queue) /\ \A a, b \in d.queue : a.id = b.id => a = b
    BY <1>1 DEF Separate
  <2>3. S \subseteq d.queue OBVIOUS
  <2>4. QED BY <2>1, <2>2, <2>3, FS_Subset
<1>3. /\ due \in Seq(S) /\ ToSet(due) = S
      /\ \A i, j \in DOMAIN due : i # j => due[i] # due[j]
      /\ Ascending(due)
  <2> HIDE DEF S
  <2>1. QED BY <1>2, InOrderSorts
<1>4. due \in Seq(Measurement) /\ DOMAIN due = 1..Len(due) /\ Len(due) \in Nat
        /\ \A j \in 1..Len(due) : due[j] \in S /\ due[j] \in d.queue
  <2>1. \A j \in 1..Len(due) : due[j] \in S BY <1>3, ElementOfSeq
  <2>2. due \in Seq(Measurement)
    <3> HIDE DEF due
    <3>1. QED BY <1>2, <1>3
  <2> HIDE DEF due
  <2>3. QED BY <2>1, <2>2, LenProperties
<1>5. \A i, j \in 1..Len(due) : i # j => due[i].id # due[j].id
  <2> HIDE DEF due, S
  <2>1. QED BY <1>2, <1>3, <1>4
<1>6. /\ d.filt.seen \in Seq(Measurement) /\ Len(d.filt.seen) \in Nat /\ Len(d.shist) \in Nat
      /\ Len(d.mhist) \in Nat /\ d.mhist \in Seq(Measurement) /\ d.shist \in Seq(FilterState)
      /\ d.queue \in SUBSET Measurement
  BY <1>1, FilterTyped
<1>7. CASE due = <<>>
  <2>1. r = d BY <1>7 DEF IntegrateDue
  <2>2. d.filt.seen \o due = d.filt.seen BY <1>6, <1>7, ConcatEmptySeq
  <2>3. ToSet(due) = {} BY <1>7 DEF ToSet
  <2>4. \A j \in 1..Len(due) : FALSE BY <1>7
  <2> HIDE DEF r, due
  <2>5. \A j \in 1..Len(d.mhist) : \E k \in 1..Len(d.mhist) : d.mhist[k] = d.mhist[j]
    OBVIOUS
  <2>6. Caught(d, obs, t, due, r)
    BY <1>3, <1>4, <1>7, <2>1, <2>2, <2>3, <2>4, <2>5 DEF Caught
  <2>7. QED BY <2>6 DEF r, due
<1>8. CASE due # <<>> /\ Smooth = FALSE
  <2>1. r = [d EXCEPT !.queue = @ \ ToSet(due), !.filt = After(d, due, Len(due))]
    BY <1>8 DEF IntegrateDue, After
  <2> DEFINE D == Len(due)
             N == Len(d.filt.seen)
  <2> HIDE DEF due, r, ends, S
  <2>2. D \in 1..D
    <3>1. D # 0 BY <1>4, <1>8, EmptySeq
    <3>2. QED BY <1>4, <3>1
  <2>3. /\ After(d, due, D) \in FilterState
        /\ After(d, due, D).ts = due[D].ts
        /\ Len(After(d, due, D).seen) = N + D
        /\ \A p \in 1..N : After(d, due, D).seen[p] = d.filt.seen[p]
        /\ \A y \in 1..D : After(d, due, D).seen[N + y] = due[y]
    BY <1>1, <1>4, <2>2, AfterTyped
  <2>4. Len(d.shist) = 0 BY <1>1, <1>8 DEF Stages
  <2>5. Len(d.mhist) = 0
    <3>1. \A j \in 1..Len(d.mhist) : FALSE BY <1>1, <2>4 DEF Recorded
    <3>2. QED BY <1>6, <3>1
  <2>6. /\ r \in Filter /\ r.mhist = d.mhist /\ r.shist = d.shist
        /\ r.queue = d.queue \ ToSet(due) /\ r.filt = After(d, due, D)
    BY <1>1, <2>1, <2>3 DEF Filter
  <2>7. \A p \in 1 .. N + D : p \in 1..N \/ \E y \in 1..D : p = N + y
    BY <1>4, <1>6, PlacesAppended
  <2>8. Separate(r)
    <3>1. IsFiniteSet(d.queue) /\ \A a, b \in d.queue : a.id = b.id => a = b
      BY <1>1 DEF Separate
    <3>2. r.queue \subseteq d.queue BY <2>6
    <3>3. IsFiniteSet(r.queue) BY <3>1, <3>2, FS_Subset
    <3>4. QED BY <2>5, <2>6, <3>1, <3>2, <3>3 DEF Separate
  <2>9. Stages(r)
    <3>1. Ascending(d.mhist) /\ Ascending(d.shist) BY <1>1 DEF Stages
    <3>2. QED BY <2>4, <2>6, <3>1 DEF Stages
  <2>10. Recorded(r) BY <2>5, <2>6 DEF Recorded
  <2>11. Requeues(r) BY <2>4, <2>6 DEF Requeues
  <2>12. UpTo(r, r.filt.ts) BY <2>4, <2>5, <2>6 DEF UpTo
  <2>13. Accounted(r, obs)
    <3>1. /\ \A x, y \in obs : x.id = y.id => x.ts = y.ts
          /\ \A m \in d.queue : FromObserved(m, obs)
          /\ \A p \in 1..N : FromObserved(d.filt.seen[p], obs)
      BY <1>1 DEF Accounted
    <3>a. /\ \A p \in 1..N : r.filt.seen[p] = d.filt.seen[p]
          /\ \A y \in 1..D : r.filt.seen[N + y] = due[y] /\ due[y] \in d.queue
          /\ Len(r.filt.seen) = N + D
      BY <1>4, <2>3, <2>6
    <3>b. /\ \A p \in 1..N : p \in 1 .. N + D
          /\ \A y \in 1..D : N + y \in 1 .. N + D
      BY <1>4, <1>6, PlacesAppended
    <3>c. \A p \in 1..Len(d.filt.seen) : p \in 1..N OBVIOUS
    <3>d. \A m \in d.queue \ ToSet(due) : m \in r.queue BY <2>6
    <3>e. \A m \in ToSet(due) : \E y \in 1..D : m = due[y] BY <1>4 DEF ToSet
    <3> HIDE DEF N, D
    <3>2. \A p \in 1 .. N + D : FromObserved(r.filt.seen[p], obs)
      BY <2>7, <3>1, <3>a
    <3>3. ASSUME NEW o \in obs PROVE Has(r.filt.seen, o.id) \/ Waits(r, o.id)
      <4>1. Has(d.filt.seen, o.id) \/ Waits(d, o.id) BY <1>1 DEF Accounted
      <4>3. CASE Has(d.filt.seen, o.id)
        <5>1. PICK p \in 1..N : d.filt.seen[p].id = o.id BY <3>c, <4>3 DEF Has
        <5>2. QED BY <3>a, <3>b, <5>1 DEF Has
      <4>4. CASE Waits(d, o.id)
        <5>1. PICK m \in d.queue : m.id = o.id BY <4>4 DEF Waits
        <5>2. CASE m \in r.queue BY <5>1, <5>2 DEF Waits
        <5>3. CASE m \notin r.queue
          <6>1. PICK y \in 1..D : m = due[y] BY <3>d, <3>e, <5>3
          <6>2. QED BY <3>a, <3>b, <5>1, <6>1 DEF Has
        <5>4. QED BY <5>2, <5>3
      <4>5. QED BY <4>1, <4>3, <4>4
    <3>4. \A m \in r.queue : FromObserved(m, obs) BY <2>6, <3>1
    <3>5. QED BY <2>5, <2>6, <3>1, <3>2, <3>3, <3>4, <3>a DEF Accounted
  <2>14. Replays(r, obs) BY <2>6, <2>8, <2>9, <2>10, <2>11, <2>12, <2>13 DEF Replays
  <2>15. SubSeq(due, 1, D) = due BY <1>4, SubSeqFull
  <2>16. r.filt.seen = d.filt.seen \o due /\ r.filt.ts = due[D].ts
    <3>1. After(d, due, D).seen = d.filt.seen \o SubSeq(due, 1, D) BY DEF After
    <3>2. QED BY <2>3, <2>6, <2>15, <3>1
  <2>17. \A i \in 1..Len(r.shist) : FALSE BY <2>4, <2>6
  <2>18. Caught(d, obs, t, due, r)
    BY <1>3, <1>4, <1>5, <1>8, <2>6, <2>14, <2>16, <2>17 DEF Caught, S
  <2>19. QED BY <2>18 DEF r, due
<1>9. CASE due # <<>> /\ Smooth = TRUE
  <2> DEFINE new == [j \in DOMAIN ends |-> After(d, due, ends[j])]
  <2>1. r = [queue |-> d.queue \ ToSet(due), mhist |-> d.mhist \o due,
             shist |-> d.shist \o new, filt |-> After(d, due, Len(due))]
    <3>1. d = [queue |-> d.queue, mhist |-> d.mhist, shist |-> d.shist, filt |-> d.filt]
      BY <1>1 DEF Filter
    <3>2. r = [d EXCEPT !.queue = @ \ ToSet(due), !.filt = After(d, due, Len(due)),
                        !.mhist = @ \o due, !.shist = @ \o new]
      BY <1>9 DEF IntegrateDue, After, EndsOf
    <3> HIDE DEF r, due, new
    <3>3. QED BY <3>1, <3>2
  <2>2. EndsAre(ends, due)
    <3> HIDE DEF due
    <3>1. Len(due) \in Nat /\ EndsOf(due) \in SUBSET (1..Len(due))
      BY <1>3, <1>4, EndsOfDue, LenProperties
    <3>2. QED BY <3>1, NumbersSorted DEF EndsAre
  <2>3. \A j \in 1..Len(due) : due[j] \in d.queue /\ UpTo(d, due[j].ts) BY <1>4
  <2> HIDE DEF due, ends, r, S
  <2>4. Appended(d, due, ends, r)
    <3>1. d.queue \ ToSet(due) \in SUBSET Measurement BY <1>6
    <3> HIDE DEF new
    <3>2. Appended(d, due, ends,
            [queue |-> d.queue \ ToSet(due), mhist |-> d.mhist \o due,
             shist |-> d.shist \o [j \in DOMAIN ends |-> After(d, due, ends[j])],
             filt |-> After(d, due, Len(due))])
      <4>1. due \in Seq(Measurement) /\ due # <<>> /\ Ascending(due) BY <1>3, <1>4, <1>9
      <4>2. QED BY <1>1, <2>2, <3>1, <4>1, AppendedHere
    <3>3. QED BY <2>1, <3>2 DEF new
  <2> HIDE DEF new
  <2>5. r.queue = d.queue \ ToSet(due) BY <2>1
  <2>6. /\ Replays(r, obs)
        /\ \A i \in 1..Len(r.shist) :
              \/ i \in 1..Len(d.shist) /\ r.shist[i] = d.shist[i]
              \/ \E e \in 1..Len(due) : r.shist[i] = After(d, due, e)
    BY <1>3, <1>4, <1>5, <1>9, <2>2, <2>3, <2>4, <2>5, AppendFillsHoles
  <2>7. SubSeq(due, 1, Len(due)) = due BY <1>4, SubSeqFull
  <2>8. r.filt.seen = d.filt.seen \o due /\ r.filt.ts = due[Len(due)].ts
    <3>1. /\ After(d, due, Len(due)).seen = d.filt.seen \o SubSeq(due, 1, Len(due))
          /\ After(d, due, Len(due)).ts = due[Len(due)].ts
      BY DEF After
    <3>2. QED BY <2>4, <2>7, <3>1 DEF Appended
  <2>9. /\ Len(r.mhist) = Len(d.mhist) + Len(due)
        /\ \A j \in 1..Len(d.mhist) : r.mhist[j] = d.mhist[j]
        /\ \A j \in 1..Len(due) : r.mhist[Len(d.mhist) + j] = due[j]
    BY <2>4 DEF Appended
  <2>10. \A j \in 1..Len(d.mhist) : \E k \in 1..Len(r.mhist) : r.mhist[k] = d.mhist[j]
    <3>1. \A j \in 1..Len(d.mhist) : j \in 1..Len(r.mhist) BY <1>4, <1>6, <2>9, PlacesAppended
    <3>2. QED BY <2>9, <3>1
  <2>11. \A j \in 1..Len(due) : \E k \in 1..Len(r.mhist) : r.mhist[k] = due[j]
    <3>1. \A j \in 1..Len(due) : Len(d.mhist) + j \in 1..Len(r.mhist)
      BY <1>4, <1>6, <2>9, PlacesAppended
    <3>2. QED BY <2>9, <3>1
  <2>12. Caught(d, obs, t, due, r)
    BY <1>3, <1>4, <1>5, <1>9, <2>5, <2>6, <2>8, <2>10, <2>11 DEF Caught, S
  <2>13. QED BY <2>12 DEF r, due
<1>10. Smooth \in BOOLEAN BY ReplayAssumption
<1>11. QED BY <1>7, <1>8, <1>9, <1>10

\* What _integrate_measurements integrates into: all that waits comes behind the histories,
\* and unless the history did not reach back, behind all that the filter has.
LEMMA BaseFillsHoles ==
  ASSUME NEW d, NEW obs, Replays(d, obs)
  PROVE  LET b == Base(d)
         IN  /\ Replays(b, obs) /\ b.filt.ts <= d.filt.ts /\ d.queue \subseteq b.queue
             /\ \A m \in b.queue : UpTo(b, m.ts)
             /\ \A j \in 1..Len(d.mhist) :
                  d.mhist[j] \in b.queue \/ \E k \in 1..Len(b.mhist) : b.mhist[k] = d.mhist[j]
             /\ Smooth = TRUE /\ Orderly(d) /\ ~TooLate(d) =>
                  /\ Orderly(b)
                  /\ \A m \in b.queue : \A p \in 1..Len(b.filt.seen) : b.filt.seen[p].ts <= m.ts
                  /\ Once(d.filt.seen) /\ ~Doubles(d) =>
                       /\ Once(b.filt.seen)
                       /\ \A m \in b.queue : \A p \in 1..Len(b.filt.seen) : b.filt.seen[p].id # m.id
<1> DEFINE b == Base(d)
           h == Head(InOrder(d.queue)).ts
<1>1. d \in Filter /\ UpTo(d, d.filt.ts) /\ Separate(d) /\ Stages(d) /\ Recorded(d)
        /\ Accounted(d, obs)
  BY DEF Replays
<1>2. /\ d.queue \in SUBSET Measurement /\ d.filt.ts \in Nat /\ Len(d.filt.seen) \in Nat
      /\ DOMAIN d.filt.seen = 1..Len(d.filt.seen)
      /\ \A p \in 1..Len(d.filt.seen) : d.filt.seen[p].ts \in Nat
      /\ Len(d.mhist) \in Nat /\ Len(d.shist) \in Nat
      /\ d.filt.seen \in Seq(Measurement)
      /\ \A i \in 1..Len(d.shist) : d.shist[i].ts \in Nat
  BY <1>1, FilterTyped
<1>3. IsFiniteSet(d.queue) /\ \A x, y \in d.queue : x.id = y.id => x = y
  BY <1>1 DEF Separate
<1>4. \A m \in Measurement : m.ts \in Nat BY NumbersOfMeasurement
<1>5. CASE ~MustRevert(d)
  <2>1. b = d BY <1>5 DEF Base
  <2>2. ASSUME Smooth = TRUE, NEW m \in d.queue PROVE d.filt.ts <= m.ts
    <3>1. h \in Nat /\ h <= m.ts BY <1>2, <1>3, HeadIsLeast
    <3>2. ~(h < d.filt.ts) BY <1>5, <2>2 DEF MustRevert
    <3>3. m.ts \in Nat BY <1>2, <1>4
    <3> HIDE DEF h
    <3>4. QED BY <1>2, <3>1, <3>2, <3>3
  <2>3. ASSUME NEW m \in d.queue PROVE UpTo(d, m.ts)
    <3>1. CASE Smooth = TRUE
      <4>1. d.filt.ts \in Int /\ m.ts \in Int BY <1>2, <1>4
      <4>2. QED BY <1>1, <2>2, <3>1, <4>1, UpToLater
    <3>2. CASE Smooth = FALSE
      <4>1. Len(d.shist) = 0 BY <1>1, <3>2 DEF Stages
      <4>2. \A j \in 1..Len(d.mhist) : FALSE BY <1>1, <4>1 DEF Recorded
      <4>3. QED BY <4>1, <4>2 DEF UpTo
    <3>3. QED BY <3>1, <3>2, ReplayAssumption
  <2>4. ASSUME Smooth = TRUE, Orderly(d), NEW m \in d.queue, NEW p \in 1..Len(d.filt.seen)
        PROVE  d.filt.seen[p].ts <= m.ts
    <3>1. d.filt.seen[p].ts <= d.filt.ts BY <2>4 DEF Orderly
    <3>2. d.filt.ts <= m.ts /\ m.ts \in Nat BY <1>2, <1>4, <2>2, <2>4
    <3>3. QED BY <1>2, <3>1, <3>2
  <2>5. ASSUME ~Doubles(d), NEW m \in d.queue, NEW p \in 1..Len(d.filt.seen)
        PROVE  d.filt.seen[p].id # m.id
    <3>1. {x.id : x \in d.queue} \cap {x.id : x \in ToSet(d.filt.seen)} = {}
      BY <1>5, <2>5 DEF Doubles
    <3>2. d.filt.seen[p] \in ToSet(d.filt.seen) BY <1>2 DEF ToSet
    <3>3. QED BY <3>1, <3>2
  <2>6. d.filt.ts <= d.filt.ts BY <1>2
  <2>7. \A j \in 1..Len(d.mhist) : \E k \in 1..Len(d.mhist) : d.mhist[k] = d.mhist[j] OBVIOUS
  <2> HIDE DEF b
  <2>8. QED BY <2>1, <2>3, <2>4, <2>5, <2>6, <2>7 DEF b
<1>6. CASE MustRevert(d)
  <2> DEFINE t == RevertTime(d)
  <2>1. d.queue # {} BY <1>6 DEF MustRevert
  <2>2. h \in Nat /\ \A m \in d.queue : h <= m.ts BY <1>2, <1>3, <2>1, HeadIsLeast
  <2>3. t = h - 1 BY DEF RevertTime
  <2>4. ~TooLate(d) => Reaches(d, t) \/ d.filt.seen = <<>> BY <1>6 DEF TooLate
  <2> HIDE DEF h, t
  <2>5. t \in Int BY <2>2, <2>3
  <2>6. b = RevertTo(d, t) BY <1>6 DEF Base, t
  <2> HIDE DEF b
  <2>7. /\ Replays(b, obs) /\ UpTo(b, t) /\ b.filt.ts <= d.filt.ts
        /\ Begins(b.filt.seen, d.filt.seen)
        /\ d.queue \subseteq b.queue
        /\ \A m \in b.queue \ d.queue : t < m.ts /\ m.ts <= d.filt.ts
        /\ \A j \in 1..Len(d.mhist) :
             d.mhist[j] \in b.queue \/ \E k \in 1..Len(b.mhist) : b.mhist[k] = d.mhist[j]
        /\ Reaches(d, t) => \E i \in 1..Len(d.shist) : b.filt = d.shist[i] /\ d.shist[i].ts <= t
        /\ \A i \in 1..Len(b.shist) : i \in 1..Len(d.shist) /\ b.shist[i] = d.shist[i]
    BY <2>5, <2>6, RevertFillsHoles
  <2>8. b \in Filter /\ Accounted(b, obs) BY <2>7 DEF Replays
  <2>9. /\ b.queue \in SUBSET Measurement /\ Len(b.filt.seen) \in Nat
        /\ DOMAIN b.filt.seen = 1..Len(b.filt.seen)
        /\ \A p \in 1..Len(b.filt.seen) : b.filt.seen[p].ts \in Nat
        /\ b.filt.ts \in Nat
    BY <2>8, FilterTyped
  <2>10. ASSUME NEW m \in b.queue PROVE t < m.ts /\ m.ts \in Nat
    <3>1. m.ts \in Nat BY <1>4, <2>9
    <3>2. CASE m \in d.queue BY <2>2, <2>3, <3>1, <3>2
    <3>3. CASE m \notin d.queue BY <2>7, <3>1, <3>3
    <3>4. QED BY <3>2, <3>3
  <2>11. ASSUME NEW m \in b.queue PROVE UpTo(b, m.ts)
    <3>1. t <= m.ts /\ m.ts \in Int BY <2>5, <2>10
    <3>2. QED BY <2>5, <2>7, <2>8, <3>1, UpToLater
  <2>12. /\ Len(b.filt.seen) <= Len(d.filt.seen)
         /\ \A p \in 1..Len(b.filt.seen) :
              p \in 1..Len(d.filt.seen) /\ b.filt.seen[p] = d.filt.seen[p]
    BY <1>2, <2>7, <2>9 DEF Begins
  <2>13. ASSUME Orderly(d), Reaches(d, t) \/ d.filt.seen = <<>>
         PROVE  /\ Orderly(b)
                /\ \A p \in 1..Len(b.filt.seen) : b.filt.seen[p].ts <= t
    <3>1. Ascending(b.filt.seen)
      BY <1>2, <2>9, <2>12, <2>13 DEF Orderly, Ascending
    <3>2. \A i \in 1..Len(b.shist) : \A p \in 1..Len(b.shist[i].seen) :
            b.shist[i].seen[p].ts <= b.shist[i].ts
      BY <2>7, <2>13 DEF Orderly
    <3>3. ASSUME NEW p \in 1..Len(b.filt.seen)
          PROVE  b.filt.seen[p].ts <= b.filt.ts /\ b.filt.seen[p].ts <= t
      <4>1. CASE Reaches(d, t)
        <5>1. PICK i \in 1..Len(d.shist) : b.filt = d.shist[i] /\ d.shist[i].ts <= t
          BY <2>7, <4>1
        <5>2. b.filt.seen[p].ts <= b.filt.ts BY <2>13, <5>1 DEF Orderly
        <5>3. b.filt.ts <= t BY <5>1
        <5>4. QED BY <2>5, <2>9, <5>2, <5>3
      <4>2. CASE d.filt.seen = <<>>
        <5>1. Len(d.filt.seen) = 0 BY <4>2
        <5>2. QED BY <2>12, <5>1
      <4>3. QED BY <2>13, <4>1, <4>2
    <3>4. QED BY <3>1, <3>2, <3>3 DEF Orderly
  <2>14. ASSUME Orderly(d), ~TooLate(d), NEW m \in b.queue, NEW p \in 1..Len(b.filt.seen)
         PROVE  b.filt.seen[p].ts < m.ts /\ b.filt.seen[p].id # m.id
    <3>1. b.filt.seen[p].ts <= t BY <2>4, <2>13, <2>14
    <3>2. t < m.ts /\ m.ts \in Nat BY <2>10
    <3>3. b.filt.seen[p].ts < m.ts BY <2>5, <2>9, <3>1, <3>2
    <3>4. PICK x \in obs : x.id = m.id /\ x.ts = m.ts BY <2>8 DEF Accounted, FromObserved
    <3>5. PICK y \in obs : y.id = b.filt.seen[p].id /\ y.ts = b.filt.seen[p].ts
      BY <2>8 DEF Accounted, FromObserved
    <3>6. x.id = y.id => x.ts = y.ts BY <1>1 DEF Accounted
    <3>7. m.ts # b.filt.seen[p].ts BY <2>9, <3>2, <3>3
    <3>8. QED BY <3>3, <3>4, <3>5, <3>6, <3>7
  <2>15. ASSUME Once(d.filt.seen) PROVE Once(b.filt.seen)
    BY <1>2, <2>9, <2>12, <2>15 DEF Once
  <2>16. ASSUME Orderly(d), ~TooLate(d), NEW m \in b.queue, NEW p \in 1..Len(b.filt.seen)
         PROVE  b.filt.seen[p].ts <= m.ts
    <3>1. b.filt.seen[p].ts < m.ts BY <2>14, <2>16
    <3>2. m.ts \in Nat /\ b.filt.seen[p].ts \in Nat BY <2>9, <2>10
    <3>3. QED BY <3>1, <3>2
  <2>17. Orderly(d) /\ ~TooLate(d) => Orderly(b) BY <2>4, <2>13
  <2>18. QED BY <2>7, <2>11, <2>14, <2>15, <2>16, <2>17 DEF b
<1>7. QED BY <1>5, <1>6

LEMMA CaughtInOrder ==
  ASSUME NEW d, NEW obs, Replays(d, obs), NEW t, NEW due, NEW r, Caught(d, obs, t, due, r),
         Orderly(d),
         \A m \in d.queue : \A p \in 1..Len(d.filt.seen) : d.filt.seen[p].ts <= m.ts
  PROVE  /\ Orderly(r)
         /\ Once(d.filt.seen)
              /\ (\A m \in d.queue : \A p \in 1..Len(d.filt.seen) : d.filt.seen[p].id # m.id)
            => Once(r.filt.seen)
<1> DEFINE seen == d.filt.seen
           N == Len(seen)
           D == Len(due)
<1>1. /\ due \in Seq(Measurement) /\ ToSet(due) = {m \in d.queue : m.ts <= t}
      /\ Ascending(due) /\ Replays(r, obs)
      /\ \A i, j \in 1..D : i # j => due[i].id # due[j].id
      /\ r.filt.seen = seen \o due
      /\ due = <<>> => r = d
      /\ due # <<>> => r.filt.ts = due[D].ts
      /\ \A i \in 1..Len(r.shist) :
           \/ i \in 1..Len(d.shist) /\ r.shist[i] = d.shist[i]
           \/ \E e \in 1..D : r.shist[i] = After(d, due, e)
  BY DEF Caught
<1>2. d \in Filter /\ r \in Filter BY <1>1 DEF Replays
<1>3. CASE due = <<>> BY <1>1, <1>3
<1>4. CASE due # <<>>
  <2>1. /\ seen \in Seq(Measurement) /\ N \in Nat /\ DOMAIN seen = 1..N
        /\ \A p \in 1..N : seen[p].ts \in Nat
    BY <1>2, FilterTyped
  <2>2. D \in Nat /\ DOMAIN due = 1..D /\ \A j \in 1..D : due[j].ts \in Nat /\ due[j] \in d.queue
    <3>1. D \in Nat /\ DOMAIN due = 1..D /\ \A j \in 1..D : due[j] \in Measurement
      BY <1>1, ElementOfSeq, LenProperties
    <3>2. \A j \in 1..D : due[j] \in ToSet(due) BY <3>1 DEF ToSet
    <3>3. QED BY <1>1, <3>1, <3>2, NumbersOfMeasurement
  <2>3. D \in 1..D
    <3>1. D # 0 BY <1>1, <1>4, EmptySeq
    <3>2. QED BY <2>2, <3>1
  <2>4. \A j \in 1..D : \A p \in 1..N : seen[p].ts <= due[j].ts BY <2>2
  <2>5. \A i, j \in 1..D : i <= j => due[i].ts <= due[j].ts
    <3>1. SUFFICES ASSUME NEW i \in 1..D, NEW j \in 1..D, i <= j PROVE due[i].ts <= due[j].ts
      OBVIOUS
    <3>2. CASE i = j BY <2>2, <3>2
    <3>3. CASE i < j BY <1>1, <2>2, <3>3 DEF Ascending
    <3>4. QED BY <2>2, <3>1, <3>2, <3>3
  <2>6. ASSUME NEW e \in 1..D
        PROVE  /\ After(d, due, e).ts = due[e].ts
               /\ Len(After(d, due, e).seen) = N + e
               /\ \A p \in 1..N : After(d, due, e).seen[p] = seen[p]
               /\ \A y \in 1..e : After(d, due, e).seen[N + y] = due[y]
    BY <1>1, <1>2, AfterTyped
  <2> HIDE DEF seen, N, D
  <2>7. /\ Len(r.filt.seen) = N + D
        /\ \A i \in 1..N : r.filt.seen[i] = seen[i]
        /\ \A j \in 1..D : r.filt.seen[N + j] = due[j]
        /\ DOMAIN r.filt.seen = 1 .. N + D
    <3>1. /\ seen \o due \in Seq(Measurement) /\ Len(seen \o due) = N + D
          /\ \A i \in 1..N : (seen \o due)[i] = seen[i]
          /\ \A j \in 1..D : (seen \o due)[N + j] = due[j]
      BY <1>1, <2>1, Appending DEF N, D
    <3>2. DOMAIN (seen \o due) = 1 .. N + D BY <3>1, LenProperties
    <3>3. QED BY <1>1, <3>1, <3>2
  <2>8. \A x \in 1 .. N + D : x \in 1..N \/ \E y \in 1..D : x = N + y
    BY <2>1, <2>2, PlacesAppended
  <2>9. Ascending(r.filt.seen)
    <3>1. SUFFICES ASSUME NEW i \in 1 .. N + D, NEW j \in 1 .. N + D, i < j
                   PROVE  r.filt.seen[i].ts <= r.filt.seen[j].ts
      BY <2>7 DEF Ascending
    <3>2. CASE j \in 1..N
      <4>1. i \in 1..N BY <2>1, <3>1, <3>2
      <4>2. QED BY <2>1, <2>7, <3>1, <3>2, <4>1 DEF Orderly, Ascending, seen
    <3>3. CASE \E y \in 1..D : j = N + y
      <4>1. PICK y \in 1..D : j = N + y BY <3>3
      <4>2. CASE i \in 1..N BY <2>4, <2>7, <4>1, <4>2
      <4>3. CASE \E x \in 1..D : i = N + x
        <5>1. PICK x \in 1..D : i = N + x BY <4>3
        <5>2. x <= y BY <2>1, <2>2, <3>1, <4>1, <5>1
        <5>3. QED BY <2>5, <2>7, <4>1, <5>1, <5>2
      <4>4. QED BY <2>8, <4>2, <4>3
    <3>4. QED BY <2>8, <3>2, <3>3
  <2>10. ASSUME Once(seen), \A m \in d.queue : \A p \in 1..N : seen[p].id # m.id
         PROVE  Once(r.filt.seen)
    <3>1. SUFFICES ASSUME NEW i \in 1 .. N + D, NEW j \in 1 .. N + D, i # j
                   PROVE  r.filt.seen[i].id # r.filt.seen[j].id
      BY <2>7 DEF Once
    <3>2. \A y \in 1..D : \A p \in 1..N : seen[p].id # due[y].id BY <2>2, <2>10
    <3>3. CASE i \in 1..N /\ j \in 1..N
      BY <2>1, <2>7, <2>10, <3>1, <3>3 DEF Once
    <3>4. CASE i \in 1..N /\ \E y \in 1..D : j = N + y BY <2>7, <3>2, <3>4
    <3>5. CASE j \in 1..N /\ \E y \in 1..D : i = N + y BY <2>7, <3>2, <3>5
    <3>6. CASE (\E x \in 1..D : i = N + x) /\ (\E y \in 1..D : j = N + y)
      <4>1. PICK x \in 1..D : i = N + x BY <3>6
      <4>2. PICK y \in 1..D : j = N + y BY <3>6
      <4>3. x # y BY <3>1, <4>1, <4>2
      <4>4. due[x].id # due[y].id BY <1>1, <4>3 DEF D
      <4>5. r.filt.seen[i] = due[x] /\ r.filt.seen[j] = due[y] BY <2>7, <4>1, <4>2
      <4>6. QED BY <4>4, <4>5
    <3>7. QED BY <2>8, <3>3, <3>4, <3>5, <3>6
  <2>11. ASSUME NEW p \in 1 .. N + D PROVE r.filt.seen[p].ts <= due[D].ts
    <3>1. CASE p \in 1..N BY <2>3, <2>4, <2>7, <3>1
    <3>2. CASE \E y \in 1..D : p = N + y
      <4>1. PICK y \in 1..D : p = N + y BY <3>2
      <4>2. y <= D BY <2>2
      <4>3. QED BY <2>3, <2>5, <2>7, <4>1, <4>2
    <3>3. QED BY <2>8, <3>1, <3>2
  <2>12. ASSUME NEW i \in 1..Len(r.shist), NEW p \in 1..Len(r.shist[i].seen)
         PROVE  r.shist[i].seen[p].ts <= r.shist[i].ts
    <3>1. CASE i \in 1..Len(d.shist) /\ r.shist[i] = d.shist[i]
      BY <3>1 DEF Orderly
    <3>2. CASE \E e \in 1..D : r.shist[i] = After(d, due, e)
      <4>1. PICK e \in 1..D : r.shist[i] = After(d, due, e) BY <3>2
      <4>2. /\ r.shist[i].ts = due[e].ts /\ Len(r.shist[i].seen) = N + e
            /\ \A x \in 1..N : r.shist[i].seen[x] = seen[x]
            /\ \A x \in 1..e : r.shist[i].seen[N + x] = due[x]
        BY <2>6, <4>1
      <4>3. e \in Nat /\ e <= D BY <2>2
      <4>4. CASE p \in 1..N BY <2>4, <4>2, <4>4
      <4>5. CASE \E x \in 1..e : p = N + x
        <5>1. PICK x \in 1..e : p = N + x BY <4>5
        <5>2. x \in 1..D /\ x <= e BY <2>2, <4>3
        <5>3. QED BY <2>5, <4>2, <5>1, <5>2
      <4>6. \A x \in 1 .. N + e : x \in 1..N \/ \E y \in 1..e : x = N + y
        BY <2>1, <4>3, PlacesAppended
      <4>7. p \in 1 .. N + e BY <4>2
      <4>8. QED BY <4>4, <4>5, <4>6, <4>7
    <3>3. QED BY <1>1, <3>1, <3>2
  <2>13. r.filt.ts = due[D].ts BY <1>1, <1>4
  <2>14. Orderly(r) BY <2>7, <2>9, <2>11, <2>12, <2>13 DEF Orderly
  <2>15. QED BY <2>10, <2>14 DEF seen, N
<1>5. QED BY <1>3, <1>4

\* What is in the history counts with its value.
LEMMA HistoryCounts ==
  ASSUME NEW d, NEW obs, Replays(d, obs), NEW j \in 1..Len(d.mhist)
  PROVE  NewestIs(d.filt.seen, d.mhist[j])
<1> DEFINE L == Len(d.shist)
<1>1. d \in Filter /\ Stages(d) BY DEF Replays
<1>2. L \in Nat BY <1>1, FilterTyped
<1>3. PICK i \in 1..L : \A k \in 1..L : i <= k => NewestIs(d.shist[k].seen, d.mhist[j])
  BY DEF Replays, Recorded
<1>4. L \in 1..L /\ i <= L /\ L > 0 BY <1>2, <1>3
<1>5. NewestIs(d.shist[L].seen, d.mhist[j]) BY <1>3, <1>4
<1>6. Len(d.shist[L].seen) = Len(d.filt.seen) BY <1>1, <1>4 DEF Stages
<1>7. \A p \in 1..Len(d.filt.seen) : d.shist[L].seen[p] = d.filt.seen[p]
  BY <1>1, <1>4, <1>6 DEF Stages, Begins
<1>8. QED BY <1>5, <1>6, <1>7 DEF NewestIs

\* The time of the filter is no part of what the histories say.
LEMMA ProjectFillsHoles ==
  ASSUME NEW d, NEW obs, Replays(d, obs), NEW t \in Times, d.filt.ts <= t
  PROVE  LET r == Project(d, t)
         IN  /\ Replays(r, obs) /\ (Orderly(d) => Orderly(r))
             /\ r.filt.ts = t /\ r.filt.seen = d.filt.seen
<1> DEFINE r == Project(d, t)
<1>1. d \in Filter /\ UpTo(d, d.filt.ts) /\ Separate(d) /\ Stages(d) /\ Recorded(d)
        /\ Requeues(d) /\ Accounted(d, obs)
  BY DEF Replays
<1>2. r = [d EXCEPT !.filt.ts = t] BY DEF Project
<1>3. /\ r.queue = d.queue /\ r.mhist = d.mhist /\ r.shist = d.shist
      /\ r.filt.seen = d.filt.seen /\ r.filt.ts = t /\ r \in Filter
  BY <1>1, <1>2 DEF Filter, FilterState
<1> HIDE DEF r
<1>4. t \in Nat /\ d.filt.ts \in Nat /\ \A p \in 1..Len(d.filt.seen) : d.filt.seen[p].ts \in Nat
  BY <1>1, ReplayAssumption, FilterTyped DEF Times
<1>5. UpTo(r, t)
  <2>1. UpTo(d, t) BY <1>1, <1>4, UpToLater
  <2>2. QED BY <1>3, <2>1 DEF UpTo
<1>6. Separate(r) /\ Stages(r) BY <1>1, <1>3 DEF Separate, Stages
<1>7. Recorded(r) BY <1>1, <1>3 DEF Recorded
<1>8. Requeues(r) BY <1>1, <1>3 DEF Requeues, Waits
<1>9. Accounted(r, obs) BY <1>1, <1>3 DEF Accounted, Waits
<1>10. ASSUME Orderly(d) PROVE Orderly(r)
  <2>1. \A p \in 1..Len(d.filt.seen) : d.filt.seen[p].ts <= t BY <1>4, <1>10 DEF Orderly
  <2>2. QED BY <1>3, <1>10, <2>1 DEF Orderly
<1>11. QED BY <1>3, <1>5, <1>6, <1>7, <1>8, <1>9, <1>10 DEF Replays, r

\* A measurement expires no later than the states at its timestamp, and a state no later than
\* what reverting to it would queue.
LEMMA ExpireFillsHoles ==
  ASSUME NEW d, NEW obs, Replays(d, obs)
  PROVE  LET r == Expire(d)
         IN  /\ Replays(r, obs) /\ (Orderly(d) => Orderly(r))
             /\ r.filt = d.filt /\ r.queue = d.queue
<1> DEFINE cutoff == d.filt.ts - HistoryLength
           M == Len(d.mhist)
           L == Len(d.shist)
           N == Len(d.filt.seen)
           r == Expire(d)
<1>1. d \in Filter /\ UpTo(d, d.filt.ts) /\ Separate(d) /\ Stages(d) /\ Recorded(d)
        /\ Requeues(d) /\ Accounted(d, obs)
  BY DEF Replays
<1>2. /\ M \in Nat /\ L \in Nat
      /\ d.mhist \in Seq(Measurement) /\ d.shist \in Seq(FilterState)
      /\ DOMAIN d.mhist = 1..M /\ DOMAIN d.shist = 1..L
      /\ \A j \in 1..M : d.mhist[j].ts \in Nat
      /\ \A i \in 1..L : d.shist[i].ts \in Nat
  BY <1>1, FilterTyped
<1>3. cutoff \in Int
  <2>1. d.filt.ts \in Nat BY <1>1, FilterTyped
  <2>2. QED BY <2>1, ReplayAssumption
<1>4. CASE Smooth = FALSE
  <2>1. r = d BY <1>4 DEF Expire
  <2>2. QED BY <2>1
<1>5. CASE Smooth = TRUE
  <2>1. (\A s \in FilterState : s.ts \in Int) /\ (\A m \in Measurement : m.ts \in Int)
    BY ReplayAssumption, NumbersOfMeasurement DEF FilterState, Times
  <2>2. Ascending(d.mhist) /\ Ascending(d.shist) BY <1>1 DEF Stages
  <2> HIDE DEF cutoff
  <2> DEFINE ms == PopBefore(d.mhist, cutoff)
             ss == PopBefore(d.shist, cutoff)
  <2>3. PICK b \in 0..M :
           /\ ms \in Seq(Measurement) /\ Len(ms) = M - b
           /\ \A i \in 1 .. M - b : ms[i] = d.mhist[b + i]
           /\ \A i \in 1..M : i <= b <=> d.mhist[i].ts < cutoff
    BY <1>2, <1>3, <2>1, <2>2, PopBeforeKeeps
  <2>4. PICK c \in 0..L :
           /\ ss \in Seq(FilterState) /\ Len(ss) = L - c
           /\ \A i \in 1 .. L - c : ss[i] = d.shist[c + i]
           /\ \A i \in 1..L : i <= c <=> d.shist[i].ts < cutoff
    BY <1>2, <1>3, <2>1, <2>2, PopBeforeKeeps
  <2> HIDE DEF ms, ss
  <2>5. r = [d EXCEPT !.mhist = ms, !.shist = ss] BY <1>5 DEF Expire, ms, ss, cutoff
  <2>6. /\ r \in Filter /\ r.mhist = ms /\ r.shist = ss /\ r.queue = d.queue /\ r.filt = d.filt
    BY <1>1, <2>3, <2>4, <2>5 DEF Filter
  <2>7. /\ Len(r.mhist) = M - b /\ Len(r.shist) = L - c
        /\ DOMAIN r.mhist = 1 .. M - b /\ DOMAIN r.shist = 1 .. L - c
    BY <2>3, <2>4, <2>6, LenProperties
  <2> HIDE DEF r, M, L, N
  <2>8. M \in Nat /\ L \in Nat /\ b \in Nat /\ c \in Nat /\ b <= M /\ c <= L
    BY <1>2, <2>3, <2>4
  <2>9. \A j \in 1..M : j > b => j - b \in 1 .. M - b /\ b + (j - b) = j BY <2>8
  <2>10. \A i \in 1..L : i > c => i - c \in 1 .. L - c /\ c + (i - c) = i BY <2>8
  <2>11. \A j \in 1 .. M - b : b + j \in 1..M /\ r.mhist[j] = d.mhist[b + j] BY <2>3, <2>6, <2>8
  <2>12. \A i \in 1 .. L - c :
           /\ c + i \in 1..L /\ r.shist[i] = d.shist[c + i]
           /\ ~(d.shist[c + i].ts < cutoff)
    <3>1. \A i \in 1 .. L - c : c + i \in 1..L /\ ~(c + i <= c) BY <2>8
    <3>2. QED BY <2>4, <2>6, <3>1
  <2>13. \A j \in 1 .. M - b : ~(d.mhist[b + j].ts < cutoff)
    <3>1. \A j \in 1 .. M - b : b + j \in 1..M /\ ~(b + j <= b) BY <2>8
    <3>2. QED BY <2>3, <3>1
  <2>14. UpTo(r, r.filt.ts) BY <1>1, <2>6, <2>7, <2>11, <2>12 DEF UpTo, M, L
  <2>15. Separate(r)
    <3>1. \A j, k \in 1 .. M - b : j # k => r.mhist[j].id # r.mhist[k].id
      <4>1. \A j, k \in 1..M : j # k => d.mhist[j].id # d.mhist[k].id
        BY <1>1 DEF Separate, M
      <4>2. \A j, k \in 1 .. M - b : j # k => b + j # b + k BY <2>8
      <4>3. QED BY <2>11, <4>1, <4>2
    <3>2. \A m \in d.queue : \A j \in 1 .. M - b : r.mhist[j].id # m.id
      BY <1>1, <2>11 DEF Separate, M
    <3>3. IsFiniteSet(d.queue) /\ \A x, y \in d.queue : x.id = y.id => x = y
      BY <1>1 DEF Separate
    <3>4. QED BY <2>6, <2>7, <3>1, <3>2, <3>3 DEF Separate
  <2>16. Stages(r)
    <3>1. \A i, k \in 1 .. M - b : i < k => b + i < b + k BY <2>8
    <3>2. \A i, k \in 1 .. L - c : (i < k => c + i < c + k) /\ (i <= k => c + i <= c + k)
      BY <2>8
    <3>3. Ascending(r.mhist)
      <4>1. \A i, k \in 1..M : i < k => d.mhist[i].ts <= d.mhist[k].ts
        BY <1>2, <2>2 DEF Ascending, M
      <4>2. \A i, k \in 1 .. M - b : i < k => r.mhist[i].ts <= r.mhist[k].ts
        BY <2>11, <3>1, <4>1
      <4>3. QED BY <2>7, <4>2 DEF Ascending
    <3>4. Ascending(r.shist)
      <4>1. \A i, k \in 1..L : i < k => d.shist[i].ts <= d.shist[k].ts
        BY <1>2, <2>2 DEF Ascending, L
      <4>2. \A i, k \in 1 .. L - c : i < k => r.shist[i].ts <= r.shist[k].ts
        BY <2>12, <3>2, <4>1
      <4>3. QED BY <2>7, <4>2 DEF Ascending
    <3>5. \A i \in 1 .. L - c :
            1 <= Len(r.shist[i].seen) /\ Begins(r.shist[i].seen, r.filt.seen)
      BY <1>1, <2>6, <2>12 DEF Stages, L
    <3>6. \A i, k \in 1 .. L - c : i <= k => Len(r.shist[i].seen) <= Len(r.shist[k].seen)
      <4>1. \A i, k \in 1..L : i <= k => Len(d.shist[i].seen) <= Len(d.shist[k].seen)
        BY <1>1 DEF Stages, L
      <4>2. QED BY <2>12, <3>2, <4>1
    <3>7. L - c > 0 => Len(r.shist[L - c].seen) = Len(r.filt.seen)
      <4>1. SUFFICES ASSUME L - c > 0 PROVE Len(r.shist[L - c].seen) = Len(r.filt.seen)
        OBVIOUS
      <4>2. L - c \in 1 .. L - c /\ c + (L - c) = L /\ L > 0 BY <2>8, <4>1
      <4>3. r.shist[L - c] = d.shist[L] BY <2>12, <4>2
      <4>4. QED BY <1>1, <2>6, <4>2, <4>3 DEF Stages, L
    <3>8. QED BY <1>5, <2>7, <3>3, <3>4, <3>5, <3>6, <3>7 DEF Stages
  <2>17. ASSUME NEW j \in 1 .. M - b
         PROVE  \E i \in 1 .. L - c :
                  /\ r.shist[i].ts = r.mhist[j].ts
                  /\ \A k \in 1 .. L - c : i <= k => NewestIs(r.shist[k].seen, r.mhist[j])
    <3>1. PICK i \in 1..L : /\ d.shist[i].ts = d.mhist[b + j].ts
                            /\ \A k \in 1..L : i <= k => NewestIs(d.shist[k].seen, d.mhist[b + j])
      BY <1>1, <2>11 DEF Recorded, M, L
    <3>2. ~(i <= c) BY <2>4, <2>13, <3>1
    <3>3. i > c BY <2>8, <3>2
    <3>4. i - c \in 1 .. L - c /\ c + (i - c) = i BY <2>10, <3>3
    <3>5. r.shist[i - c].ts = r.mhist[j].ts BY <2>11, <2>12, <3>1, <3>4
    <3>6. \A k \in 1 .. L - c : i - c <= k => i <= c + k BY <2>8
    <3>7. \A k \in 1 .. L - c : i - c <= k => NewestIs(r.shist[k].seen, r.mhist[j])
      BY <2>11, <2>12, <3>1, <3>6
    <3>8. QED BY <3>4, <3>5, <3>7
  <2>18. ASSUME NEW i \in 1 .. L - c, NEW p \in 1..N
         PROVE  \/ Has(r.shist[i].seen, d.filt.seen[p].id)
                \/ Waits(d, d.filt.seen[p].id)
                \/ \E j \in 1 .. M - b :
                     r.mhist[j].id = d.filt.seen[p].id /\ r.shist[i].ts <= r.mhist[j].ts
    <3>1. c + i \in 1..L /\ r.shist[i] = d.shist[c + i] /\ ~(d.shist[c + i].ts < cutoff)
      BY <2>12
    <3>2. CASE \E j \in 1..M : /\ d.mhist[j].id = d.filt.seen[p].id
                               /\ d.shist[c + i].ts <= d.mhist[j].ts
      <4>1. PICK j \in 1..M : /\ d.mhist[j].id = d.filt.seen[p].id
                              /\ d.shist[c + i].ts <= d.mhist[j].ts
        BY <3>2
      <4>2. d.mhist[j].ts \in Nat /\ d.shist[c + i].ts \in Nat BY <1>2, <3>1
      <4>3. ~(d.mhist[j].ts < cutoff) BY <1>3, <3>1, <4>1, <4>2
      <4>4. ~(j <= b) BY <2>3, <4>3
      <4>5. j > b BY <2>8, <4>4
      <4>6. j - b \in 1 .. M - b /\ b + (j - b) = j BY <2>9, <4>5
      <4>7. r.mhist[j - b] = d.mhist[j] BY <2>11, <4>6
      <4>8. QED BY <3>1, <4>1, <4>6, <4>7
    <3>3. CASE Has(d.shist[c + i].seen, d.filt.seen[p].id) \/ Waits(d, d.filt.seen[p].id)
      BY <3>1, <3>3
    <3>4. QED BY <1>1, <3>1, <3>2, <3>3 DEF Requeues, L, M, N
  <2>19. Recorded(r) BY <2>7, <2>17 DEF Recorded
  <2>20. Requeues(r)
    <3>1. \A i : Waits(r, i) <=> Waits(d, i) BY <2>6 DEF Waits
    <3>2. QED BY <2>6, <2>7, <2>18, <3>1 DEF Requeues, N
  <2>21. Accounted(r, obs)
    <3>1. \A i : Waits(r, i) <=> Waits(d, i) BY <2>6 DEF Waits
    <3>2. QED BY <1>1, <2>6, <2>7, <2>11, <3>1 DEF Accounted, M
  <2>22. ASSUME Orderly(d) PROVE Orderly(r)
    BY <2>6, <2>7, <2>12, <2>22 DEF Orderly, L
  <2>23. Replays(r, obs) BY <2>6, <2>14, <2>15, <2>16, <2>19, <2>20, <2>21 DEF Replays
  <2>24. QED BY <2>6, <2>22, <2>23 DEF r
<1>6. Smooth \in BOOLEAN BY ReplayAssumption
<1>7. QED BY <1>4, <1>5, <1>6

\* _integrate_measurements: what waited and is due then counts with its value, and so does
\* what was in the history.
LEMMA IntegrateFillsHoles ==
  ASSUME NEW d, NEW obs, Replays(d, obs), NEW t \in Times, d.filt.ts <= t
  PROVE  LET r == Integrate(d, t)
         IN  /\ Replays(r, obs) /\ r.filt.ts <= t
             /\ Smooth = TRUE /\ Orderly(d) /\ ~TooLate(d) =>
                  Orderly(r) /\ (Once(d.filt.seen) /\ ~Doubles(d) => Once(r.filt.seen))
             /\ Smooth = TRUE =>
                  /\ \A m \in d.queue : m.ts <= t => NewestIs(r.filt.seen, m)
                  /\ \A j \in 1..Len(d.mhist) : NewestIs(r.filt.seen, d.mhist[j])
<1> DEFINE b == Base(d)
           r == IntegrateDue(b, t)
<1>1. /\ Replays(b, obs) /\ b.filt.ts <= d.filt.ts /\ d.queue \subseteq b.queue
      /\ \A m \in b.queue : UpTo(b, m.ts)
      /\ \A j \in 1..Len(d.mhist) :
           d.mhist[j] \in b.queue \/ \E k \in 1..Len(b.mhist) : b.mhist[k] = d.mhist[j]
      /\ Smooth = TRUE /\ Orderly(d) /\ ~TooLate(d) =>
           /\ Orderly(b)
           /\ \A m \in b.queue : \A p \in 1..Len(b.filt.seen) : b.filt.seen[p].ts <= m.ts
           /\ Once(d.filt.seen) /\ ~Doubles(d) =>
                /\ Once(b.filt.seen)
                /\ \A m \in b.queue : \A p \in 1..Len(b.filt.seen) : b.filt.seen[p].id # m.id
  BY BaseFillsHoles
<1>2. t \in Nat /\ t \in Int BY ReplayAssumption DEF Times
<1>3. Integrate(d, t) \in {r, Project(r, t)} BY DEF Integrate, Base
<1> HIDE DEF b
<1>4. PICK due : Caught(b, obs, t, due, r) BY <1>1, <1>2, DueFillsHoles
<1> HIDE DEF r
<1>5. /\ due \in Seq(Measurement) /\ ToSet(due) = {m \in b.queue : m.ts <= t}
      /\ Replays(r, obs)
      /\ due = <<>> => r = b
      /\ due # <<>> => r.filt.ts = due[Len(due)].ts
      /\ Smooth = TRUE =>
           /\ \A j \in 1..Len(b.mhist) : \E k \in 1..Len(r.mhist) : r.mhist[k] = b.mhist[j]
           /\ \A j \in 1..Len(due) : \E k \in 1..Len(r.mhist) : r.mhist[k] = due[j]
  BY <1>4 DEF Caught
<1>6. d \in Filter /\ UpTo(d, d.filt.ts) /\ b \in Filter BY <1>1 DEF Replays
<1>7. /\ d.filt.ts \in Nat /\ b.filt.ts \in Nat
      /\ \A j \in 1..Len(d.mhist) : d.mhist[j].ts \in Nat
  BY <1>6, FilterTyped
<1>8. Len(due) \in Nat /\ DOMAIN due = 1..Len(due) BY <1>5, LenProperties
<1>9. r.filt.ts <= t
  <2>1. CASE due = <<>> BY <1>1, <1>2, <1>5, <1>7, <2>1
  <2>2. CASE due # <<>>
    <3>1. Len(due) # 0 BY <1>5, <2>2, EmptySeq
    <3>2. Len(due) \in DOMAIN due BY <1>8, <3>1
    <3>3. due[Len(due)] \in ToSet(due) BY <3>2 DEF ToSet
    <3>4. due[Len(due)].ts <= t BY <1>5, <3>3
    <3>5. QED BY <1>5, <2>2, <3>4
  <2>3. QED BY <2>1, <2>2
<1>10. ASSUME Smooth = TRUE, NEW m \in b.queue, m.ts <= t PROVE NewestIs(r.filt.seen, m)
  <2>1. m \in ToSet(due) BY <1>5, <1>10
  <2>2. PICK j \in 1..Len(due) : due[j] = m BY <1>8, <2>1 DEF ToSet
  <2>3. PICK k \in 1..Len(r.mhist) : r.mhist[k] = m BY <1>5, <1>10, <2>2
  <2>4. QED BY <1>5, <2>3, HistoryCounts
<1>11. ASSUME Smooth = TRUE, NEW j \in 1..Len(d.mhist) PROVE NewestIs(r.filt.seen, d.mhist[j])
  <2>1. d.mhist[j].ts <= d.filt.ts BY <1>6 DEF UpTo
  <2>2. d.mhist[j].ts <= t BY <1>2, <1>7, <2>1
  <2>3. CASE d.mhist[j] \in b.queue BY <1>10, <1>11, <2>2, <2>3
  <2>4. CASE \E k \in 1..Len(b.mhist) : b.mhist[k] = d.mhist[j]
    <3>1. PICK k \in 1..Len(r.mhist) : r.mhist[k] = d.mhist[j] BY <1>5, <1>11, <2>4
    <3>2. QED BY <1>5, <3>1, HistoryCounts
  <2>5. QED BY <1>1, <2>3, <2>4
<1>12. ASSUME Smooth = TRUE, Orderly(d), ~TooLate(d)
       PROVE  Orderly(r) /\ (Once(d.filt.seen) /\ ~Doubles(d) => Once(r.filt.seen))
  BY <1>1, <1>4, <1>12, CaughtInOrder
<1>13. CASE Integrate(d, t) = r BY <1>5, <1>9, <1>10, <1>11, <1>12, <1>1, <1>13
<1>14. CASE Integrate(d, t) = Project(r, t)
  <2> DEFINE s == Project(r, t)
  <2>1. /\ Replays(s, obs) /\ (Orderly(r) => Orderly(s))
        /\ s.filt.ts = t /\ s.filt.seen = r.filt.seen
    BY <1>5, <1>9, ProjectFillsHoles
  <2>2. t <= t BY <1>2
  <2> HIDE DEF s
  <2>3. QED BY <1>1, <1>10, <1>11, <1>12, <1>14, <2>1, <2>2 DEF s
<1>15. QED BY <1>3, <1>13, <1>14

\* observe() queues a measurement that is new.
LEMMA ObserveFillsHoles ==
  ASSUME NEW d, NEW obs, Replays(d, obs), NEW m \in Measurement, m.id \notin {o.id : o \in obs},
         NEW r \in Filter, r.queue = d.queue \cup {m},
         r.mhist = d.mhist, r.shist = d.shist, r.filt = d.filt
  PROVE  Replays(r, obs \cup {m}) /\ (Orderly(d) => Orderly(r))
<1>1. d \in Filter /\ UpTo(d, d.filt.ts) /\ Separate(d) /\ Stages(d) /\ Recorded(d)
        /\ Requeues(d) /\ Accounted(d, obs)
  BY DEF Replays
<1>2. /\ \A x, y \in obs : x.id = y.id => x.ts = y.ts
      /\ \A x \in d.queue : FromObserved(x, obs)
      /\ \A j \in 1..Len(d.mhist) : FromObserved(d.mhist[j], obs)
      /\ \A p \in 1..Len(d.filt.seen) : FromObserved(d.filt.seen[p], obs)
      /\ \A o \in obs : Has(d.filt.seen, o.id) \/ Waits(d, o.id)
  BY <1>1 DEF Accounted
<1>3. \A x : FromObserved(x, obs) => x.id # m.id /\ FromObserved(x, obs \cup {m})
  BY DEF FromObserved
<1>4. \A i : Waits(d, i) => Waits(r, i) BY DEF Waits
<1>5. UpTo(r, r.filt.ts) BY <1>1 DEF UpTo
<1>6. Separate(r)
  <2>1. /\ IsFiniteSet(d.queue)
        /\ \A x, y \in d.queue : x.id = y.id => x = y
        /\ \A j, k \in 1..Len(d.mhist) : j # k => d.mhist[j].id # d.mhist[k].id
        /\ \A x \in d.queue : \A j \in 1..Len(d.mhist) : d.mhist[j].id # x.id
    BY <1>1 DEF Separate
  <2>2. IsFiniteSet(r.queue) BY <2>1, FS_AddElement
  <2>3. \A x, y \in r.queue : x.id = y.id => x = y BY <1>2, <1>3, <2>1
  <2>4. \A x \in r.queue : \A j \in 1..Len(r.mhist) : r.mhist[j].id # x.id
    BY <1>2, <1>3, <2>1
  <2>5. QED BY <2>1, <2>2, <2>3, <2>4 DEF Separate
<1>7. Stages(r) BY <1>1 DEF Stages
<1>8. Recorded(r) BY <1>1 DEF Recorded
<1>9. Requeues(r) BY <1>1, <1>4 DEF Requeues
<1>10. Accounted(r, obs \cup {m})
  <2>1. \A x, y \in obs \cup {m} : x.id = y.id => x.ts = y.ts BY <1>2
  <2>2. FromObserved(m, obs \cup {m}) BY DEF FromObserved
  <2>3. Waits(r, m.id) BY DEF Waits
  <2>4. \A o \in obs \cup {m} : Has(r.filt.seen, o.id) \/ Waits(r, o.id)
    BY <1>2, <1>4, <2>3
  <2>5. \A x \in r.queue : FromObserved(x, obs \cup {m}) BY <1>2, <1>3, <2>2
  <2>6. QED BY <1>2, <1>3, <2>1, <2>4, <2>5 DEF Accounted
<1>11. Orderly(d) => Orderly(r) BY DEF Orderly
<1>12. QED BY <1>5, <1>6, <1>7, <1>8, <1>9, <1>10, <1>11 DEF Replays

\* clear() drops the histories.
LEMMA ClearFillsHoles ==
  ASSUME NEW d, NEW obs, Replays(d, obs), NEW r,
         r = [queue |-> d.queue, mhist |-> <<>>, shist |-> <<>>, filt |-> d.filt]
  PROVE  Replays(r, obs) /\ (Orderly(d) => Orderly(r))
<1>1. d \in Filter /\ Separate(d) /\ Accounted(d, obs) BY DEF Replays
<1>2. /\ r \in Filter /\ r.mhist = <<>> /\ r.shist = <<>>
      /\ r.queue = d.queue /\ r.filt = d.filt
  <2>1. <<>> \in Seq(Measurement) /\ <<>> \in Seq(FilterState) BY EmptySeq
  <2>2. QED BY <1>1, <2>1 DEF Filter
<1>3. Len(r.mhist) = 0 /\ Len(r.shist) = 0 /\ DOMAIN r.mhist = {} /\ DOMAIN r.shist = {}
  BY <1>2
<1>4. UpTo(r, r.filt.ts) BY <1>3 DEF UpTo
<1>5. Separate(r) BY <1>1, <1>2, <1>3 DEF Separate
<1>6. Stages(r) BY <1>3 DEF Stages, Ascending
<1>7. Recorded(r) BY <1>3 DEF Recorded
<1>8. Requeues(r) BY <1>3 DEF Requeues
<1>9. Accounted(r, obs) BY <1>1, <1>2, <1>3 DEF Accounted, Waits
<1>10. Orderly(d) => Orderly(r) BY <1>2, <1>3 DEF Orderly
<1>11. QED BY <1>2, <1>4, <1>5, <1>6, <1>7, <1>8, <1>9, <1>10 DEF Replays

LEMMA CascadeInvInit == CascadeInit => CascadeInv
<1> SUFFICES ASSUME CascadeInit PROVE CascadeInv
  OBVIOUS
<1>1. /\ Data.queue = {} /\ Data.mhist = <<>> /\ Data.shist = <<>>
      /\ Data.filt.seen = <<>> /\ Data.filt.ts = 0 /\ Data.filt = [ts |-> 0, seen |-> <<>>]
      /\ Data = [queue |-> {}, mhist |-> <<>>, shist |-> <<>>, filt |-> Data.filt]
      /\ filt.seen = <<>>
  BY DEF CascadeInit, Init, Data
<1>2. 0 \in Times /\ now = 0 /\ filt.ts = 0 /\ observed = {} /\ cur = 0
  BY ReplayAssumption DEF CascadeInit, Init, Times
<1>3. Data.filt \in FilterState
  <2>1. <<>> \in Seq(Measurement) BY EmptySeq
  <2>2. QED BY <1>1, <1>2, <2>1 DEF FilterState
<1>4. Data \in Filter
  <2>1. <<>> \in Seq(Measurement) /\ <<>> \in Seq(FilterState) BY EmptySeq
  <2>2. QED BY <1>1, <1>3, <2>1 DEF Filter
<1>5. /\ Len(Data.mhist) = 0 /\ Len(Data.shist) = 0 /\ Len(Data.filt.seen) = 0
      /\ DOMAIN Data.mhist = {} /\ DOMAIN Data.shist = {} /\ DOMAIN Data.filt.seen = {}
      /\ DOMAIN filt.seen = {}
  BY <1>1
<1>6. UpTo(Data, Data.filt.ts) BY <1>5 DEF UpTo
<1>7. Separate(Data)
  <2>1. IsFiniteSet({}) BY FS_EmptySet
  <2>2. QED BY <1>1, <1>5, <2>1 DEF Separate
<1>8. Stages(Data) /\ Recorded(Data) /\ Requeues(Data)
  BY <1>5 DEF Stages, Recorded, Requeues, Ascending
<1>9. Accounted(Data, {}) BY <1>1, <1>5 DEF Accounted
<1>10. Replays(Data, observed) BY <1>2, <1>4, <1>6, <1>7, <1>8, <1>9 DEF Replays
<1>11. Orderly(Data) /\ Once(filt.seen) BY <1>5 DEF Orderly, Ascending, Once
<1>12. QED BY <1>2, <1>10, <1>11 DEF CascadeInv

LEMMA CascadeInvStep == CascadeInv /\ [CascadeNext]_cascadeVars => CascadeInv'
<1> SUFFICES ASSUME CascadeInv, [CascadeNext]_cascadeVars PROVE CascadeInv'
  OBVIOUS
<1>1. /\ Replays(Data, observed) /\ Data.filt = filt
      /\ cur \in Nat /\ now \in Times /\ filt.ts <= now
      /\ Smooth = TRUE /\ ~late => Orderly(Data)
      /\ Smooth = TRUE /\ ~late /\ ~doubled => Once(filt.seen)
  BY DEF CascadeInv, Data
<1>2. Data' = [queue |-> queue', mhist |-> mhist', shist |-> shist', filt |-> filt']
  BY DEF Data
<1>3. Data' = [queue |-> Data'.queue, mhist |-> Data'.mhist, shist |-> Data'.shist,
               filt |-> Data'.filt] /\ Data'.filt = filt'
  BY <1>2
<1>4. Data \in Filter /\ filt.ts \in Nat
  <2>1. Data \in Filter BY <1>1 DEF Replays
  <2>2. QED BY <1>1, <2>1, FilterTyped
<1>5. Times \subseteq Nat BY ReplayAssumption DEF Times
<1>6. ASSUME NEW i \in Ids, NEW t \in 1..MaxTime, CascadeObserve(i, t) PROVE CascadeInv'
  <2> DEFINE m == [id |-> i, ts |-> t, val |-> IF i \in Tracked THEN cur ELSE 0]
  <2>1. m \in Measurement
    <3>1. t \in Times BY ReplayAssumption DEF Times
    <3>2. (IF i \in Tracked THEN cur ELSE 0) \in Nat BY <1>1
    <3>3. QED BY <3>1, <3>2 DEF Measurement
  <2> HIDE DEF m
  <2>2. /\ m.id \notin {o.id : o \in observed}
        /\ queue' = queue \cup {m} /\ observed' = observed \cup {m}
        /\ mhist' = mhist /\ shist' = shist /\ filt' = filt /\ now' = now /\ late' = late
        /\ cur' = cur /\ doubled' = doubled
    BY <1>6 DEF CascadeObserve, Observe, m
  <2>3. /\ Data'.queue = Data.queue \cup {m} /\ Data'.mhist = Data.mhist
        /\ Data'.shist = Data.shist /\ Data'.filt = Data.filt
    BY <1>2, <2>2 DEF Data
  <2>4. Data' \in Filter
    BY <1>3, <1>4, <2>1, <2>3 DEF Filter
  <2>5. Replays(Data', observed \cup {m}) /\ (Orderly(Data) => Orderly(Data'))
    BY <1>1, <2>1, <2>2, <2>3, <2>4, ObserveFillsHoles
  <2>6. QED BY <1>1, <2>2, <2>5 DEF CascadeInv
<1>7. ASSUME NEW t \in Times, CascadePredict(t) PROVE CascadeInv'
  <2> DEFINE d == Cascade(Data)
  <2>1. /\ PredictOn(d, t) /\ doubled' = (doubled \/ (enabled /\ Doubles(d))) /\ cur' = cur
    BY <1>7 DEF CascadePredict
  <2>2. Replays(d, observed) /\ d.filt = filt /\ d.shist = Data.shist
    BY <1>1, CascadeKeeps
  <2> HIDE DEF d
  <2>3. t >= now /\ now' = t /\ observed' = observed BY <2>1 DEF PredictOn
  <2>4. d.filt.ts <= t /\ t \in Nat BY <1>1, <1>4, <1>5, <2>2, <2>3
  <2>5. Smooth = TRUE /\ ~late => Orderly(d) BY <1>1, <2>2 DEF Orderly
  <2>6. ASSUME NEW r, SetData(r), Replays(r, observed), r.filt.ts <= t
        PROVE  /\ Data' = r /\ Replays(Data', observed') /\ now' \in Times /\ filt'.ts <= now'
               /\ filt' = r.filt
    <3>1. r = [queue |-> r.queue, mhist |-> r.mhist, shist |-> r.shist, filt |-> r.filt]
      BY <2>6 DEF Replays, Filter
    <3>2. Data' = r BY <1>2, <2>6, <3>1 DEF SetData
    <3>3. QED BY <1>3, <2>3, <2>6, <3>2
  <2>7. CASE enabled /\ SetData(Expire(Integrate(d, t))) /\ late' = (late \/ TooLate(d))
    <3> DEFINE b == Integrate(d, t)
               r == Expire(b)
    <3>1. /\ Replays(b, observed) /\ b.filt.ts <= t
          /\ Smooth = TRUE /\ Orderly(d) /\ ~TooLate(d) =>
               Orderly(b) /\ (Once(d.filt.seen) /\ ~Doubles(d) => Once(b.filt.seen))
      BY <2>2, <2>4, IntegrateFillsHoles
    <3>2. Replays(r, observed) /\ (Orderly(b) => Orderly(r)) /\ r.filt = b.filt
      <4> HIDE DEF b
      <4>1. QED BY <3>1, ExpireFillsHoles
    <3> HIDE DEF b, r
    <3>3. SetData(r) BY <2>7 DEF r, b
    <3>4. /\ Data' = r /\ Replays(Data', observed') /\ now' \in Times /\ filt'.ts <= now'
          /\ filt' = r.filt
      BY <2>6, <3>1, <3>2, <3>3
    <3>5. Smooth = TRUE /\ ~late' => Orderly(Data') BY <2>5, <2>7, <3>1, <3>2, <3>4
    <3>6. ASSUME Smooth = TRUE, ~late', ~doubled' PROVE Once(filt'.seen)
      <4>1. ~late /\ ~TooLate(d) /\ ~doubled /\ ~Doubles(d) BY <2>1, <2>7, <3>6
      <4>2. Orderly(d) /\ Once(d.filt.seen) BY <1>1, <2>2, <2>5, <3>6, <4>1
      <4>3. QED BY <3>1, <3>2, <3>4, <3>6, <4>1, <4>2
    <3>7. QED BY <1>1, <2>1, <3>4, <3>5, <3>6 DEF CascadeInv
  <2>8. CASE ~enabled /\ SetData(Expire(Project(d, t))) /\ late' = late
    <3> DEFINE b == Project(d, t)
               r == Expire(b)
    <3>1. /\ Replays(b, observed) /\ (Orderly(d) => Orderly(b))
          /\ b.filt.ts = t /\ b.filt.seen = d.filt.seen
      BY <2>2, <2>4, ProjectFillsHoles
    <3>2. Replays(r, observed) /\ (Orderly(b) => Orderly(r)) /\ r.filt = b.filt
      <4> HIDE DEF b
      <4>1. QED BY <3>1, ExpireFillsHoles
    <3> HIDE DEF b, r
    <3>3. SetData(r) BY <2>8 DEF r, b
    <3>4. r.filt.ts <= t BY <2>4, <3>1, <3>2
    <3>5. /\ Data' = r /\ Replays(Data', observed') /\ now' \in Times /\ filt'.ts <= now'
          /\ filt' = r.filt
      BY <2>6, <3>2, <3>3, <3>4
    <3>6. Smooth = TRUE /\ ~late' => Orderly(Data') BY <2>5, <2>8, <3>1, <3>2, <3>5
    <3>7. Smooth = TRUE /\ ~late' /\ ~doubled' => Once(filt'.seen)
      BY <1>1, <2>1, <2>2, <2>8, <3>1, <3>2, <3>5
    <3>8. QED BY <1>1, <2>1, <3>5, <3>6, <3>7 DEF CascadeInv
  <2>9. \/ enabled /\ SetData(Expire(Integrate(d, t))) /\ late' = (late \/ TooLate(d))
        \/ ~enabled /\ SetData(Expire(Project(d, t))) /\ late' = late
    BY <2>1 DEF PredictOn
  <2>10. QED BY <2>7, <2>8, <2>9
<1>8. ASSUME NEW v \in 0..MaxVal, Update(v) PROVE CascadeInv'
  <2>1. /\ UNCHANGED <<queue, mhist, shist, filt, now, observed, late, doubled>> /\ cur' = v
    BY <1>8 DEF Update, vars, dataVars
  <2>2. Data' = Data BY <2>1 DEF Data
  <2>3. cur' \in Nat BY <2>1, CascadeAssumption
  <2>4. QED BY <1>1, <2>1, <2>2, <2>3 DEF CascadeInv
<1>9. CASE Clear /\ UNCHANGED <<cur, updates, doubled>>
  <2>1. mhist' = <<>> /\ shist' = <<>> /\ queue' = queue /\ filt' = filt
          /\ now' = now /\ observed' = observed /\ late' = late /\ cur' = cur /\ doubled' = doubled
    BY <1>9 DEF Clear
  <2>2. Data' = [queue |-> Data.queue, mhist |-> <<>>, shist |-> <<>>, filt |-> Data.filt]
    BY <1>2, <2>1 DEF Data
  <2>3. Replays(Data', observed) /\ (Orderly(Data) => Orderly(Data'))
    BY <1>1, <2>2, ClearFillsHoles
  <2>4. QED BY <1>1, <2>1, <2>3 DEF CascadeInv
<1>10. CASE (Enable /\ UNCHANGED <<cur, updates, doubled>>) \/ UNCHANGED cascadeVars
  <2>1. UNCHANGED <<queue, mhist, shist, filt, now, observed, late, cur, doubled>>
    BY <1>10 DEF Enable, cascadeVars, vars, dataVars
  <2>2. Data' = Data BY <2>1 DEF Data
  <2>3. QED BY <1>1, <2>1, <2>2 DEF CascadeInv
<1>11. QED BY <1>6, <1>7, <1>8, <1>9, <1>10 DEF CascadeNext

LEMMA CascadeInvAlways == CascadeSpec => []CascadeInv
<1>1. QED BY CascadeInvInit, CascadeInvStep, PTL DEF CascadeSpec

\* Taking an updated measurement out of the history and replaying it loses nothing, whatever
\* comes late, expires, is cleared or is updated meanwhile; with smooth_lagged_data and as
\* long as the history reached back and there was something to revert, the new value takes
\* the place of the old one (CascadingReplayFilter.predict).
THEOREM UpdateReplacesHolds == Smooth = TRUE => (CascadeSpec => []UpdateReplaces)
<1>1. ASSUME CascadeInv, Smooth = TRUE PROVE UpdateReplaces
  <2>1. /\ Replays(Data, observed) /\ Data.filt = filt /\ Data.queue = queue
        /\ ~late => Orderly(Data)
        /\ ~late /\ ~doubled => Once(filt.seen)
    BY <1>1 DEF CascadeInv, Data
  <2>2. /\ Data \in Filter
        /\ \A m \in queue : FromObserved(m, observed)
        /\ \A p \in 1..Len(filt.seen) : FromObserved(filt.seen[p], observed)
        /\ \A o \in observed : Has(filt.seen, o.id) \/ Waits(Data, o.id)
    BY <2>1 DEF Replays, Accounted
  <2>3. DOMAIN filt.seen = 1..Len(filt.seen) BY <2>1, <2>2, FilterTyped
  <2>4. SeenIds = {filt.seen[p].id : p \in 1..Len(filt.seen)} BY <2>3 DEF SeenIds, ToSet
  <2>5. ASSUME NEW o \in observed PROVE o.id \in SeenIds \cup {m.id : m \in queue}
    <3>1. CASE Has(filt.seen, o.id) BY <2>4, <3>1 DEF Has
    <3>2. CASE Waits(Data, o.id) BY <2>1, <3>2 DEF Waits
    <3>3. QED BY <2>2, <3>1, <3>2
  <2>6. \A p \in 1..Len(filt.seen) : filt.seen[p].id \in {o.id : o \in observed}
    BY <2>2 DEF FromObserved
  <2>7. \A m \in queue : m.id \in {o.id : o \in observed} BY <2>2 DEF FromObserved
  <2>8. {m.id : m \in observed} = SeenIds \cup {m.id : m \in queue}
    BY <2>4, <2>5, <2>6, <2>7
  <2>9. ~late => Ascending(filt.seen) BY <2>1 DEF Orderly
  <2>10. QED BY <2>1, <2>8, <2>9 DEF UpdateReplaces
<1>2. ASSUME Smooth = TRUE PROVE CascadeSpec => []UpdateReplaces
  <2>1. CascadeInv => UpdateReplaces BY <1>1, <1>2
  <2>2. QED BY <2>1, CascadeInvAlways, PTL
<1>3. QED BY <1>2

\* The value that counts is the one at the last place.
LEMMA LastPlaceCounts ==
  ASSUME NEW q \in Seq(Measurement), NEW e, NewestIs(q, e)
  PROVE  q[Max({k \in DOMAIN q : q[k].id = e.id})].val = e.val
<1> DEFINE S == {k \in DOMAIN q : q[k].id = e.id}
<1>1. Len(q) \in Nat /\ DOMAIN q = 1..Len(q) BY LenProperties
<1>2. PICK k \in 1..Len(q) : /\ q[k].id = e.id /\ q[k].val = e.val
                             /\ \A l \in 1..Len(q) : l > k => q[l].id # e.id
  BY DEF NewestIs
<1>3. k \in S /\ \A y \in S : k >= y BY <1>1, <1>2
<1>4. \A x \in S : (\A y \in S : x >= y) => x = k BY <1>1, <1>3
<1> HIDE DEF S
<1>5. Max(S) = k BY <1>3, <1>4 DEF Max
<1>6. QED BY <1>2, <1>5 DEF S

\* predict() replays each derived measurement of the history with the present value, however
\* late it was, how far the history reaches back, and whatever else waits.
THEOREM UpdatesAppliedHolds == CascadeSpec => UpdatesApplied
<1>1. ASSUME CascadeInv, enabled, NEW t \in Times, CascadePredict(t),
             NEW m \in ToSet(mhist), m.id \in Tracked
      PROVE  filt.seen'[Max({k \in DOMAIN filt.seen' : filt.seen'[k].id = m.id})].val = cur
  <2> DEFINE d == Cascade(Data)
  <2>1. /\ Replays(Data, observed) /\ Data.filt = filt /\ Data.mhist = mhist
        /\ cur \in Nat /\ now \in Times /\ filt.ts <= now
    BY <1>1 DEF CascadeInv, Data
  <2>2. Data \in Filter /\ UpTo(Data, filt.ts) /\ Stages(Data) /\ Recorded(Data)
    BY <2>1 DEF Replays
  <2>3. /\ DOMAIN mhist = 1..Len(mhist) /\ filt.ts \in Nat
        /\ \A j \in 1..Len(mhist) : mhist[j].ts \in Nat
    BY <2>1, <2>2, FilterTyped
  <2>4. PICK j \in 1..Len(mhist) : m = mhist[j] BY <2>3 DEF ToSet
  <2>5. Smooth = TRUE
    <3>1. PICK i \in 1..Len(Data.shist) : TRUE BY <2>1, <2>2, <2>4 DEF Recorded
    <3>2. Len(Data.shist) # 0 BY <3>1
    <3>3. QED BY <2>2, <3>2, ReplayAssumption DEF Stages
  <2>6. /\ Replays(d, observed) /\ d.filt = filt
        /\ \/ \E x \in d.queue : x.id = m.id /\ x.val = cur /\ x.ts = m.ts
           \/ \E k \in 1..Len(d.mhist) : d.mhist[k] = m /\ m.val = cur
    BY <1>1, <2>1, <2>4, CascadeKeeps
  <2>7. PredictOn(d, t) BY <1>1 DEF CascadePredict
  <2> HIDE DEF d
  <2>8. t >= now /\ SetData(Expire(Integrate(d, t))) BY <1>1, <2>7 DEF PredictOn
  <2>9. t \in Nat /\ now \in Nat BY <2>1, ReplayAssumption DEF Times
  <2>10. d.filt.ts <= t BY <2>1, <2>3, <2>6, <2>8, <2>9
  <2>11. m.ts <= t
    <3>1. m.ts <= filt.ts BY <2>1, <2>2, <2>4 DEF UpTo
    <3>2. m.ts \in Nat BY <2>3, <2>4
    <3>3. QED BY <2>3, <2>6, <2>9, <2>10, <3>1, <3>2
  <2> DEFINE b == Integrate(d, t)
             r == Expire(b)
  <2>12. /\ Replays(b, observed)
         /\ \A x \in d.queue : x.ts <= t => NewestIs(b.filt.seen, x)
         /\ \A k \in 1..Len(d.mhist) : NewestIs(b.filt.seen, d.mhist[k])
    BY <2>5, <2>6, <2>10, IntegrateFillsHoles
  <2>13. r.filt = b.filt
    <3> HIDE DEF b
    <3>1. QED BY <2>12, ExpireFillsHoles
  <2>14. filt' = b.filt BY <2>8, <2>13 DEF SetData
  <2> HIDE DEF b, r
  <2>15. PICK e : e.id = m.id /\ e.val = cur /\ NewestIs(b.filt.seen, e)
    <3>1. CASE \E x \in d.queue : x.id = m.id /\ x.val = cur /\ x.ts = m.ts
      BY <2>11, <2>12, <3>1
    <3>2. CASE \E k \in 1..Len(d.mhist) : d.mhist[k] = m /\ m.val = cur
      BY <2>12, <3>2
    <3>3. QED BY <2>6, <3>1, <3>2
  <2>16. b.filt.seen \in Seq(Measurement)
    <3>1. b \in Filter BY <2>12 DEF Replays
    <3>2. QED BY <3>1, FilterTyped
  <2>17. b.filt.seen[Max({k \in DOMAIN b.filt.seen : b.filt.seen[k].id = e.id})].val = e.val
    BY <2>15, <2>16, LastPlaceCounts
  <2>18. QED BY <2>14, <2>15, <2>17
<1> DEFINE Applied ==
             enabled /\ (\E t \in Times : CascadePredict(t))
               => \A m \in ToSet(mhist) :
                    m.id \in Tracked => filt.seen'[Max(Places(m.id)')].val = cur
<1>2. CascadeInv => Applied
  <2>1. SUFFICES ASSUME CascadeInv, enabled, NEW t \in Times, CascadePredict(t),
                        NEW m \in ToSet(mhist), m.id \in Tracked
                 PROVE  filt.seen'[Max(Places(m.id)')].val = cur
    OBVIOUS
  <2>2. Places(m.id)' = {k \in DOMAIN filt.seen' : filt.seen'[k].id = m.id} BY DEF Places
  <2>3. QED BY <1>1, <2>1, <2>2
<1>3. CascadeInv /\ [CascadeNext]_cascadeVars => [Applied]_cascadeVars BY <1>2
<1> HIDE DEF Applied
<1>4. CascadeSpec => [][Applied]_cascadeVars
  BY <1>3, CascadeInvAlways, PTL DEF CascadeSpec
<1>5. QED BY <1>4 DEF UpdatesApplied, Applied
=============================================================================
