---------------------------- MODULE ReplayFilter ----------------------------
(***************************************************************************)
(* ReplayFilter of src/server/estimator/util/replay.py: measurements may   *)
(* come out of order.  The filter keeps a history of its own states and of *)
(* the measurements that it integrated; a late measurement makes it go     *)
(* back to the state before it and integrate again what came after.        *)
(*                                                                         *)
(* The wrapped filter is the one of replay_test.py.  Of its state only the *)
(* time and the sequence of integrated measurements is kept.  One unit of  *)
(* time is a microsecond, the step by which revert_to goes behind the late *)
(* measurement.                                                            *)
(***************************************************************************)
EXTENDS Integers, SequencesExt

CONSTANTS
  Ids,            \* the measurements; their order breaks ties between timestamps
  MaxTime,        \* bound: the last timestamp
  HistoryLength,  \* history_length
  SensorTimeout,  \* sensor_timeout of the wrapped filter
  Smooth,         \* smooth_lagged_data
  PredictToNow    \* predict_to_current_time

ASSUME ReplayAssumption ==
  /\ Ids \subseteq Nat
  /\ MaxTime \in Nat /\ HistoryLength \in Nat /\ SensorTimeout \in Nat
  /\ Smooth \in BOOLEAN /\ PredictToNow \in BOOLEAN

VARIABLES
  queue,      \* _measurement_queue, a heap
  mhist,      \* _measurement_history, a deque
  shist,      \* _filter_state_history, a deque
  filt,       \* the wrapped filter
  enabled,    \* the attribute enabled
  now,        \* the time of the last predict()
  observed,   \* history: the measurements that were given to observe()
  late        \* history: a measurement came for which the state history did not reach back

dataVars == <<queue, mhist, shist, filt>>
vars == <<dataVars, enabled, now, observed, late>>

Times == 0..MaxTime

\* val is the value that a measurement derived from another source had when it
\* was read last; a plain measurement has one value.
Measurement == [id : Ids, ts : Times, val : Nat]

FilterState == [ts : Times, seen : Seq(Measurement)]

\* The order of Measurement, a dataclass with order=True.
Before(a, b) == a.ts < b.ts \/ (a.ts = b.ts /\ a.id < b.id)

\* The elements of S in the order of R.
Sorted(S, R(_, _)) == CHOOSE q \in SetToSeqs(S) : \A i, j \in DOMAIN q : i < j => R(q[i], q[j])

\* The order in which the heap gives its elements out.
InOrder(S) == Sorted(S, Before)

-----------------------------------------------------------------------------
(* The histories *)

PopBefore(q, cutoff) ==
  SubSeq(q, Min({i \in DOMAIN q : q[i].ts >= cutoff} \cup {Len(q) + 1}), Len(q))

PopAfter(q, cutoff) ==
  SubSeq(q, 1, Max({i \in DOMAIN q : q[i].ts <= cutoff} \cup {0}))

\* revert_to succeeds: there is a state that is not younger than t.
Reaches(d, t) == PopAfter(d.shist, t) # <<>>

\* revert_to(t).  Where the history does not reach back, the oldest state is
\* restored, and where there is none, nothing happens.  The measurements from
\* the restored state on are queued again.
RevertTo(d, t) ==
  LET kept   == PopAfter(d.shist, t)
      state  == IF kept # <<>> THEN Last(kept) ELSE Head(d.shist)
      before == PopAfter(d.mhist, t)
      undone == {d.mhist[i] : i \in Len(before) + 1 .. Len(d.mhist)}
  IN IF d.shist = <<>> THEN d
     ELSE [queue |-> d.queue \cup {m \in undone : state.ts <= m.ts},
           mhist |-> before, shist |-> kept, filt |-> state]

\* A mutated form of Expire: the states stay.
ExpireMeasurements(d) ==
  IF Smooth THEN [d EXCEPT !.mhist = PopBefore(@, d.filt.ts - HistoryLength)] ELSE d

Expire(d) ==
  IF Smooth
  THEN [d EXCEPT !.mhist = PopBefore(@, d.filt.ts - HistoryLength),
                 !.shist = PopBefore(@, d.filt.ts - HistoryLength)]
  ELSE d

-----------------------------------------------------------------------------
(* _integrate_measurements *)

\* All that is due is integrated in order, with a snapshot after the last
\* measurement of each timestamp.
IntegrateDue(d, t) ==
  LET due      == InOrder({m \in d.queue : m.ts <= t})
      after(i) == [ts |-> due[i].ts, seen |-> d.filt.seen \o SubSeq(due, 1, i)]
      ends     == Sorted({i \in DOMAIN due : i = Len(due) \/ due[i + 1].ts # due[i].ts}, <)
      integrated == [d EXCEPT !.queue = @ \ ToSet(due), !.filt = after(Len(due))]
  IN IF due = <<>> THEN d
     ELSE IF ~Smooth THEN integrated
     ELSE [integrated EXCEPT !.mhist = @ \o due,
                             !.shist = @ \o [j \in DOMAIN ends |-> after(ends[j])]]

\* A mutated form of MustRevert: a measurement that is late by one is let through.
MustRevertByTwo(d) ==
  /\ Smooth /\ d.queue # {}
  /\ Head(InOrder(d.queue)).ts + 1 < d.filt.ts

MustRevert(d) ==
  /\ Smooth /\ d.queue # {}
  /\ Head(InOrder(d.queue)).ts < d.filt.ts

RevertTime(d) == Head(InOrder(d.queue)).ts - 1

Project(d, t) == [d EXCEPT !.filt.ts = t]

Integrate(d, t) ==
  LET integrated == IntegrateDue(IF MustRevert(d) THEN RevertTo(d, RevertTime(d)) ELSE d, t)
      timeout    == d.queue = {} /\ t - d.filt.ts >= SensorTimeout
  IN IF PredictToNow \/ timeout THEN Project(integrated, t) ELSE integrated

\* The history does not reach back far enough for the first measurement in the
\* queue, and the filter has integrated a measurement before.
TooLate(d) ==
  MustRevert(d) /\ ~Reaches(d, RevertTime(d)) /\ d.filt.seen # <<>>

-----------------------------------------------------------------------------
(* Operations *)

Data == [queue |-> queue, mhist |-> mhist, shist |-> shist, filt |-> filt]

SetData(d) ==
  /\ queue' = d.queue /\ mhist' = d.mhist
  /\ shist' = d.shist /\ filt' = d.filt

Observe(m) ==
  /\ m.id \notin {o.id : o \in observed}
  /\ queue' = queue \cup {m}
  /\ observed' = observed \cup {m}
  /\ UNCHANGED <<mhist, shist, filt, enabled, now, late>>

\* predict(t) on the contents d.
PredictOn(d, t) ==
  /\ t >= now
  /\ now' = t
  /\ \/ /\ enabled
        /\ SetData(Expire(Integrate(d, t)))
        /\ late' = (late \/ TooLate(d))
     \/ /\ ~enabled
        \* clear() of the heap does nothing
        /\ SetData(Expire(Project(d, t)))
        /\ UNCHANGED late
  /\ UNCHANGED <<enabled, observed>>

Predict(t) == PredictOn(Data, t)

\* The heap and the wrapped filter keep what they have: clear() of both is empty.
Clear ==
  /\ mhist' = <<>> /\ shist' = <<>>
  /\ UNCHANGED <<queue, filt, enabled, now, observed, late>>

\* The owner of the filter sets the attribute.
Enable ==
  /\ enabled' = ~enabled
  /\ UNCHANGED <<dataVars, now, observed, late>>

Init ==
  /\ queue = {} /\ mhist = <<>> /\ shist = <<>>
  /\ filt = [ts |-> 0, seen |-> <<>>]
  /\ enabled = TRUE /\ now = 0
  /\ observed = {} /\ late = FALSE

Next ==
  \/ \E i \in Ids, t \in 1..MaxTime : Observe([id |-> i, ts |-> t, val |-> 0])
  \/ \E t \in Times : Predict(t)
  \/ Clear \/ Enable

Spec == Init /\ [][Next]_vars

-----------------------------------------------------------------------------
(* Properties *)

SeenIds == {m.id : m \in ToSet(filt.seen)}

\* Reverting, replaying and expiring loses no measurement: each that was
\* observed is integrated in the present state of the filter or waits in the
\* queue, and not both.
NothingLost ==
  /\ {m.id : m \in observed} = SeenIds \cup {m.id : m \in queue}
  /\ SeenIds \cap {m.id : m \in queue} = {}

Ascending(q) == \A i, j \in DOMAIN q : i < j => q[i].ts <= q[j].ts

Once(q) == \A i, j \in DOMAIN q : i # j => q[i].id # q[j].id

\* As long as the history reached back far enough, the filter is in the state
\* that it would have if the measurements had come in the order of their
\* timestamps: each integrated once, none before an older one.
Exact == ~late => Ascending(filt.seen) /\ Once(filt.seen)

\* revert_to finds all that it needs, whatever came late, expired or was cleared:
\* both histories are in the order of their timestamps, the last saved state is the
\* state of the filter, the measurements of the history are the last ones that it
\* integrated, and neither history is there without the other.
HistoryIsRecent ==
  /\ Ascending(mhist) /\ Ascending(shist)
  /\ mhist = <<>> <=> shist = <<>>
  /\ shist # <<>> =>
    /\ Last(shist).seen = filt.seen
    /\ mhist = SubSeq(filt.seen, Len(filt.seen) - Len(mhist) + 1, Len(filt.seen))
=============================================================================
