----------------------- MODULE CascadingReplayFilter -----------------------
(***************************************************************************)
(* CascadingReplayFilter of src/server/estimator/util/cascade_replay.py: a *)
(* measurement may be Derived from another Tracked value.  When that value *)
(* changes, predict() takes the measurement out of the history of the      *)
(* ReplayFilter and queues it again with its new value and old timestamp.  *)
(*                                                                         *)
(* All derived measurements depend on one PushValue, as in test_cascade.   *)
(* No two timestamps are equal: comparing two derived measurements with    *)
(* equal timestamps in the heap is a TypeError.                            *)
(***************************************************************************)
EXTENDS ReplayFilter

CONSTANTS
  Tracked,    \* the measurements that are derived; the others are StaticValues
  MaxVal,     \* bound: the values of the PushValue
  MaxUpdates  \* bound: the number of updates of the PushValue

ASSUME CascadeAssumption ==
  Tracked \subseteq Ids /\ MaxVal \in Nat /\ MaxUpdates \in Nat

VARIABLES
  cur,     \* value_next of the PushValue
  updates, \* history: how often it was updated
  doubled  \* history: an updated measurement was due and nothing was reverted

cascadeVars == <<vars, cur, updates, doubled>>

-----------------------------------------------------------------------------
\* Not static and not fresh.
IsStale(m) == m.id \in Tracked /\ m.val # cur

Reread(m) == [m EXCEPT !.val = cur]

\* q after remove() of the elements of S.
Without(q, S) ==
  LET left == Sorted({i \in DOMAIN q : q[i] \notin S}, <)
  IN [k \in DOMAIN left |-> q[left[k]]]

Stale(d) == {m \in ToSet(d.mhist) : IsStale(m)}

\* A mutated form of Cascade: what is updated is not queued again.
CascadeDropping(d) == [d EXCEPT !.mhist = Without(@, Stale(d))]

\* A mutated form of Cascade: the measurement is queued as it was.
CascadeUnrefreshed(d) ==
  [d EXCEPT !.queue = @ \cup Stale(d), !.mhist = Without(@, Stale(d))]

\* What predict() does before the predict() of the ReplayFilter.  A measurement
\* that still waits in the queue keeps the value that was read by observe().
Cascade(d) ==
  [d EXCEPT !.queue = @ \cup {Reread(m) : m \in Stale(d)}, !.mhist = Without(@, Stale(d))]

-----------------------------------------------------------------------------
(* Operations *)

CascadeObserve(i, t) ==
  /\ t \notin {o.ts : o \in observed}
  /\ Observe([id |-> i, ts |-> t, val |-> IF i \in Tracked THEN cur ELSE 0])
  /\ UNCHANGED <<cur, updates, doubled>>

\* The filter's time is the one of the measurement, so its old value stays.
Doubles(d) ==
  ~MustRevert(d) /\ {m.id : m \in d.queue} \cap {m.id : m \in ToSet(d.filt.seen)} # {}

CascadePredict(t) ==
  LET d == Cascade(Data)
  IN /\ PredictOn(d, t)
     /\ doubled' = (doubled \/ (enabled /\ Doubles(d)))
     /\ UNCHANGED <<cur, updates>>

\* update() of the PushValue, outside of the filter.
Update(v) ==
  /\ updates < MaxUpdates
  /\ v # cur
  /\ cur' = v /\ updates' = updates + 1
  /\ UNCHANGED <<vars, doubled>>

CascadeInit == Init /\ cur = 0 /\ updates = 0 /\ doubled = FALSE

CascadeNext ==
  \/ \E i \in Ids, t \in 1..MaxTime : CascadeObserve(i, t)
  \/ \E t \in Times : CascadePredict(t)
  \/ \E v \in 0..MaxVal : Update(v)
  \/ (Clear \/ Enable) /\ UNCHANGED <<cur, updates, doubled>>

CascadeSpec == CascadeInit /\ [][CascadeNext]_cascadeVars

-----------------------------------------------------------------------------
(* Properties *)

\* The places of measurement i in the sequence that the filter has integrated.
Places(i) == {k \in DOMAIN filt.seen : filt.seen[k].id = i}

\* After predict() of an enabled filter each derived measurement that was in the
\* history counts with the present value.
UpdatesApplied ==
  [][enabled /\ (\E t \in Times : CascadePredict(t))
       => \A m \in ToSet(mhist) :
            m.id \in Tracked => filt.seen'[Max(Places(m.id)')].val = cur]_cascadeVars

\* An update loses no measurement, each that was observed is integrated or waits; it is
\* replayed at the measurement's own time and takes the place of the old one, as long
\* as the history reached back and there was something to revert: the integrated
\* measurements are in the order of their timestamps, and none counts twice.
UpdateReplaces ==
  /\ {m.id : m \in observed} = SeenIds \cup {m.id : m \in queue}
  /\ ~late => Ascending(filt.seen)
  /\ ~late /\ ~doubled => Once(filt.seen)
=============================================================================
