---------------------------- MODULE Interpolation ----------------------------
(***************************************************************************)
(* A buffer of timed samples (estimator/util/interpolated.py), the values  *)
(* that track it, and a value derived from them (estimator/util/cascade.py)*)
(*                                                                         *)
(* A tracked value is computed once.  It is asked whether it is fresh, and *)
(* refreshed, by whoever holds it; a derived value shares its arguments    *)
(* with other holders, who may refresh them behind its back.               *)
(***************************************************************************)
EXTENDS Naturals, FiniteSets

CONSTANTS
  Values,       \* values of samples
  Absent,       \* no sample, no bound, no value
  MaxKey,       \* bound: keys of samples are 0..MaxKey
  History,      \* historyLength
  Trackers,     \* arguments of the derived value
  KeyOf,        \* their keys
  MaxChanges    \* bound: changes of the buffer

Keys == 0..MaxKey

ASSUME InterpolationAssumption ==
  /\ MaxKey \in Nat /\ History \in Nat /\ MaxChanges \in Nat
  /\ KeyOf \in [Trackers -> Keys]
  /\ Absent \notin Values

VARIABLES
  snapshots,    \* InterpolatingBuffer._snapshots
  modcount,     \* InterpolatingBuffer._modcount
  tracked,      \* a TrackedInterpolation for each tracker, or Absent
  lastArgs      \* Derived._last_args, which _last_value is a function of

interpVars == <<snapshots, modcount, tracked, lastArgs>>

Bound == [key : Keys, value : Values]
NoBound == [key |-> Absent, value |-> Absent]

Sampled == {k \in Keys : snapshots[k] # Absent}
At(k) == [key |-> k, value |-> snapshots[k]]

\* _get_bounds: the sample at or before the key, and the one at or after it.
Bottom(key) ==
  IF \E k \in Sampled : k <= key
  THEN At(CHOOSE k \in Sampled : k <= key /\ \A j \in Sampled : j <= key => j <= k)
  ELSE NoBound

Top(key) ==
  IF \E k \in Sampled : k >= key
  THEN At(CHOOSE k \in Sampled : k >= key /\ \A j \in Sampled : j >= key => j >= k)
  ELSE NoBound

\* InterpolateResult.wrap(...).get(default): the default is Absent; between two
\* samples the value stands for their interpolation at this key.
Interpolate(bottom, top) ==
  IF bottom # NoBound /\ top # NoBound /\ bottom # top
  THEN [kind |-> "between", left |-> bottom, right |-> top]
  ELSE [kind |-> "edge", left |-> bottom, right |-> top]

Current(i) == Interpolate(Bottom(KeyOf[i]), Top(KeyOf[i]))

Argument(i) == Interpolate(tracked[i].bottom, tracked[i].top)
Arguments   == [i \in Trackers |-> Argument(i)]
AllTracked  == \A i \in Trackers : tracked[i] # Absent

SameBounds(i) ==
  tracked[i].bottom = Bottom(KeyOf[i]) /\ tracked[i].top = Top(KeyOf[i])

InterpInit ==
  /\ snapshots = [k \in Keys |-> Absent]
  /\ modcount = 0
  /\ tracked = [i \in Trackers |-> Absent]
  /\ lastArgs = Absent

-----------------------------------------------------------------------------
(* InterpolatingBuffer *)

\* _clean_up, then the sample: keys come in any order.
Add(key, value) ==
  /\ modcount < MaxChanges
  /\ snapshots' = [k \in Keys |->
       IF k = key THEN value ELSE IF k + History < key THEN Absent ELSE snapshots[k]]
  /\ modcount' = modcount + 1
  /\ UNCHANGED <<tracked, lastArgs>>

\* A mutated form of ClearBuffer: it is not counted as a change.
ClearBufferUncounted ==
  /\ modcount < MaxChanges
  /\ snapshots' = [k \in Keys |-> Absent]
  /\ UNCHANGED <<modcount, tracked, lastArgs>>

ClearBuffer ==
  /\ modcount < MaxChanges
  /\ snapshots' = [k \in Keys |-> Absent]
  /\ modcount' = modcount + 1
  /\ UNCHANGED <<tracked, lastArgs>>

-----------------------------------------------------------------------------
(* TrackedInterpolation *)

Track(i) ==
  /\ tracked[i] = Absent
  /\ tracked' = [tracked EXCEPT ![i] =
       [bottom |-> Bottom(KeyOf[i]), top |-> Top(KeyOf[i]), mod |-> modcount]]
  /\ UNCHANGED <<snapshots, modcount, lastArgs>>

IsFresh(i) == tracked[i].mod = modcount \/ SameBounds(i)

\* is_fresh remembers that it has compared the bounds.
AskFresh(i) ==
  /\ tracked[i] # Absent /\ IsFresh(i)
  /\ tracked' = [tracked EXCEPT ![i].mod = modcount]
  /\ UNCHANGED <<snapshots, modcount, lastArgs>>

\* "Going from lerp -> edge is worse, don't do it": there were two bounds, and
\* one of them is missing now.
GetsWorse(i) ==
  /\ tracked[i].bottom # NoBound /\ tracked[i].top # NoBound
  /\ Bottom(KeyOf[i]) = NoBound \/ Top(KeyOf[i]) = NoBound

\* refresh keeps the old count, so that the bounds are compared again.
Refreshed(i) ==
  IF tracked[i].mod = modcount \/ GetsWorse(i) THEN tracked[i]
  ELSE [tracked[i] EXCEPT !.bottom = Bottom(KeyOf[i]), !.top = Top(KeyOf[i])]

Refresh(i) ==
  /\ tracked[i] # Absent
  /\ tracked' = [tracked EXCEPT ![i] = Refreshed(i)]
  /\ UNCHANGED <<snapshots, modcount, lastArgs>>

-----------------------------------------------------------------------------
(* Derived *)

\* A mutated form of DerivedFresh: the arguments are fresh, which may be because
\* someone else refreshed them.
DerivedFreshArguments == \A i \in Trackers : IsFresh(i)

\* Derived.is_fresh; values of different samples that are equal by accident count
\* as different here.
DerivedFresh ==
  /\ \A i \in Trackers : IsFresh(i)
  /\ lastArgs # Absent => lastArgs = Arguments

\* Derived.value is computed when it is first read ...
ReadDerived ==
  /\ AllTracked /\ lastArgs = Absent
  /\ lastArgs' = Arguments
  /\ UNCHANGED <<snapshots, modcount, tracked>>

\* ... and again after Derived.refresh, which refreshes its arguments.
RefreshDerived ==
  /\ AllTracked
  /\ tracked' = [i \in Trackers |-> Refreshed(i)]
  /\ lastArgs' = Absent
  /\ UNCHANGED <<snapshots, modcount>>

InterpNext ==
  \/ \E key \in Keys, value \in Values : Add(key, value)
  \/ ClearBuffer
  \/ \E i \in Trackers : Track(i) \/ AskFresh(i) \/ Refresh(i)
  \/ ReadDerived \/ RefreshDerived

InterpSpec == InterpInit /\ [][InterpNext]_interpVars

-----------------------------------------------------------------------------
(* Properties *)

\* A tracked value that says it is fresh is the one that the buffer would give
\* now, whatever was added, replaced, dropped or cleared since it was computed,
\* and in whatever order it was asked and refreshed.
FreshIsCurrent ==
  \A i \in Trackers : tracked[i] # Absent /\ IsFresh(i) => Argument(i) = Current(i)

\* A derived value that says it is fresh was computed from the current values of
\* all its arguments, also if others have refreshed some of them.
DerivedIsCurrent ==
  AllTracked /\ lastArgs # Absent /\ DerivedFresh =>
    lastArgs = [i \in Trackers |-> Current(i)]

=============================================================================
