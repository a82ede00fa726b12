---------------------------- MODULE DeviceManager ----------------------------
(***************************************************************************)
(* DeviceManager of worker/worker.py: the workers of several cameras, each *)
(* a process of its own, look for their devices at the same time.          *)
(*                                                                         *)
(* A device is booted by the worker that attaches to it, and is then not   *)
(* available to the others; finding one and booting it are two steps.      *)
(*                                                                         *)
(* The filters of an OakSelector (mxid, devname, platform, protocol) are a *)
(* set of attributes; AnyValues are those that DepthAI takes for wildcards.*)
(***************************************************************************)
EXTENDS Integers, FiniteSets, FiniteSetsExt, Functions

CONSTANTS
  Workers, Devices,
  AttributesOf,     \* the set of attributes of each device
  AnyValues,        \* X_LINK_ANY_PLATFORM, X_LINK_ANY_PROTOCOL
  SelectorChoices,  \* possible selectors of all workers: [ordinal, wants], 0 is none
  RetryChoices,     \* possible retry configurations: [tries, optional]
  NoDevice

\* The part of a worker's configuration that the search reads.
OakSelector == [ordinal : Nat, wants : SUBSET (UNION Range(AttributesOf) \cup AnyValues)]
RetryConfig == [tries : Int, optional : BOOLEAN]
WorkerInitConfig == [selector : OakSelector, retry : RetryConfig]

ASSUME DeviceAssumption ==
  /\ IsFiniteSet(Workers) /\ IsFiniteSet(Devices) /\ NoDevice \notin Devices
  /\ \A choice \in SelectorChoices, r \in RetryChoices, w \in Workers :
       [selector |-> choice[w], retry |-> r] \in WorkerInitConfig

VARIABLES
  selector, retry,  \* config.selector and config.retry of each worker
  booted,           \* devices that a worker has attached to
  search,           \* of a worker: "find", "attach", "attached", "failed", "stopped"
  found,            \* the device that it is about to boot, or that it has
  retries           \* self._retries

deviceVars == <<selector, retry, booted, search, found, retries>>

Available == Devices \ booted

\* The devices that Device() may choose from, for the descriptor of a selector
\* (selector_to_descriptor); without any filter it takes whatever there is.
Described(sel) == {d \in Devices : sel.wants \ AnyValues \subseteq AttributesOf[d]}

\* _info_matches: a wildcard equals no device's platform or protocol.
InfoMatches(sel) == {d \in Devices : sel.wants \subseteq AttributesOf[d]}

ByOrdinal(sel) == sel.ordinal > 1

Matching(sel) == IF ByOrdinal(sel) THEN InfoMatches(sel) ELSE Described(sel)

DevicesInit ==
  /\ selector \in SelectorChoices
  /\ retry \in [Workers -> RetryChoices]
  /\ booted = {}
  /\ search = [w \in Workers |-> "find"]
  /\ found = [w \in Workers |-> NoDevice]
  /\ retries = [w \in Workers |-> 0]

\* A mutated form of OutOfTries: it counts the tries that are left, not those made.
OutOfTriesEarly(w) == retries[w] + 2 >= retry[w].tries

\* The check after the increment: 0 and 1 mean the same.
OutOfTries(w) == retries[w] + 1 >= retry[w].tries

\* An OakNotFoundException in find_oak: once more, or __enter__ ends the worker.
NotFound(w) ==
  /\ retries' = [retries EXCEPT ![w] = @ + 1]
  /\ search' = [search EXCEPT ![w] =
       IF ~OutOfTries(w) THEN "find" ELSE IF retry[w].optional THEN "stopped" ELSE "failed"]
  /\ found' = [found EXCEPT ![w] = NoDevice]
  /\ UNCHANGED <<selector, retry, booted>>

\* find_oak: for an ordinal, the n-th of the available devices that match, in the order in
\* which they happen to be listed; else Device() looks for one itself.
Find(w) ==
  /\ search[w] = "find"
  /\ LET sel == selector[w]
         candidates == Matching(sel) \cap Available
         needed == IF ByOrdinal(sel) THEN sel.ordinal ELSE 1 IN
       IF Cardinality(candidates) < needed THEN NotFound(w)
       ELSE \E d \in candidates :
              /\ found' = [found EXCEPT ![w] = d]
              /\ search' = [search EXCEPT ![w] = "attach"]
              /\ UNCHANGED <<selector, retry, booted, retries>>

\* attach_oak: Device() boots it, or raises because another worker has.
Attach(w) ==
  /\ search[w] = "attach"
  /\ IF found[w] \in booted THEN NotFound(w)
     ELSE /\ booted' = booted \cup {found[w]}
          /\ search' = [search EXCEPT ![w] = "attached"]
          /\ UNCHANGED <<selector, retry, found, retries>>

DevicesNext == \E w \in Workers : Find(w) \/ Attach(w)

DevicesSpec == DevicesInit /\ [][DevicesNext]_deviceVars
-----------------------------------------------------------------------------
\* Each worker gets a camera that matches its selector and is its own; and it gives up
\* only if there are not enough: with as many tries as there are workers, and so many
\* devices that match that the others cannot leave too few of them to count up to its
\* ordinal, it finds one whatever the order in which the workers look, list and boot
\* (find_oak, attach_oak).
GetsItsCamera ==
  \A w \in Workers :
    /\ search[w] = "attached" =>
         /\ found[w] \in Matching(selector[w])
         /\ \A v \in Workers \ {w} : search[v] = "attached" => found[v] # found[w]
    /\ search[w] \in {"failed", "stopped"} =>
         \/ retry[w].tries < Cardinality(Workers)
         \/ Cardinality(Matching(selector[w])) <
              Cardinality(Workers) - 1 + Max({1, selector[w].ordinal})
=============================================================================
