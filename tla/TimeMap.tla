------------------------------ MODULE TimeMap ------------------------------
(***************************************************************************)
(* The table of clock conversions (src/server/util/timemap.py) and its     *)
(* users, Timestamp.localize (util/timestamp.py) and DeviceTimeSync        *)
(* (worker/time.py): which mapper a registration puts in either direction, *)
(* and the search for the cheapest chain of mappers between two clocks.    *)
(*                                                                         *)
(* A dict keeps its keys in the order of their insertion; `at` is a key's  *)
(* place in it.  A mapper reads its two clocks when it is applied, as      *)
(* OffsetClockMapper and DynamicOffsetMapper do.  A FixedOffsetClock       *)
(* hashes by its offset, so once that has changed the dict finds the clock *)
(* only if the new hash happens to lead to the old slot: `hidden` holds    *)
(* the clocks for which it does not.                                       *)
(***************************************************************************)
EXTENDS Integers, FiniteSets, SequencesExt

CONSTANTS
  Clocks,
  Moving,       \* the FixedOffsetClocks, whose offset is assigned to
  NoEntry,
  MapperLists,  \* what a map may be made of: sequences of Registrations
  Readings,     \* what the clocks may read: functions from Clocks
  MaxMappers    \* bound: calls of register()

Mappers == [a : Clocks, b : Clocks, id : Nat, inverse : BOOLEAN]
Steps == [dist : Nat, via : Mappers]
Entries == [mapper : Mappers, cached : BOOLEAN, at : Nat]
Registrations == {r \in [a : Clocks, b : Clocks, replace : BOOLEAN] : r.a # r.b}

ASSUME ClockAssumption ==
  /\ NoEntry \notin Entries \cup Steps /\ MaxMappers \in Nat /\ IsFiniteSet(Clocks)
  /\ Readings \subseteq [Clocks -> Int]
  /\ MapperLists \subseteq Seq(Registrations)

VARIABLES
  conversions,  \* conversions[a][b]: [mapper, cached, at], or NoEntry
  todo,         \* the mappers that are still to be registered
  registered,   \* how many were
  reading,      \* what the clocks read at the instant that is looked at
  hidden,
  search,       \* get_conversion(): "idle", "search", "trace", "found", "none", "failed"
  src, dst,     \* the clocks it was called for
  prev, heap,  \* its table of distances and its heap
  path          \* the chain of mappers that it returns

tableVars == <<conversions, todo, registered, reading, hidden>>
searchVars == <<search, src, dst, prev, heap, path>>
timeVars == <<tableVars, searchVars>>

-----------------------------------------------------------------------------
(* Mappers *)

Mapper(a, b, n) == [a |-> a, b |-> b, id |-> n, inverse |-> FALSE]
IdentityMapper(c) == Mapper(c, c, 0)

Negated(m) == [a |-> m.b, b |-> m.a, id |-> m.id, inverse |-> ~m.inverse]

ConversionCost(m) == IF m.a = m.b THEN 2 ELSE IF m.inverse THEN 11 ELSE 10

\* A mutated form of Offset: the inverse has its parent's sign.
OffsetUnsigned(m) ==
  IF m.inverse THEN reading[m.a] - reading[m.b] ELSE reading[m.b] - reading[m.a]

\* An InverseTimeMapper has the negated offset of its parent.
Offset(m) ==
  IF m.inverse THEN -(reading[m.a] - reading[m.b]) ELSE reading[m.b] - reading[m.a]

-----------------------------------------------------------------------------
(* register() *)

RowOf(table, c) == {table[c][d] : d \in Clocks} \ {NoEntry}

Put(table, m, caching) ==
  LET old == table[m.a][m.b]
      place == IF old = NoEntry THEN Cardinality(RowOf(table, m.a)) + 1 ELSE old.at
  IN [table EXCEPT ![m.a][m.b] = [mapper |-> m, cached |-> caching, at |-> place]]

Forward(table, m, replace, caching) ==
  LET old == table[m.a][m.b]
  IN replace \/ old = NoEntry \/ (old.cached /\ ~caching)

\* A mutated form of Backward: a replaced mapper leaves its inverse behind.
BackwardMissing(table, m, replace, caching) == table[m.b][m.a] = NoEntry

\* The inverse is put there too, unless the other direction has a mapper of its own.
\* `-prev_a[0]` is the object prev_b[0] only where it takes an inversion back.
Backward(table, m, replace, caching) ==
  LET old  == table[m.a][m.b]
      back == table[m.b][m.a]
  IN \/ back = NoEntry
     \/ /\ back.cached
        /\ \/ replace
           \/ /\ Forward(table, m, replace, caching)
              /\ old.mapper.inverse /\ back.mapper = Negated(old.mapper)

AfterRegister(table, m, replace, caching) ==
  LET there == IF Forward(table, m, replace, caching) THEN Put(table, m, caching) ELSE table
  IN IF m.a # m.b /\ Backward(table, m, replace, caching)
     THEN Put(there, Negated(m), TRUE) ELSE there

\* TimeMap.__init__ registers its mappers; those of DeviceTimeSync are there before the
\* first packet moves a clock.
Register ==
  /\ todo # <<>> /\ registered < MaxMappers
  /\ LET new == Head(todo) IN
       conversions' = AfterRegister(conversions, Mapper(new.a, new.b, registered + 1),
                                    new.replace, FALSE)
  /\ todo' = Tail(todo)
  /\ registered' = registered + 1
  /\ UNCHANGED <<reading, hidden, searchVars>>

\* DeviceTimeSync.local_timestamp assigns to dev_clock.offset.
Move(c) ==
  /\ search = "idle" /\ todo = <<>>
  /\ reading' \in {r \in Readings : r[c] # reading[c] /\ \A d \in Clocks \ {c} : r[d] = reading[d]}
  /\ \E h \in {hidden \cup {c}, hidden \ {c}} : hidden' = h
  /\ UNCHANGED <<conversions, todo, registered, searchVars>>

-----------------------------------------------------------------------------
(* get_conversion() *)

\* A distance d is less than the one in the table.
Nearer(d, reached) == reached = NoEntry \/ d < reached.dist

\* localize() and the two methods of DeviceTimeSync ask for a conversion.
Ask(a, b) ==
  /\ search = "idle" /\ todo = <<>>
  /\ a # b
  /\ search' = "search" /\ src' = a /\ dst' = b
  /\ prev' = [c \in Clocks |-> NoEntry]
  /\ heap' = {[dist |-> 0, clock |-> a]}
  /\ UNCHANGED <<tableVars, path>>

\* The identity is cached.
AskSame(a) ==
  /\ search = "idle" /\ todo = <<>> /\ hidden = {} /\ registered < MaxMappers
  /\ conversions' = AfterRegister(conversions, IdentityMapper(a), FALSE, TRUE)
  /\ registered' = registered + 1
  /\ UNCHANGED <<todo, reading, hidden, searchVars>>

\* The mappers from c, one for each clock, with the identity.
Neighbors(c) ==
  {e.mapper : e \in IF c \in hidden THEN {} ELSE RowOf(conversions, c)} \cup {IdentityMapper(c)}

\* x is before m in the order of the dict; an identity that is not in it is the last.
Sooner(x, m) ==
  conversions[m.a][m.b] = NoEntry \/ conversions[x.a][x.b].at < conversions[m.a][m.b].at

\* The mappers by which the loop over the neighbours of a node improves the table: they lead
\* to a clock by a shorter way than any before, and to the goal there is none as short, not
\* even one that the same loop has found.
Improving(node, d) ==
  LET Far(m) == d + ConversionCost(m)
      closer == {m \in Neighbors(node) : Nearer(Far(m), prev[m.b]) /\ Nearer(Far(m), prev[dst])}
  IN {m \in closer : \A x \in closer : x.b = dst /\ Sooner(x, m) => Far(m) < Far(x)}

\* Two clocks at one distance: the heap compares the clocks, which have no order.
Tie == \E x, y \in heap : x # y /\ x.dist = y.dist

Nearest(e) == \A x \in heap : e.dist <= x.dist

TieRaises ==
  /\ search = "search" /\ Tie
  /\ search' = "failed"
  /\ UNCHANGED <<tableVars, src, dst, prev, heap, path>>

Pop(e) ==
  /\ search = "search" /\ ~Tie /\ Nearest(e)
  /\ IF prev[e.clock] # NoEntry /\ e.dist > prev[e.clock].dist
     THEN heap' = heap \ {e} /\ UNCHANGED prev
     ELSE LET better == Improving(e.clock, e.dist)
              Step(m) == [dist |-> e.dist + ConversionCost(m), via |-> m]
          IN /\ prev' = [c \in Clocks |->
                          IF \E m \in better : m.b = c
                          THEN Step(CHOOSE m \in better : m.b = c) ELSE prev[c]]
             /\ heap' = (heap \ {e}) \cup {[dist |-> Step(m).dist, clock |-> m.b] : m \in better}
  /\ UNCHANGED <<tableVars, search, src, dst, path>>

\* The heap is empty: the path is put together backwards.
Drained ==
  /\ search = "search" /\ heap = {}
  /\ IF prev[dst] = NoEntry
     THEN search' = "none" /\ UNCHANGED path
     ELSE search' = "trace" /\ path' = <<prev[dst].via>>
  /\ UNCHANGED <<tableVars, src, dst, prev, heap>>

Trace ==
  /\ search = "trace"
  /\ IF Head(path).a = src
     THEN search' = "found" /\ UNCHANGED path
     ELSE path' = <<prev[Head(path).a].via>> \o path /\ UNCHANGED search
  /\ UNCHANGED <<tableVars, src, dst, prev, heap>>

\* The caller has its answer or its exception.
Return ==
  /\ search \in {"found", "none", "failed"}
  /\ search' = "idle"
  /\ src' = NoEntry /\ dst' = NoEntry /\ prev' = NoEntry /\ heap' = {} /\ path' = <<>>
  /\ UNCHANGED tableVars

-----------------------------------------------------------------------------
TimeInit ==
  /\ conversions = [a \in Clocks |-> [b \in Clocks |-> NoEntry]]
  /\ todo \in MapperLists /\ registered = 0 /\ hidden = {}
  /\ reading \in Readings
  /\ search = "idle"
  /\ src = NoEntry /\ dst = NoEntry /\ prev = NoEntry /\ heap = {} /\ path = <<>>

TimeNext ==
  \/ \E c \in Moving : Move(c)
  \/ \E a, b \in Clocks : Ask(a, b)
  \/ \E a \in Clocks : AskSame(a)
  \/ \E e \in heap : Pop(e)
  \/ Register \/ TieRaises \/ Drained \/ Trace \/ Return

TimeSpec == TimeInit /\ [][TimeNext]_timeVars

-----------------------------------------------------------------------------
(* Properties *)

\* Whatever is registered and replaced in either direction: an inverse that register() put
\* there by itself is the inverse of the mapper that is now used the other way round.
InverseInStep ==
  \A a, b \in Clocks : a # b /\ conversions[a][b] # NoEntry =>
    /\ conversions[b][a] # NoEntry
    /\ conversions[a][b].cached =>
         /\ ~conversions[b][a].cached
         /\ conversions[a][b].mapper = Negated(conversions[b][a].mapper)

\* Chains of different clocks from src to dst.
Chains ==
  {s \in UNION {[1..n -> Clocks] : n \in 2..Cardinality(Clocks)} :
     /\ s[1] = src /\ Last(s) = dst /\ IsInjective(s)
     /\ \A i \in 1..(Len(s) - 1) : conversions[s[i]][s[i + 1]] # NoEntry}

\* The sum of a sequence of numbers.
Total(q) ==
  LET sum[i \in 0..Len(q)] == IF i = 0 THEN 0 ELSE sum[i - 1] + q[i]
  IN sum[Len(q)]

Costs(mappers) == [i \in DOMAIN mappers |-> ConversionCost(mappers[i])]

Offsets(mappers) == [i \in DOMAIN mappers |-> Offset(mappers[i])]

MappersOf(s) == [i \in 1..(Len(s) - 1) |-> conversions[s[i]][s[i + 1]].mapper]

\* get_conversion() finds a chain whenever there is one; the chain leads from the one clock to
\* the other by mappers of the table and none is cheaper; and applied to what the first clock
\* reads it gives what the second one reads, also after a clock was moved that comes last.
CheapestConversion ==
  hidden \subseteq {dst} =>
    /\ search = "none" => Chains = {}
    /\ search = "found" =>
         /\ path[1].a = src /\ Last(path).b = dst
         /\ \A i \in 1..(Len(path) - 1) : path[i].b = path[i + 1].a
         /\ \A i \in 1..Len(path) :
              /\ conversions[path[i].a][path[i].b] # NoEntry
              /\ path[i] = conversions[path[i].a][path[i].b].mapper
         /\ \A s \in Chains : Total(Costs(path)) <= Total(Costs(MappersOf(s)))
         /\ Total(Offsets(path)) = reading[dst] - reading[src]
=============================================================================
