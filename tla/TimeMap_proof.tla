---------------------------- MODULE TimeMap_proof ----------------------------
(***************************************************************************)
(* The table of conversions, for any clocks, any mappers in any order and  *)
(* any use of `replace`: its two directions stay in step, and the search   *)
(* for a chain finds the cheapest.                                         *)
(*                                                                         *)
(* The invariant of the search says what its table is at every step: a     *)
(* tree of mappers from the first clock, in which no distance is more than *)
(* the way there; nothing is nearer in the heap than what the tree was     *)
(* made from; and a clock that was reached is in the heap, or no mapper    *)
(* from it leads to another by a shorter way.  When the heap is empty, the *)
(* sums along any other chain are never less than the distances of the     *)
(* clocks that it comes to.                                                *)
(***************************************************************************)
EXTENDS TimeMap, FiniteSetTheorems, SequenceTheorems, WellFoundedInduction, TLAPS

Table == [Clocks -> [Clocks -> Entries \cup {NoEntry}]]

\* An entry of t is where its mapper belongs.
Placed(t) ==
  \A a, b \in Clocks : t[a][b] # NoEntry => t[a][b].mapper.a = a /\ t[a][b].mapper.b = b

\* InverseInStep, of any table.
InStep(t) ==
  \A a, b \in Clocks : a # b /\ t[a][b] # NoEntry =>
    /\ t[b][a] # NoEntry
    /\ t[a][b].cached => ~t[b][a].cached /\ t[a][b].mapper = Negated(t[b][a].mapper)

\* t differs from s in the entry of m at most, which is there.
Changed(s, t, m, caching) ==
  /\ t \in Table /\ t[m.a][m.b] # NoEntry
  /\ t[m.a][m.b].mapper = m /\ t[m.a][m.b].cached = caching
  /\ \A a, b \in Clocks : ~(a = m.a /\ b = m.b) => t[a][b] = s[a][b]

TodoTyped == todo \in Seq(Registrations)

\* Inductive: the property with the types that the two directions are compared in.
TableInv ==
  /\ conversions \in Table /\ registered \in Nat /\ TodoTyped
  /\ Placed(conversions) /\ InStep(conversions)

USE ClockAssumption

-----------------------------------------------------------------------------
LEMMA NegatedType ==
  ASSUME NEW m \in Mappers
  PROVE  /\ Negated(m) \in Mappers /\ Negated(Negated(m)) = m
         /\ Negated(m).a = m.b /\ Negated(m).b = m.a
  BY DEF Mappers, Negated

LEMMA RowFinite ==
  ASSUME NEW t \in Table, NEW c \in Clocks
  PROVE  IsFiniteSet(RowOf(t, c))
  <1> DEFINE f == [d \in Clocks |-> t[c][d]]
             image == {t[c][d] : d \in Clocks}
  <1>1. f \in Surjection(Clocks, image)
    BY DEF Surjection
  <1>2. IsFiniteSet(image)
    BY <1>1, FS_Surjection
  <1>3. QED
    BY <1>2, FS_Subset DEF RowOf

\* Put changes one entry, to one for that mapper.
LEMMA PutEffect ==
  ASSUME NEW t \in Table, NEW m \in Mappers, NEW caching \in BOOLEAN
  PROVE  Changed(t, Put(t, m, caching), m, caching)
  <1> DEFINE old == t[m.a][m.b]
             place == IF old = NoEntry THEN Cardinality(RowOf(t, m.a)) + 1 ELSE old.at
             new == [mapper |-> m, cached |-> caching, at |-> place]
  <1>1. m.a \in Clocks /\ m.b \in Clocks
    BY DEF Mappers
  <1>2. place \in Nat
    <2>1. Cardinality(RowOf(t, m.a)) \in Nat
      BY <1>1, RowFinite, FS_CardinalityType
    <2>2. old # NoEntry => old.at \in Nat
      BY <1>1 DEF Table, Entries
    <2>3. QED
      BY <2>1, <2>2
  <1>3. new \in Entries
    BY <1>2 DEF Entries
  <1>4. Put(t, m, caching) = [t EXCEPT ![m.a][m.b] = new]
    BY DEF Put
  <1>5. new.mapper = m /\ new.cached = caching /\ new # NoEntry
    BY <1>3
  <1> HIDE DEF new
  <1>6. QED
    BY <1>1, <1>3, <1>4, <1>5 DEF Table, Changed

\* The new mapper alone: the other direction has one of its own.
LEMMA AloneKeeps ==
  ASSUME NEW s \in Table, Placed(s), InStep(s), NEW m \in Mappers, m.a # m.b,
         s[m.b][m.a] # NoEntry, ~s[m.b][m.a].cached,
         NEW t, Changed(s, t, m, FALSE)
  PROVE  Placed(t) /\ InStep(t)
  <1>1. Placed(t)
    BY DEF Placed, Changed
  <1>2. m.a \in Clocks /\ m.b \in Clocks
    BY DEF Mappers
  <1>3. SUFFICES ASSUME NEW a \in Clocks, NEW b \in Clocks, a # b, t[a][b] # NoEntry
                 PROVE  /\ t[b][a] # NoEntry
                        /\ t[a][b].cached =>
                             ~t[b][a].cached /\ t[a][b].mapper = Negated(t[b][a].mapper)
    BY <1>1 DEF InStep
  <1>4. CASE a = m.a /\ b = m.b
    BY <1>2, <1>4 DEF Changed
  <1>5. CASE a = m.b /\ b = m.a
    BY <1>2, <1>5 DEF Changed
  <1>6. CASE ~(a = m.a /\ b = m.b) /\ ~(a = m.b /\ b = m.a)
    BY <1>3, <1>6 DEF Changed, InStep
  <1>7. QED
    BY <1>4, <1>5, <1>6

\* The new mapper and its inverse.
LEMMA BothKeep ==
  ASSUME NEW s \in Table, Placed(s), InStep(s), NEW m \in Mappers, m.a # m.b,
         NEW t, Changed(s, t, m, FALSE), NEW u, Changed(t, u, Negated(m), TRUE)
  PROVE  Placed(u) /\ InStep(u)
  <1>1. /\ m.a \in Clocks /\ m.b \in Clocks
        /\ Negated(m).a = m.b /\ Negated(m).b = m.a /\ Negated(Negated(m)) = m
    BY NegatedType DEF Mappers
  <1>2. /\ u[m.b][m.a] # NoEntry /\ u[m.b][m.a].mapper = Negated(m) /\ u[m.b][m.a].cached
        /\ u[m.a][m.b] # NoEntry /\ u[m.a][m.b].mapper = m /\ ~u[m.a][m.b].cached
        /\ \A a, b \in Clocks : ~(a = m.a /\ b = m.b) /\ ~(a = m.b /\ b = m.a) =>
             u[a][b] = s[a][b]
    BY <1>1 DEF Changed
  <1>3. Placed(u)
    BY <1>1, <1>2 DEF Placed
  <1>4. SUFFICES ASSUME NEW a \in Clocks, NEW b \in Clocks, a # b, u[a][b] # NoEntry
                 PROVE  /\ u[b][a] # NoEntry
                        /\ u[a][b].cached =>
                             ~u[b][a].cached /\ u[a][b].mapper = Negated(u[b][a].mapper)
    BY <1>3 DEF InStep
  <1>5. CASE a = m.a /\ b = m.b
    BY <1>2, <1>5
  <1>6. CASE a = m.b /\ b = m.a
    BY <1>2, <1>6
  <1>7. CASE ~(a = m.a /\ b = m.b) /\ ~(a = m.b /\ b = m.a)
    BY <1>2, <1>4, <1>7 DEF InStep
  <1>8. QED
    BY <1>5, <1>6, <1>7

\* A registration keeps the two directions in step: it leaves the other one with the
\* inverse of the new mapper, or with a mapper of its own.
LEMMA RegisterKeeps ==
  ASSUME NEW s \in Table, Placed(s), InStep(s), NEW m \in Mappers, m.a # m.b,
         NEW replace \in BOOLEAN, NEW t, t = AfterRegister(s, m, replace, FALSE)
  PROVE  t \in Table /\ Placed(t) /\ InStep(t)
  <1> DEFINE old == s[m.a][m.b]
             back == s[m.b][m.a]
             forth == Put(s, m, FALSE)
  <1>1. m.a \in Clocks /\ m.b \in Clocks
    BY DEF Mappers
  <1>2. FALSE \in BOOLEAN /\ TRUE \in BOOLEAN
    OBVIOUS
  <1>3. Changed(s, forth, m, FALSE)
    BY <1>2, PutEffect
  <1>4. CASE ~Forward(s, m, replace, FALSE)
    <2>1. ~replace /\ old # NoEntry
      BY <1>4 DEF Forward
    <2>2. back # NoEntry
      BY <1>1, <2>1 DEF InStep
    <2>3. ~Backward(s, m, replace, FALSE)
      BY <1>4, <2>1, <2>2 DEF Backward
    <2>4. t = s
      BY <1>4, <2>3 DEF AfterRegister
    <2>5. QED
      BY <2>4
  <1>5. CASE Forward(s, m, replace, FALSE) /\ ~Backward(s, m, replace, FALSE)
    <2>1. t = forth
      BY <1>5 DEF AfterRegister
    <2>2. back # NoEntry /\ (replace => ~back.cached)
      BY <1>5 DEF Backward
    <2>3. old # NoEntry
      BY <1>1, <2>2 DEF InStep
    <2>4. ~replace => old.cached
      BY <1>5, <2>3 DEF Forward
    <2>5. ~back.cached
      BY <1>1, <2>2, <2>3, <2>4 DEF InStep
    <2>6. Changed(s, t, m, FALSE)
      BY <1>3, <2>1
    <2>7. Placed(t) /\ InStep(t)
      BY <2>2, <2>5, <2>6, AloneKeeps
    <2>8. QED
      BY <2>6, <2>7 DEF Changed
  <1>6. CASE Forward(s, m, replace, FALSE) /\ Backward(s, m, replace, FALSE)
    <2>1. t = Put(forth, Negated(m), TRUE)
      BY <1>6 DEF AfterRegister
    <2>2. Changed(forth, t, Negated(m), TRUE)
      <3>1. forth \in Table
        BY <1>3 DEF Changed
      <3>2. Negated(m) \in Mappers
        BY NegatedType
      <3> HIDE DEF forth
      <3>3. QED
        BY <1>2, <2>1, <3>1, <3>2, PutEffect
    <2>3. Placed(t) /\ InStep(t)
      BY <1>3, <2>2, BothKeep
    <2>4. QED
      BY <2>2, <2>3 DEF Changed
  <1>7. QED
    BY <1>4, <1>5, <1>6

\* The identity of a clock is no direction between two.
LEMMA IdentityKeeps ==
  ASSUME NEW s \in Table, Placed(s), InStep(s), NEW c \in Clocks,
         NEW t, t = AfterRegister(s, IdentityMapper(c), FALSE, TRUE)
  PROVE  t \in Table /\ Placed(t) /\ InStep(t)
  <1> DEFINE m == IdentityMapper(c)
  <1>1. m \in Mappers /\ m.a = c /\ m.b = c
    BY DEF IdentityMapper, Mapper, Mappers
  <1>2. t = s \/ t = Put(s, m, TRUE)
    BY <1>1 DEF AfterRegister
  <1>3. CASE t = Put(s, m, TRUE)
    <2> HIDE DEF m
    <2>1. TRUE \in BOOLEAN
      OBVIOUS
    <2>2. Changed(s, t, m, TRUE)
      BY <1>1, <1>3, <2>1, PutEffect
    <2>3. /\ t \in Table /\ t[c][c].mapper = m
          /\ \A x, y \in Clocks : ~(x = c /\ y = c) => t[x][y] = s[x][y]
      BY <1>1, <2>2 DEF Changed
    <2>4. Placed(t)
      <3> SUFFICES ASSUME NEW a \in Clocks, NEW b \in Clocks, t[a][b] # NoEntry
                   PROVE  t[a][b].mapper.a = a /\ t[a][b].mapper.b = b
        BY DEF Placed
      <3>1. CASE a = c /\ b = c
        BY <1>1, <2>3, <3>1
      <3>2. CASE ~(a = c /\ b = c)
        <4>1. t[a][b] = s[a][b]
          BY <2>3, <3>2
        <4>2. QED
          BY <4>1 DEF Placed
      <3>3. QED
        BY <3>1, <3>2
    <2>5. InStep(t)
      <3> SUFFICES ASSUME NEW a \in Clocks, NEW b \in Clocks, a # b, t[a][b] # NoEntry
                   PROVE  /\ t[b][a] # NoEntry
                          /\ t[a][b].cached =>
                               ~t[b][a].cached /\ t[a][b].mapper = Negated(t[b][a].mapper)
        BY DEF InStep
      <3>1. a # c \/ b # c
        OBVIOUS
      <3>2. t[a][b] = s[a][b]
        BY <2>3, <3>1
      <3>3. t[b][a] = s[b][a]
        BY <2>3, <3>1
      <3>4. QED
        BY <3>2, <3>3 DEF InStep
    <2>6. QED
      BY <2>2, <2>4, <2>5 DEF Changed
  <1>4. QED
    BY <1>2, <1>3

-----------------------------------------------------------------------------
LEMMA TableInvInit == TimeInit => TableInv
  <1> SUFFICES ASSUME TimeInit PROVE TableInv
    OBVIOUS
  <1>1. conversions \in Table /\ registered \in Nat
    BY DEF TimeInit, Table
  <1>2. TodoTyped
    BY DEF TimeInit, TodoTyped
  <1>3. Placed(conversions) /\ InStep(conversions)
    BY DEF TimeInit, Placed, InStep
  <1>4. QED
    BY <1>1, <1>2, <1>3 DEF TableInv

LEMMA TableInvNext == TableInv /\ [TimeNext]_timeVars => TableInv'
  <1> SUFFICES ASSUME TableInv, [TimeNext]_timeVars PROVE TableInv'
    OBVIOUS
  <1>1. CASE Register
    <2> DEFINE new == Head(todo)
               m == Mapper(new.a, new.b, registered + 1)
    <2>1. new \in Registrations /\ TodoTyped'
      BY <1>1 DEF Register, TableInv, TodoTyped
    <2>2. m \in Mappers /\ new.replace \in BOOLEAN /\ registered' \in Nat
      BY <1>1, <2>1 DEF Register, TableInv, Mapper, Mappers, Registrations
    <2>3. conversions' = AfterRegister(conversions, m, new.replace, FALSE)
      BY <1>1 DEF Register
    <2> HIDE DEF new
    <2>4. m.a # m.b
      BY <2>1 DEF Mapper, Registrations
    <2>5. QED
      BY <2>1, <2>2, <2>3, <2>4, RegisterKeeps DEF TableInv
  <1>2. ASSUME NEW a \in Clocks, AskSame(a) PROVE TableInv'
    <2>1. registered' \in Nat /\ TodoTyped'
      BY <1>2 DEF AskSame, TableInv, TodoTyped
    <2>2. QED
      BY <1>2, <2>1, IdentityKeeps DEF AskSame, TableInv
  <1>3. ASSUME UNCHANGED <<conversions, todo, registered>> PROVE TableInv'
    BY <1>3 DEF TableInv, TodoTyped, Placed, InStep
  <1>4. CASE \/ \E c \in Moving : Move(c)
             \/ \E a, b \in Clocks : Ask(a, b)
             \/ \E e \in heap : Pop(e)
             \/ TieRaises \/ Drained \/ Trace \/ Return \/ UNCHANGED timeVars
    BY <1>3, <1>4
       DEF Move, Ask, Pop, TieRaises, Drained, Trace, Return, timeVars, tableVars
  <1>5. QED
    BY <1>1, <1>2, <1>4 DEF TimeNext

\* register() keeps the inverse that it put there by itself in step with the mapper it
\* belongs to.
THEOREM InverseInStepHolds == TimeSpec => []InverseInStep
  <1>1. TableInv => InverseInStep
    BY DEF TableInv, InStep, InverseInStep
  <1>2. QED
    BY <1>1, TableInvInit, TableInvNext, PTL DEF TimeSpec

-----------------------------------------------------------------------------
(* get_conversion(): the invariant of the search *)

\* t is a table as prev is one, h a heap.  The length of the way to c is in the table for all
\* but the first clock.
Dist(t, c) == IF c = src THEN 0 ELSE t[c].dist

Known(t, c) == c = src \/ t[c] # NoEntry

Edge(a, b) == a # b /\ conversions[a][b] # NoEntry

\* A way of length d to c would bring nothing.
SeenTo(t, c, d) ==
  \/ c = src
  \/ t[c] # NoEntry /\ t[c].dist <= d
  \/ t[dst] # NoEntry /\ t[dst].dist <= d

\* The table is a tree of mappers from src, and each of them is in the conversions.
TreeOK(t) ==
  \A c \in Clocks : c # src /\ t[c] # NoEntry =>
    LET m == t[c].via
    IN /\ m.a \in Clocks /\ m.b = c /\ Edge(m.a, c) /\ m = conversions[m.a][c].mapper
       /\ Known(t, m.a) /\ t[c].dist = Dist(t, m.a) + ConversionCost(m)

\* Nothing in the heap is shorter than the table has it, or than what the table was made from.
HeapOK(t, h) ==
  /\ \A e \in h :
       /\ e = [dist |-> e.dist, clock |-> e.clock] /\ e.dist \in Nat /\ e.clock \in Clocks
       /\ \/ e.dist = 0 /\ e.clock = src
          \/ e.dist > 0 /\ t[e.clock] # NoEntry /\ t[e.clock].dist <= e.dist
  /\ \A c \in Clocks : c # src /\ t[c] # NoEntry =>
       \A e \in h : Dist(t, t[c].via.a) <= e.dist

\* A clock that was reached is in the heap, or its neighbours have been seen to.
Settled(t, h) ==
  \A a \in Clocks : Known(t, a) =>
    \/ [dist |-> Dist(t, a), clock |-> a] \in h
    \/ \A b \in Clocks : Edge(a, b) =>
         SeenTo(t, b, Dist(t, a) + ConversionCost(conversions[a][b].mapper))

\* The path is the branch of the tree that leads to dst.
PathOK ==
  /\ path \in Seq(Mappers) /\ path # <<>> /\ path[Len(path)].b = dst
  /\ \A i \in 1..Len(path) :
       /\ path[i].b \in Clocks \ {src} /\ prev[path[i].b] # NoEntry
       /\ prev[path[i].b].via = path[i]
  /\ \A i \in 1..(Len(path) - 1) : path[i].b = path[i + 1].a

TableOK(t, h) ==
  t \in [Clocks -> Steps \cup {NoEntry}] /\ TreeOK(t) /\ HeapOK(t, h) /\ Settled(t, h)

SearchOK ==
  /\ TableOK(prev, heap)
  /\ search \in {"none", "trace", "found"} => heap = {}
  /\ search = "none" => prev[dst] = NoEntry
  /\ search \in {"trace", "found"} => PathOK
  /\ search = "found" => path[1].a = src

SearchInv ==
  /\ TableInv
  /\ search \in {"idle", "search", "trace", "found", "none", "failed"}
  /\ reading \in [Clocks -> Int]
  /\ search # "idle" => todo = <<>> /\ src \in Clocks /\ dst \in Clocks /\ src # dst
  /\ search # "idle" /\ hidden \subseteq {dst} => SearchOK

-----------------------------------------------------------------------------
(* Sums *)

LEMMA LeastExists ==
  ASSUME NEW S \in SUBSET Nat, S # {}
  PROVE  \E m \in S : \A s \in S : m <= s
  <1>1. PICK m \in S : \A s \in S : ~(<<s, m>> \in OpToRel(<, Nat))
    BY NatLessThanWellFounded, WFMin
  <1>2. ASSUME NEW s \in S PROVE m <= s
    <2>1. m \in Nat /\ s \in Nat
      OBVIOUS
    <2>2. ~(s < m)
      BY <1>1, <2>1 DEF OpToRel
    <2>3. QED
      BY <2>1, <2>2
  <1>3. QED
    BY <1>2

\* What holds of 0 and of each number after one of which it holds, holds of all up to n.
LEMMA UpwardTo ==
  ASSUME NEW n \in Nat, NEW P \in SUBSET (0..n), 0 \in P,
         \A k \in 1..n : k - 1 \in P => k \in P
  PROVE  P = 0..n
  <1>1. SUFFICES ASSUME (0..n) \ P # {} PROVE FALSE
    OBVIOUS
  <1>2. (0..n) \ P \in SUBSET Nat
    OBVIOUS
  <1>3. PICK k \in (0..n) \ P : \A s \in (0..n) \ P : k <= s
    BY <1>1, <1>2, LeastExists
  <1>4. k \in 1..n /\ k - 1 \in 0..n /\ ~(k <= k - 1)
    BY <1>3
  <1>5. QED
    BY <1>3, <1>4

\* The partial sums of q, as far as n.
Sums(q, n) ==
  {f \in [0..n -> Int] : f[0] = 0 /\ \A i \in 1..n : f[i] = f[i - 1] + q[i]}

LEMMA SumsExist ==
  ASSUME NEW n \in Nat, NEW q \in [1..n -> Int]
  PROVE  Sums(q, n) # {}
  <1> DEFINE P == {k \in 0..n : Sums(q, k) # {}}
  <1>1. 0 \in P
    <2>1. [i \in 0..0 |-> 0] \in Sums(q, 0)
      BY DEF Sums
    <2>2. QED
      BY <2>1
  <1>2. ASSUME NEW k \in 1..n, k - 1 \in P PROVE k \in P
    <2>1. PICK f : f \in Sums(q, k - 1)
      BY <1>2
    <2> DEFINE g == [i \in 0..k |-> IF i = k THEN f[k - 1] + q[k] ELSE f[i]]
    <2>2. /\ f \in [0 .. k - 1 -> Int] /\ f[0] = 0
          /\ \A i \in 1 .. k - 1 : f[i] = f[i - 1] + q[i]
      BY <2>1 DEF Sums
    <2>3. k - 1 \in 0 .. k - 1 /\ \A i \in 0..k : i # k => i \in 0 .. k - 1
      OBVIOUS
    <2>4. g \in [0..k -> Int] /\ g[0] = 0
      BY <2>2, <2>3
    <2>5. ASSUME NEW i \in 1..k PROVE g[i] = g[i - 1] + q[i]
      <3>1. i - 1 \in 0 .. k - 1 /\ i - 1 # k /\ i - 1 \in 0..k
        OBVIOUS
      <3>2. g[i - 1] = f[i - 1]
        BY <3>1
      <3>3. CASE i = k
        BY <3>2, <3>3
      <3>4. CASE i # k
        BY <2>2, <2>3, <3>2, <3>4
      <3>5. QED
        BY <3>3, <3>4
    <2> HIDE DEF g
    <2>6. g \in Sums(q, k)
      BY <2>4, <2>5 DEF Sums
    <2>7. QED
      BY <2>6
  <1> HIDE DEF P
  <1>3. P = 0..n
    <2>1. P \in SUBSET (0..n)
      BY DEF P
    <2>2. QED
      BY <1>1, <1>2, <2>1, UpwardTo
  <1>4. n \in P
    BY <1>3
  <1>5. QED
    BY <1>4 DEF P

LEMMA TotalSums ==
  ASSUME NEW n \in Nat, NEW q \in [1..n -> Int]
  PROVE  \E f \in Sums(q, n) : Total(q) = f[n]
  <1> DEFINE E(f) == [i \in 0..n |-> IF i = 0 THEN 0 ELSE f[i - 1] + q[i]]
             sum == CHOOSE f : f = E(f)
  <1>1. Len(q) = n
    <2>1. q \in Seq(Int) /\ DOMAIN q = 1..n
      OBVIOUS
    <2>2. QED
      BY <2>1, LenProperties
  <1>2. PICK f \in Sums(q, n) : TRUE
    BY SumsExist
  <1>3. f = E(f)
    BY <1>2 DEF Sums
  <1>4. sum = E(sum)
    BY <1>3
  <1>5. Total(q) = sum[n]
    BY <1>1 DEF Total
  <1> HIDE DEF sum
  <1>6. sum[0] = 0 /\ \A i \in 1..n : sum[i] = sum[i - 1] + q[i]
    BY <1>4
  <1>7. sum \in [0..n -> Int]
    <2> DEFINE P == {k \in 0..n : sum[k] \in Int}
    <2>1. 0 \in P /\ \A k \in 1..n : k - 1 \in P => k \in P
      BY <1>6
    <2>2. P = 0..n
      BY <2>1, UpwardTo
    <2>3. \A k \in 0..n : sum[k] \in Int
      BY <2>2
    <2>4. QED
      BY <1>4, <2>3
  <1>8. QED
    BY <1>5, <1>6, <1>7 DEF Sums

\* The differences of a potential add up to the difference of its ends.
LEMMA TotalTelescopes ==
  ASSUME NEW n \in Nat, NEW q \in [1..n -> Int], NEW at \in [0..n -> Int],
         \A i \in 1..n : q[i] = at[i] - at[i - 1]
  PROVE  Total(q) = at[n] - at[0]
  <1>1. PICK f \in Sums(q, n) : Total(q) = f[n]
    BY TotalSums
  <1>2. f \in [0..n -> Int] /\ f[0] = 0 /\ \A i \in 1..n : f[i] = f[i - 1] + q[i]
    BY DEF Sums
  <1> DEFINE P == {k \in 0..n : f[k] = at[k] - at[0]}
  <1>3. 0 \in P
    BY <1>2
  <1>4. ASSUME NEW k \in 1..n, k - 1 \in P PROVE k \in P
    <2>1. k - 1 \in 0..n /\ k \in 0..n /\ 0 \in 0..n
      OBVIOUS
    <2>2. at[k] \in Int /\ at[k - 1] \in Int /\ at[0] \in Int
      BY <2>1
    <2>3. f[k - 1] = at[k - 1] - at[0] /\ f[k] = f[k - 1] + q[k] /\ q[k] = at[k] - at[k - 1]
      BY <1>2, <1>4
    <2>4. QED
      BY <2>1, <2>2, <2>3
  <1>5. P = 0..n
    BY <1>3, <1>4, UpwardTo
  <1>6. \A k \in 0..n : f[k] = at[k] - at[0]
    BY <1>5
  <1>7. QED
    BY <1>1, <1>6

-----------------------------------------------------------------------------
(* get_conversion(): a step of the loop *)

LEMMA NeighborsAre ==
  ASSUME TableInv, NEW c \in Clocks
  PROVE  /\ \A m \in Neighbors(c) :
              /\ m \in Mappers /\ m.a = c /\ m.b \in Clocks
              /\ ConversionCost(m) \in Nat /\ ConversionCost(m) > 0
              /\ m.b # c => Edge(c, m.b) /\ m = conversions[c][m.b].mapper
         /\ c \notin hidden => \A d \in Clocks :
              Edge(c, d) => conversions[c][d].mapper \in Neighbors(c)
         /\ \A d \in Clocks : Edge(c, d) =>
              /\ conversions[c][d].mapper \in Mappers
              /\ conversions[c][d].mapper.a = c /\ conversions[c][d].mapper.b = d
              /\ ConversionCost(conversions[c][d].mapper) \in Nat
  <1>1. conversions \in Table /\ Placed(conversions)
    BY DEF TableInv
  <1>2. \A m : ConversionCost(m) \in Nat /\ ConversionCost(m) > 0
    BY DEF ConversionCost
  <1>3. ASSUME NEW d \in Clocks, conversions[c][d] # NoEntry
        PROVE  /\ conversions[c][d].mapper \in Mappers
               /\ conversions[c][d].mapper.a = c /\ conversions[c][d].mapper.b = d
    <2>1. conversions[c][d] \in Entries
      BY <1>1, <1>3 DEF Table
    <2>2. conversions[c][d].mapper \in Mappers
      BY <2>1 DEF Entries
    <2>3. QED
      BY <1>1, <1>3, <2>2 DEF Placed
  <1>4. IdentityMapper(c) \in Mappers /\ IdentityMapper(c).a = c /\ IdentityMapper(c).b = c
    BY DEF IdentityMapper, Mapper, Mappers
  <1>5. ASSUME NEW m \in Neighbors(c), m # IdentityMapper(c)
        PROVE  \E d \in Clocks : conversions[c][d] # NoEntry /\ m = conversions[c][d].mapper
    BY <1>5 DEF Neighbors, RowOf
  <1>6. ASSUME NEW m \in Neighbors(c)
        PROVE  /\ m \in Mappers /\ m.a = c /\ m.b \in Clocks
               /\ m.b # c => Edge(c, m.b) /\ m = conversions[c][m.b].mapper
    <2>1. CASE m = IdentityMapper(c)
      BY <1>4, <2>1
    <2>2. CASE m # IdentityMapper(c)
      BY <1>3, <1>5, <2>2 DEF Edge
    <2>3. QED
      BY <2>1, <2>2
  <1>7. ASSUME c \notin hidden, NEW d \in Clocks, Edge(c, d)
        PROVE  conversions[c][d].mapper \in Neighbors(c)
    <2>1. conversions[c][d] \in RowOf(conversions, c)
      BY <1>7 DEF RowOf, Edge
    <2>2. QED
      BY <1>7, <2>1 DEF Neighbors
  <1>8. QED
    BY <1>2, <1>3, <1>6, <1>7 DEF Edge

\* A search is on that no moved clock but the last disturbs.
Asked == src \in Clocks /\ dst \in Clocks /\ src # dst /\ hidden \subseteq {dst}

LEMMA DistTyped ==
  ASSUME NEW t \in [Clocks -> Steps \cup {NoEntry}], NEW c \in Clocks
  PROVE  /\ t[c] # NoEntry => t[c].dist \in Nat /\ t[c].via \in Mappers
         /\ Known(t, c) => Dist(t, c) \in Nat
  BY DEF Steps, Known, Dist

\* An entry is taken out of the heap that is longer than the way which the table has.
LEMMA StalePop ==
  ASSUME TableOK(prev, heap), NEW e \in heap, Dist(prev, e.clock) # e.dist
  PROVE  TableOK(prev, heap \ {e})
  <1>1. /\ prev \in [Clocks -> Steps \cup {NoEntry}]
        /\ TreeOK(prev) /\ HeapOK(prev, heap) /\ Settled(prev, heap)
    BY DEF TableOK
  <1>2. HeapOK(prev, heap \ {e})
    BY <1>1 DEF HeapOK
  <1>3. Settled(prev, heap \ {e})
    <2>1. ASSUME NEW a \in Clocks, Known(prev, a)
          PROVE  \/ [dist |-> Dist(prev, a), clock |-> a] \in heap \ {e}
                 \/ \A b \in Clocks : Edge(a, b) =>
                      SeenTo(prev, b, Dist(prev, a) + ConversionCost(conversions[a][b].mapper))
      <3>1. [dist |-> Dist(prev, a), clock |-> a] # e
        OBVIOUS
      <3>2. QED
        BY <1>1, <2>1, <3>1 DEF Settled
    <2>2. QED
      BY <2>1 DEF Settled
  <1>4. QED
    BY <1>1, <1>2, <1>3 DEF TableOK

\* What the loop over the neighbours of a clock at its distance does to the table.
Relaxes(e, better, t, h) ==
  /\ better = Improving(e.clock, e.dist)
  /\ t = [c \in Clocks |->
                IF \E m \in better : m.b = c
                THEN [dist |-> e.dist + ConversionCost(CHOOSE m \in better : m.b = c),
                      via |-> CHOOSE m \in better : m.b = c]
                ELSE prev[c]]
  /\ h = (heap \ {e})
               \cup {[dist |-> e.dist + ConversionCost(m), clock |-> m.b] : m \in better}

LEMMA RelaxPop ==
  ASSUME TableInv, Asked, TableOK(prev, heap), NEW e \in heap, Nearest(e),
         Dist(prev, e.clock) = e.dist, NEW better, NEW t, NEW h, Relaxes(e, better, t, h)
  PROVE  TableOK(t, h)
  <1> DEFINE u == e.clock
             d == e.dist
             Far(m) == d + ConversionCost(m)
  <1>1. /\ prev \in [Clocks -> Steps \cup {NoEntry}]
        /\ TreeOK(prev) /\ HeapOK(prev, heap) /\ Settled(prev, heap)
        /\ src \in Clocks /\ dst \in Clocks /\ src # dst /\ hidden \subseteq {dst}
    BY DEF TableOK, Asked
  <1>2. u \in Clocks /\ d \in Nat /\ Known(prev, u)
    BY <1>1 DEF HeapOK, Known
  <1>3. \A x \in heap : x.dist \in Nat /\ d <= x.dist
    BY <1>1 DEF HeapOK, Nearest
  <1>4. \A m \in better :
          /\ m \in Neighbors(u) /\ Nearer(Far(m), prev[m.b]) /\ Nearer(Far(m), prev[dst])
    BY DEF Relaxes, Improving
  <1>5. \A m \in better :
          /\ m \in Mappers /\ m.a = u /\ m.b \in Clocks
          /\ ConversionCost(m) \in Nat /\ ConversionCost(m) > 0
          /\ m.b # u => Edge(u, m.b) /\ m = conversions[u][m.b].mapper
    BY <1>2, <1>4, NeighborsAre
  <1>6. \A c \in Clocks :
          \/ (\A m \in better : m.b # c) /\ t[c] = prev[c]
          \/ \E m \in better : m.b = c /\ t[c] = [dist |-> Far(m), via |-> m]
    <2>1. SUFFICES ASSUME NEW c \in Clocks, NEW n \in better, n.b = c
                   PROVE  \E m \in better : m.b = c /\ t[c] = [dist |-> Far(m), via |-> m]
      BY DEF Relaxes
    <2> DEFINE m == CHOOSE m \in better : m.b = c
    <2>2. m \in better /\ m.b = c
      BY <2>1
    <2>3. t[c] = [dist |-> Far(m), via |-> m]
      BY <2>1 DEF Relaxes
    <2> HIDE DEF m
    <2>4. QED
      BY <2>2, <2>3
  <1>7. \A x : x \in h <=>
          \/ x \in heap /\ x # e
          \/ \E m \in better : x = [dist |-> Far(m), clock |-> m.b]
    BY DEF Relaxes
  <1>8. t \in [Clocks -> Steps \cup {NoEntry}]
    <2>1. \A m \in better : [dist |-> Far(m), via |-> m] \in Steps
      BY <1>2, <1>5 DEF Steps
    <2>2. \A c \in Clocks : t[c] \in Steps \cup {NoEntry}
      BY <1>1, <1>6, <2>1
    <2>3. t = [c \in Clocks |-> t[c]]
      BY DEF Relaxes
    <2>4. QED
      BY <2>2, <2>3
  <1>9. \A m \in better : [dist |-> Far(m), via |-> m] # NoEntry /\ Far(m) \in Nat /\ Far(m) > d
    <2>1. \A m \in better : [dist |-> Far(m), via |-> m] \in Steps
      BY <1>2, <1>5 DEF Steps
    <2>2. NoEntry \notin Steps
      BY ClockAssumption
    <2>3. QED
      BY <1>2, <1>5, <2>1, <2>2
  <1> HIDE DEF u, d
  <1>10. ASSUME NEW m \in better
         PROVE  t[m.b] # NoEntry /\ t[m.b].dist = Far(m)
    <2>1. PICK n \in better : n.b = m.b /\ t[m.b] = [dist |-> Far(n), via |-> n]
      BY <1>5, <1>6
    <2>2. ConversionCost(n) = ConversionCost(m)
      <3>1. CASE m.b = u
        BY <1>5, <2>1, <3>1 DEF ConversionCost
      <3>2. CASE m.b # u
        BY <1>5, <2>1, <3>2
      <3>3. QED
        BY <3>1, <3>2
    <2>3. QED
      BY <1>9, <2>1, <2>2
  <1>11. ASSUME NEW m \in better, m.b # src PROVE m.b # u
    <2>1. SUFFICES ASSUME m.b = u PROVE FALSE
      OBVIOUS
    <2>2. prev[u] # NoEntry /\ prev[u].dist = d
      BY <1>2, <1>11, <2>1 DEF Known, Dist, u, d
    <2>3. Far(m) < d
      BY <1>4, <2>1, <2>2 DEF Nearer
    <2>4. QED
      BY <1>2, <1>9, <2>3
  <1>12. \A c \in Clocks : c # src /\ t[c] # NoEntry =>
           \/ (\A m \in better : m.b # c) /\ t[c] = prev[c]
           \/ \E m \in better :
                /\ m.b = c /\ m.a = u /\ Edge(u, c) /\ m = conversions[u][c].mapper
                /\ t[c] = [dist |-> Far(m), via |-> m]
    BY <1>5, <1>6, <1>11
  <1>13. \A c \in Clocks : prev[c] # NoEntry =>
           t[c] # NoEntry /\ prev[c].dist \in Nat /\ t[c].dist <= prev[c].dist
    <2>1. ASSUME NEW c \in Clocks, prev[c] # NoEntry
          PROVE  t[c] # NoEntry /\ prev[c].dist \in Nat /\ t[c].dist <= prev[c].dist
      <3>1. prev[c].dist \in Nat
        BY <1>1, <2>1, DistTyped
      <3>2. CASE t[c] = prev[c]
        BY <2>1, <3>1, <3>2
      <3>3. CASE \E m \in better : m.b = c /\ t[c] = [dist |-> Far(m), via |-> m]
        <4>1. PICK m \in better : m.b = c /\ t[c] = [dist |-> Far(m), via |-> m]
          BY <3>3
        <4>2. Far(m) < prev[c].dist
          BY <1>4, <2>1, <4>1 DEF Nearer
        <4>3. QED
          BY <1>9, <3>1, <4>1, <4>2
      <3>4. QED
        BY <1>6, <3>2, <3>3
    <2>2. QED
      BY <2>1
  <1>14. \A c \in Clocks : Known(prev, c) =>
           Known(t, c) /\ (Dist(prev, c) <= d => Dist(t, c) = Dist(prev, c))
    <2>1. ASSUME NEW c \in Clocks, Known(prev, c)
          PROVE  Known(t, c) /\ (Dist(prev, c) <= d => Dist(t, c) = Dist(prev, c))
      <3>1. CASE c = src
        BY <1>1, <3>1 DEF Known, Dist
      <3>2. CASE c # src
        <4>1. prev[c] # NoEntry /\ Dist(prev, c) = prev[c].dist /\ Dist(t, c) = t[c].dist
          BY <1>1, <2>1, <3>2 DEF Known, Dist
        <4>2. t[c] # NoEntry
          BY <1>13, <4>1
        <4>3. ASSUME Dist(prev, c) <= d PROVE t[c] = prev[c]
          <5>1. SUFFICES ASSUME NEW m \in better, m.b = c PROVE FALSE
            BY <1>6
          <5>2. Far(m) < prev[c].dist
            BY <1>4, <4>1, <5>1 DEF Nearer
          <5>3. prev[c].dist \in Nat /\ Far(m) > d /\ Far(m) \in Nat
            BY <1>9, <1>13, <4>1
          <5>4. QED
            BY <1>2, <4>1, <4>3, <5>2, <5>3
        <4>4. QED
          BY <1>1, <4>1, <4>2, <4>3 DEF Known
      <3>3. QED
        BY <3>1, <3>2
    <2>2. QED
      BY <2>1
  <1>15. Known(t, u) /\ Dist(t, u) = d
    <2>1. Dist(prev, u) = d /\ d <= d
      BY <1>2 DEF u, d
    <2>2. QED
      BY <1>2, <1>14, <2>1
  <1>16. \A c \in Clocks, x \in Nat : SeenTo(prev, c, x) => SeenTo(t, c, x)
    <2>1. ASSUME NEW c \in Clocks, NEW x \in Nat, prev[c] # NoEntry, prev[c].dist <= x
          PROVE  t[c] # NoEntry /\ t[c].dist <= x
      <3>1. t[c] # NoEntry /\ prev[c].dist \in Nat /\ t[c].dist <= prev[c].dist
        BY <1>13, <2>1
      <3>2. t[c].dist \in Nat
        BY <1>8, <3>1 DEF Steps
      <3>3. QED
        BY <2>1, <3>1, <3>2
    <2>2. QED
      BY <1>1, <2>1 DEF SeenTo
  <1>17. ASSUME NEW c \in Clocks, c # src, prev[c] # NoEntry
         PROVE  /\ prev[c].via.a \in Clocks /\ Known(prev, prev[c].via.a)
                /\ Dist(prev, prev[c].via.a) \in Nat /\ Dist(prev, prev[c].via.a) <= d
    <2>1. prev[c].via.a \in Clocks /\ Known(prev, prev[c].via.a)
      BY <1>1, <1>17 DEF TreeOK
    <2>2. Dist(prev, prev[c].via.a) <= d
      BY <1>1, <1>17 DEF HeapOK, d
    <2>3. QED
      BY <1>1, <2>1, <2>2, DistTyped
  <1>18. TreeOK(t)
    <2>1. SUFFICES ASSUME NEW c \in Clocks, c # src, t[c] # NoEntry
                   PROVE  LET m == t[c].via
                          IN /\ m.a \in Clocks /\ m.b = c /\ Edge(m.a, c)
                             /\ m = conversions[m.a][c].mapper
                             /\ Known(t, m.a) /\ t[c].dist = Dist(t, m.a) + ConversionCost(m)
      BY DEF TreeOK
    <2>2. CASE t[c] = prev[c]
      <3>1. LET m == prev[c].via
            IN /\ m.a \in Clocks /\ m.b = c /\ Edge(m.a, c) /\ m = conversions[m.a][c].mapper
               /\ Known(prev, m.a) /\ prev[c].dist = Dist(prev, m.a) + ConversionCost(m)
        BY <1>1, <2>1, <2>2 DEF TreeOK
      <3>2. Dist(prev, prev[c].via.a) <= d
        BY <1>17, <2>1, <2>2
      <3>3. QED
        BY <1>14, <2>2, <3>1, <3>2
    <2>3. CASE \E m \in better : /\ m.b = c /\ m.a = u /\ Edge(u, c)
                                 /\ m = conversions[u][c].mapper
                                 /\ t[c] = [dist |-> Far(m), via |-> m]
      <3>1. PICK m \in better : /\ m.b = c /\ m.a = u /\ Edge(u, c)
                                /\ m = conversions[u][c].mapper
                                /\ t[c] = [dist |-> Far(m), via |-> m]
        BY <2>3
      <3>2. t[c].via = m /\ t[c].dist = d + ConversionCost(m)
        BY <3>1
      <3>3. QED
        BY <1>2, <1>15, <3>1, <3>2
    <2>4. QED
      BY <1>12, <2>1, <2>2, <2>3
  <1>19. HeapOK(t, h)
    <2>1. ASSUME NEW x \in h
          PROVE  /\ x = [dist |-> x.dist, clock |-> x.clock] /\ x.dist \in Nat /\ x.clock \in Clocks
                 /\ \/ x.dist = 0 /\ x.clock = src
                    \/ x.dist > 0 /\ t[x.clock] # NoEntry /\ t[x.clock].dist <= x.dist
      <3>1. CASE x \in heap
        <4>1. /\ x = [dist |-> x.dist, clock |-> x.clock] /\ x.dist \in Nat /\ x.clock \in Clocks
              /\ \/ x.dist = 0 /\ x.clock = src
                 \/ x.dist > 0 /\ prev[x.clock] # NoEntry /\ prev[x.clock].dist <= x.dist
          BY <1>1, <3>1 DEF HeapOK
        <4>2. CASE prev[x.clock] # NoEntry /\ prev[x.clock].dist <= x.dist
          <5>1. /\ t[x.clock] # NoEntry /\ prev[x.clock].dist \in Nat
                /\ t[x.clock].dist <= prev[x.clock].dist
            BY <1>13, <4>1, <4>2
          <5>2. t[x.clock].dist \in Nat
            BY <1>8, <4>1, <5>1 DEF Steps
          <5>3. QED
            BY <4>1, <4>2, <5>1, <5>2
        <4>3. QED
          BY <4>1, <4>2
      <3>2. CASE \E m \in better : x = [dist |-> Far(m), clock |-> m.b]
        <4>1. PICK m \in better : x = [dist |-> Far(m), clock |-> m.b]
          BY <3>2
        <4>2. x.dist = Far(m) /\ x.clock = m.b
          BY <4>1
        <4>3. m.b \in Clocks /\ Far(m) \in Nat /\ Far(m) > d /\ Far(m) <= Far(m)
          BY <1>5, <1>9
        <4>4. QED
          BY <1>2, <1>10, <4>1, <4>2, <4>3
      <3>3. QED
        BY <1>7, <3>1, <3>2
    <2>2. ASSUME NEW c \in Clocks, c # src, t[c] # NoEntry, NEW x \in h
          PROVE  Dist(t, t[c].via.a) <= x.dist
      <3>1. d <= x.dist /\ x.dist \in Nat
        <4>1. CASE x \in heap
          BY <1>3, <4>1
        <4>2. CASE \E m \in better : x = [dist |-> Far(m), clock |-> m.b]
          BY <1>2, <1>9, <4>2
        <4>3. QED
          BY <1>7, <4>1, <4>2
      <3>2. CASE t[c] = prev[c]
        <4>1. /\ prev[c].via.a \in Clocks /\ Known(prev, prev[c].via.a)
              /\ Dist(prev, prev[c].via.a) \in Nat /\ Dist(prev, prev[c].via.a) <= d
          BY <1>17, <2>2, <3>2
        <4>2. Dist(t, prev[c].via.a) = Dist(prev, prev[c].via.a)
          BY <1>14, <4>1
        <4>3. QED
          BY <1>2, <3>1, <3>2, <4>1, <4>2
      <3>3. CASE \E m \in better : m.a = u /\ t[c] = [dist |-> Far(m), via |-> m]
        BY <1>15, <3>1, <3>3
      <3>4. QED
        BY <1>12, <2>2, <3>2, <3>3
    <2>3. QED
      BY <2>1, <2>2 DEF HeapOK
  <1>20. ASSUME NEW b \in Clocks, Edge(u, b)
         PROVE  SeenTo(t, b, d + ConversionCost(conversions[u][b].mapper))
    <2> DEFINE m == conversions[u][b].mapper
    <2>1. m \in Mappers /\ m.a = u /\ m.b = b /\ ConversionCost(m) \in Nat
      BY <1>2, <1>20, NeighborsAre
    <2>2. Far(m) \in Nat /\ d <= Far(m)
      BY <1>2, <2>1
    <2>3. CASE u \in hidden
      <3>1. u = dst /\ prev[dst] # NoEntry /\ prev[dst].dist = d
        BY <1>1, <1>2, <2>3 DEF Known, Dist, u, d
      <3>2. SeenTo(prev, b, Far(m))
        BY <2>2, <3>1 DEF SeenTo
      <3>3. SeenTo(t, b, Far(m))
        BY <1>16, <2>2, <3>2
      <3>4. QED
        BY <1>1, <3>3 DEF SeenTo
    <2>4. CASE u \notin hidden
      <3>1. m \in Neighbors(u)
        BY <1>2, <1>20, <2>4, NeighborsAre
      <3>2. ASSUME ~Nearer(Far(m), prev[b]) \/ ~Nearer(Far(m), prev[dst])
            PROVE  SeenTo(prev, b, Far(m))
        <4>1. \A c \in Clocks : ~Nearer(Far(m), prev[c]) =>
                prev[c] # NoEntry /\ prev[c].dist <= Far(m)
          <5>1. \A c \in Clocks : prev[c] # NoEntry => prev[c].dist \in Nat
            BY <1>1, DistTyped
          <5>2. QED
            BY <2>2, <5>1 DEF Nearer
        <4>2. QED
          BY <1>1, <3>2, <4>1 DEF SeenTo
      <3>3. ASSUME Nearer(Far(m), prev[b]), Nearer(Far(m), prev[dst]), m \notin better
            PROVE  t[dst] # NoEntry /\ t[dst].dist <= Far(m)
        <4> DEFINE closer == {n \in Neighbors(u) : /\ Nearer(Far(n), prev[n.b])
                                                   /\ Nearer(Far(n), prev[dst])}
        <4>1. better = {n \in closer :
                          \A x \in closer : x.b = dst /\ Sooner(x, n) => Far(n) < Far(x)}
          BY DEF Relaxes, Improving, u, d
        <4>2. m \in closer
          BY <2>1, <3>1, <3>3
        <4>3. PICK x \in closer : x.b = dst /\ ~(Far(m) < Far(x))
          BY <3>3, <4>1, <4>2
        <4>4. /\ x \in Mappers /\ x.a = u /\ ConversionCost(x) \in Nat /\ ConversionCost(x) > 0
              /\ \A y \in closer : y.b # u => Edge(u, y.b) /\ y = conversions[u][y.b].mapper
          BY <1>2, NeighborsAre
        <4>5. Far(x) \in Nat /\ Far(x) <= Far(m) /\ d < Far(x)
          BY <1>2, <2>2, <4>3, <4>4
        <4>6. dst # u
          <5>1. SUFFICES ASSUME dst = u PROVE FALSE
            OBVIOUS
          <5>2. prev[dst] # NoEntry /\ prev[dst].dist = d
            BY <1>1, <1>2, <5>1 DEF Known, Dist, u, d
          <5>3. Nearer(Far(x), prev[dst])
            OBVIOUS
          <5>4. QED
            BY <1>2, <4>5, <5>2, <5>3 DEF Nearer
        <4>7. Edge(u, dst) /\ x = conversions[u][dst].mapper
          BY <4>3, <4>4, <4>6
        <4>8. \A y \in closer : y.b = dst => y = x
          BY <4>4, <4>6, <4>7
        <4>9. ~Sooner(x, x)
          <5>1. conversions[u][dst] # NoEntry
            BY <4>7 DEF Edge
          <5>2. conversions[u][dst].at \in Nat
            <6>1. conversions[u][dst] \in Entries
              BY <1>1, <1>2, <5>1 DEF TableInv, Table
            <6>2. QED
              BY <6>1 DEF Entries
          <5>3. QED
            BY <4>3, <4>4, <5>1, <5>2 DEF Sooner
        <4>10. x \in better
          BY <4>1, <4>3, <4>8, <4>9
        <4>11. QED
          BY <1>10, <4>3, <4>5, <4>10
      <3>4. CASE m \in better
        <4>1. t[b] # NoEntry /\ t[b].dist = Far(m) /\ Far(m) <= Far(m)
          BY <1>10, <2>1, <2>2, <3>4
        <4>2. QED
          BY <1>1, <4>1 DEF SeenTo
      <3>5. CASE m \notin better
        <4>1. CASE ~Nearer(Far(m), prev[b]) \/ ~Nearer(Far(m), prev[dst])
          <5>1. SeenTo(t, b, Far(m))
            BY <1>16, <2>2, <3>2, <4>1
          <5>2. QED
            BY <1>1, <5>1 DEF SeenTo
        <4>2. CASE Nearer(Far(m), prev[b]) /\ Nearer(Far(m), prev[dst])
          BY <1>1, <3>3, <3>5, <4>2 DEF SeenTo
        <4>3. QED
          BY <4>1, <4>2
      <3>6. QED
        BY <3>4, <3>5
    <2>5. QED
      BY <2>3, <2>4
  <1>21. Settled(t, h)
    <2>1. ASSUME NEW a \in Clocks, Known(t, a)
          PROVE  \/ [dist |-> Dist(t, a), clock |-> a] \in h
                 \/ \A b \in Clocks : Edge(a, b) =>
                      SeenTo(t, b, Dist(t, a) + ConversionCost(conversions[a][b].mapper))
      <3>1. CASE a = u
        BY <1>15, <1>20, <3>1
      <3>2. CASE a # u /\ a # src /\ \E m \in better : m.b = a
        <4>1. PICK m \in better : m.b = a
          BY <3>2
        <4>2. Dist(t, a) = Far(m)
          BY <1>1, <1>10, <3>2, <4>1 DEF Dist
        <4>3. QED
          BY <1>7, <4>1, <4>2
      <3>3. CASE a # u /\ (a = src \/ t[a] = prev[a])
        <4>1. Known(prev, a) /\ Dist(t, a) = Dist(prev, a)
          BY <1>1, <2>1, <3>3 DEF Known, Dist
        <4>2. CASE [dist |-> Dist(prev, a), clock |-> a] \in heap
          <5>1. [dist |-> Dist(prev, a), clock |-> a] # e
            BY <3>3 DEF u
          <5>2. QED
            BY <1>7, <4>1, <4>2, <5>1
        <4>3. CASE \A b \in Clocks : Edge(a, b) =>
                     SeenTo(prev, b, Dist(prev, a) + ConversionCost(conversions[a][b].mapper))
          <5>1. ASSUME NEW b \in Clocks, Edge(a, b)
                PROVE  SeenTo(t, b, Dist(t, a) + ConversionCost(conversions[a][b].mapper))
            <6>1. ConversionCost(conversions[a][b].mapper) \in Nat /\ Dist(prev, a) \in Nat
              BY <1>1, <4>1, <5>1, NeighborsAre, DistTyped
            <6> DEFINE x == Dist(prev, a) + ConversionCost(conversions[a][b].mapper)
            <6>2. x \in Nat /\ SeenTo(prev, b, x)
              BY <4>3, <5>1, <6>1
            <6> HIDE DEF x
            <6>3. SeenTo(t, b, x)
              BY <1>16, <6>2
            <6>4. QED
              BY <4>1, <6>3 DEF x
          <5>2. QED
            BY <5>1
        <4>4. QED
          BY <1>1, <4>1, <4>2, <4>3 DEF Settled
      <3>4. QED
        BY <1>6, <3>1, <3>2, <3>3
    <2>2. QED
      BY <2>1 DEF Settled
  <1>22. QED
    BY <1>8, <1>18, <1>19, <1>21 DEF TableOK

-----------------------------------------------------------------------------
(* get_conversion(): the invariant holds *)

LEMMA TablePrimed ==
  ASSUME src' = src, dst' = dst, conversions' = conversions
  PROVE  TableOK(prev, heap)' <=> TableOK(prev', heap')
  <1>1. TreeOK(prev)' <=> TreeOK(prev')
    BY DEF TreeOK, Edge, Known, Dist, ConversionCost
  <1>2. HeapOK(prev, heap)' <=> HeapOK(prev', heap')
    BY DEF HeapOK, Dist
  <1>3. Settled(prev, heap)' <=> Settled(prev', heap')
    BY DEF Settled, SeenTo, Edge, Known, Dist, ConversionCost
  <1>4. QED
    BY <1>1, <1>2, <1>3 DEF TableOK

\* A clock to which the way has been found again by a detour is taken out of the heap.
LEMMA DetourPop ==
  ASSUME TableInv, Asked, TableOK(prev, heap), NEW e \in heap, Nearest(e),
         e.clock = src, e.dist > 0, prev[src] # NoEntry, prev[src].dist = e.dist
  PROVE  Improving(src, e.dist) = {}
  <1>1. /\ prev \in [Clocks -> Steps \cup {NoEntry}] /\ HeapOK(prev, heap)
        /\ Settled(prev, heap) /\ src \in Clocks /\ dst \in Clocks
    BY DEF TableOK, Asked
  <1>2. e.dist \in Nat
    BY <1>1 DEF HeapOK
  <1>3. \A b \in Clocks : Edge(src, b) =>
          SeenTo(prev, b, 0 + ConversionCost(conversions[src][b].mapper))
    <2>1. [dist |-> 0, clock |-> src] \notin heap
      BY <1>2 DEF Nearest
    <2>2. Known(prev, src) /\ Dist(prev, src) = 0
      BY DEF Known, Dist
    <2>3. QED
      BY <1>1, <2>1, <2>2 DEF Settled
  <1>4. SUFFICES ASSUME NEW m \in Neighbors(src), Nearer(e.dist + ConversionCost(m), prev[m.b]),
                        Nearer(e.dist + ConversionCost(m), prev[dst])
                 PROVE  FALSE
    BY DEF Improving
  <1>5. /\ m.b \in Clocks /\ ConversionCost(m) \in Nat /\ ConversionCost(m) > 0
        /\ m.b # src => Edge(src, m.b) /\ m = conversions[src][m.b].mapper
    BY <1>1, NeighborsAre
  <1>6. \A c \in Clocks : prev[c] # NoEntry => prev[c].dist \in Nat
    BY <1>1, DistTyped
  <1>7. CASE m.b = src
    BY <1>2, <1>4, <1>5, <1>7 DEF Nearer
  <1>8. CASE m.b # src
    <2>1. SeenTo(prev, m.b, ConversionCost(m))
      BY <1>3, <1>5, <1>8
    <2>2. QED
      BY <1>1, <1>2, <1>4, <1>5, <1>6, <1>8, <2>1 DEF SeenTo, Nearer
  <1>9. QED
    BY <1>7, <1>8

LEMMA PopKeeps ==
  ASSUME TableInv, Asked, TableOK(prev, heap), NEW e \in heap, Pop(e)
  PROVE  TableOK(prev', heap')
  <1> DEFINE u == e.clock
             d == e.dist
             better == Improving(u, d)
  <1>1. /\ prev \in [Clocks -> Steps \cup {NoEntry}] /\ HeapOK(prev, heap) /\ Nearest(e)
    BY DEF TableOK, Pop
  <1>2. /\ u \in Clocks /\ d \in Nat
        /\ \/ d = 0 /\ u = src
           \/ d > 0 /\ prev[u] # NoEntry /\ prev[u].dist <= d
    BY <1>1 DEF HeapOK
  <1>3. prev[u] # NoEntry => prev[u].dist \in Nat
    BY <1>1, <1>2, DistTyped
  <1>4. CASE prev[u] # NoEntry /\ d > prev[u].dist
    <2>1. prev' = prev /\ heap' = heap \ {e}
      BY <1>4 DEF Pop
    <2>2. Dist(prev, u) # d
      BY <1>2, <1>3, <1>4 DEF Dist
    <2>3. QED
      BY <2>1, <2>2, StalePop
  <1>5. CASE ~(prev[u] # NoEntry /\ d > prev[u].dist)
    <2>1. Relaxes(e, better, prev', heap')
      BY <1>5 DEF Pop, Relaxes
    <2>2. CASE Dist(prev, u) = d
      BY <1>1, <2>1, <2>2, RelaxPop
    <2>3. CASE Dist(prev, u) # d
      <3>1. u = src /\ d > 0 /\ prev[src] # NoEntry /\ prev[src].dist = d
        BY <1>2, <1>3, <1>5, <2>3 DEF Dist
      <3>2. better = {}
        BY <1>1, <3>1, DetourPop
      <3>3. prev' = [c \in Clocks |-> prev[c]] /\ heap' = heap \ {e}
        BY <2>1, <3>2 DEF Relaxes
      <3>4. prev' = prev
        BY <1>1, <3>3
      <3>5. QED
        BY <2>3, <3>3, <3>4, StalePop
    <2>4. QED
      BY <2>2, <2>3
  <1>6. QED
    BY <1>4, <1>5

LEMMA DrainedKeeps ==
  ASSUME Asked, TableOK(prev, heap), Drained
  PROVE  SearchOK'
  <1>1. /\ prev \in [Clocks -> Steps \cup {NoEntry}] /\ TreeOK(prev)
        /\ src \in Clocks /\ dst \in Clocks /\ src # dst
    BY DEF TableOK, Asked
  <1>2. /\ heap = {} /\ prev' = prev /\ heap' = heap
        /\ src' = src /\ dst' = dst /\ conversions' = conversions
    BY DEF Drained, tableVars
  <1>3. TableOK(prev, heap)'
    BY <1>2, TablePrimed
  <1>4. CASE prev[dst] = NoEntry
    <2>1. search' = "none"
      BY <1>4 DEF Drained
    <2>2. QED
      BY <1>2, <1>3, <1>4, <2>1 DEF SearchOK
  <1>5. CASE prev[dst] # NoEntry
    <2>1. search' = "trace" /\ path' = <<prev[dst].via>>
      BY <1>5 DEF Drained
    <2>2. prev[dst].via \in Mappers /\ prev[dst].via.b = dst
      BY <1>1, <1>5, DistTyped DEF TreeOK
    <2>3. PathOK'
      <3> DEFINE p == <<prev[dst].via>>
      <3>1. p \in Seq(Mappers) /\ p # <<>> /\ Len(p) = 1 /\ p[1] = prev[dst].via
        BY <2>2
      <3>2. \A i \in 1..Len(p) : i = 1
        BY <3>1
      <3> HIDE DEF p
      <3>3. QED
        BY <1>1, <1>2, <1>5, <2>1, <2>2, <3>1, <3>2 DEF PathOK, p
    <2>4. QED
      BY <1>2, <1>3, <2>1, <2>3 DEF SearchOK
  <1>6. QED
    BY <1>4, <1>5

LEMMA TraceKeeps ==
  ASSUME Asked, SearchOK, Trace
  PROVE  SearchOK'
  <1>1. /\ prev \in [Clocks -> Steps \cup {NoEntry}] /\ TreeOK(prev) /\ heap = {} /\ PathOK
        /\ src \in Clocks /\ dst \in Clocks /\ TableOK(prev, heap)
    BY DEF SearchOK, TableOK, Asked, Trace
  <1>2. /\ prev' = prev /\ heap' = heap
        /\ src' = src /\ dst' = dst /\ conversions' = conversions
    BY DEF Trace, tableVars
  <1>3. TableOK(prev, heap)'
    BY <1>1, <1>2, TablePrimed
  <1>4. Head(path) = path[1] /\ Len(path) \in Nat /\ Len(path) > 0
    BY <1>1 DEF PathOK
  <1>5. CASE path[1].a = src
    <2>1. search' = "found" /\ path' = path
      BY <1>4, <1>5 DEF Trace
    <2>2. PathOK'
      BY <1>1, <1>2, <2>1 DEF PathOK
    <2>3. QED
      BY <1>1, <1>2, <1>3, <1>5, <2>1, <2>2 DEF SearchOK
  <1>6. CASE path[1].a # src
    <2> DEFINE first == path[1].a
               m == prev[first].via
               p == <<m>> \o path
    <2>1. search' = "trace" /\ path' = p
      BY <1>4, <1>6 DEF Trace
    <2>2. /\ path[1].b \in Clocks \ {src} /\ prev[path[1].b] # NoEntry
          /\ prev[path[1].b].via = path[1]
      BY <1>1, <1>4 DEF PathOK
    <2>3. first \in Clocks /\ first # src /\ prev[first] # NoEntry
      BY <1>1, <1>6, <2>2 DEF TreeOK, Known
    <2>4. m \in Mappers /\ m.b = first
      BY <1>1, <2>3, DistTyped DEF TreeOK
    <2>5. /\ path \in Seq(Mappers) /\ path[Len(path)].b = dst
          /\ \A i \in 1..Len(path) :
               /\ path[i].b \in Clocks \ {src} /\ prev[path[i].b] # NoEntry
               /\ prev[path[i].b].via = path[i]
          /\ \A i \in 1..(Len(path) - 1) : path[i].b = path[i + 1].a
      BY <1>1 DEF PathOK
    <2> HIDE DEF m
    <2>6. /\ p \in Seq(Mappers) /\ p # <<>> /\ Len(p) = Len(path) + 1 /\ p[1] = m
          /\ \A i \in 1..Len(path) : p[i + 1] = path[i]
      BY <2>4, <2>5
    <2> HIDE DEF p
    <2>7. \A i \in 1..Len(p) : i = 1 \/ (i - 1 \in 1..Len(path) /\ p[i] = path[i - 1])
      <3>1. SUFFICES ASSUME NEW i \in 1..Len(p), i # 1
                     PROVE  i - 1 \in 1..Len(path) /\ p[i] = path[i - 1]
        OBVIOUS
      <3>2. i - 1 \in 1..Len(path) /\ (i - 1) + 1 = i
        BY <1>4, <2>6, <3>1
      <3>3. QED
        BY <2>6, <3>2
    <2>8. p[Len(p)].b = dst
      BY <1>4, <2>5, <2>6
    <2>9. ASSUME NEW i \in 1..Len(p)
          PROVE  /\ p[i].b \in Clocks \ {src} /\ prev[p[i].b] # NoEntry
                 /\ prev[p[i].b].via = p[i]
      <3>1. CASE i = 1
        BY <2>3, <2>4, <2>6, <3>1 DEF m
      <3>2. CASE i # 1
        BY <2>5, <2>7, <2>9, <3>2
      <3>3. QED
        BY <3>1, <3>2
    <2>10. ASSUME NEW i \in 1..(Len(p) - 1) PROVE p[i].b = p[i + 1].a
      <3>1. i \in 1..Len(path) /\ i \in 1..Len(p) /\ p[i + 1] = path[i]
        BY <1>4, <2>6, <2>10
      <3>2. CASE i = 1
        BY <2>4, <2>6, <3>1, <3>2
      <3>3. CASE i # 1
        <4>1. i - 1 \in 1..(Len(path) - 1) /\ p[i] = path[i - 1] /\ (i - 1) + 1 = i
          BY <1>4, <2>7, <3>1, <3>3
        <4>2. QED
          BY <2>5, <3>1, <4>1
      <3>4. QED
        BY <3>2, <3>3
    <2>11. PathOK'
      BY <1>2, <2>1, <2>6, <2>8, <2>9, <2>10 DEF PathOK
    <2>12. QED
      BY <1>1, <1>2, <1>3, <2>1, <2>11 DEF SearchOK
  <1>7. QED
    BY <1>5, <1>6

LEMMA SearchInvInit == TimeInit => SearchInv
  <1> SUFFICES ASSUME TimeInit PROVE SearchInv
    OBVIOUS
  <1>1. search = "idle" /\ reading \in [Clocks -> Int]
    BY DEF TimeInit
  <1>2. QED
    BY <1>1, TableInvInit DEF SearchInv

LEMMA SearchInvNext == SearchInv /\ [TimeNext]_timeVars => SearchInv'
  <1> SUFFICES ASSUME SearchInv, [TimeNext]_timeVars PROVE SearchInv'
    OBVIOUS
  <1>1. TableInv /\ TableInv'
    BY TableInvNext DEF SearchInv
  <1>2. /\ search \in {"idle", "search", "trace", "found", "none", "failed"}
        /\ reading \in [Clocks -> Int]
        /\ search # "idle" => todo = <<>> /\ src \in Clocks /\ dst \in Clocks /\ src # dst
        /\ search # "idle" /\ hidden \subseteq {dst} => SearchOK
    BY DEF SearchInv
  <1>3. ASSUME search' = "idle", reading' \in [Clocks -> Int] PROVE SearchInv'
    BY <1>1, <1>3 DEF SearchInv
  <1>4. ASSUME search # "idle", UNCHANGED <<tableVars, src, dst>>,
               search' \in {"search", "trace", "found", "none", "failed"},
               hidden \subseteq {dst} => SearchOK'
        PROVE  SearchInv'
    BY <1>1, <1>2, <1>4 DEF SearchInv, tableVars
  <1>5. CASE Register
    BY <1>2, <1>3, <1>5 DEF Register, searchVars
  <1>6. ASSUME NEW c \in Moving, Move(c) PROVE SearchInv'
    BY <1>3, <1>6 DEF Move, searchVars
  <1>7. ASSUME NEW a \in Clocks, AskSame(a) PROVE SearchInv'
    BY <1>2, <1>3, <1>7 DEF AskSame, searchVars
  <1>8. CASE Return
    BY <1>2, <1>3, <1>8 DEF Return, tableVars
  <1>9. ASSUME NEW a \in Clocks, NEW b \in Clocks, Ask(a, b) PROVE SearchInv'
    <2>1. /\ search' = "search" /\ src' = a /\ dst' = b /\ a # b /\ todo' = <<>>
          /\ prev' = [c \in Clocks |-> NoEntry] /\ heap' = {[dist |-> 0, clock |-> a]}
          /\ reading' = reading
      BY <1>9 DEF Ask, tableVars
    <2>2. TreeOK(prev)'
      BY <2>1 DEF TreeOK
    <2>3. HeapOK(prev, heap)'
      BY <2>1 DEF HeapOK
    <2>4. Settled(prev, heap)'
      BY <2>1 DEF Settled, Known, Dist
    <2>5. SearchOK'
      BY <2>1, <2>2, <2>3, <2>4 DEF SearchOK, TableOK
    <2>6. QED
      BY <1>1, <1>2, <2>1, <2>5 DEF SearchInv
  <1>10. ASSUME NEW e \in heap, Pop(e) PROVE SearchInv'
    <2>1. search = "search" /\ search' = "search" /\ UNCHANGED <<tableVars, src, dst>>
      BY <1>10 DEF Pop
    <2>2. ASSUME hidden \subseteq {dst} PROVE SearchOK'
      <3>1. Asked /\ TableOK(prev, heap)
        BY <1>2, <2>1, <2>2 DEF Asked, SearchOK
      <3>2. TableOK(prev', heap')
        BY <1>1, <1>10, <3>1, PopKeeps
      <3>3. QED
        BY <2>1, <3>2, TablePrimed DEF SearchOK, tableVars
    <2>3. QED
      BY <1>4, <2>1, <2>2
  <1>11. CASE TieRaises
    <2>1. /\ search = "search" /\ search' = "failed" /\ UNCHANGED <<tableVars, src, dst>>
          /\ prev' = prev /\ heap' = heap
      BY <1>11 DEF TieRaises
    <2>2. ASSUME hidden \subseteq {dst} PROVE SearchOK'
      BY <1>2, <2>1, <2>2, TablePrimed DEF SearchOK, tableVars
    <2>3. QED
      BY <1>4, <2>1, <2>2
  <1>12. CASE Drained
    <2>1. search = "search" /\ search' \in {"none", "trace"} /\ UNCHANGED <<tableVars, src, dst>>
      BY <1>12 DEF Drained
    <2>2. ASSUME hidden \subseteq {dst} PROVE SearchOK'
      BY <1>2, <1>12, <2>1, <2>2, DrainedKeeps DEF SearchOK, Asked
    <2>3. QED
      BY <1>4, <2>1, <2>2
  <1>13. CASE Trace
    <2>1. /\ search = "trace" /\ search' \in {"found", "trace"}
          /\ UNCHANGED <<tableVars, src, dst>>
      BY <1>13 DEF Trace
    <2>2. ASSUME hidden \subseteq {dst} PROVE SearchOK'
      BY <1>2, <1>13, <2>1, <2>2, TraceKeeps DEF Asked
    <2>3. QED
      BY <1>4, <2>1, <2>2
  <1>14. CASE UNCHANGED timeVars
    <2>1. /\ UNCHANGED <<conversions, todo, reading, hidden>>
          /\ UNCHANGED <<search, src, dst, prev, heap, path>>
      BY <1>14 DEF timeVars, tableVars, searchVars
    <2>2. CASE search = "idle"
      BY <1>2, <1>3, <2>1, <2>2
    <2>3. CASE search # "idle"
      <3>1. SearchOK => SearchOK'
        <4>1. PathOK => PathOK'
          BY <2>1 DEF PathOK
        <4>2. QED
          BY <2>1, <4>1, TablePrimed DEF SearchOK
      <3>2. QED
        BY <1>1, <1>2, <2>1, <2>3, <3>1 DEF SearchInv
    <2>4. QED
      BY <2>2, <2>3
  <1>15. QED
    BY <1>5, <1>6, <1>7, <1>8, <1>9, <1>10, <1>11, <1>12, <1>13, <1>14 DEF TimeNext

-----------------------------------------------------------------------------
(* get_conversion(): what the invariant says of the chain *)

LEMMA ChainIs ==
  ASSUME NEW s \in Chains
  PROVE  /\ Len(s) \in Nat /\ Len(s) >= 2 /\ s \in [1..Len(s) -> Clocks]
         /\ s[1] = src /\ s[Len(s)] = dst
         /\ \A i \in 1..(Len(s) - 1) : Edge(s[i], s[i + 1])
  <1>1. PICK n \in 2..Cardinality(Clocks) : s \in [1..n -> Clocks]
    BY DEF Chains
  <1>2. Len(s) = n /\ n \in Nat /\ n >= 2
    <2>1. n \in Nat /\ n >= 2
      <3>1. Cardinality(Clocks) \in Nat
        BY FS_CardinalityType
      <3>2. QED
        BY <3>1
    <2>2. s \in Seq(Clocks) /\ DOMAIN s = 1..n
      BY <1>1, <2>1
    <2>3. QED
      BY <2>1, <2>2, LenProperties
  <1>3. /\ s[1] = src /\ s[Len(s)] = dst /\ IsInjective(s)
        /\ \A i \in 1..(Len(s) - 1) : conversions[s[i]][s[i + 1]] # NoEntry
    BY DEF Chains, Last
  <1>4. ASSUME NEW i \in 1..(Len(s) - 1) PROVE s[i] # s[i + 1]
    <2>1. i \in DOMAIN s /\ i + 1 \in DOMAIN s /\ i # i + 1
      BY <1>1, <1>2
    <2>2. QED
      BY <1>3, <2>1 DEF IsInjective
  <1>5. QED
    BY <1>1, <1>2, <1>3, <1>4 DEF Edge

\* When the heap is empty, no chain leads to a clock that the search has not come to.
LEMMA NoneIsNone ==
  ASSUME TableInv, Asked, TableOK(prev, heap), heap = {}, prev[dst] = NoEntry
  PROVE  Chains = {}
  <1>1. SUFFICES ASSUME NEW s \in Chains PROVE FALSE
    OBVIOUS
  <1>2. /\ Len(s) \in Nat /\ Len(s) >= 2 /\ s \in [1..Len(s) -> Clocks]
        /\ s[1] = src /\ s[Len(s)] = dst
        /\ \A i \in 1..(Len(s) - 1) : Edge(s[i], s[i + 1])
    BY ChainIs
  <1> DEFINE n == Len(s) - 1
             P == {k \in 0..n : Known(prev, s[k + 1])}
  <1>3. n \in Nat /\ 0 \in P
    BY <1>2 DEF Known
  <1>4. ASSUME NEW k \in 1..n, k - 1 \in P PROVE k \in P
    <2>1. k \in 1..Len(s) /\ k + 1 \in 1..Len(s) /\ (k - 1) + 1 = k /\ k \in 0..n
      BY <1>2
    <2>2. s[k] \in Clocks /\ s[k + 1] \in Clocks /\ Known(prev, s[k]) /\ Edge(s[k], s[k + 1])
      BY <1>2, <1>4, <2>1
    <2>3. \E d : SeenTo(prev, s[k + 1], d)
      BY <2>2 DEF TableOK, Settled
    <2>4. Known(prev, s[k + 1])
      BY <2>3 DEF SeenTo, Known
    <2>5. QED
      BY <2>1, <2>4
  <1>5. P = 0..n
    <2> HIDE DEF n
    <2>1. P \in SUBSET (0..n)
      OBVIOUS
    <2> HIDE DEF P
    <2>2. QED
      BY <1>3, <1>4, <2>1, UpwardTo
  <1>6. Known(prev, dst)
    <2>1. n + 1 = Len(s)
      BY <1>2
    <2>2. n \in P
      <3> HIDE DEF P
      <3>1. QED
        BY <1>3, <1>5
    <2>3. QED
      BY <1>2, <2>1, <2>2
  <1>7. QED
    BY <1>6 DEF Known, Asked

\* No chain is cheaper than the way that the table has.
LEMMA NoneCheaper ==
  ASSUME TableInv, Asked, TableOK(prev, heap), heap = {}, prev[dst] # NoEntry,
         NEW s \in Chains
  PROVE  prev[dst].dist <= Total(Costs(MappersOf(s)))
  <1>1. /\ Len(s) \in Nat /\ Len(s) >= 2 /\ s \in [1..Len(s) -> Clocks]
        /\ s[1] = src /\ s[Len(s)] = dst
        /\ \A i \in 1..(Len(s) - 1) : Edge(s[i], s[i + 1])
    BY ChainIs
  <1>2. /\ prev \in [Clocks -> Steps \cup {NoEntry}] /\ src \in Clocks /\ dst \in Clocks
        /\ src # dst /\ Settled(prev, heap)
    BY DEF TableOK, Asked
  <1> DEFINE n == Len(s) - 1
             q == Costs(MappersOf(s))
  <1>3. n \in Nat /\ \A k \in 1..n : k \in 1..Len(s) /\ k + 1 \in 1..Len(s)
    BY <1>1
  <1>4. \A k \in 1..n : q[k] = ConversionCost(conversions[s[k]][s[k + 1]].mapper) /\ q[k] \in Nat
    <2>1. \A k \in 1..n : q[k] = ConversionCost(conversions[s[k]][s[k + 1]].mapper)
      BY DEF Costs, MappersOf
    <2>2. QED
      BY <2>1 DEF ConversionCost
  <1>5. q \in [1..n -> Int]
    <2>1. q = [k \in 1..n |-> q[k]]
      BY DEF Costs, MappersOf
    <2> HIDE DEF q, n
    <2>2. QED
      BY <1>4, <2>1
  <1> HIDE DEF q
  <1>6. PICK f \in Sums(q, n) : Total(q) = f[n]
    BY <1>3, <1>5, TotalSums
  <1>7. f[0] = 0 /\ \A k \in 1..n : f[k] = f[k - 1] + q[k]
    BY DEF Sums
  <1> DEFINE P == {k \in 0..n : f[k] \in Nat /\ SeenTo(prev, s[k + 1], f[k])}
  <1>8. 0 \in P
    BY <1>1, <1>3, <1>7 DEF SeenTo
  <1>9. ASSUME NEW k \in 1..n, k - 1 \in P PROVE k \in P
    <2>1. k \in 0..n /\ (k - 1) + 1 = k
      BY <1>3
    <2>2. /\ s[k] \in Clocks /\ s[k + 1] \in Clocks /\ Edge(s[k], s[k + 1])
          /\ f[k - 1] \in Nat /\ SeenTo(prev, s[k], f[k - 1])
      BY <1>1, <1>3, <1>9, <2>1
    <2>3. f[k] = f[k - 1] + q[k] /\ q[k] \in Nat
      BY <1>4, <1>7
    <2>4. \A c \in Clocks : prev[c] # NoEntry => prev[c].dist \in Nat
      BY <1>2, DistTyped
    <2>5. CASE prev[dst] # NoEntry /\ prev[dst].dist <= f[k - 1]
      BY <1>2, <2>1, <2>2, <2>3, <2>4, <2>5 DEF SeenTo
    <2>6. CASE s[k] = src \/ (prev[s[k]] # NoEntry /\ prev[s[k]].dist <= f[k - 1])
      <3>1. /\ Known(prev, s[k]) /\ Dist(prev, s[k]) \in Nat
            /\ Dist(prev, s[k]) <= f[k - 1]
        BY <2>2, <2>4, <2>6 DEF Known, Dist
      <3>2. SeenTo(prev, s[k + 1], Dist(prev, s[k]) + q[k])
        BY <1>2, <1>4, <2>2, <3>1 DEF Settled
      <3>3. QED
        BY <1>2, <2>1, <2>2, <2>3, <2>4, <3>1, <3>2 DEF SeenTo
    <2>7. QED
      BY <2>2, <2>5, <2>6 DEF SeenTo
  <1>10. P = 0..n
    <2> HIDE DEF n
    <2>1. P \in SUBSET (0..n)
      OBVIOUS
    <2> HIDE DEF P
    <2>2. QED
      BY <1>3, <1>8, <1>9, <2>1, UpwardTo
  <1>11. SeenTo(prev, dst, f[n])
    <2>1. n + 1 = Len(s)
      BY <1>1
    <2>2. n \in P
      <3> HIDE DEF P
      <3>1. QED
        BY <1>3, <1>10
    <2>3. QED
      BY <1>1, <2>1, <2>2
  <1>12. QED
    BY <1>2, <1>6, <1>11 DEF SeenTo, q

\* What the chain that was found is made of, and what it adds up to.
LEMMA PathIs ==
  ASSUME TableInv, Asked, TableOK(prev, heap), PathOK, path[1].a = src,
         reading \in [Clocks -> Int]
  PROVE  /\ \A i \in 1..Len(path) :
              /\ path[i].a \in Clocks /\ path[i].b \in Clocks
              /\ conversions[path[i].a][path[i].b] # NoEntry
              /\ path[i] = conversions[path[i].a][path[i].b].mapper
         /\ Total(Costs(path)) = prev[dst].dist
         /\ Total(Offsets(path)) = reading[dst] - reading[src]
  <1>1. /\ prev \in [Clocks -> Steps \cup {NoEntry}] /\ TreeOK(prev)
        /\ src \in Clocks /\ dst \in Clocks /\ src # dst
    BY DEF TableOK, Asked
  <1>2. /\ path \in Seq(Mappers) /\ Len(path) \in Nat /\ Len(path) > 0
        /\ path[Len(path)].b = dst
        /\ \A i \in 1..(Len(path) - 1) : path[i].b = path[i + 1].a
    BY DEF PathOK
  <1> DEFINE n == Len(path)
  <1>3. ASSUME NEW i \in 1..n
        PROVE  /\ path[i].a \in Clocks /\ path[i].b \in Clocks /\ path[i].b # src
               /\ Edge(path[i].a, path[i].b)
               /\ path[i] = conversions[path[i].a][path[i].b].mapper
               /\ Known(prev, path[i].a) /\ prev[path[i].b] # NoEntry
               /\ prev[path[i].b].dist = Dist(prev, path[i].a) + ConversionCost(path[i])
    <2> DEFINE c == path[i].b
    <2>1. c \in Clocks /\ c # src /\ prev[c] # NoEntry /\ prev[c].via = path[i]
      BY DEF PathOK
    <2>2. QED
      BY <1>1, <2>1 DEF TreeOK
  <1>4. DOMAIN path = 1..n /\ n \in Nat /\ n > 0
    BY <1>2
  <1>5. \A i \in 1..n : IF i = 1 THEN path[i].a = src
                        ELSE i - 1 \in 1..n /\ path[i].a = path[i - 1].b
    <2>1. ASSUME NEW i \in 1..n, i # 1 PROVE i - 1 \in 1..n /\ path[i].a = path[i - 1].b
      <3>1. i - 1 \in 1..(n - 1) /\ (i - 1) + 1 = i /\ i - 1 \in 1..n
        BY <1>4, <2>1
      <3>2. QED
        BY <1>2, <3>1
    <2>2. QED
      BY <2>1
  <1>6. \A c \in Clocks : Known(prev, c) => Dist(prev, c) \in Nat
    BY <1>1, DistTyped
  <1> HIDE DEF n
  <1>7. Total(Costs(path)) = prev[dst].dist
    <2> DEFINE q == Costs(path)
               at == [i \in 0..n |-> IF i = 0 THEN 0 ELSE Dist(prev, path[i].b)]
    <2>1. \A i \in 1..n : q[i] = ConversionCost(path[i]) /\ q[i] \in Int
      BY <1>4 DEF Costs, ConversionCost
    <2>2. q \in [1..n -> Int]
      <3>1. q = [i \in 1..n |-> q[i]]
        BY <1>4 DEF Costs
      <3> HIDE DEF q
      <3>2. QED
        BY <2>1, <3>1
    <2> HIDE DEF q
    <2>3. \A i \in 1..n : Dist(prev, path[i].b) \in Nat
      BY <1>3, <1>6 DEF Known
    <2>4. at \in [0..n -> Int]
      <3>1. \A i \in 0..n : i = 0 \/ i \in 1..n
        BY <1>4
      <3>2. QED
        BY <2>3, <3>1
    <2>5. ASSUME NEW i \in 1..n PROVE q[i] = at[i] - at[i - 1]
      <3>1. i \in 0..n /\ i # 0 /\ i - 1 \in 0..n /\ (i = 1 <=> i - 1 = 0)
        BY <1>4
      <3>2. at[i - 1] = Dist(prev, path[i].a)
        BY <1>1, <1>5, <3>1 DEF Dist
      <3>3. at[i] = Dist(prev, path[i].a) + q[i]
        BY <1>3, <2>1, <3>1 DEF Dist
      <3>4. Dist(prev, path[i].a) \in Nat
        BY <1>3, <1>6
      <3> HIDE DEF at
      <3>5. QED
        BY <2>1, <3>2, <3>3, <3>4
    <2>6. at[0] = 0 /\ at[n] = prev[dst].dist
      BY <1>1, <1>2, <1>4 DEF n, Dist
    <2>7. prev[dst].dist \in Nat
      BY <1>2, <1>3, <1>4, <2>3 DEF n, Dist
    <2> HIDE DEF at
    <2>8. Total(q) = at[n] - at[0]
      BY <1>4, <2>2, <2>4, <2>5, TotalTelescopes
    <2>9. QED
      BY <2>6, <2>7, <2>8 DEF q
  <1>8. Total(Offsets(path)) = reading[dst] - reading[src]
    <2> DEFINE q == Offsets(path)
               at == [i \in 0..n |-> IF i = 0 THEN reading[src] ELSE reading[path[i].b]]
    <2>1. \A i \in 1..n : q[i] = reading[path[i].b] - reading[path[i].a] /\ q[i] \in Int
      <3>1. \A i \in 1..n : reading[path[i].b] \in Int /\ reading[path[i].a] \in Int
        BY <1>3
      <3>2. \A i \in 1..n : q[i] = Offset(path[i])
        BY <1>4 DEF Offsets
      <3> HIDE DEF q
      <3>3. QED
        BY <3>1, <3>2 DEF Offset
    <2>2. q \in [1..n -> Int]
      <3>1. q = [i \in 1..n |-> q[i]]
        BY <1>4 DEF Offsets
      <3> HIDE DEF q
      <3>2. QED
        BY <2>1, <3>1
    <2> HIDE DEF q
    <2>3. at \in [0..n -> Int]
      <3>1. \A i \in 0..n : i = 0 \/ i \in 1..n
        BY <1>4
      <3>2. QED
        BY <1>1, <1>3, <3>1
    <2>4. ASSUME NEW i \in 1..n PROVE q[i] = at[i] - at[i - 1]
      <3>1. i \in 0..n /\ i # 0 /\ i - 1 \in 0..n /\ (i = 1 <=> i - 1 = 0)
        BY <1>4
      <3>2. at[i - 1] = reading[path[i].a]
        BY <1>5, <3>1
      <3>3. at[i] = reading[path[i].b]
        BY <3>1
      <3>4. QED
        BY <2>1, <3>2, <3>3
    <2>5. at[0] = reading[src] /\ at[n] = reading[dst]
      BY <1>2, <1>4 DEF n
    <2> HIDE DEF at
    <2>6. Total(q) = at[n] - at[0]
      BY <1>4, <2>2, <2>3, <2>4, TotalTelescopes
    <2>7. QED
      BY <2>5, <2>6 DEF q
  <1>9. QED
    BY <1>3, <1>7, <1>8 DEF Edge, n

\* get_conversion() finds the cheapest chain of mappers whenever there is one, and what the
\* chain adds to the reading of the one clock gives that of the other.
THEOREM CheapestConversionHolds == TimeSpec => []CheapestConversion
  <1>1. SearchInv => CheapestConversion
    <2>1. SUFFICES ASSUME SearchInv, hidden \subseteq {dst} PROVE CheapestConversion
      BY DEF CheapestConversion
    <2>2. ASSUME search = "none" PROVE Chains = {}
      <3>1. /\ TableInv /\ Asked /\ TableOK(prev, heap) /\ heap = {} /\ prev[dst] = NoEntry
        BY <2>1, <2>2 DEF SearchInv, SearchOK, Asked
      <3>2. QED
        BY <3>1, NoneIsNone
    <2>3. ASSUME search = "found"
          PROVE  /\ path[1].a = src /\ Last(path).b = dst
                 /\ \A i \in 1..(Len(path) - 1) : path[i].b = path[i + 1].a
                 /\ \A i \in 1..Len(path) :
                      /\ conversions[path[i].a][path[i].b] # NoEntry
                      /\ path[i] = conversions[path[i].a][path[i].b].mapper
                 /\ \A s \in Chains : Total(Costs(path)) <= Total(Costs(MappersOf(s)))
                 /\ Total(Offsets(path)) = reading[dst] - reading[src]
      <3>1. /\ TableInv /\ Asked /\ TableOK(prev, heap) /\ heap = {} /\ PathOK
            /\ path[1].a = src /\ reading \in [Clocks -> Int]
        BY <2>1, <2>3 DEF SearchInv, SearchOK, Asked
      <3>2. prev[dst] # NoEntry
        <4>1. Len(path) \in 1..Len(path)
          BY <3>1 DEF PathOK
        <4>2. QED
          BY <3>1, <4>1 DEF PathOK
      <3>3. \A s \in Chains : prev[dst].dist <= Total(Costs(MappersOf(s)))
        BY <3>1, <3>2, NoneCheaper
      <3>4. /\ Last(path).b = dst
            /\ \A i \in 1..(Len(path) - 1) : path[i].b = path[i + 1].a
        BY <3>1 DEF PathOK, Last
      <3>5. /\ \A i \in 1..Len(path) :
                 /\ conversions[path[i].a][path[i].b] # NoEntry
                 /\ path[i] = conversions[path[i].a][path[i].b].mapper
            /\ Total(Costs(path)) = prev[dst].dist
            /\ Total(Offsets(path)) = reading[dst] - reading[src]
        BY <3>1, PathIs
      <3>6. QED
        BY <3>1, <3>3, <3>4, <3>5
    <2>4. QED
      BY <2>1, <2>2, <2>3 DEF CheapestConversion
  <1>2. QED
    BY <1>1, SearchInvInit, SearchInvNext, PTL DEF TimeSpec
=============================================================================
