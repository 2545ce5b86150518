---------------------------- MODULE StreamProofs ----------------------------
(***************************************************************************)
(* Theorems about the live views: the readers of node logs count their     *)
(* panels, and the hub loses no event without counting it, for any number  *)
(* of publishers, browsers, events, topics and connections and any size of *)
(* ring and channel.                                                       *)
(***************************************************************************)
EXTENDS StreamHub, NodeStream, FiniteSetTheorems, SequenceTheorems, WellFoundedInduction, TLAPS

----------------------------------------------------------------------------
(***************************************************************************)
(* The readers of node logs.                                               *)
(***************************************************************************)
\* The inductive invariant: readers are numbered as they are made, nobody stops the one in
\* the map, and its count is the number of panels that watch.
NodeInv ==
    /\ readersMade \in 0 .. MaxReaders /\ entry \in 0 .. readersMade
    /\ refs \in [Readers -> Int]
    /\ cancelled \subseteq 1 .. readersMade
    /\ entry \notin cancelled
    /\ IsFiniteSet(holding)
    /\ CountsPanels

LEMMA NodeInitInv == NodeInit => NodeInv
<1> SUFFICES ASSUME NodeInit PROVE NodeInv
  OBVIOUS
<1>1. Cardinality(holding) = 0 /\ IsFiniteSet(holding)
  BY FS_EmptySet DEF NodeInit
<1> QED
  BY <1>1, StreamAssumption DEF NodeInit, NodeInv, CountsPanels, NoReader, Readers

\* Every step keeps the invariant.
LEMMA NodeStep == NodeInv /\ [NodeNext]_nodeVars => NodeInv'
<1> SUFFICES ASSUME NodeInv, [NodeNext]_nodeVars PROVE NodeInv'
  OBVIOUS
<1> USE StreamAssumption DEF NoReader, Readers
<1>0. Cardinality(holding) \in Nat /\ (Cardinality(holding) = 0 <=> holding = {})
  BY FS_CardinalityType, FS_EmptySet DEF NodeInv
<1>1. CASE UNCHANGED <<entry, readersMade, refs, cancelled, holding, closed>>
  BY <1>1 DEF NodeInv, CountsPanels
<1>2. ASSUME NEW p, p \notin holding, holding' = holding \cup {p}
      PROVE  IsFiniteSet(holding') /\ Cardinality(holding') = Cardinality(holding) + 1
  BY <1>2, FS_AddElement DEF NodeInv
<1>3. ASSUME NEW p, p \in holding, holding' = holding \ {p}
      PROVE  IsFiniteSet(holding') /\ Cardinality(holding') = Cardinality(holding) - 1
  BY <1>3, FS_RemoveElement DEF NodeInv
<1>4. ASSUME NEW p \in Panels, AcquireJoin(p) PROVE NodeInv'
  <2>1. IsFiniteSet(holding') /\ Cardinality(holding') = Cardinality(holding) + 1
    BY <1>2, <1>4 DEF AcquireJoin
  <2> QED
    BY <1>0, <1>4, <2>1 DEF AcquireJoin, NodeInv, CountsPanels
<1>5. ASSUME NEW p \in Panels, AcquireMake(p) PROVE NodeInv'
  <2>1. IsFiniteSet(holding') /\ Cardinality(holding') = Cardinality(holding) + 1
    BY <1>2, <1>5 DEF AcquireMake
  <2> QED
    BY <1>0, <1>5, <2>1 DEF AcquireMake, NodeInv, CountsPanels
<1>6. ASSUME NEW p \in Panels, Release(p) PROVE NodeInv'
  <2>1. IsFiniteSet(holding') /\ Cardinality(holding') = Cardinality(holding) - 1
    BY <1>3, <1>6 DEF Release
  <2>2. UNCHANGED <<entry, readersMade, cancelled, closed>>
    BY <1>6 DEF Release
  <2>3. CASE entry = NoReader
    BY <1>0, <1>6, <2>1, <2>2, <2>3 DEF Release, NodeInv, CountsPanels
  <2>4. CASE entry # NoReader
    <3>1. refs' = [refs EXCEPT ![entry] = @ - 1] /\ entry \in Readers /\ refs[entry] \in Int
      BY <1>6, <2>4 DEF Release, NodeInv
    <3> QED
      BY <1>0, <2>1, <2>2, <2>4, <3>1 DEF NodeInv, CountsPanels
  <2> QED
    BY <2>3, <2>4
<1>7. ASSUME NEW t \in Times, LingerOver(t) PROVE NodeInv'
  <2>1. CASE UNCHANGED <<entry, cancelled>>
    BY <1>1, <1>7, <2>1 DEF LingerOver
  <2>2. CASE /\ entry # NoReader /\ ~(refs[entry] > 0)
             /\ entry' = NoReader /\ cancelled' = cancelled \cup {entry}
    <3>1. ~closed => Cardinality(holding) = 0
      BY <1>0, <2>2 DEF NodeInv, CountsPanels
    <3> QED
      BY <1>7, <2>2, <3>1 DEF LingerOver, NodeInv, CountsPanels
  <2> QED
    BY <1>7, <2>1, <2>2 DEF LingerOver
<1>8. CASE CloseManager
  BY <1>8 DEF CloseManager, NodeInv, CountsPanels
<1>9. ASSUME NEW r \in Readers, Spawn(r) \/ FollowLive(r) \/ RunSteps(r)
      PROVE  UNCHANGED <<entry, readersMade, refs, cancelled, holding, closed>>
  BY <1>9 DEF Spawn, FollowLive, RunSteps, RunAgain, FollowBroken, RunReport, RunWaited, RunLeave, Goes
<1> QED
  BY <1>1, <1>4, <1>5, <1>6, <1>7, <1>8, <1>9 DEF NodeNext, nodeVars, Tick, CloseReturn

\* The count of the reader in the map is the number of panels that watch, however
\* acquires, releases and the timers of earlier readers interleave (Acquire, release).
THEOREM CountIsOfPanels == NodeSpec => []CountsPanels
<1>1. NodeInv => CountsPanels
  BY DEF NodeInv
<1> QED
  BY <1>1, NodeInitInv, NodeStep, PTL DEF NodeSpec

\* A panel that watches has a reader that nobody has stopped, for any number of panels,
\* readers and timers still to fire (Acquire, the timer of release).
THEOREM WatchedPanelsAreRead == NodeSpec => []WatchedIsRead
<1>1. ASSUME NodeInv PROVE WatchedIsRead
  <2>1. holding # {} => Cardinality(holding) # 0
    BY <1>1, FS_EmptySet DEF NodeInv
  <2> QED
    BY <1>1, <2>1 DEF NodeInv, CountsPanels, WatchedIsRead
<1> QED
  BY <1>1, NodeInitInv, NodeStep, PTL DEF NodeSpec
----------------------------------------------------------------------------
(***************************************************************************)
(* Numbers and sequences.                                                  *)
(***************************************************************************)
Item == [id : Nat, missed : Nat, through : Nat]

\* A set of naturals that is not empty has a least element.
LEMMA LeastNatural ==
  ASSUME NEW T, T \subseteq Nat, T # {}
  PROVE  \E x \in T : \A y \in T : x <= y
<1> DEFINE R == OpToRel(<, Nat)
<1>1. IsWellFoundedOn(R, Nat)
  BY NatLessThanWellFounded
<1>2. \A x, y \in Nat : y < x => <<y, x>> \in R
  BY DEF OpToRel
<1> HIDE DEF R
<1>3. \E x \in T : \A y \in T : ~(<<y, x>> \in R)
  BY <1>1, WFMin
<1>4. PICK x \in T : \A y \in T : ~(<<y, x>> \in R)
  BY <1>3
<1>5. ASSUME NEW y \in T PROVE x <= y
  <2>1. x \in Nat /\ y \in Nat /\ ~(y < x)
    BY <1>2, <1>4
  <2> QED
    BY <2>1
<1> QED
  BY <1>4, <1>5

\* Induction up to N over a set of numbers.
LEMMA CountUp ==
  ASSUME NEW N \in Nat, NEW T, 0 \in T, \A n \in 1 .. N : n - 1 \in T => n \in T
  PROVE  \A n \in 0 .. N : n \in T
<1> SUFFICES ASSUME NEW n \in 0 .. N, n \notin T PROVE FALSE
  OBVIOUS
<1> DEFINE Bad == {m \in 0 .. N : m \notin T}
<1>1. PICK m \in Bad : \A y \in Bad : m <= y
  <2>1. Bad \subseteq Nat /\ Bad # {}
    OBVIOUS
  <2> HIDE DEF Bad
  <2> QED
    BY <2>1, LeastNatural
<1>2. m \in 1 .. N /\ m - 1 \in 0 .. N
  OBVIOUS
<1>3. m - 1 \notin Bad
  BY <1>1, <1>2
<1> QED
  BY <1>2, <1>3

\* What is computed in N steps within a set S, each from the one before, exists.
Computes(N, S, F, s0, step) ==
    F \in [0 .. N -> S] /\ F[0] = s0 /\ \A n \in 1 .. N : F[n] = step[n][F[n - 1]]

LEMMA Computed ==
  ASSUME NEW N \in Nat, NEW S, NEW s0 \in S, NEW step \in [1 .. N -> [S -> S]]
  PROVE  \E F : Computes(N, S, F, s0, step)
<1> DEFINE Good(m, F) == F[0] = s0 /\ \A n \in 1 .. m : F[n] = step[n][F[n - 1]]
           T == {m \in 0 .. N : \E F \in [0 .. m -> S] : Good(m, F)}
<1>1. 0 \in T
  <2>1. [n \in 0 .. 0 |-> s0] \in [0 .. 0 -> S] /\ Good(0, [n \in 0 .. 0 |-> s0])
    OBVIOUS
  <2> HIDE DEF Good
  <2>2. \E F \in [0 .. 0 -> S] : Good(0, F)
    BY <2>1
  <2> QED
    BY <2>2
<1>2. ASSUME NEW m \in 1 .. N, m - 1 \in T PROVE m \in T
  <2>1. PICK F \in [0 .. m - 1 -> S] : Good(m - 1, F)
    BY <1>2
  <2> DEFINE G == [n \in 0 .. m |-> IF n = m THEN step[m][F[m - 1]] ELSE F[n]]
  <2>2. F[m - 1] \in S /\ step[m][F[m - 1]] \in S
    OBVIOUS
  <2>3. G \in [0 .. m -> S]
    BY <2>2
  <2>4. G[0] = s0
    BY <2>1
  <2>5. ASSUME NEW n \in 1 .. m PROVE G[n] = step[n][G[n - 1]]
    <3>1. n - 1 \in 0 .. m - 1 /\ G[n - 1] = F[n - 1]
      OBVIOUS
    <3>2. CASE n = m
      BY <3>1, <3>2
    <3>3. CASE n # m
      <4>1. n \in 1 .. m - 1 /\ n \in 0 .. m
        BY <3>3
      <4>2. G[n] = F[n]
        BY <3>3, <4>1
      <4> QED
        BY <2>1, <3>1, <4>1, <4>2
    <3> QED
      BY <3>2, <3>3
  <2> HIDE DEF G
  <2> QED
    BY <2>3, <2>4, <2>5
<1> HIDE DEF T
<1>3. \A n \in 1 .. N : n - 1 \in T => n \in T
  BY <1>2
<1>4. \A n \in 0 .. N : n \in T
  BY <1>1, <1>3, CountUp
<1>5. N \in T
  BY <1>4
<1> QED
  BY <1>5 DEF T, Computes

\* Total adds the weights up from the left.
Sums(F, items) ==
    F[0] = 0 /\ \A n \in 1 .. Len(items) : F[n] = F[n - 1] + Weight(items[n])

LEMMA WeightType == \A x \in Item : Weight(x) \in Nat
  BY DEF Item, Weight, IsEvent

LEMMA TotalDef ==
  ASSUME NEW items \in Seq(Item)
  PROVE  \E F \in [0 .. Len(items) -> Nat] : Sums(F, items) /\ Total(items) = F[Len(items)]
<1> DEFINE N == Len(items)
           Rule(f) == [n \in 0 .. N |-> IF n = 0 THEN 0 ELSE f[n - 1] + Weight(items[n])]
           G == CHOOSE f : f = Rule(f)
           step == [n \in 1 .. N |-> [a \in Nat |-> a + Weight(items[n])]]
<1>1. Total(items) = G[N]
  BY DEF Total
<1>2. N \in Nat /\ \A n \in 1 .. N : items[n] \in Item /\ Weight(items[n]) \in Nat
  BY WeightType
<1>3. step \in [1 .. N -> [Nat -> Nat]]
  BY <1>2
<1>4. PICK F \in [0 .. N -> Nat] : F[0] = 0 /\ \A n \in 1 .. N : F[n] = step[n][F[n - 1]]
  <2>1. N \in Nat /\ 0 \in Nat
    BY <1>2
  <2> HIDE DEF step, N
  <2>2. \E F : Computes(N, Nat, F, 0, step)
    BY <1>3, <2>1, Computed
  <2> QED
    BY <2>2 DEF Computes
<1>5. ASSUME NEW n \in 1 .. N PROVE F[n] = F[n - 1] + Weight(items[n])
  <2>1. F[n - 1] \in Nat
    BY <1>2
  <2> QED
    BY <1>4, <2>1
<1>6. F = Rule(F)
  BY <1>4, <1>5, <1>2
<1>7. G = Rule(G)
  BY <1>6
<1>8. G \in [0 .. N -> Nat]
  <2> DEFINE T == {n \in 0 .. N : G[n] = F[n]}
  <2> HIDE DEF G
  <2>1. 0 \in T
    BY <1>2, <1>4, <1>7
  <2>2. ASSUME NEW n \in 1 .. N, n - 1 \in T PROVE n \in T
    BY <1>2, <1>5, <1>7, <2>2
  <2> HIDE DEF T
  <2>3. \A n \in 0 .. N : n \in T
    BY <1>2, <2>1, <2>2, CountUp
  <2>4. \A n \in 0 .. N : G[n] = F[n]
    BY <2>3 DEF T
  <2> QED
    BY <1>7, <2>4
<1>9. Sums(G, items)
  <2> HIDE DEF G
  <2> QED
    BY <1>2, <1>7 DEF Sums
<1> QED
  BY <1>1, <1>8, <1>9
\* What Total makes of a longer list, and of a list without its head.
LEMMA TotalEmpty == Total(<<>>) = 0
<1>1. <<>> \in Seq(Item) /\ Len(<<>>) = 0
  OBVIOUS
<1> QED
  BY <1>1, TotalDef DEF Sums

LEMMA TotalType == \A items \in Seq(Item) : Total(items) \in Nat
<1> SUFFICES ASSUME NEW items \in Seq(Item) PROVE Total(items) \in Nat
  OBVIOUS
<1>1. Len(items) \in 0 .. Len(items)
  OBVIOUS
<1> QED
  BY <1>1, TotalDef

LEMMA TotalAppend ==
  ASSUME NEW items \in Seq(Item), NEW x \in Item
  PROVE  Total(Append(items, x)) = Total(items) + Weight(x)
<1> DEFINE N == Len(items)
           more == Append(items, x)
<1>1. /\ N \in Nat /\ more \in Seq(Item) /\ Len(more) = N + 1 /\ more[N + 1] = x
      /\ \A n \in 1 .. N : more[n] = items[n]
  OBVIOUS
<1> HIDE DEF more
<1>2. PICK F \in [0 .. N -> Nat] : Sums(F, items) /\ Total(items) = F[N]
  BY TotalDef
<1>3. PICK G \in [0 .. N + 1 -> Nat] : Sums(G, more) /\ Total(more) = G[N + 1]
  BY <1>1, TotalDef
<1> HIDE DEF N
<1>4. G[N] = F[N]
  <2> DEFINE T == {n \in 0 .. N : G[n] = F[n]}
  <2>1. 0 \in T
    BY <1>1, <1>2, <1>3 DEF Sums
  <2>2. ASSUME NEW n \in 1 .. N, n - 1 \in T PROVE n \in T
    BY <1>1, <1>2, <1>3, <2>2 DEF Sums, N
  <2> HIDE DEF T
  <2>3. \A n \in 0 .. N : n \in T
    BY <1>1, <2>1, <2>2, CountUp
  <2>4. N \in T
    BY <1>1, <2>3
  <2> QED
    BY <2>4 DEF T
<1>5. G[N + 1] = G[N] + Weight(x)
  <2>1. N + 1 \in 1 .. Len(more) /\ (N + 1) - 1 = N
    BY <1>1
  <2> QED
    BY <1>1, <1>3, <2>1 DEF Sums
<1> QED
  BY <1>2, <1>3, <1>4, <1>5 DEF more

LEMMA TotalTail ==
  ASSUME NEW items \in Seq(Item), items # <<>>
  PROVE  Total(items) = Weight(Head(items)) + Total(Tail(items))
<1> DEFINE N == Len(Tail(items))
           rest == Tail(items)
<1>1. /\ N \in Nat /\ rest \in Seq(Item) /\ Len(rest) = N /\ Len(items) = N + 1
      /\ Head(items) = items[1] /\ items[1] \in Item
      /\ \A n \in 1 .. N : rest[n] = items[n + 1]
  OBVIOUS
<1> HIDE DEF rest
<1>2. PICK F \in [0 .. N + 1 -> Nat] : Sums(F, items) /\ Total(items) = F[N + 1]
  BY <1>1, TotalDef
<1>3. PICK G \in [0 .. N -> Nat] : Sums(G, rest) /\ Total(rest) = G[N]
  BY <1>1, TotalDef
<1>4. Weight(items[1]) \in Nat
  BY <1>1, WeightType
<1> HIDE DEF N
<1>5. F[N + 1] = Weight(items[1]) + G[N]
  <2> DEFINE T == {n \in 0 .. N : F[n + 1] = Weight(items[1]) + G[n]}
  <2>1. 0 \in T
    <3>1. 1 \in 1 .. Len(items) /\ 1 - 1 = 0
      BY <1>1
    <3>2. F[1] = F[0] + Weight(items[1]) /\ F[0] = 0 /\ G[0] = 0
      BY <1>2, <1>3, <3>1 DEF Sums
    <3> QED
      BY <1>1, <1>4, <3>2
  <2>2. ASSUME NEW n \in 1 .. N, n - 1 \in T PROVE n \in T
    <3>1. n \in Nat /\ n + 1 \in 1 .. Len(items) /\ n \in 1 .. Len(rest) /\ n \in 0 .. N
          /\ (n + 1) - 1 = n /\ n - 1 \in 0 .. N /\ (n - 1) + 1 = n /\ n \in 0 .. N + 1
      BY <1>1
    <3>2. F[n + 1] = F[n] + Weight(items[n + 1]) /\ G[n] = G[n - 1] + Weight(items[n + 1])
      BY <1>1, <1>2, <1>3, <3>1 DEF Sums
    <3>3. F[n] = Weight(items[1]) + G[n - 1]
      BY <2>2, <3>1
    <3>4. items[n + 1] \in Item /\ Weight(items[n + 1]) \in Nat /\ G[n - 1] \in Nat
      <4>1. items[n + 1] \in Item
        BY <3>1, ElementOfSeq
      <4> QED
        BY <1>3, <3>1, <4>1, WeightType
    <3> QED
      BY <1>4, <3>1, <3>2, <3>3, <3>4
  <2> HIDE DEF T
  <2>3. \A n \in 0 .. N : n \in T
    BY <1>1, <2>1, <2>2, CountUp
  <2>4. N \in T
    BY <1>1, <2>3
  <2> QED
    BY <2>4 DEF T
<1> QED
  BY <1>1, <1>2, <1>3, <1>5 DEF rest

\* A list of which every item but the first stands for one event.
LEMMA TotalOfRun ==
  ASSUME NEW items \in Seq(Item), items # <<>>, \A n \in 2 .. Len(items) : Weight(items[n]) = 1
  PROVE  Total(items) = Weight(items[1]) + Len(items) - 1
<1> DEFINE N == Len(items)
<1>1. N \in Nat /\ N >= 1 /\ items[1] \in Item
  OBVIOUS
<1>2. Weight(items[1]) \in Nat
  BY <1>1, WeightType
<1>3. PICK F \in [0 .. N -> Nat] : Sums(F, items) /\ Total(items) = F[N]
  BY TotalDef
<1> DEFINE T == {n \in 0 .. N : n = 0 \/ F[n] = Weight(items[1]) + n - 1}
<1>4. 0 \in T
  BY <1>1
<1>5. ASSUME NEW n \in 1 .. N, n - 1 \in T PROVE n \in T
  <2>1. F[n] = F[n - 1] + Weight(items[n]) /\ F[0] = 0 /\ F[n - 1] \in Nat
    BY <1>3, <1>1 DEF Sums
  <2>2. CASE n = 1
    BY <1>1, <1>2, <2>1, <2>2
  <2>3. CASE n # 1
    <3>1. Weight(items[n]) = 1 /\ F[n - 1] = Weight(items[1]) + (n - 1) - 1
      BY <1>1, <1>5, <2>3
    <3> QED
      BY <1>1, <1>2, <2>1, <3>1
  <2> QED
    BY <2>2, <2>3
<1> HIDE DEF T
<1>6. \A n \in 0 .. N : n \in T
  BY <1>1, <1>4, <1>5, CountUp
<1>7. N \in T
  BY <1>1, <1>6
<1> QED
  BY <1>1, <1>3, <1>7 DEF T
----------------------------------------------------------------------------
(***************************************************************************)
(* The ring buffer.                                                        *)
(***************************************************************************)
TopicType ==
    [ring : [Slots -> Nat], next : Slots, count : 0 .. RingSize, last : Nat, subs : SUBSET Clients]

\* Below next stand the newest events, from next on, once the ring is full, the older.
RingOK(t) ==
    /\ t.count < RingSize => t.next = t.count /\ t.last = t.count
    /\ t.count = RingSize => t.last >= RingSize
    /\ \A j \in Slots : j < t.next => t.ring[j] = t.last - t.next + 1 + j
    /\ t.count = RingSize =>
         \A j \in Slots : j >= t.next => t.ring[j] = t.last - t.next + 1 + j - RingSize

LEMMA SlotModulo ==
  ASSUME NEW a \in Slots
  PROVE  a % RingSize = a /\ (a + RingSize) % RingSize = a /\ (a + 2 * RingSize) % RingSize = a
<1> DEFINE R == RingSize
<1>1. R \in Nat /\ R > 0 /\ a \in Nat /\ a < R
  BY SizesAssumption DEF Slots
<1>2. ASSUME NEW q \in {0, 1, 2}, NEW x \in Nat, x = a + q * R PROVE x % R = a
  <2>1. x = R * (x \div R) + (x % R) /\ x % R \in 0 .. R - 1 /\ x \div R \in Int
    BY <1>1
  <2> DEFINE d == x \div R
             m == x % R
  <2>2. R * (d - q) = a - m
    BY <1>1, <2>1, <1>2
  <2> HIDE DEF d, m
  <2>3. d - q \in Int /\ m \in 0 .. R - 1
    BY <2>1 DEF d, m
  <2>4. ~(d - q >= 1) /\ ~(d - q <= -1)
    <3>1. d - q >= 1 => R * (d - q) >= R
      BY <1>1, <2>3
    <3>2. d - q <= -1 => R * (d - q) <= -R
      BY <1>1, <2>3
    <3> QED
      BY <1>1, <2>2, <2>3, <3>1, <3>2
  <2>5. d - q = 0
    BY <2>3, <2>4
  <2>6. a - m = 0
    BY <1>1, <2>2, <2>5
  <2> QED
    BY <1>1, <2>3, <2>6 DEF m
<1>3. a + R \in Nat /\ a + 2 * R \in Nat /\ a = a + 0 * R /\ a + R = a + 1 * R
  BY <1>1
<1> QED
  BY <1>1, <1>2, <1>3

\* A new event takes the place of the oldest.
LEMMA AppendedKeeps ==
  ASSUME NEW t \in TopicType, RingOK(t)
  PROVE  /\ Appended(t) \in TopicType /\ RingOK(Appended(t))
         /\ Appended(t).last = t.last + 1 /\ Appended(t).subs = t.subs
<1> DEFINE u == Appended(t)
<1>1. RingSize \in Nat /\ RingSize > 0 /\ t.next \in Slots /\ t.next \in Nat /\ t.next < RingSize
      /\ t.last \in Nat /\ t.count \in 0 .. RingSize /\ t.ring \in [Slots -> Nat]
  BY SizesAssumption DEF TopicType, Slots
<1>2. u = [ring |-> [t.ring EXCEPT ![t.next] = t.last + 1], next |-> (t.next + 1) % RingSize,
           count |-> IF t.count < RingSize THEN t.count + 1 ELSE t.count,
           last |-> t.last + 1, subs |-> t.subs]
  <2>1. DOMAIN t = {"ring", "next", "count", "last", "subs"}
        /\ DOMAIN u = {"ring", "next", "count", "last", "subs"}
    BY DEF Appended, TopicType
  <2>2. u = [f \in DOMAIN u |-> u[f]]
    BY DEF Appended, TopicType
  <2>3. /\ u.ring = [t.ring EXCEPT ![t.next] = t.last + 1]
        /\ u.next = (t.next + 1) % RingSize
        /\ u.count = IF t.count < RingSize THEN t.count + 1 ELSE t.count
        /\ u.last = t.last + 1 /\ u.subs = t.subs
    BY <2>1 DEF Appended
  <2> HIDE DEF u
  <2> QED
    BY <2>1, <2>2, <2>3
<1>3. u.next = IF t.next + 1 = RingSize THEN 0 ELSE t.next + 1
  <2>1. CASE t.next + 1 = RingSize
    <3>1. 0 \in Slots /\ 0 + RingSize = RingSize
      BY <1>1 DEF Slots
    <3>2. RingSize % RingSize = 0
      BY <3>1, SlotModulo
    <3> QED
      BY <1>2, <2>1, <3>2
  <2>2. CASE t.next + 1 # RingSize
    <3>1. t.next + 1 \in Slots
      BY <1>1, <2>2 DEF Slots
    <3> QED
      BY <1>2, <2>2, <3>1, SlotModulo
  <2> QED
    BY <2>1, <2>2
<1> HIDE DEF u
<1>4. /\ u.count = (IF t.count < RingSize THEN t.count + 1 ELSE t.count)
      /\ u.last = t.last + 1 /\ u.subs = t.subs /\ u.ring = [t.ring EXCEPT ![t.next] = t.last + 1]
  BY <1>2
<1>5. u \in TopicType
  <2>1. u.next \in Slots /\ u.count \in 0 .. RingSize /\ u.last \in Nat
    BY <1>1, <1>3, <1>4, SMTT(30) DEF Slots
  <2>2. u.ring \in [Slots -> Nat] /\ u.subs \in SUBSET Clients
    BY <1>1, <1>4 DEF TopicType
  <2> QED
    BY <1>2, <2>1, <2>2 DEF TopicType
<1>6. \A j \in Slots : u.ring[j] = IF j = t.next THEN t.last + 1 ELSE t.ring[j]
  BY <1>1, <1>4
<1>7. RingOK(u)
  <2>1. CASE t.next + 1 = RingSize
    <3>1. u.next = 0 /\ u.count = RingSize /\ u.last >= RingSize
      BY <1>1, <1>3, <1>4, <2>1 DEF RingOK
    <3>2. ASSUME NEW j \in Slots PROVE u.ring[j] = u.last - u.next + 1 + j - RingSize
      <4>1. j = t.next \/ j < t.next
        BY <1>1, <2>1 DEF Slots
      <4>2. j \in Nat /\ (j < t.next => t.ring[j] = t.last - t.next + 1 + j)
        BY DEF RingOK, Slots
      <4> QED
        BY <1>1, <1>4, <1>6, <2>1, <3>1, <4>1, <4>2
    <3>3. ~(u.count < RingSize) /\ \A j \in Slots : ~(j < u.next)
      BY <1>1, <3>1 DEF Slots
    <3> QED
      BY <3>1, <3>2, <3>3 DEF RingOK
  <2>2. CASE t.next + 1 # RingSize
    <3>1. u.next = t.next + 1 /\ u.last = t.last + 1
      BY <1>3, <1>4, <2>2
    <3>2. (u.count < RingSize => u.next = u.count /\ u.last = u.count)
          /\ (u.count = RingSize => u.last >= RingSize)
          /\ (u.count = RingSize => t.count = RingSize)
      BY <1>1, <1>4, <2>2, <3>1 DEF RingOK
    <3>3. ASSUME NEW j \in Slots, j < u.next PROVE u.ring[j] = u.last - u.next + 1 + j
      <4>1. j \in Nat /\ (j < t.next => t.ring[j] = t.last - t.next + 1 + j)
        BY DEF RingOK, Slots
      <4> QED
        BY <1>1, <1>6, <3>1, <3>3, <4>1
    <3>4. ASSUME NEW j \in Slots, j >= u.next, u.count = RingSize
          PROVE  u.ring[j] = u.last - u.next + 1 + j - RingSize
      <4>1. j \in Nat /\ (j >= t.next => t.ring[j] = t.last - t.next + 1 + j - RingSize)
        BY <3>2, <3>4 DEF RingOK, Slots
      <4> QED
        BY <1>1, <1>6, <3>1, <3>4, <4>1
    <3> QED
      BY <3>2, <3>3, <3>4 DEF RingOK
  <2> QED
    BY <2>1, <2>2
<1> QED
  BY <1>4, <1>5, <1>7 DEF u

\* Buffered reads the ring from the oldest event to the newest.
LEMMA BufferedIs ==
  ASSUME NEW t \in TopicType, RingOK(t)
  PROVE  t.last >= t.count /\ \A i \in 1 .. t.count : Buffered(t)[i] = t.last - t.count + i
<1>1. RingSize \in Nat /\ RingSize > 0 /\ t.next \in Slots /\ t.next \in Nat /\ t.next < RingSize
      /\ t.last \in Nat /\ t.count \in 0 .. RingSize
  BY SizesAssumption DEF TopicType, Slots
<1>2. t.last >= t.count
  BY <1>1 DEF RingOK
<1>3. ASSUME NEW i \in 1 .. t.count PROVE Buffered(t)[i] = t.last - t.count + i
  <2> DEFINE x == t.next + i - 1 + RingSize * 2 - t.count
  <2>1. Buffered(t)[i] = t.ring[x % RingSize]
    BY DEF Buffered
  <2>2. CASE t.count < RingSize
    <3>1. i - 1 \in Slots /\ x = (i - 1) + 2 * RingSize /\ i - 1 < t.next
      BY <1>1, <2>2 DEF RingOK, Slots
    <3>2. x % RingSize = i - 1
      BY <3>1, SlotModulo
    <3> QED
      BY <1>1, <2>1, <2>2, <3>1, <3>2 DEF RingOK
  <2>3. CASE t.count = RingSize /\ t.next + i - 1 < RingSize
    <3>1. t.next + i - 1 \in Slots /\ x = (t.next + i - 1) + RingSize /\ t.next + i - 1 >= t.next
      BY <1>1, <2>3 DEF Slots
    <3>2. x % RingSize = t.next + i - 1
      BY <3>1, SlotModulo
    <3>3. t.ring[t.next + i - 1] = t.last - t.next + 1 + (t.next + i - 1) - RingSize
      BY <2>3, <3>1 DEF RingOK
    <3> QED
      BY <1>1, <2>1, <2>3, <3>2, <3>3
  <2>4. CASE t.count = RingSize /\ t.next + i - 1 >= RingSize
    <3> DEFINE y == t.next + i - 1 - RingSize
    <3>1. y \in Slots /\ x = y + 2 * RingSize /\ y < t.next
      BY <1>1, <2>4 DEF Slots
    <3>2. x % RingSize = y
      BY <3>1, SlotModulo
    <3>3. t.ring[y] = t.last - t.next + 1 + y
      BY <3>1 DEF RingOK
    <3> QED
      BY <1>1, <2>1, <2>4, <3>2, <3>3
  <2> QED
    BY <1>1, <2>2, <2>3, <2>4
<1> QED
  BY <1>2, <1>3
\* Since keeps the newest events, those after id, in their order.
Later(t, id) ==
    IF id <= t.last - t.count THEN t.count ELSE IF id < t.last THEN t.last - id ELSE 0

LEMMA SinceIs ==
  ASSUME NEW t \in TopicType, RingOK(t), NEW id \in Nat
  PROVE  /\ Since(t, id) \in Seq(Nat) /\ Len(Since(t, id)) = Later(t, id)
         /\ \A i \in 1 .. Later(t, id) : Since(t, id)[i] = t.last - Later(t, id) + i
<1> DEFINE N == t.count
           b == Buffered(t)
           Rule(f) == [n \in 0 .. N |-> IF n = 0 THEN <<>>
                                        ELSE IF b[n] > id THEN Append(f[n - 1], b[n]) ELSE f[n - 1]]
           G == CHOOSE f : f = Rule(f)
           step == [n \in 1 .. N |-> [s \in Seq(Nat) |-> IF b[n] > id THEN Append(s, b[n]) ELSE s]]
<1>1. Since(t, id) = G[N]
  BY DEF Since
<1>2. N \in Nat /\ t.last \in Nat /\ t.last >= N /\ \A n \in 1 .. N : b[n] = t.last - N + n /\ b[n] \in Nat
  BY BufferedIs, SizesAssumption DEF TopicType
<1> HIDE DEF b
<1>3. step \in [1 .. N -> [Seq(Nat) -> Seq(Nat)]]
  BY <1>2
<1>4. PICK F : Computes(N, Seq(Nat), F, <<>>, step)
  <2>1. <<>> \in Seq(Nat)
    OBVIOUS
  <2> HIDE DEF step, N
  <2> QED
    BY <1>2, <1>3, <2>1, Computed
<1>5. F \in [0 .. N -> Seq(Nat)] /\ F[0] = <<>>
  BY <1>4 DEF Computes
<1>6. ASSUME NEW n \in 1 .. N
      PROVE  F[n] = (IF b[n] > id THEN Append(F[n - 1], b[n]) ELSE F[n - 1]) /\ F[n - 1] \in Seq(Nat)
  <2>1. F[n - 1] \in Seq(Nat)
    <3>1. n - 1 \in 0 .. N
      BY <1>2
    <3> HIDE DEF N, step
    <3> QED
      BY <1>5, <3>1
  <2> QED
    BY <1>4, <2>1 DEF Computes
<1> HIDE DEF step
<1>7. F = Rule(F)
  <2>1. \A n \in 0 .. N : n # 0 => n \in 1 .. N
    BY <1>2
  <2>2. \A n \in 0 .. N : F[n] = IF n = 0 THEN <<>>
                                   ELSE IF b[n] > id THEN Append(F[n - 1], b[n]) ELSE F[n - 1]
    BY <1>5, <1>6, <2>1
  <2> HIDE DEF N
  <2> QED
    BY <1>5, <2>2
<1>8. G = Rule(G)
  BY <1>7
<1> HIDE DEF G
<1>9. \A n \in 0 .. N : G[n] = F[n]
  <2> DEFINE T == {n \in 0 .. N : G[n] = F[n]}
  <2>1. 0 \in T
    BY <1>2, <1>5, <1>8
  <2>2. ASSUME NEW n \in 1 .. N, n - 1 \in T PROVE n \in T
    <3>1. n \in 0 .. N /\ n # 0 /\ G[n - 1] = F[n - 1]
      BY <1>2, <2>2
    <3>2. G[n] = IF b[n] > id THEN Append(G[n - 1], b[n]) ELSE G[n - 1]
      BY <1>8, <3>1
    <3>3. G[n] = F[n]
      BY <1>6, <3>1, <3>2
    <3> QED
      BY <3>1, <3>3
  <2> HIDE DEF T
  <2>3. \A n \in 0 .. N : n \in T
    BY <1>2, <2>1, <2>2, CountUp
  <2> QED
    BY <2>3 DEF T
<1> DEFINE k == IF id > t.last - N THEN id - (t.last - N) ELSE 0
           Size(n) == IF n > k THEN n - k ELSE 0
           T == {n \in 0 .. N : /\ Len(F[n]) = Size(n)
                                /\ \A i \in 1 .. Size(n) : F[n][i] = t.last - N + k + i}
<1>10. k \in Nat
  BY <1>2
<1>11. 0 \in T
  BY <1>2, <1>5, <1>10
<1>12. ASSUME NEW n \in 1 .. N, n - 1 \in T PROVE n \in T
  <2>0. n \in Nat /\ n - 1 \in 0 .. N /\ F[n - 1] \in Seq(Nat) /\ Len(F[n - 1]) = Size(n - 1)
        /\ b[n] = t.last - N + n /\ b[n] \in Nat
    BY <1>2, <1>6, <1>12, SMTT(30)
  <2>1. CASE n > k
    <3>1. b[n] > id /\ Size(n) = Size(n - 1) + 1 /\ Size(n - 1) = n - 1 - k
      BY <1>2, <1>10, <2>0, <2>1
    <3>2. F[n] = Append(F[n - 1], b[n])
      BY <1>6, <3>1
    <3>3. Len(F[n]) = Size(n)
      BY <2>0, <3>1, <3>2
    <3>4. ASSUME NEW i \in 1 .. Size(n) PROVE F[n][i] = t.last - N + k + i
      <4>1. CASE i \in 1 .. Size(n - 1)
        BY <1>12, <2>0, <3>2, <4>1
      <4>2. CASE i = Size(n - 1) + 1
        <5>1. F[n][i] = b[n]
          BY <2>0, <3>2, <4>2
        <5>2. i = n - k
          BY <1>10, <2>0, <3>1, <4>2
        <5> QED
          BY <1>2, <1>10, <2>0, <5>1, <5>2, SMTT(30)
      <4> QED
        BY <1>10, <3>1, <4>1, <4>2
    <3> QED
      BY <3>3, <3>4
  <2>2. CASE n <= k
    <3>1. ~(b[n] > id) /\ Size(n) = 0 /\ Size(n - 1) = 0
      BY <1>2, <1>10, <2>0, <2>2
    <3> QED
      BY <1>6, <1>12, <2>0, <3>1
  <2> QED
    BY <1>10, <2>1, <2>2
<1>13. N \in T
  <2> HIDE DEF T
  <2>1. \A n \in 0 .. N : n \in T
    BY <1>2, <1>11, <1>12, CountUp
  <2> QED
    BY <1>2, <2>1
<1>14. Since(t, id) = F[N]
  BY <1>1, <1>2, <1>9
<1>15. Size(N) = Later(t, id) /\ (Size(N) > 0 => t.last - N + k = t.last - Size(N))
  BY <1>2, <1>10 DEF Later
<1>16. \A i \in 1 .. Size(N) : F[N][i] = t.last - Size(N) + i
  <2> SUFFICES ASSUME NEW i \in 1 .. Size(N) PROVE F[N][i] = t.last - Size(N) + i
    OBVIOUS
  <2>0. \A j \in 1 .. Size(N) : F[N][j] = t.last - N + k + j
    BY <1>13
  <2>1. Size(N) > 0 /\ F[N][i] = t.last - N + k + i
    <3>1. Size(N) \in Nat
      BY <1>2, <1>10
    <3> HIDE DEF Size
    <3> QED
      BY <2>0, <3>1
  <2> QED
    BY <1>15, <2>1
<1>17. F[N] \in Seq(Nat) /\ Len(F[N]) = Size(N)
  BY <1>2, <1>5, <1>13
<1> HIDE DEF Size
<1> QED
  BY <1>14, <1>15, <1>16, <1>17

\* The replay is of items up to the newest event, fits into the channel, and stands for
\* every event after id.
LEMMA ReplayIs ==
  ASSUME NEW t \in TopicType, RingOK(t), NEW id \in Nat
  PROVE  /\ Replay(t, id) \in Seq(Item)
         /\ \A i \in 1 .. Len(Replay(t, id)) :
               Replay(t, id)[i].id <= t.last /\ Replay(t, id)[i].through <= t.last
         /\ id <= t.last => Total(Replay(t, id)) = t.last - id
<1> DEFINE s == Since(t, id)
           L == Later(t, id)
           missed == MissedBefore(id, s)
           evs == [i \in DOMAIN s |-> Event(s[i])]
           gap == Gap(missed, OldestID(t) - 1)
           r == Replay(t, id)
<1>1. /\ s \in Seq(Nat) /\ Len(s) = L /\ \A i \in 1 .. L : s[i] = t.last - L + i
      /\ L \in 0 .. t.count /\ t.count \in Nat /\ t.last \in Nat /\ t.last >= t.count
      /\ (t.count = 0 => t.last = 0)
  <2>1. t.count \in Nat /\ t.last \in Nat /\ t.last >= t.count /\ (t.count = 0 => t.last = 0)
    BY BufferedIs, SizesAssumption DEF TopicType, RingOK
  <2>2. L \in 0 .. t.count
    BY <2>1 DEF Later
  <2> QED
    BY <2>1, <2>2, SinceIs
<1>2. L > 0 => s # <<>> /\ s[1] = t.last - L + 1
  BY <1>1
<1>3. L = 0 => s = <<>>
  BY <1>1
<1>4. missed = IF L > 0 /\ t.last - L + 1 > id + 1 THEN t.last - L - id ELSE 0
  BY <1>1, <1>2, <1>3 DEF MissedBefore
<1>5. missed \in Nat /\ (missed > 0 => L = t.count /\ L > 0)
  BY <1>1, <1>4, SMTT(30) DEF Later
<1>6. missed > 0 => OldestID(t) = t.last - t.count + 1
  <2> SUFFICES ASSUME missed > 0 PROVE OldestID(t) = t.last - t.count + 1
    OBVIOUS
  <2>1. t.count # 0 /\ 1 \in 1 .. t.count
    BY <1>1, <1>5
  <2> QED
    BY <2>1, BufferedIs DEF OldestID
<1> HIDE DEF s, L, missed
<1>7. evs \in Seq(Item) /\ Len(evs) = L
      /\ \A i \in 1 .. L : evs[i] = Event(t.last - L + i) /\ evs[i].id <= t.last /\ evs[i].through <= t.last
                           /\ Weight(evs[i]) = 1
  <2>1. DOMAIN s = 1 .. L
    BY <1>1
  <2>2. ASSUME NEW i \in 1 .. L
        PROVE  /\ evs[i] = Event(t.last - L + i) /\ evs[i] \in Item
               /\ evs[i].id <= t.last /\ evs[i].through <= t.last /\ Weight(evs[i]) = 1
    <3>1. evs[i] = Event(t.last - L + i) /\ t.last - L + i \in Nat /\ t.last - L + i > 0 /\ t.last - L + i <= t.last
      BY <1>1, <2>1
    <3> HIDE DEF evs
    <3> QED
      BY <1>1, <3>1 DEF Event, Item, Weight, IsEvent
  <2>3. evs \in Seq(Item) /\ Len(evs) = L
    BY <1>1, <2>1, <2>2
  <2> QED
    BY <2>2, <2>3
<1> HIDE DEF evs
<1>8. CASE missed > 0
  <2>1. gap \in Item /\ gap.id = 0 /\ gap.through = t.last - t.count /\ gap.missed = missed
        /\ Weight(gap) = missed
    BY <1>1, <1>5, <1>6, <1>8 DEF Gap, Item, Weight, IsEvent
  <2> HIDE DEF gap
  <2>2. r = <<gap>> \o evs
    BY <1>8 DEF Replay, s, missed, evs, gap
  <2>3. <<gap>> \in Seq(Item) /\ Len(<<gap>>) = 1 /\ <<gap>>[1] = gap
    BY <2>1
  <2>4. r \in Seq(Item) /\ Len(r) = 1 + L /\ r[1] = gap /\ \A i \in 2 .. 1 + L : r[i] = evs[i - 1]
    BY <1>1, <1>7, <2>2, <2>3
  <2> HIDE DEF r
  <2>5. \A i \in 2 .. 1 + L : i - 1 \in 1 .. L
    BY <1>1
  <2>6. Total(r) = missed + L
    <3>1. r # <<>> /\ \A n \in 2 .. Len(r) : Weight(r[n]) = 1
      <4>1. r # <<>> /\ Len(r) = 1 + L /\ L \in Nat
        BY <1>1, <2>4
      <4>2. ASSUME NEW n \in 2 .. 1 + L PROVE Weight(r[n]) = 1
        <5>1. r[n] = evs[n - 1] /\ n - 1 \in 1 .. L
          BY <2>4, <2>5
        <5> QED
          BY <1>7, <5>1
      <4> QED
        BY <4>1, <4>2
    <3>2. Total(r) = Weight(r[1]) + Len(r) - 1
      BY <2>4, <3>1, TotalOfRun
    <3> QED
      BY <1>1, <1>5, <2>1, <2>4, <3>2
  <2>7. \A i \in 1 .. Len(r) : r[i].id <= t.last /\ r[i].through <= t.last
    <3> SUFFICES ASSUME NEW i \in 1 .. Len(r) PROVE r[i].id <= t.last /\ r[i].through <= t.last
      OBVIOUS
    <3>1. CASE i = 1
      BY <1>1, <2>1, <2>4, <3>1
    <3>2. CASE i # 1
      <4>1. i \in 2 .. 1 + L
        BY <1>1, <2>4, <3>2
      <4> QED
        BY <1>7, <2>4, <2>5, <4>1
    <3> QED
      BY <3>1, <3>2
  <2> QED
    BY <1>1, <1>4, <1>8, <2>4, <2>6, <2>7 DEF r
<1>9. CASE ~(missed > 0)
  <2>1. r = <<>> \o evs
    BY <1>9 DEF Replay, s, missed, evs
  <2>2. r = evs
    BY <1>7, <2>1
  <2> HIDE DEF r
  <2>3. Total(r) = L
    <3>1. CASE L = 0
      <4>1. r = <<>>
        BY <1>7, <2>2, <3>1
      <4> QED
        BY <3>1, <4>1, TotalEmpty
    <3>2. CASE L # 0
      <4>1. r # <<>> /\ 1 \in 1 .. L /\ \A n \in 2 .. Len(r) : Weight(r[n]) = 1
        BY <1>1, <1>7, <2>2, <3>2
      <4>2. Total(r) = Weight(r[1]) + Len(r) - 1
        BY <1>7, <2>2, <4>1, TotalOfRun
      <4> QED
        BY <1>1, <1>7, <2>2, <4>1, <4>2
    <3> QED
      BY <3>1, <3>2
  <2>4. id <= t.last => L = t.last - id
    BY <1>1, <1>4, <1>9 DEF L, Later
  <2> QED
    BY <1>7, <2>2, <2>3, <2>4 DEF r
<1> QED
  BY <1>5, <1>8, <1>9
----------------------------------------------------------------------------
(***************************************************************************)
(* The hub.                                                                *)
(***************************************************************************)
PubType ==
    [pc : {"idle", "found", "deliver"}, topic : 0 .. MaxTopics, todo : SUBSET Clients,
     to : Clients \cup {None}, items : Seq(Item), full : BOOLEAN]
SubType ==
    [pc : {"idle", "found", "open"}, topic : 0 .. MaxTopics, ch : Seq(Item), lastSent : Nat,
     dropped : Nat, through : Nat, closed : BOOLEAN]
ClientType ==
    [cursor : Nat, from : 0 .. MaxTopics, conns : Nat, base : Nat, got : Nat, told : Nat,
     same : BOOLEAN]

\* The shape of the state.
HubTypeOK ==
    /\ made \in 0 .. MaxTopics /\ current \in 0 .. made /\ closing \subseteq 1 .. made
    /\ topic \in [Topics -> TopicType]
    /\ pub \in [Publishers -> PubType]
    /\ sub \in [Clients -> SubType]
    /\ client \in [Clients -> ClientType]

\* The rings hold the newest events.  A topic nobody made yet has no subscriber.
TopicsInv ==
    \A t \in Topics : RingOK(topic[t]) /\ (t > made => topic[t].subs = {})

\* A topic somebody can still come to: it is in the map, is to be closed, or is in the
\* hands of a publisher or a connection.
InUse(t) ==
    \/ t = current \/ t \in closing
    \/ \E p \in Publishers : pub[p].pc # "idle" /\ pub[p].topic = t
    \/ \E c \in Clients : sub[c].pc # "idle" /\ sub[c].topic = t

\* The subscribers of a topic are the open connections to it.
SubsInv ==
    /\ \A t \in Topics : InUse(t) => \A c \in topic[t].subs : Subscribed(c) /\ sub[c].topic = t
    /\ \A c \in Clients : Subscribed(c) => c \in topic[sub[c].topic].subs
    /\ \A c \in Clients : sub[c].pc # "idle" => sub[c].topic \in 1 .. made
    /\ \A c \in Clients : sub[c].pc = "found" =>
          sub[c].dropped = 0 /\ sub[c].through = 0 /\ ~sub[c].closed /\ sub[c].ch = <<>>

\* One publisher at a time delivers to a topic, and only to its subscribers.
DeliverInv ==
    /\ \A p \in Publishers :
         /\ pub[p].pc # "idle" => pub[p].topic \in 1 .. made
         /\ pub[p].items # <<>> => /\ pub[p].pc = "deliver" /\ pub[p].to \notin pub[p].todo
                                   /\ pub[p].to \in topic[pub[p].topic].subs
         /\ pub[p].full => pub[p].items # <<>>
         /\ pub[p].pc = "deliver" => /\ pub[p].todo \subseteq topic[pub[p].topic].subs
                                     /\ topic[pub[p].topic].last > 0
    /\ \A p, q \in Publishers :
         pub[p].pc = "deliver" /\ pub[q].pc = "deliver" /\ pub[p].topic = pub[q].topic => p = q

\* No item is of an event to come, and no cursor is beyond the topic it was read from.
Upto(items, n) == \A i \in 1 .. Len(items) : items[i].id <= n /\ items[i].through <= n

BoundInv ==
    /\ \A p \in Publishers : pub[p].items # <<>> => Upto(pub[p].items, topic[pub[p].topic].last)
    /\ \A c \in Clients : sub[c].pc # "idle" => /\ Upto(sub[c].ch, topic[sub[c].topic].last)
                                                /\ sub[c].through <= topic[sub[c].topic].last
    /\ \A c \in Clients : IF client[c].from = None THEN client[c].cursor = 0
                          ELSE client[c].cursor <= topic[client[c].from].last

\* What the publishers pb have in hand for c, a subscriber of topic t: the part of the one
\* that delivers there.
On(pb, t) == {p \in Publishers : pb[p].pc = "deliver" /\ pb[p].topic = t}
Part(u, c) == IF c \in u.todo THEN 1 ELSE IF u.to = c THEN Total(u.items) ELSE 0
Held(pb, t, c) == IF On(pb, t) = {} THEN 0 ELSE Part(pb[CHOOSE q \in On(pb, t) : TRUE], c)

\* Conservation for one connection u of a client k: h is held for it, n the newest event.
Balanced(u, k, h, n) ==
    u.pc = "open" /\ ~u.closed /\ k.same =>
        k.got + k.told + Total(u.ch) + u.dropped + h = n - k.base

BalanceInv ==
    \A c \in Clients :
        Balanced(sub[c], client[c], Held(pub, sub[c].topic, c), topic[sub[c].topic].last)

\* The inductive invariant.
HubInv == HubTypeOK /\ TopicsInv /\ SubsInv /\ DeliverInv /\ BoundInv /\ BalanceInv

LEMMA BalanceIsConservation == BalanceInv => Conservation
  BY DEF BalanceInv, Balanced, Conservation, Held, On, Part, InHand, Subscribed, SameTopic

\* Nobody delivers, one delivers, and a step that changes nobody's part.
LEMMA HeldNone ==
  ASSUME NEW pb, NEW t, NEW c, On(pb, t) = {}
  PROVE  Held(pb, t, c) = 0
  BY DEF Held

LEMMA HeldOne ==
  ASSUME NEW pb, NEW t, NEW c, NEW p \in On(pb, t), \A q \in On(pb, t) : q = p
  PROVE  Held(pb, t, c) = Part(pb[p], c)
<1>1. On(pb, t) # {}
  OBVIOUS
<1>2. (CHOOSE q \in On(pb, t) : TRUE) \in On(pb, t)
  OBVIOUS
<1>3. (CHOOSE q \in On(pb, t) : TRUE) = p
  BY <1>2
<1> QED
  BY <1>1, <1>3 DEF Held

LEMMA HeldSame ==
  ASSUME NEW pb, NEW pz, NEW t, NEW c, On(pz, t) = On(pb, t),
         \A p \in On(pb, t) : Part(pz[p], c) = Part(pb[p], c)
  PROVE  Held(pz, t, c) = Held(pb, t, c)
<1>1. CASE On(pb, t) = {}
  BY <1>1 DEF Held
<1>2. CASE On(pb, t) # {}
  <2>1. (CHOOSE q \in On(pb, t) : TRUE) \in On(pb, t)
    BY <1>2
  <2> QED
    BY <1>2, <2>1 DEF Held
<1> QED
  BY <1>1, <1>2

LEMMA HubInitInv == Init => HubInv
<1> SUFFICES ASSUME Init PROVE HubInv
  OBVIOUS
<1>1. EmptyTopic \in TopicType /\ RingOK(EmptyTopic) /\ EmptyTopic.subs = {} /\ EmptyTopic.last = 0
  BY SizesAssumption DEF EmptyTopic, TopicType, RingOK, Slots
<1>2. IdlePub \in PubType /\ IdlePub.pc = "idle" /\ IdlePub.items = <<>> /\ ~IdlePub.full
  BY SizesAssumption DEF IdlePub, PubType, None
<1>3. NoSub \in SubType /\ NoSub.pc = "idle"
  BY SizesAssumption DEF NoSub, SubType, None
<1>4. NewClient \in ClientType /\ NewClient.from = None /\ NewClient.cursor = 0
  BY SizesAssumption DEF NewClient, ClientType, None
<1>5. HubTypeOK
  BY <1>1, <1>2, <1>3, <1>4, SizesAssumption DEF Init, HubTypeOK, None
<1>6. TopicsInv
  BY <1>1 DEF Init, TopicsInv
<1>7. SubsInv
  BY <1>1, <1>3 DEF Init, SubsInv, Subscribed
<1>8. DeliverInv
  BY <1>2 DEF Init, DeliverInv
<1>9. BoundInv
  BY <1>2, <1>3, <1>4 DEF Init, BoundInv
<1>10. BalanceInv
  BY <1>3 DEF Init, BalanceInv, Balanced
<1> QED
  BY <1>5, <1>6, <1>7, <1>8, <1>9, <1>10 DEF HubInv

\* The topics that publishers, connections and cursors are of.
LEMMA AreTopics ==
  ASSUME HubInv
  PROVE  /\ made \in Nat /\ MaxTopics \in Nat /\ \A x \in 1 .. made : x \in Topics
         /\ \A p \in Publishers : pub[p].pc # "idle" \/ pub[p].items # <<>> => pub[p].topic \in Topics
         /\ \A c \in Clients : sub[c].pc # "idle" => sub[c].topic \in Topics
         /\ \A c \in Clients : client[c].from # None => client[c].from \in Topics
         /\ \A x \in Topics : topic[x] \in TopicType /\ topic[x].last \in Nat /\ RingOK(topic[x])
<1>1. made \in Nat /\ MaxTopics \in Nat /\ \A x \in 1 .. made : x \in Topics
  BY SizesAssumption DEF HubInv, HubTypeOK, Topics
<1>2. ASSUME NEW p \in Publishers, pub[p].pc # "idle" \/ pub[p].items # <<>>
      PROVE  pub[p].topic \in Topics
  BY <1>1, <1>2 DEF HubInv, DeliverInv
<1>3. \A c \in Clients : sub[c].pc # "idle" => sub[c].topic \in Topics
  BY <1>1 DEF HubInv, SubsInv
<1>4. \A c \in Clients : client[c].from # None => client[c].from \in Topics
  BY <1>1 DEF HubInv, HubTypeOK, ClientType, Topics, None
<1>5. \A x \in Topics : topic[x] \in TopicType /\ topic[x].last \in Nat /\ RingOK(topic[x])
  BY DEF HubInv, HubTypeOK, TopicType, TopicsInv
<1> QED
  BY <1>1, <1>2, <1>3, <1>4, <1>5

\* A topic that is found was in use, or has had no subscriber.
LEMMA FoundIsFresh ==
  ASSUME HubInv, NEW t \in Topics, Found(t)
  PROVE  /\ made' \in 0 .. MaxTopics /\ t \in 1 .. made' /\ made' >= made
         /\ t = current' /\ (t # current => topic[t].subs = {})
<1>1. made \in 0 .. MaxTopics /\ current \in 0 .. made
  BY DEF HubInv, HubTypeOK
<1>2. t > made => topic[t].subs = {}
  BY DEF HubInv, TopicsInv
<1> QED
  BY <1>1, <1>2, SizesAssumption DEF Found, None, Topics

LEMMA PublishFindKeeps ==
  ASSUME HubInv, NEW p \in Publishers, NEW t \in Topics, PublishFind(p, t)
  PROVE  HubInv'
<1>1. /\ HubTypeOK /\ TopicsInv /\ SubsInv /\ DeliverInv /\ BoundInv /\ BalanceInv
      /\ pub[p].pc = "idle" /\ Found(t)
      /\ UNCHANGED <<topic, hubClosed, closing, sub, client>>
  BY DEF HubInv, PublishFind
<1>2. /\ made \in Nat /\ made' \in 0 .. MaxTopics /\ t \in 1 .. made' /\ made' >= made
      /\ t = current' /\ (t # current => topic[t].subs = {})
  BY <1>1, FoundIsFresh DEF HubTypeOK
<1>3. /\ pub' \in [Publishers -> PubType] /\ \A q \in Publishers \ {p} : pub'[q] = pub[q]
      /\ pub'[p].pc = "found" /\ pub'[p].topic = t /\ pub'[p].items = <<>> /\ ~pub'[p].full
  <2>1. pub' = [pub EXCEPT ![p] = [IdlePub EXCEPT !.pc = "found", !.topic = t]]
    BY DEF PublishFind
  <2>2. /\ IdlePub \in PubType /\ IdlePub.items = <<>> /\ ~IdlePub.full
        /\ DOMAIN IdlePub = {"pc", "topic", "todo", "to", "items", "full"}
    BY SizesAssumption DEF IdlePub, PubType, None
  <2>3. t \in 0 .. MaxTopics
    BY SizesAssumption DEF Topics
  <2> DEFINE u == [IdlePub EXCEPT !.pc = "found", !.topic = t]
  <2>4. u \in PubType /\ u.pc = "found" /\ u.topic = t /\ u.items = <<>> /\ ~u.full
    BY <2>2, <2>3 DEF PubType
  <2> HIDE DEF u
  <2>5. pub' = [pub EXCEPT ![p] = u]
    BY <2>1 DEF u
  <2> QED
    BY <1>1, <2>4, <2>5 DEF HubTypeOK
<1>4. HubTypeOK'
  BY <1>1, <1>2, <1>3, SizesAssumption DEF HubTypeOK
<1>5. TopicsInv'
  BY <1>1, <1>2 DEF TopicsInv, Topics
<1>6. SubsInv'
  <2>1. ASSUME NEW x \in Topics, InUse(x)', x # t PROVE InUse(x)
    BY <1>1, <1>2, <1>3, <2>1 DEF InUse
  <2>2. InUse(t) \/ topic[t].subs = {}
    BY <1>2 DEF InUse
  <2>3. \A c \in Clients : Subscribed(c)' = Subscribed(c)
    BY <1>1 DEF Subscribed
  <2>4. ASSUME NEW x \in Topics, InUse(x)', NEW c \in topic'[x].subs
        PROVE  Subscribed(c)' /\ sub'[c].topic = x
    BY <1>1, <2>1, <2>2, <2>3, <2>4 DEF SubsInv, Subscribed
  <2>5. \A c \in Clients : sub'[c].pc # "idle" => sub'[c].topic \in 1 .. made'
    BY <1>1, <1>2 DEF SubsInv
  <2> QED
    BY <1>1, <2>3, <2>4, <2>5 DEF SubsInv
<1>7. DeliverInv'
  <2>1. ASSUME NEW q \in Publishers PROVE pub'[q].pc # "idle" => pub'[q].topic \in 1 .. made'
    BY <1>1, <1>2, <1>3 DEF DeliverInv
  <2> QED
    BY <1>1, <1>2, <1>3, <2>1 DEF DeliverInv
<1>8. BoundInv'
  BY <1>1, <1>3 DEF BoundInv
<1>9. BalanceInv'
  <2>1. \A x : On(pub', x) = On(pub, x) /\ \A q \in On(pub, x) : pub'[q] = pub[q]
    BY <1>1, <1>3 DEF On
  <2>2. \A x, c : Held(pub', x, c) = Held(pub, x, c)
    BY <2>1, HeldSame
  <2> QED
    BY <1>1, <2>2 DEF BalanceInv
<1> QED
  BY <1>4, <1>5, <1>6, <1>7, <1>8, <1>9 DEF HubInv

LEMMA SubscribeFindKeeps ==
  ASSUME HubInv, NEW c \in Clients, NEW t \in Topics, SubscribeFind(c, t)
  PROVE  HubInv'
<1>1. /\ HubTypeOK /\ TopicsInv /\ SubsInv /\ DeliverInv /\ BoundInv /\ BalanceInv
      /\ sub[c].pc = "idle" /\ Found(t)
      /\ UNCHANGED <<topic, hubClosed, closing, pub, client>>
  BY DEF HubInv, SubscribeFind
<1>2. /\ made \in Nat /\ made' \in 0 .. MaxTopics /\ t \in 1 .. made' /\ made' >= made
      /\ t = current' /\ (t # current => topic[t].subs = {})
  BY <1>1, FoundIsFresh DEF HubTypeOK
<1>3. /\ sub' \in [Clients -> SubType] /\ \A d \in Clients \ {c} : sub'[d] = sub[d]
      /\ sub'[c].pc = "found" /\ sub'[c].topic = t /\ sub'[c].ch = <<>> /\ ~sub'[c].closed
      /\ sub'[c].dropped = 0 /\ sub'[c].through = 0
  <2>1. sub' = [sub EXCEPT ![c] = [NoSub EXCEPT !.pc = "found", !.topic = t]]
    BY DEF SubscribeFind
  <2>2. /\ NoSub \in SubType /\ NoSub.ch = <<>> /\ ~NoSub.closed /\ NoSub.dropped = 0
        /\ NoSub.through = 0
    BY SizesAssumption DEF NoSub, SubType, None
  <2>3. t \in 0 .. MaxTopics
    BY SizesAssumption DEF Topics
  <2> DEFINE u == [NoSub EXCEPT !.pc = "found", !.topic = t]
  <2>4. /\ u \in SubType /\ u.pc = "found" /\ u.topic = t /\ u.ch = <<>> /\ ~u.closed
        /\ u.dropped = 0 /\ u.through = 0
    BY <2>2, <2>3 DEF SubType
  <2> HIDE DEF u
  <2>5. sub' = [sub EXCEPT ![c] = u]
    BY <2>1 DEF u
  <2> QED
    BY <1>1, <2>4, <2>5 DEF HubTypeOK
<1>4. HubTypeOK'
  BY <1>1, <1>2, <1>3, SizesAssumption DEF HubTypeOK
<1>5. TopicsInv'
  BY <1>1, <1>2 DEF TopicsInv, Topics
<1>6. SubsInv'
  <2>1. ASSUME NEW x \in Topics, InUse(x)', x # t PROVE InUse(x)
    BY <1>1, <1>2, <1>3, <2>1 DEF InUse
  <2>2. InUse(t) \/ topic[t].subs = {}
    BY <1>2 DEF InUse
  <2>3. \A d \in Clients : Subscribed(d) => Subscribed(d)' /\ sub'[d] = sub[d]
    BY <1>1, <1>3 DEF Subscribed
  <2>4. ASSUME NEW x \in Topics, InUse(x)', NEW d \in topic'[x].subs
        PROVE  Subscribed(d)' /\ sub'[d].topic = x
    <3>1. d \in Clients
      BY <1>1 DEF HubTypeOK, TopicType
    <3> QED
      BY <1>1, <2>1, <2>2, <2>3, <2>4, <3>1 DEF SubsInv
  <2>5. \A d \in Clients : sub'[d].pc # "idle" => sub'[d].topic \in 1 .. made'
    BY <1>1, <1>2, <1>3 DEF SubsInv
  <2>6. \A d \in Clients : Subscribed(d)' => d \in topic'[sub'[d].topic].subs
    BY <1>1, <1>3 DEF SubsInv, Subscribed
  <2>7. \A d \in Clients : sub'[d].pc = "found" =>
          sub'[d].dropped = 0 /\ sub'[d].through = 0 /\ ~sub'[d].closed /\ sub'[d].ch = <<>>
    BY <1>1, <1>3 DEF SubsInv
  <2> QED
    BY <2>4, <2>5, <2>6, <2>7 DEF SubsInv
<1>7. DeliverInv'
  BY <1>1, <1>2 DEF DeliverInv
<1>8. BoundInv'
  <2>1. topic[t].last \in Nat
    BY <1>1 DEF HubTypeOK, TopicType
  <2>2. \A d \in Clients : sub'[d].pc # "idle" => /\ Upto(sub'[d].ch, topic[sub'[d].topic].last)
                                                  /\ sub'[d].through <= topic[sub'[d].topic].last
    BY <1>1, <1>3, <2>1 DEF BoundInv, Upto
  <2> QED
    BY <1>1, <2>2 DEF BoundInv
<1>9. BalanceInv'
  BY <1>1, <1>3 DEF BalanceInv, Balanced
<1> QED
  BY <1>4, <1>5, <1>6, <1>7, <1>8, <1>9 DEF HubInv

LEMMA SubscribeRegisterKeeps ==
  ASSUME HubInv, NEW c \in Clients, SubscribeRegister(c)
  PROVE  HubInv'
<1> DEFINE t == sub[c].topic
           id == client[c].cursor
           backlog == Since(topic[t], id)
<1>1. /\ HubTypeOK /\ TopicsInv /\ SubsInv /\ DeliverInv /\ BoundInv /\ BalanceInv
      /\ sub[c].pc = "found" /\ ~Locked(t)
      /\ UNCHANGED <<current, made, hubClosed, closing, pub>>
  BY DEF HubInv, SubscribeRegister
<1>2. /\ t \in Topics /\ t \in 1 .. made /\ t # None /\ id \in Nat
      /\ topic[t] \in TopicType /\ RingOK(topic[t]) /\ topic[t].last \in Nat
      /\ ~sub[c].closed /\ sub[c].dropped = 0 /\ sub[c].through = 0
  <2>1. t \in 1 .. made /\ ~sub[c].closed /\ sub[c].dropped = 0 /\ sub[c].through = 0
    BY <1>1 DEF SubsInv
  <2>2. t # None /\ t \in Topics
    BY <2>1, AreTopics DEF None
  <2>3. id \in Nat
    BY <1>1 DEF HubTypeOK, ClientType
  <2> HIDE DEF t
  <2> QED
    BY <2>1, <2>2, <2>3, AreTopics
<1>3. /\ Replay(topic[t], id) \in Seq(Item) /\ Upto(Replay(topic[t], id), topic[t].last)
      /\ id <= topic[t].last => Total(Replay(topic[t], id)) = topic[t].last - id
  BY <1>2, ReplayIs DEF Upto
<1>4. backlog = <<>> \/ Last(backlog) \in Nat
  <2>1. backlog \in Seq(Nat)
    BY <1>2, SinceIs
  <2> HIDE DEF backlog
  <2> QED
    BY <2>1 DEF Last
<1>5. /\ sub' \in [Clients -> SubType] /\ \A d \in Clients \ {c} : sub'[d] = sub[d]
      /\ sub'[c].pc = "open" /\ sub'[c].topic = t /\ sub'[c].ch = Replay(topic[t], id)
      /\ ~sub'[c].closed /\ sub'[c].dropped = 0 /\ sub'[c].through = 0
  <2> DEFINE r == Replay(topic[t], id)
             n == IF backlog = <<>> THEN id ELSE Last(backlog)
  <2>1. sub' = [sub EXCEPT ![c].pc = "open", ![c].ch = r, ![c].lastSent = n]
    BY DEF SubscribeRegister
  <2>2. n \in Nat /\ r \in Seq(Item)
    BY <1>2, <1>3, <1>4
  <2> HIDE DEF r, n
  <2>3. /\ sub' \in [Clients -> SubType] /\ \A d \in Clients \ {c} : sub'[d] = sub[d]
        /\ sub'[c].pc = "open" /\ sub'[c].topic = sub[c].topic /\ sub'[c].ch = r
        /\ sub'[c].closed = sub[c].closed /\ sub'[c].dropped = sub[c].dropped
        /\ sub'[c].through = sub[c].through
    BY <1>1, <2>1, <2>2, ZenonT(60) DEF HubTypeOK, SubType
  <2> QED
    BY <1>2, <2>3 DEF r
<1>6. /\ topic' \in [Topics -> TopicType] /\ topic'[t].subs = topic[t].subs \cup {c}
      /\ \A x \in Topics \ {t} : topic'[x] = topic[x]
      /\ \A x \in Topics : topic'[x].last = topic[x].last /\ RingOK(topic'[x])
  <2>1. topic' = [topic EXCEPT ![t].subs = @ \cup {c}]
    BY DEF SubscribeRegister
  <2>2. /\ topic' \in [Topics -> TopicType] /\ topic'[t].subs = topic[t].subs \cup {c}
        /\ \A x \in Topics \ {t} : topic'[x] = topic[x]
        /\ topic'[t].ring = topic[t].ring /\ topic'[t].next = topic[t].next
        /\ topic'[t].count = topic[t].count /\ topic'[t].last = topic[t].last
    BY <1>1, <1>2, <2>1 DEF HubTypeOK, TopicType
  <2>3. RingOK(topic'[t])
    BY <1>2, <2>2 DEF RingOK
  <2> QED
    BY <1>1, <2>2, <2>3 DEF TopicsInv
<1>7. /\ client' \in [Clients -> ClientType] /\ \A d \in Clients \ {c} : client'[d] = client[d]
      /\ client'[c].cursor = id /\ client'[c].from = client[c].from
      /\ client'[c].got = 0 /\ client'[c].told = 0
      /\ client'[c].same = (client[c].from \in {None, t})
      /\ client'[c].base = IF client[c].from = t THEN id ELSE 0
  <2>1. client' = [client EXCEPT ![c].conns = @ + 1, ![c].got = 0, ![c].told = 0,
                                 ![c].same = client[c].from \in {None, t},
                                 ![c].base = IF client[c].from = t THEN id ELSE 0]
    BY DEF SubscribeRegister
  <2>2. (client[c].from \in {None, t}) \in BOOLEAN /\ (IF client[c].from = t THEN id ELSE 0) \in Nat
    BY <1>2
  <2> DEFINE b == IF client[c].from = t THEN id ELSE 0
             s == client[c].from \in {None, t}
  <2>3. b \in Nat /\ s \in BOOLEAN
    BY <2>2
  <2>4. client' = [client EXCEPT ![c].conns = @ + 1, ![c].got = 0, ![c].told = 0, ![c].same = s,
                                 ![c].base = b]
    BY <2>1
  <2> HIDE DEF b, s
  <2> DEFINE u == [client[c] EXCEPT !.conns = @ + 1, !.got = 0, !.told = 0, !.same = s, !.base = b]
  <2>5. client' = [client EXCEPT ![c] = u]
    BY <2>4
  <2>6. client[c] \in ClientType
    BY <1>1 DEF HubTypeOK
  <2>7. u \in ClientType
    <3> DEFINE n == client[c].conns + 1
    <3>1. n \in Nat
      BY <2>6 DEF ClientType
    <3>2. u = [client[c] EXCEPT !.conns = n, !.got = 0, !.told = 0, !.same = s, !.base = b]
      BY Zenon
    <3> HIDE DEF n, u
    <3> QED
      BY <2>3, <2>6, <3>1, <3>2, ZenonT(60) DEF ClientType
  <2>8. /\ u.cursor = client[c].cursor /\ u.from = client[c].from /\ u.got = 0 /\ u.told = 0
        /\ u.same = s /\ u.base = b
    BY <2>6 DEF ClientType
  <2> HIDE DEF u
  <2>9. client' \in [Clients -> ClientType] /\ client'[c] = u /\ \A d \in Clients \ {c} : client'[d] = client[d]
    BY <1>1, <2>5, <2>7 DEF HubTypeOK
  <2> QED
    BY <2>8, <2>9 DEF b, s
<1> HIDE DEF backlog
<1>8. HubTypeOK'
  BY <1>1, <1>5, <1>6, <1>7 DEF HubTypeOK
<1>9. TopicsInv'
  <2>1. t <= made
    BY <1>2
  <2> HIDE DEF t
  <2> QED
    BY <1>1, <1>6, <2>1, AreTopics DEF TopicsInv, Topics
<1>10. SubsInv'
  <2>1. \A x \in Topics : InUse(x)' <=> InUse(x)
    BY <1>1, <1>5 DEF InUse
  <2>2. \A d \in Clients : Subscribed(d) => Subscribed(d)' /\ sub'[d] = sub[d]
    BY <1>1, <1>5 DEF Subscribed
  <2>3. Subscribed(c)'
    BY <1>5 DEF Subscribed
  <2>4. ASSUME NEW x \in Topics, InUse(x)', NEW d \in topic'[x].subs
        PROVE  Subscribed(d)' /\ sub'[d].topic = x
    <3>1. d \in Clients
      BY <1>6 DEF TopicType
    <3>2. (x = t /\ d = c) \/ d \in topic[x].subs
      BY <1>6, <2>4
    <3> QED
      BY <1>1, <1>5, <2>1, <2>2, <2>3, <2>4, <3>1, <3>2 DEF SubsInv
  <2>5. \A d \in Clients : sub'[d].pc # "idle" => sub'[d].topic \in 1 .. made'
    BY <1>1, <1>2, <1>5 DEF SubsInv
  <2>6. ASSUME NEW d \in Clients, Subscribed(d)' PROVE d \in topic'[sub'[d].topic].subs
    <3>1. CASE d = c
      BY <1>5, <1>6, <3>1
    <3>2. CASE d # c
      <4>1. sub'[d] = sub[d] /\ Subscribed(d)
        BY <1>5, <2>6, <3>2 DEF Subscribed
      <4>2. d \in topic[sub[d].topic].subs /\ sub[d].topic \in 1 .. made
        BY <1>1, <4>1 DEF SubsInv, Subscribed
      <4>3. sub[d].topic \in Topics
        BY <4>2, AreTopics
      <4> QED
        BY <1>6, <4>1, <4>2, <4>3
    <3> QED
      BY <3>1, <3>2
  <2>7. \A d \in Clients : sub'[d].pc = "found" =>
          sub'[d].dropped = 0 /\ sub'[d].through = 0 /\ ~sub'[d].closed /\ sub'[d].ch = <<>>
    BY <1>1, <1>5 DEF SubsInv
  <2> QED
    BY <2>4, <2>5, <2>6, <2>7 DEF SubsInv
<1>11. DeliverInv'
  <2>1. \A x \in Topics : topic[x].subs \subseteq topic'[x].subs /\ topic'[x].last = topic[x].last
    BY <1>6
  <2>2. \A q \in Publishers : pub[q].pc # "idle" => pub[q].topic \in Topics
    BY AreTopics
  <2> QED
    BY <1>1, <2>1, <2>2 DEF DeliverInv
<1>12. BoundInv'
  <2>1. \A q \in Publishers : pub[q].items # <<>> => pub[q].topic \in Topics
    BY AreTopics
  <2>2. \A q \in Publishers : pub'[q].items # <<>> => Upto(pub'[q].items, topic'[pub'[q].topic].last)
    BY <1>1, <1>6, <2>1 DEF BoundInv
  <2>3. ASSUME NEW d \in Clients, sub'[d].pc # "idle"
        PROVE  /\ Upto(sub'[d].ch, topic'[sub'[d].topic].last)
               /\ sub'[d].through <= topic'[sub'[d].topic].last
    <3>1. CASE d = c
      BY <1>2, <1>3, <1>5, <1>6, <3>1
    <3>2. CASE d # c
      <4>1. sub'[d] = sub[d]
        BY <1>5, <3>2
      <4>2. sub[d].topic \in Topics
        BY <2>3, <4>1, AreTopics
      <4> QED
        BY <1>1, <1>6, <2>3, <4>1, <4>2 DEF BoundInv
    <3> QED
      BY <3>1, <3>2
  <2>4. ASSUME NEW d \in Clients
        PROVE  IF client'[d].from = None THEN client'[d].cursor = 0
               ELSE client'[d].cursor <= topic'[client'[d].from].last
    <3>1. client'[d].from = client[d].from /\ client'[d].cursor = client[d].cursor
      BY <1>7
    <3>2. client[d].from # None => client[d].from \in Topics
      BY AreTopics
    <3> QED
      BY <1>1, <1>6, <3>1, <3>2 DEF BoundInv
  <2> QED
    BY <2>2, <2>3, <2>4 DEF BoundInv
<1>13. BalanceInv'
  <2> SUFFICES ASSUME NEW d \in Clients
               PROVE  Balanced(sub'[d], client'[d], Held(pub, sub'[d].topic, d),
                               topic'[sub'[d].topic].last)
    BY <1>1 DEF BalanceInv
  <2>1. CASE d = c
    <3>1. On(pub, t) = {}
      BY <1>1 DEF Locked, On
    <3>2. Held(pub, t, d) = 0
      BY <3>1, HeldNone
    <3>3. client'[c].same => id <= topic[t].last /\ client'[c].base = id
      BY <1>1, <1>2, <1>7 DEF BoundInv
    <3>4. client'[c].same => Total(Replay(topic[t], id)) = topic[t].last - client'[c].base
      BY <1>3, <3>3
    <3>5. Total(Replay(topic[t], id)) \in Nat
      BY <1>3, TotalType
    <3> HIDE DEF id, t
    <3> QED
      BY <1>2, <1>5, <1>6, <1>7, <2>1, <3>2, <3>4, <3>5 DEF Balanced
  <2>2. CASE d # c
    <3>1. sub'[d] = sub[d] /\ client'[d] = client[d]
      BY <1>5, <1>7, <2>2
    <3>2. sub[d].pc = "open" => sub[d].topic \in Topics
      BY AreTopics
    <3> QED
      BY <1>1, <1>6, <3>1, <3>2 DEF BalanceInv, Balanced
  <2> QED
    BY <2>1, <2>2
<1> QED
  BY <1>8, <1>9, <1>10, <1>11, <1>12, <1>13 DEF HubInv

LEMMA ReceiveKeeps ==
  ASSUME HubInv, NEW c \in Clients, Receive(c)
  PROVE  HubInv'
<1> DEFINE t == sub[c].topic
           k == client[c]
           item == Head(sub[c].ch)
<1>1. /\ HubTypeOK /\ TopicsInv /\ SubsInv /\ DeliverInv /\ BoundInv /\ BalanceInv
      /\ sub[c].pc = "open" /\ sub[c].ch # <<>>
      /\ UNCHANGED <<current, made, topic, hubClosed, closing, pub>>
  BY DEF HubInv, Receive
<1>2. /\ t \in Topics /\ t \in 0 .. MaxTopics /\ topic[t].last \in Nat /\ k \in ClientType
      /\ sub[c] \in SubType /\ sub[c].ch \in Seq(Item)
  <2>1. t \in Topics
    BY <1>1, AreTopics
  <2> QED
    BY <1>1, <2>1, AreTopics DEF HubTypeOK, SubType
<1>3. /\ item \in Item /\ item.id <= topic[t].last /\ item.through <= topic[t].last
      /\ Tail(sub[c].ch) \in Seq(Item) /\ Upto(Tail(sub[c].ch), topic[t].last)
  <2> DEFINE s == sub[c].ch
  <2>1. s \in Seq(Item) /\ s # <<>> /\ Upto(s, topic[t].last)
    BY <1>1, <1>2 DEF BoundInv
  <2> HIDE DEF s
  <2>2. /\ 1 \in 1 .. Len(s) /\ Head(s) = s[1] /\ Head(s) \in Item /\ Tail(s) \in Seq(Item)
        /\ \A i \in 1 .. Len(Tail(s)) : i + 1 \in 1 .. Len(s) /\ Tail(s)[i] = s[i + 1]
    BY <2>1
  <2> QED
    BY <2>1, <2>2 DEF Upto, s
<1>4. /\ sub' \in [Clients -> SubType] /\ \A d \in Clients \ {c} : sub'[d] = sub[d]
      /\ sub'[c].ch = Tail(sub[c].ch) /\ sub'[c].pc = sub[c].pc /\ sub'[c].topic = t
      /\ sub'[c].closed = sub[c].closed /\ sub'[c].dropped = sub[c].dropped
      /\ sub'[c].through = sub[c].through
  <2> DEFINE rest == Tail(sub[c].ch)
  <2>1. sub' = [sub EXCEPT ![c].ch = rest] /\ rest \in Seq(Item)
    BY <1>3 DEF Receive
  <2> HIDE DEF rest
  <2>2. /\ sub' \in [Clients -> SubType] /\ \A d \in Clients \ {c} : sub'[d] = sub[d]
        /\ sub'[c].ch = rest /\ sub'[c].pc = sub[c].pc /\ sub'[c].topic = sub[c].topic
        /\ sub'[c].closed = sub[c].closed /\ sub'[c].dropped = sub[c].dropped
        /\ sub'[c].through = sub[c].through
    BY <1>1, <2>1 DEF HubTypeOK, SubType
  <2> QED
    BY <2>2 DEF rest
<1>5. /\ client' \in [Clients -> ClientType] /\ \A d \in Clients \ {c} : client'[d] = client[d]
      /\ client'[c].same = k.same /\ client'[c].base = k.base
      /\ client'[c].got + client'[c].told = k.got + k.told + Weight(item)
      /\ \/ client'[c].from = t /\ client'[c].cursor <= topic[t].last
         \/ client'[c].from = k.from /\ client'[c].cursor = k.cursor
  <2> DEFINE u == [k EXCEPT !.cursor = item.id, !.from = t, !.got = @ + 1]
             w == [k EXCEPT !.cursor = Larger(@, item.through), !.told = @ + item.missed,
                            !.from = IF item.through > k.cursor THEN t ELSE @]
             v == IF IsEvent(item) THEN u ELSE w
  <2>1. client' = [client EXCEPT ![c] = v]
    BY DEF Receive
  <2>2. /\ item.id \in Nat /\ item.missed \in Nat /\ item.through \in Nat
        /\ k.cursor \in Nat /\ k.got \in Nat /\ k.told \in Nat
    BY <1>2, <1>3 DEF Item, ClientType
  <2> HIDE DEF k, t, item
  <2>3. CASE IsEvent(item)
    <3>1. v = u
      BY <2>3
    <3>2. u \in ClientType
      <4> DEFINE n == k.got + 1
      <4>1. n \in Nat
        BY <2>2
      <4>2. u = [k EXCEPT !.cursor = item.id, !.from = t, !.got = n]
        BY Zenon
      <4> HIDE DEF n, u
      <4> QED
        BY <1>2, <2>2, <4>1, <4>2, ZenonT(60) DEF ClientType
    <3>3. u.got = k.got + 1 /\ u.told = k.told /\ u.same = k.same /\ u.base = k.base
          /\ u.from = t /\ u.cursor = item.id
      BY <1>2 DEF ClientType
    <3>4. Weight(item) = 1
      BY <2>3 DEF Weight
    <3> HIDE DEF u, v
    <3>5. client' \in [Clients -> ClientType] /\ client'[c] = u /\ \A d \in Clients \ {c} : client'[d] = client[d]
      BY <1>1, <2>1, <3>1, <3>2 DEF HubTypeOK
    <3> QED
      BY <1>3, <2>2, <3>3, <3>4, <3>5
  <2>4. CASE ~IsEvent(item)
    <3>1. v = w
      BY <2>4
    <3>2. w \in ClientType
      <4> DEFINE n == Larger(k.cursor, item.through)
                 m == k.told + item.missed
                 f == IF item.through > k.cursor THEN t ELSE k.from
      <4>1. n \in Nat /\ m \in Nat
        BY <2>2 DEF Larger
      <4>2. f \in 0 .. MaxTopics
        BY <1>2 DEF ClientType
      <4>3. w = [k EXCEPT !.cursor = n, !.told = m, !.from = f]
        BY Zenon
      <4> HIDE DEF n, m, f, w
      <4> QED
        BY <1>2, <4>1, <4>2, <4>3, ZenonT(60) DEF ClientType
    <3>3. w.got = k.got /\ w.told = k.told + item.missed /\ w.same = k.same /\ w.base = k.base
          /\ w.from = (IF item.through > k.cursor THEN t ELSE k.from)
          /\ w.cursor = Larger(k.cursor, item.through)
      BY <1>2 DEF ClientType
    <3>4. Weight(item) = item.missed
      BY <2>4 DEF Weight
    <3> HIDE DEF w, v
    <3>5. client' \in [Clients -> ClientType] /\ client'[c] = w /\ \A d \in Clients \ {c} : client'[d] = client[d]
      BY <1>1, <2>1, <3>1, <3>2 DEF HubTypeOK
    <3>6. \/ w.from = t /\ w.cursor <= topic[t].last
          \/ w.from = k.from /\ w.cursor = k.cursor
      BY <1>3, <2>2, <3>3 DEF Larger
    <3> QED
      BY <2>2, <3>3, <3>4, <3>5, <3>6
  <2> QED
    BY <2>3, <2>4
<1>6. HubTypeOK'
  BY <1>1, <1>4, <1>5 DEF HubTypeOK
<1>7. TopicsInv'
  BY <1>1 DEF TopicsInv
<1>8. SubsInv'
  <2>1. \A d \in Clients : /\ sub'[d].pc = sub[d].pc /\ sub'[d].topic = sub[d].topic
                           /\ sub'[d].closed = sub[d].closed
                           /\ (sub[d].pc = "found" => sub'[d] = sub[d])
    BY <1>1, <1>4
  <2>2. \A x \in Topics : InUse(x)' <=> InUse(x)
    BY <1>1, <2>1 DEF InUse
  <2>3. \A d \in Clients : Subscribed(d)' <=> Subscribed(d)
    BY <2>1 DEF Subscribed
  <2>4. \A x \in Topics : topic[x].subs \subseteq Clients
    BY <1>1 DEF HubTypeOK, TopicType
  <2> QED
    BY <1>1, <2>1, <2>2, <2>3, <2>4 DEF SubsInv
<1>9. DeliverInv'
  BY <1>1 DEF DeliverInv
<1>10. BoundInv'
  <2>1. \A d \in Clients : sub'[d].pc # "idle" => /\ Upto(sub'[d].ch, topic[sub'[d].topic].last)
                                                  /\ sub'[d].through <= topic[sub'[d].topic].last
    BY <1>1, <1>3, <1>4 DEF BoundInv
  <2>2. t # None
    BY <1>2 DEF Topics, None
  <2>3. \A d \in Clients : IF client'[d].from = None THEN client'[d].cursor = 0
                           ELSE client'[d].cursor <= topic[client'[d].from].last
    <3> HIDE DEF t
    <3> QED
      BY <1>1, <1>5, <2>2 DEF BoundInv
  <2> QED
    BY <1>1, <2>1, <2>3 DEF BoundInv
<1>11. BalanceInv'
  <2> SUFFICES ASSUME NEW d \in Clients
               PROVE  Balanced(sub'[d], client'[d], Held(pub, sub'[d].topic, d),
                               topic[sub'[d].topic].last)
    BY <1>1 DEF BalanceInv
  <2>1. CASE d = c
    <3> DEFINE h == Held(pub, t, c)
               n == topic[t].last
    <3>1. Balanced(sub[c], k, h, n)
      BY <1>1 DEF BalanceInv
    <3>2. Total(sub[c].ch) = Weight(item) + Total(Tail(sub[c].ch)) /\ Total(Tail(sub[c].ch)) \in Nat
      BY <1>1, <1>2, <1>3, TotalTail, TotalType
    <3>3. Weight(item) \in Nat /\ k.got \in Nat /\ k.told \in Nat /\ sub[c].dropped \in Nat
      BY <1>2, <1>3, WeightType DEF ClientType, SubType
    <3>4. client'[c].got \in Nat /\ client'[c].told \in Nat
      BY <1>5 DEF ClientType
    <3> HIDE DEF h, n, k, item
    <3>5. Balanced(sub'[c], client'[c], h, n)
      BY <1>4, <1>5, <3>1, <3>2, <3>3, <3>4 DEF Balanced
    <3> QED
      BY <1>4, <2>1, <3>5 DEF h, n
  <2>2. CASE d # c
    BY <1>1, <1>4, <1>5, <2>2 DEF BalanceInv
  <2> QED
    BY <2>1, <2>2
<1> QED
  BY <1>6, <1>7, <1>8, <1>9, <1>10, <1>11 DEF HubInv

\* Subscriptions leave a topic whose lock is free: those of the clients in gone.
LEMMA LeavingKeeps ==
  ASSUME HubInv, NEW t \in Topics, NEW gone \in SUBSET Clients, InUse(t), ~Locked(t),
         UNCHANGED <<made, pub, client>>, current' = current, closing' \subseteq closing,
         topic' = [topic EXCEPT ![t].subs = @ \ gone],
         sub' \in [Clients -> SubType], gone \subseteq topic[t].subs \cup {c \in Clients : ~Subscribed(c)},
         \A c \in Clients : c \notin gone => sub'[c] = sub[c],
         \A c \in gone : /\ sub'[c].topic = sub[c].topic /\ sub'[c].closed
                         /\ sub[c].pc = "open" /\ sub'[c].pc \in {"idle", "open"}
                         /\ sub'[c].through = sub[c].through
                         /\ (sub'[c].ch = sub[c].ch \/ sub'[c].ch = <<>>)
  PROVE  HubInv'
<1>1. HubTypeOK /\ TopicsInv /\ SubsInv /\ DeliverInv /\ BoundInv /\ BalanceInv
  BY DEF HubInv
<1>2. /\ topic' \in [Topics -> TopicType] /\ topic'[t].subs = topic[t].subs \ gone
      /\ \A x \in Topics \ {t} : topic'[x] = topic[x]
      /\ \A x \in Topics : topic'[x].last = topic[x].last /\ RingOK(topic'[x])
  <2>1. /\ topic' \in [Topics -> TopicType] /\ topic'[t].subs = topic[t].subs \ gone
        /\ \A x \in Topics \ {t} : topic'[x] = topic[x]
        /\ topic'[t].ring = topic[t].ring /\ topic'[t].next = topic[t].next
        /\ topic'[t].count = topic[t].count /\ topic'[t].last = topic[t].last
    BY <1>1 DEF HubTypeOK, TopicType
  <2>2. RingOK(topic'[t])
    BY <2>1, AreTopics DEF RingOK
  <2> QED
    BY <1>1, <2>1, <2>2 DEF TopicsInv
<1>3. \A x \in Topics : topic[x].subs \subseteq Clients
  BY <1>1 DEF HubTypeOK, TopicType
<1>4. \A c \in Clients : /\ sub'[c].topic = sub[c].topic /\ (sub'[c].pc # "idle" => sub[c].pc # "idle")
                         /\ (Subscribed(c)' => Subscribed(c) /\ c \notin gone)
  BY DEF Subscribed
<1>5. HubTypeOK'
  BY <1>1, <1>2 DEF HubTypeOK
<1>6. TopicsInv'
  BY <1>1, <1>2 DEF TopicsInv
<1>7. SubsInv'
  <2>1. ASSUME NEW x \in Topics, InUse(x)' PROVE InUse(x)
    BY <1>4, <2>1 DEF InUse
  <2>2. ASSUME NEW x \in Topics, InUse(x)', NEW c \in topic'[x].subs
        PROVE  Subscribed(c)' /\ sub'[c].topic = x
    <3>1. InUse(x) /\ c \in topic[x].subs /\ c \in Clients /\ (x = t => c \notin gone)
      BY <1>2, <1>3, <2>1, <2>2
    <3>2. Subscribed(c) /\ sub[c].topic = x
      BY <1>1, <3>1 DEF SubsInv
    <3>3. c \in gone => c \in topic[t].subs
      BY <3>2
    <3>4. c \in gone => sub[c].topic = t
      BY <1>1, <3>3 DEF SubsInv
    <3>5. c \notin gone
      BY <3>1, <3>2, <3>4
    <3>6. sub'[c] = sub[c]
      BY <3>1, <3>5
    <3> QED
      BY <3>2, <3>6 DEF Subscribed
  <2>3. ASSUME NEW c \in Clients, Subscribed(c)' PROVE c \in topic'[sub'[c].topic].subs
    <3>1. Subscribed(c) /\ c \notin gone /\ sub'[c].topic = sub[c].topic
      BY <1>4, <2>3
    <3>2. c \in topic[sub[c].topic].subs /\ sub[c].topic \in Topics
      BY <1>1, <3>1, AreTopics DEF SubsInv, Subscribed
    <3> QED
      BY <1>2, <3>1, <3>2
  <2>4. \A c \in Clients : sub'[c].pc # "idle" => sub'[c].topic \in 1 .. made'
    BY <1>1, <1>4 DEF SubsInv
  <2>5. \A c \in Clients : sub'[c].pc = "found" =>
          sub'[c].dropped = 0 /\ sub'[c].through = 0 /\ ~sub'[c].closed /\ sub'[c].ch = <<>>
    BY <1>1 DEF SubsInv
  <2> QED
    BY <2>2, <2>3, <2>4, <2>5 DEF SubsInv
<1>8. DeliverInv'
  <2>1. \A p \in Publishers : pub[p].pc = "deliver" => pub[p].topic \in Topics \ {t}
    BY AreTopics DEF Locked
  <2>2. \A p \in Publishers : pub[p].pc = "deliver" => topic'[pub[p].topic] = topic[pub[p].topic]
    BY <1>2, <2>1
  <2>3. ASSUME NEW p \in Publishers
        PROVE  /\ pub[p].pc # "idle" => pub[p].topic \in 1 .. made
               /\ pub[p].items # <<>> => /\ pub[p].pc = "deliver" /\ pub[p].to \notin pub[p].todo
                                         /\ pub[p].to \in topic'[pub[p].topic].subs
               /\ pub[p].full => pub[p].items # <<>>
               /\ pub[p].pc = "deliver" => /\ pub[p].todo \subseteq topic'[pub[p].topic].subs
                                           /\ topic'[pub[p].topic].last > 0
    BY <1>1, <2>2 DEF DeliverInv
  <2> QED
    BY <1>1, <2>3 DEF DeliverInv
<1>9. BoundInv'
  <2>1. \A p \in Publishers : pub'[p].items # <<>> => Upto(pub'[p].items, topic'[pub'[p].topic].last)
    BY <1>1, <1>2, AreTopics DEF BoundInv
  <2>2. ASSUME NEW c \in Clients, sub'[c].pc # "idle"
        PROVE  /\ Upto(sub'[c].ch, topic'[sub'[c].topic].last)
               /\ sub'[c].through <= topic'[sub'[c].topic].last
    <3>1. /\ sub[c].pc # "idle" /\ sub'[c].topic = sub[c].topic /\ sub'[c].through = sub[c].through
          /\ (sub'[c].ch = sub[c].ch \/ sub'[c].ch = <<>>)
      BY <1>4, <2>2
    <3>2. topic'[sub[c].topic].last = topic[sub[c].topic].last
      BY <1>2, <3>1, AreTopics
    <3>3. Upto(<<>>, topic[sub[c].topic].last)
      BY DEF Upto
    <3> QED
      BY <1>1, <3>1, <3>2, <3>3 DEF BoundInv
  <2>3. \A c \in Clients : IF client'[c].from = None THEN client'[c].cursor = 0
                           ELSE client'[c].cursor <= topic'[client'[c].from].last
    BY <1>1, <1>2, AreTopics DEF BoundInv
  <2> QED
    BY <2>1, <2>2, <2>3 DEF BoundInv
<1>10. BalanceInv'
  <2> SUFFICES ASSUME NEW c \in Clients
               PROVE  Balanced(sub'[c], client[c], Held(pub, sub'[c].topic, c),
                               topic'[sub'[c].topic].last)
    BY DEF BalanceInv
  <2>1. CASE c \in gone
    BY <2>1 DEF Balanced
  <2>2. CASE c \notin gone
    <3>1. sub'[c] = sub[c] /\ (sub[c].pc = "open" => sub[c].topic \in Topics)
      BY <2>2, AreTopics
    <3> QED
      BY <1>1, <1>2, <3>1 DEF BalanceInv, Balanced
  <2> QED
    BY <2>1, <2>2
<1> QED
  BY <1>5, <1>6, <1>7, <1>8, <1>9, <1>10 DEF HubInv

LEMMA CancelKeeps ==
  ASSUME HubInv, NEW c \in Clients, Cancel(c)
  PROVE  HubInv'
<1> DEFINE t == sub[c].topic
<1>1. t \in Topics /\ InUse(t) /\ sub[c].pc = "open" /\ ~Locked(t)
  BY AreTopics DEF Cancel, InUse
<1>2. c \in topic[t].subs \/ ~Subscribed(c)
  BY DEF HubInv, SubsInv
<1>3. sub \in [Clients -> SubType]
  BY DEF HubInv, HubTypeOK
<1>4. sub' = [sub EXCEPT ![c].pc = "idle", ![c].closed = TRUE, ![c].ch = <<>>]
  BY DEF Cancel
<1>5. sub' \in [Clients -> SubType]
  <2>1. <<>> \in Seq(Item)
    OBVIOUS
  <2> QED
    BY <1>3, <1>4, <2>1, ZenonT(60) DEF SubType
<1>6. /\ \A d \in Clients \ {c} : sub'[d] = sub[d]
      /\ sub'[c].topic = sub[c].topic /\ sub'[c].closed /\ sub'[c].pc = "idle"
      /\ sub'[c].through = sub[c].through /\ sub'[c].ch = <<>>
  BY <1>3, <1>4 DEF SubType
<1>7. /\ topic' = [topic EXCEPT ![t].subs = @ \ {c}] /\ UNCHANGED <<made, pub, client>>
      /\ current' = current /\ closing' = closing
  BY DEF Cancel
<1> DEFINE gone == {c}
<1>8. /\ gone \in SUBSET Clients /\ topic' = [topic EXCEPT ![t].subs = @ \ gone]
      /\ gone \subseteq topic[t].subs \cup {d \in Clients : ~Subscribed(d)}
  BY <1>2, <1>7
<1>9. \A d \in Clients : d \notin gone => sub'[d] = sub[d]
  BY <1>6
<1>10. \A d \in gone : /\ sub'[d].topic = sub[d].topic /\ sub'[d].closed
                       /\ sub[d].pc = "open" /\ sub'[d].pc \in {"idle", "open"}
                       /\ sub'[d].through = sub[d].through
                       /\ (sub'[d].ch = sub[d].ch \/ sub'[d].ch = <<>>)
  BY <1>1, <1>6
<1> HIDE DEF t, gone
<1> QED
  BY <1>1, <1>5, <1>7, <1>8, <1>9, <1>10, LeavingKeeps

LEMMA CloseAllKeeps ==
  ASSUME HubInv, NEW t \in Topics, CloseAll(t)
  PROVE  HubInv'
<1> DEFINE gone == topic[t].subs
<1>1. InUse(t) /\ ~Locked(t) /\ UNCHANGED <<made, pub, client>> /\ current' = current /\ closing' \subseteq closing
  BY DEF CloseAll, InUse
<1>2. sub \in [Clients -> SubType] /\ topic \in [Topics -> TopicType] /\ gone \in SUBSET Clients
  BY DEF HubInv, HubTypeOK, TopicType
<1>3. sub' = [c \in Clients |-> IF c \in gone THEN [sub[c] EXCEPT !.closed = TRUE] ELSE sub[c]]
  BY DEF CloseAll
<1>4. topic' = [topic EXCEPT ![t].subs = @ \ gone]
  BY <1>2 DEF CloseAll
<1>5. \A c \in gone : sub[c].pc = "open"
  BY <1>1 DEF HubInv, SubsInv, Subscribed
<1> HIDE DEF gone
<1>6. sub' \in [Clients -> SubType]
  <2>1. \A c \in Clients : [sub[c] EXCEPT !.closed = TRUE] \in SubType
    BY <1>2, ZenonT(60) DEF SubType
  <2> QED
    BY <1>2, <1>3, <2>1
<1>7. /\ \A c \in Clients : c \notin gone => sub'[c] = sub[c]
      /\ \A c \in gone : /\ sub'[c].topic = sub[c].topic /\ sub'[c].closed
                         /\ sub[c].pc = "open" /\ sub'[c].pc \in {"idle", "open"}
                         /\ sub'[c].through = sub[c].through
                         /\ (sub'[c].ch = sub[c].ch \/ sub'[c].ch = <<>>)
  BY <1>2, <1>3, <1>5 DEF SubType
<1>8. gone \subseteq topic[t].subs \cup {c \in Clients : ~Subscribed(c)}
  BY DEF gone
<1> QED
  BY <1>1, <1>2, <1>4, <1>6, <1>7, <1>8, LeavingKeeps

\* Taking the topic out of the map.
LEMMA UnmapKeeps ==
  ASSUME HubInv, current' = None, closing' = IF current = None THEN closing ELSE closing \cup {current},
         UNCHANGED <<made, topic, pub, sub, client>>
  PROVE  HubInv'
<1>1. HubTypeOK /\ TopicsInv /\ SubsInv /\ DeliverInv /\ BoundInv /\ BalanceInv
  BY DEF HubInv
<1>2. HubTypeOK'
  BY <1>1 DEF HubTypeOK, None
<1>3. TopicsInv'
  BY <1>1 DEF TopicsInv
<1>4. SubsInv'
  <2>1. ASSUME NEW x \in Topics, InUse(x)' PROVE InUse(x)
    BY <2>1 DEF InUse, Topics, None
  <2>2. \A c \in Clients : Subscribed(c)' <=> Subscribed(c)
    BY DEF Subscribed
  <2>3. \A x \in Topics : topic[x].subs \subseteq Clients
    BY <1>1 DEF HubTypeOK, TopicType
  <2> QED
    BY <1>1, <2>1, <2>2, <2>3 DEF SubsInv
<1>5. DeliverInv'
  BY <1>1 DEF DeliverInv
<1>6. BoundInv'
  BY <1>1 DEF BoundInv
<1>7. BalanceInv'
  BY <1>1 DEF BalanceInv
<1> QED
  BY <1>2, <1>3, <1>4, <1>5, <1>6, <1>7 DEF HubInv

LEMMA RestartKeeps ==
  ASSUME HubInv, Restart
  PROVE  HubInv'
<1>1. HubTypeOK /\ TopicsInv /\ BoundInv /\ UNCHANGED <<made, topic, client>>
  BY DEF HubInv, Restart
<1>2. IdlePub \in PubType /\ IdlePub.pc = "idle" /\ IdlePub.items = <<>> /\ ~IdlePub.full
  BY SizesAssumption DEF IdlePub, PubType, None
<1>3. NoSub \in SubType /\ NoSub.pc = "idle"
  BY SizesAssumption DEF NoSub, SubType, None
<1>4. current' = None /\ closing' = {} /\ pub' = [p \in Publishers |-> IdlePub] /\ sub' = [c \in Clients |-> NoSub]
  BY DEF Restart
<1>5. HubTypeOK'
  BY <1>1, <1>2, <1>3, <1>4 DEF HubTypeOK, None
<1>6. TopicsInv'
  BY <1>1 DEF TopicsInv
<1>7. SubsInv'
  <2>1. \A x \in Topics : ~InUse(x)'
    BY <1>2, <1>3, <1>4 DEF InUse, Topics, None
  <2> QED
    BY <1>3, <1>4, <2>1 DEF SubsInv, Subscribed
<1>8. DeliverInv'
  BY <1>2, <1>4 DEF DeliverInv
<1>9. BoundInv'
  BY <1>1, <1>2, <1>3, <1>4 DEF BoundInv
<1>10. BalanceInv'
  BY <1>3, <1>4 DEF BalanceInv, Balanced
<1> QED
  BY <1>5, <1>6, <1>7, <1>8, <1>9, <1>10 DEF HubInv

LEMMA PartType ==
  ASSUME NEW u \in PubType, NEW c
  PROVE  Part(u, c) \in Nat
<1>1. u.items \in Seq(Item)
  BY DEF PubType
<1>2. Total(u.items) \in Nat
  BY <1>1, TotalType
<1> QED
  BY <1>2 DEF Part

LEMMA PublishAppendKeeps ==
  ASSUME HubInv, NEW p \in Publishers, PublishAppend(p)
  PROVE  HubInv'
<1> DEFINE t == pub[p].topic
<1>1. /\ HubTypeOK /\ TopicsInv /\ SubsInv /\ DeliverInv /\ BoundInv /\ BalanceInv
      /\ pub[p].pc = "found" /\ ~Locked(t)
      /\ UNCHANGED <<current, made, hubClosed, closing, sub, client>>
  BY DEF HubInv, PublishAppend
<1>2. /\ t \in Topics /\ topic[t] \in TopicType /\ RingOK(topic[t]) /\ topic[t].last \in Nat
      /\ InUse(t) /\ pub[p].items = <<>> /\ t \in 1 .. made
  <2>1. t \in Topics /\ t \in 1 .. made /\ InUse(t) /\ pub[p].items = <<>>
    BY <1>1, AreTopics DEF DeliverInv, InUse
  <2> QED
    BY <2>1, AreTopics
<1>3. /\ topic' \in [Topics -> TopicType] /\ \A x \in Topics \ {t} : topic'[x] = topic[x]
      /\ topic'[t].last = topic[t].last + 1 /\ RingOK(topic'[t])
      /\ \A x \in Topics : topic'[x].subs = topic[x].subs /\ topic'[x].last >= topic[x].last
  <2> DEFINE u == Appended(topic[t])
  <2>1. u \in TopicType /\ RingOK(u) /\ u.last = topic[t].last + 1 /\ u.subs = topic[t].subs
    BY <1>2, AppendedKeeps
  <2>2. topic' = [topic EXCEPT ![t] = u]
    BY DEF PublishAppend
  <2> HIDE DEF u
  <2>3. /\ topic' \in [Topics -> TopicType] /\ topic'[t] = u
        /\ \A x \in Topics \ {t} : topic'[x] = topic[x]
    BY <1>1, <1>2, <2>1, <2>2 DEF HubTypeOK
  <2>4. \A x \in Topics : topic[x].last \in Nat
    BY AreTopics
  <2>5. \A x \in Topics : topic'[x].subs = topic[x].subs /\ topic'[x].last >= topic[x].last
    BY <2>1, <2>3, <2>4
  <2> QED
    BY <2>1, <2>3, <2>5
<1>4. /\ pub' \in [Publishers -> PubType] /\ \A q \in Publishers \ {p} : pub'[q] = pub[q]
      /\ pub'[p].pc = "deliver" /\ pub'[p].topic = t /\ pub'[p].todo = topic[t].subs
      /\ pub'[p].items = <<>> /\ pub'[p].full = pub[p].full
  <2> DEFINE s == topic[t].subs
  <2>1. pub' = [pub EXCEPT ![p].pc = "deliver", ![p].todo = s] /\ s \in SUBSET Clients
    BY <1>2 DEF PublishAppend, TopicType
  <2> HIDE DEF s
  <2>2. /\ pub' \in [Publishers -> PubType] /\ \A q \in Publishers \ {p} : pub'[q] = pub[q]
        /\ pub'[p].pc = "deliver" /\ pub'[p].topic = pub[p].topic /\ pub'[p].todo = s
        /\ pub'[p].items = pub[p].items /\ pub'[p].full = pub[p].full
    BY <1>1, <2>1, ZenonT(60) DEF HubTypeOK, PubType
  <2> QED
    BY <1>2, <2>2 DEF s
<1> HIDE DEF t
<1>5. HubTypeOK'
  BY <1>1, <1>3, <1>4 DEF HubTypeOK
<1>6. TopicsInv'
  BY <1>1, <1>3 DEF TopicsInv
<1>7. SubsInv'
  <2>1. ASSUME NEW x \in Topics, InUse(x)' PROVE InUse(x)
    BY <1>1, <1>2, <1>4, <2>1 DEF InUse
  <2>2. \A c \in Clients : Subscribed(c)' <=> Subscribed(c)
    BY <1>1 DEF Subscribed
  <2>3. \A x \in Topics : topic[x].subs \subseteq Clients
    BY <1>1 DEF HubTypeOK, TopicType
  <2>4. ASSUME NEW x \in Topics, InUse(x)', NEW c \in topic'[x].subs
        PROVE  Subscribed(c)' /\ sub'[c].topic = x
    <3>1. InUse(x) /\ c \in topic[x].subs /\ c \in Clients
      BY <1>3, <2>1, <2>3, <2>4
    <3> QED
      BY <1>1, <2>2, <3>1 DEF SubsInv
  <2>5. \A c \in Clients : Subscribed(c)' => c \in topic'[sub'[c].topic].subs
    BY <1>1, <1>3, <2>2, AreTopics DEF SubsInv, Subscribed
  <2> QED
    BY <1>1, <2>4, <2>5 DEF SubsInv
<1>8. DeliverInv'
  <2>1. ASSUME NEW q \in Publishers
        PROVE  /\ pub'[q].pc # "idle" => pub'[q].topic \in 1 .. made
               /\ pub'[q].items # <<>> => /\ pub'[q].pc = "deliver" /\ pub'[q].to \notin pub'[q].todo
                                          /\ pub'[q].to \in topic'[pub'[q].topic].subs
               /\ pub'[q].full => pub'[q].items # <<>>
               /\ pub'[q].pc = "deliver" => /\ pub'[q].todo \subseteq topic'[pub'[q].topic].subs
                                            /\ topic'[pub'[q].topic].last > 0
    <3>1. CASE q = p
      <4>1. ~pub[p].full
        BY <1>1, <1>2 DEF DeliverInv
      <4> QED
        BY <1>2, <1>3, <1>4, <3>1, <4>1
    <3>2. CASE q # p
      <4>1. pub'[q] = pub[q]
        BY <1>4, <3>2
      <4>2. pub[q].pc # "idle" => /\ topic'[pub[q].topic].subs = topic[pub[q].topic].subs
                                  /\ topic'[pub[q].topic].last >= topic[pub[q].topic].last
                                  /\ topic[pub[q].topic].last \in Nat /\ topic'[pub[q].topic].last \in Nat
        BY <1>3, AreTopics DEF TopicType
      <4> QED
        BY <1>1, <4>1, <4>2 DEF DeliverInv
    <3> QED
      BY <3>1, <3>2
  <2>2. ASSUME NEW q \in Publishers, NEW r \in Publishers, pub'[q].pc = "deliver",
               pub'[r].pc = "deliver", pub'[q].topic = pub'[r].topic
        PROVE  q = r
    <3>1. \A s \in Publishers \ {p} : ~(pub'[s].pc = "deliver" /\ pub'[s].topic = t)
      BY <1>1, <1>4 DEF Locked
    <3> QED
      BY <1>1, <1>4, <2>2, <3>1 DEF DeliverInv
  <2> QED
    BY <1>1, <2>1, <2>2 DEF DeliverInv
<1>9. BoundInv'
  <2>1. \A x \in Topics : topic[x].last \in Nat /\ topic'[x].last \in Nat /\ topic'[x].last >= topic[x].last
    BY <1>3, AreTopics DEF TopicType
  <2>2. ASSUME NEW s \in Seq(Item), NEW x \in Topics, Upto(s, topic[x].last)
        PROVE  Upto(s, topic'[x].last)
    <3> SUFFICES ASSUME NEW i \in 1 .. Len(s)
                 PROVE  s[i].id <= topic'[x].last /\ s[i].through <= topic'[x].last
      BY DEF Upto
    <3>1. s[i] \in Item
      OBVIOUS
    <3>2. s[i].id \in Nat /\ s[i].through \in Nat
      BY <3>1 DEF Item
    <3> QED
      BY <2>1, <2>2, <3>2 DEF Upto
  <2>3. ASSUME NEW q \in Publishers, pub'[q].items # <<>>
        PROVE  Upto(pub'[q].items, topic'[pub'[q].topic].last)
    <3>1. pub'[q] = pub[q] /\ pub[q].items # <<>>
      BY <1>4, <2>3
    <3>2. pub[q].items \in Seq(Item) /\ pub[q].topic \in Topics /\ Upto(pub[q].items, topic[pub[q].topic].last)
      BY <1>1, <3>1, AreTopics DEF HubTypeOK, PubType, BoundInv
    <3> QED
      BY <2>2, <3>1, <3>2
  <2>4. ASSUME NEW c \in Clients, sub[c].pc # "idle"
        PROVE  /\ Upto(sub[c].ch, topic'[sub[c].topic].last)
               /\ sub[c].through <= topic'[sub[c].topic].last
    <3>1. /\ sub[c].ch \in Seq(Item) /\ sub[c].topic \in Topics /\ sub[c].through \in Nat
          /\ Upto(sub[c].ch, topic[sub[c].topic].last)
          /\ sub[c].through <= topic[sub[c].topic].last
      BY <1>1, <2>4, AreTopics DEF HubTypeOK, SubType, BoundInv
    <3> QED
      BY <2>1, <2>2, <3>1
  <2>5. ASSUME NEW c \in Clients
        PROVE  IF client[c].from = None THEN client[c].cursor = 0
               ELSE client[c].cursor <= topic'[client[c].from].last
    <3>1. client[c].cursor \in Nat /\ (client[c].from # None => client[c].from \in Topics)
      BY <1>1, AreTopics DEF HubTypeOK, ClientType
    <3> QED
      BY <1>1, <2>1, <3>1 DEF BoundInv
  <2> QED
    BY <1>1, <2>3, <2>4, <2>5 DEF BoundInv
<1>10. BalanceInv'
  <2> SUFFICES ASSUME NEW c \in Clients, sub[c].pc = "open", ~sub[c].closed
               PROVE  Balanced(sub[c], client[c], Held(pub', sub[c].topic, c),
                               topic'[sub[c].topic].last)
    BY <1>1 DEF BalanceInv, Balanced
  <2>1. CASE sub[c].topic = t
    <3>1. On(pub, t) = {} /\ p \in On(pub', t) /\ \A q \in On(pub', t) : q = p
      BY <1>1, <1>4 DEF Locked, On
    <3>2. c \in topic[t].subs
      BY <1>1, <2>1 DEF SubsInv, Subscribed
    <3>3. Held(pub, t, c) = 0 /\ Held(pub', t, c) = 1
      <4>1. Held(pub', t, c) = Part(pub'[p], c)
        BY <3>1, HeldOne
      <4> QED
        BY <1>4, <3>1, <3>2, <4>1, HeldNone DEF Part
    <3>4. Balanced(sub[c], client[c], 0, topic[t].last)
      BY <1>1, <2>1, <3>3 DEF BalanceInv
    <3>5. /\ client[c].got \in Nat /\ client[c].told \in Nat /\ client[c].base \in Nat
          /\ sub[c].dropped \in Nat /\ sub[c].ch \in Seq(Item)
      BY <1>1 DEF HubTypeOK, SubType, ClientType
    <3>6. Total(sub[c].ch) \in Nat
      BY <3>5, TotalType
    <3>7. Balanced(sub[c], client[c], 1, topic[t].last + 1)
      <4> DEFINE g == client[c].got
                 k == client[c].told
                 b == client[c].base
                 d == sub[c].dropped
                 x == Total(sub[c].ch)
                 n == topic[t].last
      <4>1. g \in Nat /\ k \in Nat /\ b \in Nat /\ d \in Nat /\ x \in Nat /\ n \in Nat
        BY <1>2, <3>5, <3>6
      <4> SUFFICES ASSUME client[c].same PROVE g + k + x + d + 1 = (n + 1) - b
        BY DEF Balanced
      <4>2. g + k + x + d + 0 = n - b
        BY <3>4 DEF Balanced
      <4> HIDE DEF g, k, b, d, x, n
      <4> QED
        BY <4>1, <4>2
    <3> QED
      BY <1>3, <2>1, <3>3, <3>7
  <2>2. CASE sub[c].topic # t
    <3>1. On(pub', sub[c].topic) = On(pub, sub[c].topic) /\ \A q \in On(pub, sub[c].topic) : pub'[q] = pub[q]
      BY <1>1, <1>4, <2>2 DEF On
    <3>2. Held(pub', sub[c].topic, c) = Held(pub, sub[c].topic, c)
      BY <3>1, HeldSame
    <3>3. topic'[sub[c].topic] = topic[sub[c].topic]
      BY <1>3, <2>2, AreTopics
    <3> QED
      BY <1>1, <3>2, <3>3 DEF BalanceInv
  <2> QED
    BY <2>1, <2>2
<1> QED
  BY <1>5, <1>6, <1>7, <1>8, <1>9, <1>10 DEF HubInv

\* One publisher hands on to one subscriber: what leaves its hand or the channel is counted.
HandsOn(p, c, t) ==
    /\ pub[p].pc = "deliver" /\ pub[p].topic = t /\ c \in topic[t].subs
    /\ UNCHANGED <<current, made, topic, closing, client>>
    /\ pub' \in [Publishers -> PubType] /\ \A q \in Publishers \ {p} : pub'[q] = pub[q]
    /\ pub'[p].pc = "deliver" /\ pub'[p].topic = t /\ pub'[p].todo \subseteq pub[p].todo
    /\ pub'[p].items # <<>> => /\ pub'[p].to \notin pub'[p].todo /\ pub'[p].to \in topic[t].subs
                               /\ Upto(pub'[p].items, topic[t].last)
    /\ pub'[p].full => pub'[p].items # <<>>
    /\ sub' \in [Clients -> SubType] /\ \A d \in Clients \ {c} : sub'[d] = sub[d]
    /\ sub'[c].pc = sub[c].pc /\ sub'[c].topic = sub[c].topic /\ sub'[c].closed = sub[c].closed
    /\ Upto(sub'[c].ch, topic[t].last) /\ sub'[c].through <= topic[t].last
    /\ Part(pub'[p], c) + Total(sub'[c].ch) + sub'[c].dropped
         = Part(pub[p], c) + Total(sub[c].ch) + sub[c].dropped
    /\ \A d \in Clients \ {c} : Part(pub'[p], d) = Part(pub[p], d)

LEMMA HandingOnKeeps ==
  ASSUME HubInv, NEW p \in Publishers, NEW c \in Clients, NEW t \in Topics, HandsOn(p, c, t)
  PROVE  HubInv'
<1> USE DEF HandsOn
<1>1. HubTypeOK /\ TopicsInv /\ SubsInv /\ DeliverInv /\ BoundInv /\ BalanceInv
  BY DEF HubInv
<1>2. InUse(t) /\ Subscribed(c) /\ sub[c].topic = t
  BY <1>1 DEF InUse, SubsInv
<1>3. HubTypeOK'
  BY <1>1 DEF HubTypeOK
<1>4. TopicsInv'
  BY <1>1 DEF TopicsInv
<1>5. SubsInv'
  <2>1. \A d \in Clients : /\ sub'[d].pc = sub[d].pc /\ sub'[d].topic = sub[d].topic
                           /\ (Subscribed(d)' <=> Subscribed(d))
                           /\ (sub[d].pc = "found" => sub'[d] = sub[d])
    BY <1>2 DEF Subscribed
  <2>2. ASSUME NEW x \in Topics, InUse(x)' PROVE InUse(x)
    BY <1>2, <2>1, <2>2 DEF InUse
  <2>3. \A x \in Topics : topic[x].subs \subseteq Clients
    BY <1>1 DEF HubTypeOK, TopicType
  <2> QED
    BY <1>1, <2>1, <2>2, <2>3 DEF SubsInv
<1>6. DeliverInv'
  <2>1. ASSUME NEW q \in Publishers
        PROVE  /\ pub'[q].pc # "idle" => pub'[q].topic \in 1 .. made
               /\ pub'[q].items # <<>> => /\ pub'[q].pc = "deliver" /\ pub'[q].to \notin pub'[q].todo
                                          /\ pub'[q].to \in topic[pub'[q].topic].subs
               /\ pub'[q].full => pub'[q].items # <<>>
               /\ pub'[q].pc = "deliver" => /\ pub'[q].todo \subseteq topic[pub'[q].topic].subs
                                            /\ topic[pub'[q].topic].last > 0
    <3>1. CASE q = p
      BY <1>1, <3>1 DEF DeliverInv
    <3>2. CASE q # p
      BY <1>1, <3>2 DEF DeliverInv
    <3> QED
      BY <3>1, <3>2
  <2>2. \A q \in Publishers : pub'[q].pc = pub[q].pc /\ pub'[q].topic = pub[q].topic
    OBVIOUS
  <2> QED
    BY <1>1, <2>1, <2>2 DEF DeliverInv
<1>7. BoundInv'
  <2>1. \A q \in Publishers : pub'[q].items # <<>> => Upto(pub'[q].items, topic[pub'[q].topic].last)
    BY <1>1 DEF BoundInv
  <2>2. \A d \in Clients : sub'[d].pc # "idle" => /\ Upto(sub'[d].ch, topic[sub'[d].topic].last)
                                                  /\ sub'[d].through <= topic[sub'[d].topic].last
    BY <1>1, <1>2 DEF BoundInv
  <2> QED
    BY <1>1, <2>1, <2>2 DEF BoundInv
<1>8. BalanceInv'
  <2>1. \A x : On(pub', x) = On(pub, x)
    <3>1. \A q \in Publishers : pub'[q].pc = pub[q].pc /\ pub'[q].topic = pub[q].topic
      OBVIOUS
    <3> QED
      BY <3>1 DEF On
  <2> SUFFICES ASSUME NEW d \in Clients
               PROVE  Balanced(sub'[d], client[d], Held(pub', sub'[d].topic, d),
                               topic[sub'[d].topic].last)
    BY DEF BalanceInv
  <2>2. CASE d = c
    <3>1. p \in On(pub, t) /\ \A q \in On(pub, t) : q = p
      BY <1>1 DEF On, DeliverInv
    <3>2. Held(pub, t, c) = Part(pub[p], c)
      BY <3>1, HeldOne
    <3>3. p \in On(pub', t) /\ \A q \in On(pub', t) : q = p
      BY <2>1, <3>1
    <3>4. Held(pub', t, c) = Part(pub'[p], c)
      BY <3>3, HeldOne
    <3>5. pub[p] \in PubType /\ pub'[p] \in PubType
      BY <1>1 DEF HubTypeOK
    <3>6. Part(pub[p], c) \in Nat /\ Part(pub'[p], c) \in Nat
      BY <3>5, PartType
    <3>7. /\ client[c].got \in Nat /\ client[c].told \in Nat /\ client[c].base \in Nat
          /\ sub[c].dropped \in Nat /\ sub[c].ch \in Seq(Item)
          /\ sub'[c].dropped \in Nat /\ sub'[c].ch \in Seq(Item)
      BY <1>1 DEF HubTypeOK, SubType, ClientType
    <3>8. Total(sub[c].ch) \in Nat /\ Total(sub'[c].ch) \in Nat
      BY <3>7, TotalType
    <3>9. Balanced(sub[c], client[c], Part(pub[p], c), topic[t].last)
      BY <1>1, <1>2, <3>2 DEF BalanceInv
    <3>10. topic[t].last \in Nat
      BY AreTopics
    <3>11. Balanced(sub'[c], client[c], Part(pub'[p], c), topic[t].last)
      <4> DEFINE g == client[c].got
                 k == client[c].told
                 z == topic[t].last - client[c].base
                 a == Part(pub[p], c)
                 b == Part(pub'[p], c)
                 u == sub[c].dropped
                 e == sub'[c].dropped
                 x == Total(sub[c].ch)
                 y == Total(sub'[c].ch)
      <4>1. /\ a \in Nat /\ b \in Nat /\ x \in Nat /\ y \in Nat /\ u \in Nat /\ e \in Nat
            /\ g \in Nat /\ k \in Nat
        BY <3>6, <3>7, <3>8
      <4>2. b + y + e = a + x + u
        OBVIOUS
      <4>3. z \in Int
        BY <3>7, <3>10
      <4> SUFFICES ASSUME sub'[c].pc = "open", ~sub'[c].closed, client[c].same
                   PROVE  g + k + y + e + b = z
        BY DEF Balanced
      <4>4. g + k + x + u + a = z
        BY <3>9 DEF Balanced
      <4> HIDE DEF a, b, x, y, u, e, g, k, z
      <4> QED
        BY <4>1, <4>2, <4>3, <4>4
    <3> QED
      BY <1>2, <2>2, <3>4, <3>11
  <2>3. CASE d # c
    <3>1. sub'[d] = sub[d]
      BY <2>3
    <3>2. \A q \in Publishers : Part(pub'[q], d) = Part(pub[q], d)
      BY <2>3
    <3>3. \A q \in On(pub, sub[d].topic) : Part(pub'[q], d) = Part(pub[q], d)
      BY <3>2 DEF On
    <3>4. Held(pub', sub[d].topic, d) = Held(pub, sub[d].topic, d)
      BY <2>1, <3>3, HeldSame
    <3> QED
      BY <1>1, <3>1, <3>4 DEF BalanceInv
  <2> QED
    BY <2>2, <2>3
<1> QED
  BY <1>3, <1>4, <1>5, <1>6, <1>7, <1>8 DEF HubInv

LEMMA DeliverKeeps ==
  ASSUME HubInv, NEW p \in Publishers, NEW c \in Clients, Deliver(p, c)
  PROVE  HubInv'
<1> DEFINE t == pub[p].topic
           event == Event(topic[t].last)
           gap == Gap(sub[c].dropped, sub[c].through)
           items == IF sub[c].dropped > 0 THEN <<gap, event>> ELSE <<event>>
<1>1. /\ HubTypeOK /\ SubsInv /\ DeliverInv /\ BoundInv
      /\ pub[p].pc = "deliver" /\ pub[p].items = <<>> /\ c \in pub[p].todo
      /\ UNCHANGED <<current, made, topic, closing, client>>
  BY DEF HubInv, Deliver
<1>2. /\ t \in Topics /\ topic[t].last \in Nat /\ topic[t].last > 0 /\ c \in topic[t].subs
      /\ InUse(t) /\ pub[p] \in PubType /\ ~pub[p].full
  <2>1. t \in Topics
    BY <1>1, AreTopics
  <2> QED
    BY <1>1, <2>1, AreTopics DEF DeliverInv, InUse, HubTypeOK
<1>3. /\ sub[c] \in SubType /\ sub[c].dropped \in Nat /\ sub[c].through \in Nat
      /\ sub[c].topic = t /\ sub[c].pc = "open" /\ sub[c].ch \in Seq(Item)
      /\ sub[c].through <= topic[t].last /\ Upto(sub[c].ch, topic[t].last)
  <2>1. sub[c].topic = t /\ sub[c].pc = "open"
    BY <1>1, <1>2 DEF SubsInv, Subscribed
  <2> QED
    BY <1>1, <2>1 DEF HubTypeOK, SubType, BoundInv
<1> HIDE DEF t
<1>4. event \in Item /\ Weight(event) = 1 /\ event.id <= topic[t].last /\ event.through <= topic[t].last
  BY <1>2 DEF Event, Item, Weight, IsEvent
<1>5. /\ gap \in Item /\ Weight(gap) = sub[c].dropped
      /\ gap.id <= topic[t].last /\ gap.through <= topic[t].last
  BY <1>2, <1>3 DEF Gap, Item, Weight, IsEvent
<1> HIDE DEF event, gap
<1>6. items \in Seq(Item) /\ items # <<>> /\ Upto(items, topic[t].last)
  BY <1>4, <1>5 DEF Upto
<1>7. Total(items) = sub[c].dropped + 1
  <2>1. Total(<<event>>) = 1
    <3>1. <<>> \in Seq(Item) /\ <<event>> = Append(<<>>, event)
      OBVIOUS
    <3>2. Total(Append(<<>>, event)) = Total(<<>>) + Weight(event)
      BY <1>4, <3>1, TotalAppend
    <3> QED
      BY <1>4, <3>1, <3>2, TotalEmpty
  <2>2. Total(<<gap, event>>) = sub[c].dropped + 1
    <3>1. /\ <<gap, event>> \in Seq(Item) /\ <<gap, event>> # <<>>
          /\ Head(<<gap, event>>) = gap /\ Tail(<<gap, event>>) = <<event>>
      BY <1>4, <1>5
    <3>2. Total(<<gap, event>>) = Weight(Head(<<gap, event>>)) + Total(Tail(<<gap, event>>))
      BY <3>1, TotalTail
    <3> QED
      BY <1>5, <2>1, <3>1, <3>2
  <2> QED
    BY <1>3, <2>1, <2>2
<1>8. /\ pub' \in [Publishers -> PubType] /\ \A q \in Publishers \ {p} : pub'[q] = pub[q]
      /\ pub'[p].pc = "deliver" /\ pub'[p].topic = t /\ pub'[p].todo = pub[p].todo \ {c}
      /\ pub'[p].to = c /\ pub'[p].items = items /\ pub'[p].full = pub[p].full
  <2>1. pub' = [pub EXCEPT ![p].todo = @ \ {c}, ![p].to = c, ![p].items = items]
    BY DEF Deliver, items, gap, event, t
  <2> HIDE DEF items
  <2> QED
    BY <1>1, <1>6, <2>1 DEF HubTypeOK, PubType, t
<1> HIDE DEF items
<1>9. /\ sub' \in [Clients -> SubType] /\ \A d \in Clients \ {c} : sub'[d] = sub[d]
      /\ sub'[c].pc = sub[c].pc /\ sub'[c].topic = sub[c].topic /\ sub'[c].closed = sub[c].closed
      /\ sub'[c].ch = sub[c].ch /\ sub'[c].dropped = 0 /\ sub'[c].through = 0
  <2>1. sub' = [sub EXCEPT ![c].dropped = 0, ![c].through = 0]
    BY DEF Deliver
  <2>2. sub' \in [Clients -> SubType]
    <3>1. 0 \in Nat /\ sub \in [Clients -> SubType]
      BY <1>1 DEF HubTypeOK
    <3> QED
      BY <2>1, <3>1, ZenonT(60) DEF SubType
  <2> QED
    BY <1>1, <2>1, <2>2 DEF HubTypeOK, SubType
<1>10. Part(pub[p], c) = 1 /\ Part(pub'[p], c) = sub[c].dropped + 1
  BY <1>1, <1>7, <1>8 DEF Part
<1>11. Total(sub[c].ch) \in Nat
  BY <1>3, TotalType
<1>12. \A d \in Clients \ {c} : Part(pub'[p], d) = Part(pub[p], d)
  BY <1>1, <1>8, TotalEmpty DEF Part
<1>13. Part(pub'[p], c) + Total(sub'[c].ch) + sub'[c].dropped
         = Part(pub[p], c) + Total(sub[c].ch) + sub[c].dropped
  <2> DEFINE d == sub[c].dropped
             x == Total(sub[c].ch)
  <2>1. d \in Nat /\ x \in Nat /\ Part(pub[p], c) = 1 /\ Part(pub'[p], c) = d + 1
    BY <1>3, <1>10, <1>11
  <2>2. sub'[c].dropped = 0 /\ Total(sub'[c].ch) = x
    BY <1>9
  <2>3. (d + 1) + x + 0 = 1 + x + d
    <3> HIDE DEF d, x
    <3> QED
      BY <2>1
  <2> QED
    BY <2>1, <2>2, <2>3
<1>14. pub'[p].items # <<>> => /\ pub'[p].to \notin pub'[p].todo /\ pub'[p].to \in topic[t].subs
                               /\ Upto(pub'[p].items, topic[t].last)
  BY <1>2, <1>6, <1>8
<1>15. Upto(sub'[c].ch, topic[t].last) /\ sub'[c].through <= topic[t].last
  BY <1>2, <1>3, <1>9
<1>16. pub'[p].full => pub'[p].items # <<>>
  BY <1>2, <1>8
<1>17. pub[p].topic = t /\ pub'[p].todo \subseteq pub[p].todo
  BY <1>8 DEF t
<1>20. HandsOn(p, c, t)
  BY <1>1, <1>2, <1>8, <1>9, <1>12, <1>13, <1>14, <1>15, <1>16, <1>17 DEF HandsOn
<1> QED
  BY <1>2, <1>20, HandingOnKeeps

\* What a publisher that has something in hand for a subscriber knows of it.
LEMMA InHandFacts ==
  ASSUME HubInv, NEW p \in Publishers, pub[p].items # <<>>
  PROVE  /\ pub[p] \in PubType /\ pub[p].pc = "deliver" /\ pub[p].items \in Seq(Item)
         /\ pub[p].to \in Clients /\ pub[p].to \notin pub[p].todo
         /\ pub[p].topic \in Topics /\ topic[pub[p].topic].last \in Nat
         /\ pub[p].to \in topic[pub[p].topic].subs /\ sub[pub[p].to] \in SubType
         /\ sub[pub[p].to].topic = pub[p].topic /\ Subscribed(pub[p].to)
         /\ sub[pub[p].to].ch \in Seq(Item)
         /\ Upto(pub[p].items, topic[pub[p].topic].last)
         /\ Upto(sub[pub[p].to].ch, topic[pub[p].topic].last)
         /\ sub[pub[p].to].through <= topic[pub[p].topic].last
<1>1. HubTypeOK /\ SubsInv /\ DeliverInv /\ BoundInv
  BY DEF HubInv
<1>2. /\ pub[p] \in PubType /\ pub[p].pc = "deliver" /\ pub[p].items \in Seq(Item)
      /\ pub[p].to \notin pub[p].todo /\ pub[p].to \in topic[pub[p].topic].subs
      /\ Upto(pub[p].items, topic[pub[p].topic].last)
  BY <1>1 DEF HubTypeOK, PubType, DeliverInv, BoundInv
<1>3. pub[p].topic \in Topics
  BY AreTopics
<1>4. topic[pub[p].topic].last \in Nat /\ topic[pub[p].topic].subs \subseteq Clients
  BY <1>1, <1>3 DEF HubTypeOK, TopicType
<1>5. pub[p].to \in Clients /\ InUse(pub[p].topic)
  BY <1>2, <1>4 DEF InUse
<1>6. Subscribed(pub[p].to) /\ sub[pub[p].to].topic = pub[p].topic
  BY <1>1, <1>2, <1>3, <1>5 DEF SubsInv
<1>7. sub[pub[p].to] \in SubType /\ sub[pub[p].to].ch \in Seq(Item)
  BY <1>1, <1>5 DEF HubTypeOK, SubType
<1>8. /\ Upto(sub[pub[p].to].ch, topic[pub[p].topic].last)
      /\ sub[pub[p].to].through <= topic[pub[p].topic].last
  BY <1>1, <1>5, <1>6 DEF BoundInv, Subscribed
<1> QED
  BY <1>2, <1>3, <1>4, <1>5, <1>6, <1>7, <1>8

LEMMA HeadAndTail ==
  ASSUME NEW s \in Seq(Item), s # <<>>, NEW n \in Nat, Upto(s, n)
  PROVE  /\ Head(s) \in Item /\ Tail(s) \in Seq(Item) /\ Upto(Tail(s), n)
         /\ Head(s).id <= n /\ Head(s).through <= n
<1>1. /\ 1 \in 1 .. Len(s) /\ Head(s) = s[1] /\ Head(s) \in Item /\ Tail(s) \in Seq(Item)
      /\ \A i \in 1 .. Len(Tail(s)) : i + 1 \in 1 .. Len(s) /\ Tail(s)[i] = s[i + 1]
  OBVIOUS
<1> QED
  BY <1>1 DEF Upto

LEMMA PushSendKeeps ==
  ASSUME HubInv, NEW p \in Publishers, PushSend(p)
  PROVE  HubInv'
<1> DEFINE c == pub[p].to
           t == pub[p].topic
           head == Head(pub[p].items)
           rest == Tail(pub[p].items)
           ch == sub[c].ch
<1>1. pub[p].items # <<>> /\ ~pub[p].full /\ UNCHANGED <<current, made, topic, closing, client>>
  BY DEF PushSend
<1>2. /\ pub[p] \in PubType /\ pub[p].pc = "deliver" /\ pub[p].items \in Seq(Item)
      /\ c \in Clients /\ c \notin pub[p].todo /\ t \in Topics /\ topic[t].last \in Nat
      /\ c \in topic[t].subs /\ sub[c] \in SubType /\ ch \in Seq(Item)
      /\ Upto(pub[p].items, topic[t].last) /\ Upto(ch, topic[t].last)
      /\ sub[c].through <= topic[t].last
  BY <1>1, InHandFacts
<1>3. /\ head \in Item /\ rest \in Seq(Item) /\ Upto(rest, topic[t].last)
      /\ head.id <= topic[t].last /\ head.through <= topic[t].last
  BY <1>1, <1>2, HeadAndTail
<1>4. Total(pub[p].items) = Weight(head) + Total(rest) /\ Weight(head) \in Nat /\ Total(rest) \in Nat
  BY <1>1, <1>2, <1>3, TotalTail, TotalType, WeightType
<1> HIDE DEF head, rest, c
<1>5. /\ Append(ch, head) \in Seq(Item) /\ Upto(Append(ch, head), topic[t].last)
      /\ Total(Append(ch, head)) = Total(ch) + Weight(head) /\ Total(ch) \in Nat
  <2> HIDE DEF ch
  <2>1. /\ Append(ch, head) \in Seq(Item) /\ Len(Append(ch, head)) = Len(ch) + 1
        /\ \A i \in 1 .. Len(ch) : Append(ch, head)[i] = ch[i]
        /\ Append(ch, head)[Len(ch) + 1] = head /\ Len(ch) \in Nat
    BY <1>2, <1>3
  <2>2. Upto(Append(ch, head), topic[t].last)
    BY <1>2, <1>3, <2>1 DEF Upto
  <2> QED
    BY <1>2, <1>3, <2>1, <2>2, TotalAppend, TotalType
<1>6. /\ pub' \in [Publishers -> PubType] /\ \A q \in Publishers \ {p} : pub'[q] = pub[q]
      /\ pub'[p].pc = "deliver" /\ pub'[p].topic = t /\ pub'[p].todo = pub[p].todo
      /\ pub'[p].to = c /\ pub'[p].items = rest /\ ~pub'[p].full
  <2>1. pub' = [pub EXCEPT ![p].items = rest]
    BY DEF PushSend, rest
  <2>2. pub \in [Publishers -> PubType]
    BY DEF HubInv, HubTypeOK
  <2> QED
    BY <1>1, <1>2, <1>3, <2>1, <2>2 DEF PubType, c
<1>7. /\ sub' \in [Clients -> SubType] /\ \A d \in Clients \ {c} : sub'[d] = sub[d]
      /\ sub'[c].pc = sub[c].pc /\ sub'[c].topic = sub[c].topic /\ sub'[c].closed = sub[c].closed
      /\ sub'[c].ch = Append(ch, head) /\ sub'[c].dropped = sub[c].dropped
      /\ sub'[c].through = sub[c].through
  <2> DEFINE more == Append(ch, head)
             n == IF IsEvent(head) THEN head.id ELSE sub[c].lastSent
  <2>1. sub' = [sub EXCEPT ![c].ch = more, ![c].lastSent = n]
    BY DEF PushSend, c, head
  <2>2. sub \in [Clients -> SubType]
    BY DEF HubInv, HubTypeOK
  <2>3. n \in Nat
    BY <1>2, <1>3 DEF SubType, Item
  <2>4. more \in Seq(Item)
    BY <1>5
  <2> HIDE DEF more, n
  <2>5. /\ sub' \in [Clients -> SubType] /\ \A d \in Clients \ {c} : sub'[d] = sub[d]
        /\ sub'[c].pc = sub[c].pc /\ sub'[c].topic = sub[c].topic /\ sub'[c].closed = sub[c].closed
        /\ sub'[c].ch = more /\ sub'[c].dropped = sub[c].dropped
        /\ sub'[c].through = sub[c].through
    BY <1>2, <2>1, <2>2, <2>3, <2>4 DEF SubType
  <2> QED
    BY <2>5 DEF more
<1>8. Part(pub[p], c) = Weight(head) + Total(rest) /\ Part(pub'[p], c) = Total(rest)
  BY <1>2, <1>4, <1>6 DEF Part, c
<1>9. \A d \in Clients \ {c} : Part(pub'[p], d) = Part(pub[p], d)
  BY <1>6 DEF Part, c
<1>10. sub[c].dropped \in Nat
  BY <1>2 DEF SubType
<1>11. Part(pub'[p], c) + Total(sub'[c].ch) + sub'[c].dropped
         = Part(pub[p], c) + Total(sub[c].ch) + sub[c].dropped
  <2>1. sub'[c].dropped = sub[c].dropped /\ Total(sub'[c].ch) = Total(ch) + Weight(head)
    BY <1>5, <1>7
  <2> QED
    BY <1>4, <1>5, <1>8, <1>10, <2>1
<1>12. pub'[p].items # <<>> => /\ pub'[p].to \notin pub'[p].todo /\ pub'[p].to \in topic[t].subs
                               /\ Upto(pub'[p].items, topic[t].last)
  BY <1>2, <1>3, <1>6
<1>13. Upto(sub'[c].ch, topic[t].last) /\ sub'[c].through <= topic[t].last
  BY <1>2, <1>5, <1>7
<1>14. pub[p].topic = t /\ pub'[p].todo \subseteq pub[p].todo /\ ~pub'[p].full
  BY <1>6
<1>15. pub'[p].full => pub'[p].items # <<>>
  BY <1>14
<1>16. c \in Clients /\ t \in Topics /\ c \in topic[t].subs /\ pub[p].pc = "deliver"
  BY <1>2
<1> HIDE DEF t, ch
<1>20. HandsOn(p, c, t)
  BY <1>1, <1>6, <1>7, <1>9, <1>11, <1>12, <1>13, <1>14, <1>15, <1>16 DEF HandsOn
<1> QED
  BY <1>2, <1>20, HandingOnKeeps

LEMMA PushFullKeeps ==
  ASSUME HubInv, NEW p \in Publishers, PushFull(p)
  PROVE  HubInv'
<1> DEFINE c == pub[p].to
           t == pub[p].topic
<1>1. pub[p].items # <<>> /\ UNCHANGED <<current, made, topic, closing, client, sub>>
  BY DEF PushFull
<1>2. /\ pub[p] \in PubType /\ pub[p].pc = "deliver" /\ c \in Clients /\ c \notin pub[p].todo
      /\ t \in Topics /\ c \in topic[t].subs
      /\ Upto(pub[p].items, topic[t].last) /\ Upto(sub[c].ch, topic[t].last)
      /\ sub[c].through <= topic[t].last
  BY <1>1, InHandFacts
<1>3. pub \in [Publishers -> PubType] /\ sub \in [Clients -> SubType]
  BY DEF HubInv, HubTypeOK
<1>4. /\ pub' \in [Publishers -> PubType] /\ \A q \in Publishers \ {p} : pub'[q] = pub[q]
      /\ pub'[p].pc = "deliver" /\ pub'[p].topic = t /\ pub'[p].todo = pub[p].todo
      /\ pub'[p].to = c /\ pub'[p].items = pub[p].items
  <2>1. pub' = [pub EXCEPT ![p].full = TRUE]
    BY DEF PushFull
  <2>2. pub' \in [Publishers -> PubType]
    BY <1>3, <2>1, ZenonT(60) DEF PubType
  <2> QED
    BY <1>2, <1>3, <2>1, <2>2 DEF PubType
<1>5. \A d \in Clients : Part(pub'[p], d) = Part(pub[p], d)
  BY <1>4 DEF Part
<1>6. Part(pub'[p], c) + Total(sub'[c].ch) + sub'[c].dropped
         = Part(pub[p], c) + Total(sub[c].ch) + sub[c].dropped
  BY <1>1, <1>2, <1>5
<1>7. /\ pub'[p].to \notin pub'[p].todo /\ pub'[p].to \in topic[t].subs
      /\ Upto(pub'[p].items, topic[t].last) /\ pub'[p].items # <<>>
      /\ pub[p].topic = t /\ pub'[p].todo \subseteq pub[p].todo
  BY <1>1, <1>2, <1>4
<1>8. /\ sub' = sub /\ Upto(sub'[c].ch, topic[t].last) /\ sub'[c].through <= topic[t].last
  BY <1>1, <1>2
<1> HIDE DEF c, t
<1>20. HandsOn(p, c, t)
  BY <1>1, <1>2, <1>3, <1>4, <1>5, <1>6, <1>7, <1>8 DEF HandsOn
<1> QED
  BY <1>2, <1>20, HandingOnKeeps

LEMMA PushEvictKeeps ==
  ASSUME HubInv, NEW p \in Publishers, PushEvict(p)
  PROVE  HubInv'
<1> DEFINE c == pub[p].to
           t == pub[p].topic
           u == sub'[c]
<1>1. /\ pub[p].full /\ pub[p].items # <<>>
      /\ UNCHANGED <<current, made, topic, closing, client>>
  BY DEF PushEvict, HubInv, DeliverInv
<1>2. /\ pub[p] \in PubType /\ pub[p].pc = "deliver" /\ c \in Clients /\ c \notin pub[p].todo
      /\ t \in Topics /\ c \in topic[t].subs /\ topic[t].last \in Nat
      /\ Upto(pub[p].items, topic[t].last) /\ Upto(sub[c].ch, topic[t].last)
      /\ sub[c].through <= topic[t].last /\ sub[c] \in SubType /\ sub[c].ch \in Seq(Item)
  BY <1>1, InHandFacts
<1>3. pub \in [Publishers -> PubType] /\ sub \in [Clients -> SubType]
  BY DEF HubInv, HubTypeOK
<1>4. /\ pub' \in [Publishers -> PubType] /\ \A q \in Publishers \ {p} : pub'[q] = pub[q]
      /\ pub'[p].pc = "deliver" /\ pub'[p].topic = t /\ pub'[p].todo = pub[p].todo
      /\ pub'[p].to = c /\ pub'[p].items = pub[p].items
  <2>1. pub' = [pub EXCEPT ![p].full = FALSE]
    BY DEF PushEvict
  <2>2. pub' \in [Publishers -> PubType]
    BY <1>3, <2>1, ZenonT(60) DEF PubType
  <2> QED
    BY <1>2, <1>3, <2>1, <2>2 DEF PubType
<1>5. \A d \in Clients : Part(pub'[p], d) = Part(pub[p], d)
  BY <1>4 DEF Part
<1>6. Part(pub[p], c) \in Nat /\ Total(sub[c].ch) \in Nat /\ sub[c].dropped \in Nat /\ sub[c].through \in Nat
  BY <1>2, PartType, TotalType DEF SubType
<1>7. /\ sub' \in [Clients -> SubType] /\ \A d \in Clients \ {c} : sub'[d] = sub[d]
      /\ u.pc = sub[c].pc /\ u.topic = sub[c].topic /\ u.closed = sub[c].closed
      /\ Upto(u.ch, topic[t].last) /\ u.through <= topic[t].last
      /\ Total(u.ch) + u.dropped = Total(sub[c].ch) + sub[c].dropped
  <2>1. CASE sub[c].ch = <<>>
    <3>1. sub' = sub
      BY <2>1 DEF PushEvict
    <3> QED
      BY <1>2, <1>3, <3>1
  <2>2. CASE sub[c].ch # <<>>
    <3> DEFINE old == Head(sub[c].ch)
               rest == Tail(sub[c].ch)
               d == sub[c].dropped + Weight(old)
               r == Larger(sub[c].through, IF IsEvent(old) THEN old.id ELSE old.through)
               v == [sub[c] EXCEPT !.dropped = d, !.through = r, !.ch = rest]
    <3>1. /\ old \in Item /\ rest \in Seq(Item) /\ Upto(rest, topic[t].last)
          /\ old.id <= topic[t].last /\ old.through <= topic[t].last
      BY <1>2, <2>2, HeadAndTail
    <3>2. Total(sub[c].ch) = Weight(old) + Total(rest) /\ Weight(old) \in Nat /\ Total(rest) \in Nat
      BY <1>2, <2>2, <3>1, TotalTail, TotalType, WeightType
    <3>3. d \in Nat
      BY <1>6, <3>2
    <3>4. r \in Nat /\ r <= topic[t].last
      BY <1>2, <1>6, <3>1 DEF Larger, Item
    <3>5. sub' = [sub EXCEPT ![c] = v]
      <4>1. sub' = [sub EXCEPT ![c] = [Account(sub[c], Head(sub[c].ch)) EXCEPT !.ch = Tail(sub[c].ch)]]
        BY <2>2 DEF PushEvict
      <4>2. [Account(sub[c], Head(sub[c].ch)) EXCEPT !.ch = Tail(sub[c].ch)] = v
        BY <1>2 DEF Account, SubType
      <4> QED
        BY <4>1, <4>2
    <3> HIDE DEF d, r, rest, old
    <3>6. v \in SubType
      BY <1>2, <3>1, <3>3, <3>4, ZenonT(60) DEF SubType
    <3>7. /\ v.pc = sub[c].pc /\ v.topic = sub[c].topic /\ v.closed = sub[c].closed
          /\ v.ch = rest /\ v.through = r /\ v.dropped = d
      BY <1>2 DEF SubType
    <3> HIDE DEF v
    <3>8. sub' \in [Clients -> SubType] /\ sub'[c] = v /\ \A e \in Clients \ {c} : sub'[e] = sub[e]
      BY <1>2, <1>3, <3>5, <3>6
    <3>9. Total(rest) + d = Total(sub[c].ch) + sub[c].dropped
      BY <1>6, <3>2 DEF d
    <3> QED
      BY <3>1, <3>4, <3>7, <3>8, <3>9
  <2> QED
    BY <2>1, <2>2
<1>8. Part(pub'[p], c) + Total(sub'[c].ch) + sub'[c].dropped
         = Part(pub[p], c) + Total(sub[c].ch) + sub[c].dropped
  <2> DEFINE a == Part(pub[p], c)
             x == Total(sub[c].ch)
             y == Total(sub'[c].ch)
             d == sub[c].dropped
             e == sub'[c].dropped
  <2>1. sub'[c].ch \in Seq(Item) /\ e \in Nat
    BY <1>2, <1>7 DEF SubType
  <2>2. y \in Nat /\ a \in Nat /\ x \in Nat /\ d \in Nat /\ Part(pub'[p], c) = a
    BY <1>2, <1>5, <1>6, <2>1, TotalType
  <2>3. y + e = x + d
    BY <1>7
  <2>4. a + y + e = a + x + d
    <3> HIDE DEF a, x, y, d, e
    <3> QED
      BY <2>1, <2>2, <2>3
  <2> QED
    BY <2>2, <2>4
<1>9. /\ pub'[p].to \notin pub'[p].todo /\ pub'[p].to \in topic[t].subs
      /\ Upto(pub'[p].items, topic[t].last) /\ pub'[p].items # <<>>
      /\ pub[p].topic = t /\ pub'[p].todo \subseteq pub[p].todo
  BY <1>1, <1>2, <1>4
<1> HIDE DEF c, t
<1>10. HandsOn(p, c, t)
  BY <1>1, <1>2, <1>4, <1>5, <1>7, <1>8, <1>9 DEF HandsOn
<1> QED
  BY <1>2, <1>10, HandingOnKeeps

LEMMA PublishReturnKeeps ==
  ASSUME HubInv, NEW p \in Publishers, PublishReturn(p)
  PROVE  HubInv'
<1>1. /\ HubTypeOK /\ TopicsInv /\ SubsInv /\ DeliverInv /\ BoundInv /\ BalanceInv
      /\ pub[p].pc = "deliver" /\ pub[p].todo = {} /\ pub[p].items = <<>>
      /\ UNCHANGED <<current, made, topic, hubClosed, closing, sub, client>>
  BY DEF HubInv, PublishReturn
<1>2. IdlePub \in PubType /\ IdlePub.pc = "idle" /\ IdlePub.items = <<>> /\ ~IdlePub.full
  BY SizesAssumption DEF IdlePub, PubType, None
<1>3. /\ pub' \in [Publishers -> PubType] /\ \A q \in Publishers \ {p} : pub'[q] = pub[q]
      /\ pub'[p].pc = "idle" /\ pub'[p].items = <<>> /\ ~pub'[p].full
  BY <1>1, <1>2 DEF PublishReturn, HubTypeOK
<1>4. HubTypeOK'
  BY <1>1, <1>3 DEF HubTypeOK
<1>5. TopicsInv'
  BY <1>1 DEF TopicsInv
<1>6. SubsInv'
  <2>1. ASSUME NEW x \in Topics, InUse(x)' PROVE InUse(x)
    BY <1>1, <1>3, <2>1 DEF InUse
  <2>2. \A d \in Clients : Subscribed(d)' <=> Subscribed(d)
    BY <1>1 DEF Subscribed
  <2>3. \A x \in Topics : topic[x].subs \subseteq Clients
    BY <1>1 DEF HubTypeOK, TopicType
  <2> QED
    BY <1>1, <2>1, <2>2, <2>3 DEF SubsInv
<1>7. DeliverInv'
  BY <1>1, <1>3 DEF DeliverInv
<1>8. BoundInv'
  BY <1>1, <1>3 DEF BoundInv
<1>9. BalanceInv'
  <2> SUFFICES ASSUME NEW c \in Clients
               PROVE  Held(pub', sub[c].topic, c) = Held(pub, sub[c].topic, c)
    BY <1>1 DEF BalanceInv
  <2>1. CASE sub[c].topic = pub[p].topic
    <3>1. /\ p \in On(pub, sub[c].topic) /\ \A q \in On(pub, sub[c].topic) : q = p
          /\ On(pub', sub[c].topic) = {}
      BY <1>1, <1>3, <2>1 DEF On, DeliverInv
    <3>2. Held(pub, sub[c].topic, c) = Part(pub[p], c) /\ Held(pub', sub[c].topic, c) = 0
      BY <3>1, HeldOne, HeldNone
    <3> QED
      BY <1>1, <3>2, TotalEmpty DEF Part
  <2>2. CASE sub[c].topic # pub[p].topic
    <3>1. On(pub', sub[c].topic) = On(pub, sub[c].topic) /\ \A q \in On(pub, sub[c].topic) : pub'[q] = pub[q]
      BY <1>1, <1>3, <2>2 DEF On
    <3> QED
      BY <3>1, HeldSame
  <2> QED
    BY <2>1, <2>2
<1> QED
  BY <1>4, <1>5, <1>6, <1>7, <1>8, <1>9 DEF HubInv

LEMMA HubStep == HubInv /\ [Next]_vars => HubInv'
<1> SUFFICES ASSUME HubInv, [Next]_vars PROVE HubInv'
  OBVIOUS
<1>1. ASSUME NEW p \in Publishers, PublishSteps(p) PROVE HubInv'
  BY <1>1, PublishAppendKeeps, PushSendKeeps, PushFullKeeps, PushEvictKeeps, PublishReturnKeeps,
     DeliverKeeps DEF PublishSteps
<1>2. ASSUME NEW p \in Publishers, NEW t \in Topics, PublishFind(p, t) PROVE HubInv'
  BY <1>2, PublishFindKeeps
<1>3. ASSUME NEW c \in Clients, SubscribeRegister(c) \/ Receive(c) \/ Cancel(c) PROVE HubInv'
  BY <1>3, SubscribeRegisterKeeps, ReceiveKeeps, CancelKeeps
<1>4. ASSUME NEW c \in Clients, NEW t \in Topics, SubscribeFind(c, t) PROVE HubInv'
  BY <1>4, SubscribeFindKeeps
<1>5. ASSUME NEW t \in Topics, CloseAll(t) PROVE HubInv'
  BY <1>5, CloseAllKeeps
<1>6. CASE Drop
  BY <1>6, UnmapKeeps DEF Drop
<1>7. CASE Close
  BY <1>7, UnmapKeeps DEF Close
<1>8. CASE Restart
  BY <1>8, RestartKeeps
<1>9. CASE UNCHANGED vars
  <2>1. HubTypeOK /\ TopicsInv /\ SubsInv /\ DeliverInv /\ BoundInv /\ BalanceInv
    BY DEF HubInv
  <2>2. HubTypeOK' /\ TopicsInv'
    BY <1>9, <2>1 DEF vars, HubTypeOK, TopicsInv
  <2>3. SubsInv'
    BY <1>9, <2>1 DEF vars, SubsInv, InUse, Subscribed
  <2>4. DeliverInv' /\ BoundInv' /\ BalanceInv'
    BY <1>9, <2>1 DEF vars, DeliverInv, BoundInv, BalanceInv
  <2> QED
    BY <2>2, <2>3, <2>4 DEF HubInv
<1> QED
  BY <1>1, <1>2, <1>3, <1>4, <1>5, <1>6, <1>7, <1>8, <1>9 DEF Next

LEMMA HubInvHolds == Spec => []HubInv
<1> QED
  BY HubInitInv, HubStep, PTL DEF Spec

\* Nothing is lost without a count: on every connection that goes on with the topic its
\* cursor is from, what was read, reported missing, queued, counted as dropped and still
\* in the publisher's hand adds up to the events since the cursor (hub.go, push and
\* Subscribe; stream.go, the replay from Last-Event-ID).
THEOREM NothingIsLostUncounted == Spec => []Conservation
<1>1. HubInv => Conservation
  BY BalanceIsConservation DEF HubInv
<1> QED
  BY <1>1, HubInvHolds, PTL

\* deliver never sends on a channel that cancel or closeAll has closed, which would end
\* the process: both need the lock the publisher holds.
THEOREM ClosedChannelsAreLeftAlone == Spec => []NoSendOnClosed
<1>1. HubInv => NoSendOnClosed
  BY InHandFacts DEF NoSendOnClosed, Subscribed
<1> QED
  BY <1>1, HubInvHolds, PTL
============================================================================
