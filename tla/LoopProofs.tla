----------------------------- MODULE LoopProofs -----------------------------
(***************************************************************************)
(* What holds of a worker's producer loop for any number of lanes,         *)
(* consumers and permits, any limits and weights: nothing read is          *)
(* uncounted, no bound is passed, a burst worker leaves nothing.           *)
(***************************************************************************)
EXTENDS WorkerLoop, FiniteSetTheorems, SequenceTheorems, TLAPS

-----------------------------------------------------------------------------
(* Counting.                                                               *)

LEMMA LanesAre ==
  /\ NumLanes \in Nat \ {0} /\ IsFiniteSet(Lanes)
  /\ 0 \notin Lanes /\ 1 \in Lanes /\ NumLanes \in Lanes
  /\ \A l : l \in Lanes <=> l \in Int /\ 1 <= l /\ l <= NumLanes
  BY LoopAssumption, FS_Interval DEF Lanes

LEMMA IndicesFinite ==
  ASSUME NEW n \in Nat, NEW I, I \subseteq 1..n
  PROVE  IsFiniteSet(I) /\ Cardinality(I) \in Nat /\ Cardinality(I) <= n
<1>1. IsFiniteSet(1..n) /\ Cardinality(1..n) = n
  BY FS_Interval
<1> QED BY <1>1, FS_Subset, FS_CardinalityType

LEMMA CountBounded ==
  ASSUME NEW q \in Seq(Lanes), NEW l
  PROVE  Count(q, l) \in Nat /\ Count(q, l) <= Len(q)
<1>1. DOMAIN q = 1..Len(q) /\ Len(q) \in Nat
  BY LenProperties
<1>2. {i \in DOMAIN q : q[i] = l} \subseteq 1..Len(q)
  BY <1>1
<1> QED BY <1>1, <1>2, IndicesFinite DEF Count

LEMMA CountEmpty == \A l : Count(<< >>, l) = 0
<1> TAKE l
<1>1. {i \in DOMAIN << >> : << >>[i] = l} = {}
  OBVIOUS
<1> QED BY <1>1, FS_EmptySet DEF Count

LEMMA CountAppend ==
  ASSUME NEW q \in Seq(Lanes), NEW m \in Lanes, NEW l
  PROVE  Count(Append(q, m), l) = Count(q, l) + (IF m = l THEN 1 ELSE 0)
<1> DEFINE old == {i \in DOMAIN q : q[i] = l}
           new == {i \in DOMAIN Append(q, m) : Append(q, m)[i] = l}
<1>1. /\ DOMAIN q = 1..Len(q) /\ Len(q) \in Nat
      /\ DOMAIN Append(q, m) = 1..(Len(q) + 1)
      /\ \A i \in 1..Len(q) : Append(q, m)[i] = q[i]
      /\ Append(q, m)[Len(q) + 1] = m
  BY LenProperties, AppendProperties
<1>2. IsFiniteSet(old) /\ Len(q) + 1 \notin old
  BY <1>1, IndicesFinite
<1>3. new = IF m = l THEN old \cup {Len(q) + 1} ELSE old
  BY <1>1
<1>4. Cardinality(old) \in Nat
  BY <1>2, FS_CardinalityType
<1>5. Cardinality(old \cup {Len(q) + 1}) = Cardinality(old) + 1
  BY <1>2, FS_AddElement
<1> HIDE DEF old, new
<1>6. Cardinality(new) = Cardinality(old) + (IF m = l THEN 1 ELSE 0)
  BY <1>3, <1>4, <1>5
<1> QED BY <1>6 DEF Count, old, new

LEMMA CountTail ==
  ASSUME NEW q \in Seq(Lanes), q # << >>, NEW l
  PROVE  Count(q, l) = Count(Tail(q), l) + (IF Head(q) = l THEN 1 ELSE 0)
<1> DEFINE all == {i \in 1..Len(q) : q[i] = l}
           later == all \ {1}
           tail == {i \in 1..(Len(q) - 1) : q[i + 1] = l}
           shift == [i \in tail |-> i + 1]
<1>1. Len(q) \in Nat \ {0} /\ DOMAIN q = 1..Len(q) /\ Head(q) = q[1]
  BY LenProperties, EmptySeq
<1>2. /\ Tail(q) \in Seq(Lanes) /\ Len(Tail(q)) = Len(q) - 1
      /\ \A i \in 1..Len(Tail(q)) : Tail(q)[i] = q[i + 1]
  BY HeadTailProperties
<1>3. Count(q, l) = Cardinality(all)
  BY <1>1 DEF Count
<1>4. Count(Tail(q), l) = Cardinality(tail)
  <2>1. {i \in DOMAIN Tail(q) : Tail(q)[i] = l} = tail
    BY <1>2, LenProperties
  <2> QED BY <2>1 DEF Count
<1>5. IsFiniteSet(all) /\ IsFiniteSet(tail)
  BY <1>1, IndicesFinite
<1>6. shift \in Bijection(tail, later)
  <2>1. shift \in [tail -> later]
    BY <1>1
  <2>2. IsInjective(shift)
    BY DEF IsInjective
  <2>3. \A j \in later : j - 1 \in tail /\ shift[j - 1] = j
    BY <1>1
  <2> QED BY <2>1, <2>2, <2>3 DEF Bijection, Injection, Surjection
<1>7. Cardinality(later) = Cardinality(tail)
  BY <1>5, <1>6, FS_Bijection DEF ExistsBijection
<1>8. /\ Cardinality(all) \in Nat
      /\ Cardinality(later) = IF 1 \in all THEN Cardinality(all) - 1 ELSE Cardinality(all)
  BY <1>5, FS_RemoveElement, FS_CardinalityType
<1>9. 1 \in all <=> Head(q) = l
  BY <1>1
<1> HIDE DEF all, later, tail
<1> QED BY <1>3, <1>4, <1>7, <1>8, <1>9

LEMMA CountCopies ==
  ASSUME NEW q \in Seq(Lanes), NEW m \in Lanes, NEW n \in Nat, NEW l
  PROVE  /\ q \o Copies(m, n) \in Seq(Lanes)
         /\ Len(q \o Copies(m, n)) = Len(q) + n
         /\ Count(q \o Copies(m, n), l) = Count(q, l) + (IF m = l THEN n ELSE 0)
<1> DEFINE c == Copies(m, n)
           old == {i \in 1..Len(q) : q[i] = l}
           more == (Len(q) + 1)..(Len(q) + n)
           new == {i \in 1..(Len(q) + n) : (q \o c)[i] = l}
<1>1. c \in Seq(Lanes) /\ Len(c) = n /\ \A i \in 1..n : c[i] = m
  BY DEF Copies
<1>2. /\ q \o c \in Seq(Lanes) /\ Len(q \o c) = Len(q) + n /\ Len(q) \in Nat
      /\ \A i \in 1..(Len(q) + n) : (q \o c)[i] = IF i <= Len(q) THEN q[i] ELSE m
  <2> HIDE DEF c
  <2>1. /\ q \o c \in Seq(Lanes) /\ Len(q \o c) = Len(q) + Len(c)
        /\ \A i \in 1..(Len(q) + Len(c)) :
             (q \o c)[i] = IF i <= Len(q) THEN q[i] ELSE c[i - Len(q)]
    BY <1>1, ConcatProperties
  <2>2. Len(q) \in Nat
    BY LenProperties
  <2> QED BY <1>1, <2>1, <2>2
<1> HIDE DEF c
<1>3. Count(q, l) = Cardinality(old) /\ Count(q \o c, l) = Cardinality(new)
  <2>1. DOMAIN q = 1..Len(q) /\ DOMAIN (q \o c) = 1..(Len(q) + n)
    BY <1>2, LenProperties
  <2> QED BY <2>1 DEF Count
<1>4. IsFiniteSet(old) /\ Cardinality(old) \in Nat
  BY <1>2, IndicesFinite
<1>5. IsFiniteSet(more) /\ Cardinality(more) = n
  BY <1>2, FS_Interval
<1>6. old \cap more = {}
  BY <1>2
<1>7. new = IF m = l THEN old \cup more ELSE old
  BY <1>2
<1> HIDE DEF old, more, new
<1>8. Cardinality(old \cup more) = Cardinality(old) + n
  <2>1. Cardinality(old \cap more) = 0
    BY <1>6, FS_EmptySet
  <2>2. Cardinality(old \cup more)
          = Cardinality(old) + Cardinality(more) - Cardinality(old \cap more)
    BY <1>4, <1>5, FS_Union
  <2> QED BY <1>4, <1>5, <2>1, <2>2
<1>9. Cardinality(new) = Cardinality(old) + (IF m = l THEN n ELSE 0)
  BY <1>4, <1>7, <1>8
<1> QED BY <1>2, <1>3, <1>9 DEF c

\* The reads that the shares of lane l and of the lanes after it add up to.
Ahead(q, l) == Cardinality({i \in DOMAIN q : q[i] >= l})

LEMMA AheadSplit ==
  ASSUME NEW q \in Seq(Lanes), NEW l \in Lanes
  PROVE  /\ Count(q, l) \in Nat /\ Ahead(q, l + 1) \in Nat
         /\ Ahead(q, l) = Count(q, l) + Ahead(q, l + 1)
<1> DEFINE these == {i \in 1..Len(q) : q[i] = l}
           those == {i \in 1..Len(q) : q[i] >= l + 1}
           both  == {i \in 1..Len(q) : q[i] >= l}
<1>1. /\ DOMAIN q = 1..Len(q) /\ Len(q) \in Nat
      /\ \A i \in 1..Len(q) : q[i] \in Int
  BY LenProperties, LanesAre
<1>2. Count(q, l) = Cardinality(these) /\ Ahead(q, l + 1) = Cardinality(those)
      /\ Ahead(q, l) = Cardinality(both)
  BY <1>1 DEF Count, Ahead
<1>3. /\ IsFiniteSet(these) /\ Cardinality(these) \in Nat
      /\ IsFiniteSet(those) /\ Cardinality(those) \in Nat
  BY <1>1, IndicesFinite
<1>4. these \cap those = {} /\ both = these \cup those
  BY <1>1, LanesAre
<1> HIDE DEF these, those, both
<1>5. Cardinality(these \cap those) = 0
  BY <1>4, FS_EmptySet
<1>6. Cardinality(these \cup those)
        = Cardinality(these) + Cardinality(those) - Cardinality(these \cap those)
  BY <1>3, FS_Union
<1> QED BY <1>2, <1>3, <1>4, <1>5, <1>6

LEMMA AheadEnds ==
  ASSUME NEW q \in Seq(Lanes)
  PROVE  Ahead(q, 1) = Len(q) /\ Ahead(q, NumLanes + 1) = 0
<1>1. /\ DOMAIN q = 1..Len(q) /\ Len(q) \in Nat
      /\ \A i \in 1..Len(q) : q[i] \in Int /\ 1 <= q[i] /\ q[i] <= NumLanes
  BY LenProperties, LanesAre
<1>2. {i \in DOMAIN q : q[i] >= 1} = 1..Len(q)
  BY <1>1
<1>3. {i \in DOMAIN q : q[i] >= NumLanes + 1} = {}
  BY <1>1, LanesAre
<1>4. Cardinality(1..Len(q)) = Len(q)
  BY <1>1, FS_Interval
<1>5. Cardinality({i \in DOMAIN q : q[i] >= NumLanes + 1}) = 0
  BY <1>3, FS_EmptySet
<1> QED BY <1>2, <1>4, <1>5 DEF Ahead

\* What the blocking read keeps is no more than there were permits for.
LEMMA KeepBounded ==
  ASSUME NEW ready \in SUBSET Lanes, count \in Nat, NEW b \in InOrder(Keep(ready))
  PROVE  /\ b \in Seq(Lanes) /\ Len(b) <= count
         /\ \A i \in 1..Len(b) : b[i] \in Keep(ready)
         /\ Len(b) = Cardinality(Keep(ready))
<1> DEFINE keep == Keep(ready)
           n == Cardinality(keep)
<1>1. IsFiniteSet(ready) /\ keep \subseteq ready /\ IsFiniteSet(keep) /\ n \in Nat
  <2>1. keep \subseteq ready
    BY DEF Keep
  <2> QED BY <2>1, LanesAre, FS_Subset, FS_CardinalityType
<1>2. b \in [1..n -> keep] /\ \A i, j \in 1..n : i < j => b[i] < b[j]
  BY DEF InOrder
<1>3. b \in Seq(Lanes) /\ Len(b) = n
  BY <1>1, <1>2
<1>4. n <= count
  <2>1. CASE n = 0
    BY <2>1
  <2>2. CASE n # 0
    <3> DEFINE top == b[n]
               below == {m \in ready : m <= top}
    <3>1. top \in keep /\ n \in 1..n
      BY <1>1, <1>2, <2>2
    <3>2. Cardinality(below) <= count
      BY <3>1 DEF Keep
    <3>3. b \in Injection(1..n, below)
      <4>1. \A i \in 1..n : b[i] \in ready /\ b[i] \in Int /\ top \in Int
        BY <1>1, <1>2, <3>1, LanesAre
      <4>2. \A i \in 1..n : b[i] <= top
        BY <1>1, <1>2, <3>1, <4>1
      <4>3. b \in [1..n -> below]
        BY <1>2, <4>1, <4>2
      <4>4. \A i, j \in 1..n : b[i] = b[j] => i = j
        BY <1>1, <1>2, <4>1
      <4> QED BY <4>3, <4>4 DEF Injection, IsInjective
    <3>4. IsFiniteSet(below)
      BY <1>1, FS_Subset
    <3>5. Cardinality(1..n) <= Cardinality(below) /\ Cardinality(1..n) = n
      BY <1>1, <3>3, <3>4, FS_Injection, FS_Interval
    <3>6. Cardinality(below) \in Nat
      BY <3>4, FS_CardinalityType
    <3> QED BY <1>1, <3>2, <3>5, <3>6
  <2> QED BY <2>1, <2>2
<1> QED BY <1>2, <1>3, <1>4

LEMMA KeptOnce ==
  ASSUME NEW S \in SUBSET Lanes, IsFiniteSet(S), NEW b \in InOrder(S), NEW l \in Lanes
  PROVE  Count(b, l) \in {0, 1} /\ (l \notin S => Count(b, l) = 0)
<1> DEFINE n == Cardinality(S)
           at == {i \in DOMAIN b : b[i] = l}
<1>1. n \in Nat /\ b \in [1..n -> S] /\ \A i, j \in 1..n : i < j => b[i] < b[j]
  BY FS_CardinalityType DEF InOrder
<1>2. CASE at = {}
  BY <1>2, FS_EmptySet DEF Count
<1>3. CASE at # {}
  <2>1. PICK i \in 1..n : b[i] = l
    BY <1>1, <1>3
  <2>2. \A j \in 1..n : b[j] = l => j = i
    BY <1>1, <2>1, LanesAre
  <2>3. at = {i}
    BY <1>1, <2>1, <2>2
  <2> QED BY <1>1, <2>1, <2>3, FS_Singleton DEF Count
<1> QED BY <1>2, <1>3

\* The segments 1..k are ordered by inclusion as the numbers k are by <=.
LEMMA LeastExists ==
  ASSUME NEW T \in SUBSET Nat, T # {}
  PROVE  \E k \in T : \A m \in T : k <= m
<1> DEFINE segments == {1..k : k \in T}
<1>1. segments \subseteq FiniteSubsetsOf(Nat) /\ segments # {}
  <2>1. \A k \in T : 1..k \subseteq Nat /\ IsFiniteSet(1..k)
    BY FS_Interval
  <2> QED BY <2>1 DEF FiniteSubsetsOf
<1>2. PICK s \in segments : \A r \in segments : ~(<<r, s>> \in StrictSubsetOrdering(Nat))
  <2> HIDE DEF segments
  <2> QED BY <1>1, FS_StrictSubsetOrderingWellFounded, WFMin
<1>3. PICK k \in T : s = 1..k
  BY <1>2
<1>4. ASSUME NEW m \in T, m < k PROVE FALSE
  <2>1. 1..m \in segments /\ 1..m \subseteq 1..k /\ 1..m # 1..k
    BY <1>4
  <2>2. 1..m \subseteq Nat /\ 1..k \subseteq Nat
    OBVIOUS
  <2>3. <<1..m, 1..k>> \in StrictSubsetOrdering(Nat)
    BY <2>1, <2>2 DEF StrictSubsetOrdering
  <2> QED BY <1>2, <1>3, <2>1, <2>3
<1> QED BY <1>4

\* A lane that could be read wakes the blocking read, and the highest is kept.
LEMMA KeepsSome ==
  ASSUME NEW ready \in SUBSET Lanes, ready # {}, count \in Nat \ {0}
  PROVE  Keep(ready) # {}
<1>1. ready \subseteq Nat
  BY LanesAre
<1>2. PICK l \in ready : \A m \in ready : l <= m
  BY <1>1, LeastExists
<1>3. {m \in ready : m <= l} = {l}
  <2>1. \A m \in ready : l <= m /\ m \in Int
    BY <1>1, <1>2
  <2>2. \A m \in ready : m <= l <=> m = l
    BY <2>1
  <2> QED BY <2>2
<1>4. Cardinality({m \in ready : m <= l}) = 1
  BY <1>3, FS_Singleton
<1> QED BY <1>4 DEF Keep

\* The sum of the weights is a number: were there a first k whose sum to k does
\* not exist, the sum to k - 1 would, and could be continued.
LEMMA WeightsAddUp ==
  ASSUME config \in Configs, Weighted PROVE SumTo[NumLanes] \in Int
<1> DEFINE Sums(n) == {f \in [0..n -> Int] :
             \A k \in 0..n : f[k] = IF k = 0 THEN 0 ELSE f[k - 1] + Weights[k]}
<1>1. NumLanes \in Nat /\ \A k \in 1..NumLanes : Weights[k] \in Int
  BY LoopAssumption, LanesAre DEF Weights, Weighted, Lanes
<1>2. \A n \in 0..NumLanes : Sums(n) # {}
  <2> DEFINE T == {n \in 0..NumLanes : Sums(n) = {}}
  <2>1. SUFFICES ASSUME T # {} PROVE FALSE
    OBVIOUS
  <2>2. T \in SUBSET Nat
    BY <1>1
  <2>3. PICK n \in T : \A m \in T : n <= m
    <3> HIDE DEF T
    <3> QED BY <2>1, <2>2, LeastExists
  <2>4. n \in 0..NumLanes /\ n \in Int
    BY <1>1
  <2>5. CASE n = 0
    <3>1. [k \in 0..0 |-> 0] \in Sums(0)
      OBVIOUS
    <3> QED BY <2>3, <2>5, <3>1
  <2>6. CASE n # 0
    <3>1. n - 1 \in 0..NumLanes /\ n - 1 \notin T
      <4>1. n - 1 \in 0..NumLanes /\ ~(n <= n - 1)
        BY <1>1, <2>4, <2>6
      <4> HIDE DEF T
      <4> QED BY <2>3, <4>1
    <3>2. PICK f : f \in Sums(n - 1)
      BY <3>1
    <3> DEFINE g == [k \in 0..n |-> IF k = n THEN f[n - 1] + Weights[n] ELSE f[k]]
    <3>3. /\ f \in [0..(n - 1) -> Int] /\ n - 1 \in 0..(n - 1)
          /\ \A k \in 0..(n - 1) : f[k] = IF k = 0 THEN 0 ELSE f[k - 1] + Weights[k]
      BY <2>4, <2>6, <3>2
    <3>4. Weights[n] \in Int /\ f[n - 1] \in Int
      BY <1>1, <2>4, <2>6, <3>3
    <3>5. g \in [0..n -> Int]
      BY <2>4, <2>6, <3>3, <3>4
    <3>6. \A k \in 0..n : g[k] = IF k = 0 THEN 0 ELSE g[k - 1] + Weights[k]
      BY <2>4, <2>6, <3>3
    <3>7. g \in Sums(n)
      BY <3>5, <3>6
    <3> QED BY <2>3, <3>7
  <2> QED BY <2>5, <2>6
<1>3. PICK f : f \in Sums(NumLanes)
  BY <1>1, <1>2
<1>4. f = [k \in 0..NumLanes |-> IF k = 0 THEN 0 ELSE f[k - 1] + Weights[k]]
  BY <1>3
<1>5. SumTo = [k \in 0..NumLanes |-> IF k = 0 THEN 0 ELSE SumTo[k - 1] + Weights[k]]
  BY <1>4 DEF SumTo
<1>6. ASSUME NEW k \in 0..NumLanes, SumTo[k] \notin Int PROVE FALSE
  <2> DEFINE T == {j \in 0..NumLanes : SumTo[j] \notin Int}
  <2>1. T \in SUBSET Nat /\ T # {}
    BY <1>1, <1>6
  <2>2. PICK n \in T : \A m \in T : n <= m
    <3> HIDE DEF T
    <3> QED BY <2>1, LeastExists
  <2>3. n \in 0..NumLanes /\ SumTo[n] \notin Int
    OBVIOUS
  <2>4. SumTo[n] = IF n = 0 THEN 0 ELSE SumTo[n - 1] + Weights[n]
    BY <1>5, <2>3
  <2>5. n # 0 => n - 1 \in 0..NumLanes /\ n - 1 \notin T
    BY <1>1, <2>2, <2>3
  <2>6. n # 0 => SumTo[n - 1] \in Int /\ Weights[n] \in Int
    BY <1>1, <2>3, <2>5
  <2> QED BY <2>3, <2>4, <2>6
<1> QED BY <1>1, <1>6

-----------------------------------------------------------------------------
(* Consumers.                                                              *)

Running == {s \in Slots : slot[s] # 0}

LEMMA SlotsFinite ==
  ASSUME NEW S, S \subseteq Slots
  PROVE  IsFiniteSet(S) /\ Cardinality(S) \in Nat
  BY LoopAssumption, FS_Subset, FS_CardinalityType

LEMMA BusyBounds ==
  ASSUME TypeOK
  PROVE  /\ Busy \in Nat /\ Busy = Cardinality(Running) + Cardinality(freed)
         /\ Cardinality(Running) \in Nat /\ Cardinality(freed) \in Nat
         /\ \A l \in Lanes : Number(l) \in Nat /\ Number(l) <= Busy
         /\ Busy = 0 => freed = {} /\ \A s \in Slots : slot[s] = 0
         /\ freed # {} => Cardinality(freed) >= 1
<1>1. Running \subseteq Slots /\ freed \subseteq Slots
  BY DEF Running, TypeOK
<1>2. /\ IsFiniteSet(Running) /\ Cardinality(Running) \in Nat
      /\ IsFiniteSet(freed) /\ Cardinality(freed) \in Nat
  BY <1>1, SlotsFinite
<1>3. Busy = Cardinality(Running) + Cardinality(freed)
  BY DEF Busy, Running
<1>4. ASSUME NEW l \in Lanes PROVE Number(l) \in Nat /\ Number(l) <= Cardinality(Running)
  <2>1. {s \in Slots : slot[s] = l} \subseteq Running
    BY LanesAre DEF Running
  <2> QED BY <1>2, <2>1, FS_Subset, FS_CardinalityType DEF Number
<1>5. (Cardinality(Running) = 0 <=> Running = {}) /\ (Cardinality(freed) = 0 <=> freed = {})
  BY <1>2, FS_EmptySet
<1>6. Running = {} => \A s \in Slots : slot[s] = 0
  BY DEF Running
<1> QED BY <1>2, <1>3, <1>4, <1>5, <1>6

LEMMA SlotTaken ==
  ASSUME TypeOK, NEW s \in Slots, NEW m \in Lanes,
         slot[s] = 0, slot' = [slot EXCEPT ![s] = m]
  PROVE  /\ Cardinality(Running)' = Cardinality(Running) + 1
         /\ \A l \in Lanes : Number(l)' = Number(l) + (IF m = l THEN 1 ELSE 0)
<1>1. slot \in [Slots -> Lanes \cup {0}] /\ 0 \notin Lanes
  BY LanesAre DEF TypeOK
<1>2. Running' = Running \cup {s} /\ s \notin Running /\ IsFiniteSet(Running)
  BY <1>1, SlotsFinite DEF Running
<1>3. Cardinality(Running)' = Cardinality(Running) + 1
  BY <1>2, FS_AddElement
<1>4. ASSUME NEW l \in Lanes PROVE Number(l)' = Number(l) + (IF m = l THEN 1 ELSE 0)
  <2> DEFINE S == {v \in Slots : slot[v] = l}
  <2>1. S' = (IF m = l THEN S \cup {s} ELSE S) /\ s \notin S
    BY <1>1
  <2>2. IsFiniteSet(S) /\ Cardinality(S) \in Nat
    BY SlotsFinite
  <2>3. Number(l) = Cardinality(S) /\ Number(l)' = Cardinality(S')
    BY DEF Number
  <2> HIDE DEF S
  <2> QED BY <2>1, <2>2, <2>3, FS_AddElement
<1> QED BY <1>3, <1>4

LEMMA SlotFreed ==
  ASSUME TypeOK, NEW s \in Slots, slot[s] # 0, slot' = [slot EXCEPT ![s] = 0]
  PROVE  /\ slot[s] \in Lanes
         /\ Cardinality(Running) = Cardinality(Running)' + 1
         /\ \A l \in Lanes : Number(l) = Number(l)' + (IF slot[s] = l THEN 1 ELSE 0)
<1>1. slot \in [Slots -> Lanes \cup {0}] /\ 0 \notin Lanes
  BY LanesAre DEF TypeOK
<1>2. /\ Running' = Running \ {s} /\ s \in Running
      /\ IsFiniteSet(Running) /\ Cardinality(Running) \in Nat
  BY <1>1, SlotsFinite DEF Running
<1>3. Cardinality(Running) = Cardinality(Running)' + 1
  <2>1. Cardinality(Running \ {s}) = Cardinality(Running) - 1
    BY <1>2, FS_RemoveElement
  <2> QED BY <1>2, <2>1
<1>4. ASSUME NEW l \in Lanes
      PROVE  Number(l) = Number(l)' + (IF slot[s] = l THEN 1 ELSE 0)
  <2> DEFINE S == {v \in Slots : slot[v] = l}
  <2>1. S' = S \ {s} /\ (s \in S <=> slot[s] = l)
    BY <1>1
  <2>2. IsFiniteSet(S) /\ Cardinality(S) \in Nat
    BY SlotsFinite
  <2>3. Number(l) = Cardinality(S) /\ Number(l)' = Cardinality(S')
    BY DEF Number
  <2> HIDE DEF S
  <2>4. Cardinality(S \ {s}) = IF s \in S THEN Cardinality(S) - 1 ELSE Cardinality(S)
    BY <2>2, FS_RemoveElement
  <2> QED BY <2>1, <2>2, <2>3, <2>4
<1> QED BY <1>1, <1>3, <1>4

-----------------------------------------------------------------------------
(* The inductive invariant.                                                *)

Reading == step \in {"claim", "pick", "new", "spare", "block"}

\* A stopped worker, one that is gone, and a consumer whose run has ended.
Ended ==
  /\ step \in {"left", "gone"} => cancel
  /\ step = "gone" => channel = << >> /\ freed = {} /\ \A s \in Slots : slot[s] = 0
  /\ \A s \in freed : slot[s] = 0

\* Messages are between Redis and the channel only while it reads and sends.
BatchSent == ~Reading /\ step # "send" => batch = << >>

\* The reads that read_batch still owes to the permits it saw: those of the lanes
\* to come, and those no lane has used yet.
Owed ==
  left + IF step = "pick" THEN Len(picks)
         ELSE IF step = "new" /\ Weighted THEN Ahead(picks, lane)
         ELSE 0

\* Every read is covered by a permit, which nobody but the producer takes away.
ReadsLeft ==
  /\ Reading => count >= 1 /\ count <= permits /\ Len(batch) + Owed = count
  /\ step = "block" => batch = << >>
  /\ step = "send" => Len(batch) <= permits
  /\ step = "pick" => Weighted /\ left >= 1 /\ lane = 1
  /\ (Weighted /\ step \in {"pick", "new", "spare", "block", "send"}) \/ picks = << >>

\* ... and by room in its lane, which consumers only add to.
RoomLeft ==
  \A l \in Lanes :
    Count(batch, l) + held[l] + (IF Reading THEN room[l] ELSE 0) <= Limits[l]

LoopInv == TypeOK /\ Balance /\ Ended /\ BatchSent /\ ReadsLeft /\ RoomLeft

LEMMA LoopInvStarts == ASSUME Init PROVE LoopInv
<1> USE DEF Init
<1>1. NumLanes \in Nat \ {0} /\ 1 \in Lanes /\ Prefetch \in Nat \ {0}
  BY LanesAre, LoopAssumption
<1>2. Zero \in [Lanes -> Nat] /\ Zero \in [Lanes -> Int] /\ Zero \in [Lanes -> 0..Prefetch]
  BY <1>1 DEF Zero
<1>3. TypeOK
  <2>1. /\ config \in Configs /\ permits \in 0..Prefetch /\ lane \in Lanes
        /\ count \in 0..Prefetch /\ left \in 0..Prefetch /\ promoted \in Nat
    BY <1>1
  <2>2. slot \in [Slots -> Lanes \cup {0}] /\ step \in Steps
    BY DEF Steps
  <2>3. << >> \in Seq(Lanes)
    BY EmptySeq
  <2> QED BY <1>2, <2>1, <2>2, <2>3 DEF TypeOK
<1>4. Running = {} /\ freed = {} /\ \A l \in Lanes : {s \in Slots : slot[s] = l} = {}
  <2>1. \A s \in Slots : slot[s] = 0
    OBVIOUS
  <2> QED BY <2>1, LanesAre DEF Running
<1>5. Busy = 0 /\ \A l \in Lanes : Number(l) = 0
  <2>1. Cardinality(Running) = 0 /\ Cardinality(freed) = 0
    BY <1>4, FS_EmptySet
  <2>2. ASSUME NEW l \in Lanes PROVE Cardinality({s \in Slots : slot[s] = l}) = 0
    BY <1>4, FS_EmptySet
  <2> QED BY <2>1, <2>2 DEF Busy, Number, Running
<1>6. Balance
  BY <1>1, <1>5, CountEmpty DEF Balance, Zero
<1>7. \A l \in Lanes : Limits[l] \in Nat
  BY LoopAssumption DEF Limits
<1>8. RoomLeft
  BY <1>7, CountEmpty DEF RoomLeft, Reading, Zero
<1> QED BY <1>3, <1>6, <1>8 DEF LoopInv, Ended, BatchSent, ReadsLeft, Reading

LEMMA LimitsAre ==
  ASSUME config \in Configs PROVE \A l \in Lanes : Limits[l] \in Nat \ {0}
  BY LoopAssumption DEF Limits

LEMMA LeastIs ==
  ASSUME NEW a \in Nat, NEW b \in Nat
  PROVE  Least(a, b) \in Nat /\ Least(a, b) <= a /\ Least(a, b) <= b /\ Least(a, b) \in {a, b}
  BY DEF Least

LEMMA LaneNumbers ==
  ASSUME TypeOK, NEW l \in Lanes
  PROVE  /\ Count(batch, l) \in Nat /\ Count(channel, l) \in Nat /\ Number(l) \in Nat
         /\ held[l] \in Nat /\ room[l] \in Nat /\ Limits[l] \in Nat
<1>1. Count(batch, l) \in Nat /\ Count(channel, l) \in Nat
  BY CountBounded DEF TypeOK
<1>2. Number(l) \in Nat
  BY BusyBounds
<1>3. held[l] \in Nat /\ room[l] \in Nat
  BY LoopAssumption DEF TypeOK
<1>4. Limits[l] \in Nat
  BY LimitsAre DEF TypeOK
<1> QED BY <1>1, <1>2, <1>3, <1>4

\* What the producer does alone leaves the consumers' side of the balance alone.
LEMMA BalanceStays ==
  ASSUME Balance, UNCHANGED <<permits, held, channel, slot, freed>>, step # "gone"
  PROVE  Balance'
  BY DEF Balance, Busy, Number

\* A read of at most what its lane has room for.
LEMMA ReadKeeps ==
  ASSUME LoopInv, Reading, Reading' \/ step' = "send", config' = config,
         NEW l \in Lanes, NEW ask \in Nat, NEW got \in Nat,
         got <= ask, ask <= room[l], Took(l, ask, got),
         UNCHANGED <<permits, held, channel, slot, freed, cancel>>
  PROVE  /\ batch' \in Seq(Lanes) /\ Len(batch') = Len(batch) + got
         /\ room' \in [Lanes -> Nat] /\ dry' \subseteq Lanes
         /\ Balance' /\ Ended' /\ BatchSent' /\ RoomLeft'
<1>1. batch \in Seq(Lanes) /\ room \in [Lanes -> Nat] /\ dry \subseteq Lanes
      /\ held \in [Lanes -> 0..Prefetch] /\ config \in Configs
  BY DEF LoopInv, TypeOK
<1>2. /\ batch' \in Seq(Lanes) /\ Len(batch') = Len(batch) + got
      /\ \A m \in Lanes : Count(batch', m) = Count(batch, m) + (IF l = m THEN got ELSE 0)
  BY <1>1, CountCopies DEF Took
<1>3. room' = [room EXCEPT ![l] = @ - got] /\ room'[l] \in Nat /\ dry' \subseteq Lanes
  BY <1>1 DEF Took
<1>4. Balance'
  BY BalanceStays DEF LoopInv, Reading
<1>5. Ended' /\ BatchSent'
  BY DEF LoopInv, Reading, Ended, BatchSent
<1>6. ASSUME NEW m \in Lanes
      PROVE  Count(batch, m)' + held'[m] + (IF Reading' THEN room'[m] ELSE 0) <= Limits'[m]
  <2>1. /\ Count(batch, m) \in Nat /\ held[m] \in Nat /\ room[m] \in Nat
        /\ Limits'[m] = Limits[m] /\ Limits[m] \in Nat
    BY <1>1, CountBounded, LimitsAre, LoopAssumption DEF Limits
  <2>2. Count(batch, m) + held[m] + room[m] <= Limits[m]
    BY DEF LoopInv, RoomLeft
  <2>3. Count(batch', m) + room'[m] = Count(batch, m) + room[m] /\ room'[m] \in Nat
        /\ Count(batch', m) \in Nat
    <3>1. room'[m] = room[m] - (IF l = m THEN got ELSE 0)
      BY <1>1, <1>3, <2>1
    <3>2. room'[m] \in Nat
      BY <1>3, <2>1, <3>1
    <3>3. Count(batch', m) = Count(batch, m) + (IF l = m THEN got ELSE 0)
      BY <1>2
    <3> HIDE DEF Took
    <3>4. CASE l = m
      BY <2>1, <3>1, <3>2, <3>3, <3>4
    <3>5. CASE l # m
      BY <2>1, <3>1, <3>2, <3>3, <3>5
    <3> QED BY <3>4, <3>5
  <2> QED BY <2>1, <2>2, <2>3
<1> QED BY <1>1, <1>2, <1>3, <1>4, <1>5, <1>6 DEF RoomLeft

-----------------------------------------------------------------------------
(* The producer keeps it.                                                  *)

LEMMA TopKeeps == ASSUME LoopInv, Top, config' = config PROVE LoopInv'
<1> USE DEF LoopInv
<1>1. /\ permits \in 0..Prefetch /\ held \in [Lanes -> 0..Prefetch] /\ step = "top"
      /\ batch = << >> /\ picks = << >> /\ config \in Configs /\ Prefetch \in Nat
      /\ UNCHANGED <<permits, held, channel, slot, freed, cancel>>
  BY LoopAssumption DEF TypeOK, Top, BatchSent, ReadsLeft, Reading, consumer
<1>2. Balance'
  BY <1>1, BalanceStays
<1>3. \A l \in Lanes : held[l] <= Limits[l] /\ Limits[l] \in Nat /\ held[l] \in Nat
  <2>1. \A l \in Lanes : Count(batch, l) = 0
    BY <1>1, CountEmpty
  <2> QED BY <1>1, <2>1, LimitsAre DEF RoomLeft, Reading
<1>4. CASE cancel
  <2>1. step' = "left" /\ UNCHANGED <<reader, flags, quiet, redis>>
    BY <1>4 DEF Top, flags
  <2>2. TypeOK'
    BY <1>1, <2>1 DEF TypeOK, Steps, reader, flags, redis
  <2>3. RoomLeft'
    BY <1>1, <1>3, <2>1, CountEmpty DEF RoomLeft, Reading, reader, Limits
  <2> QED BY <1>1, <1>2, <1>4, <2>1, <2>2, <2>3
          DEF Ended, BatchSent, ReadsLeft, Reading, reader
<1>5. CASE ~cancel
  <2> DEFINE r == [l \in Lanes |-> AtLeastZero(Limits[l] - held[l])]
  <2>1. /\ step' \in {"claim", "wait"} /\ (step' = "claim" => permits > 0)
        /\ count' = permits /\ left' = permits /\ room' = r
        /\ everyLane' = EveryLane(permits, r)
        /\ lane' = 1 /\ batch' = << >> /\ dry' = {} /\ none' = TRUE /\ quiet' = TRUE
        /\ UNCHANGED <<picks, open, credit, redis, promoted>>
    BY <1>1, <1>5 DEF Top, AtLeastZero
  <2>2. r \in [Lanes -> Nat] /\ \A l \in Lanes : held[l] + r[l] <= Limits[l]
    BY <1>3 DEF AtLeastZero
  <2>3. everyLane' \in BOOLEAN
    BY <2>1 DEF EveryLane
  <2>4. TypeOK'
    <3> HIDE DEF r
    <3> QED BY <1>1, <2>1, <2>2, <2>3, LanesAre, EmptySeq DEF TypeOK, Steps, redis
  <2>5. RoomLeft'
    <3>1. \A l \in Lanes : Count(batch', l) = 0 /\ Limits'[l] = Limits[l]
      BY <1>1, <2>1, CountEmpty DEF Limits
    <3> HIDE DEF r
    <3> QED BY <1>1, <1>3, <2>1, <2>2, <3>1 DEF RoomLeft
  <2>6. ReadsLeft'
    BY <1>1, <2>1, EmptySeq DEF ReadsLeft, Reading, Owed
  <2> QED BY <1>1, <1>2, <2>1, <2>4, <2>5, <2>6 DEF Ended, BatchSent, Reading
<1> QED BY <1>4, <1>5

LEMMA WaitKeeps == ASSUME LoopInv, Wait, config' = config PROVE LoopInv'
<1> USE DEF LoopInv
<1>1. /\ step = "wait" /\ step' \in {"left", "send"} /\ (step' = "left" => cancel)
      /\ batch = << >> /\ picks = << >> /\ permits \in Nat
      /\ UNCHANGED <<permits, held, channel, slot, freed, cancel, reader, flags, redis, quiet>>
  BY LoopAssumption DEF TypeOK, Wait, BatchSent, ReadsLeft, Reading, consumer
<1>2. Balance'
  BY <1>1, BalanceStays
<1>3. TypeOK'
  BY <1>1 DEF TypeOK, Steps, reader, flags, redis
<1>4. RoomLeft'
  BY <1>1 DEF RoomLeft, Reading, reader, Limits
<1>5. Ended' /\ BatchSent' /\ ReadsLeft'
  BY <1>1, EmptySeq DEF Ended, BatchSent, ReadsLeft, Reading, reader
<1> QED BY <1>2, <1>3, <1>4, <1>5

\* Where read_batch goes after a lane when it is strict.
LEMMA StrictReads ==
  ASSUME LoopInv, ~Weighted, config' = config, step \in {"claim", "new"},
         NEW got \in Nat, got <= left, left' = left - got,
         batch' \in Seq(Lanes), Len(batch') = Len(batch) + got,
         UNCHANGED <<permits, count, picks>>,
         (step' = "new" /\ lane' = lane) \/ NextLane
  PROVE  /\ ReadsLeft' /\ step' \in Steps /\ lane' \in Lanes /\ left' \in 0..Prefetch
         /\ Reading' \/ step' = "send"
<1>1. /\ lane \in Lanes /\ left \in 0..Prefetch /\ Prefetch \in Nat /\ permits \in Nat
      /\ count \in Nat /\ Len(batch) \in Nat
  BY LoopAssumption, LenProperties DEF LoopInv, TypeOK
<1>2. /\ count >= 1 /\ count <= permits /\ Len(batch) + left = count /\ picks = << >>
  BY <1>1 DEF LoopInv, ReadsLeft, Reading, Owed
<1>3. /\ step' \in {"claim", "new", "send", "block"} /\ lane' \in Lanes
      /\ step' = "block" => batch' = << >>
  <2>1. CASE step' = "new" /\ lane' = lane
    BY <1>1, <2>1
  <2>2. CASE lane < NumLanes /\ step' = "claim" /\ lane' = lane + 1
    <3>1. lane + 1 \in Int /\ 1 <= lane + 1 /\ lane + 1 <= NumLanes
      BY <1>1, <2>2, LanesAre
    <3> QED BY <2>2, <3>1, LanesAre
  <2>3. CASE step' = Returned(batch') /\ lane' = lane
    BY <1>1, <2>3 DEF Returned
  <2> QED BY <2>1, <2>2, <2>3 DEF NextLane
<1>4. left' \in Nat /\ Len(batch') + left' = count
  BY <1>1, <1>2
<1>5. ~Weighted'
  BY DEF Weighted, Weights
<1>6. Owed' = left'
  BY <1>3, <1>4, <1>5 DEF Owed
<1> QED BY <1>1, <1>2, <1>3, <1>4, <1>5, <1>6 DEF ReadsLeft, Reading, Steps

LEMMA ClaimKeeps == ASSUME LoopInv, Claim, config' = config PROVE LoopInv'
<1> DEFINE take == Least(left, room[lane])
           got == Least(take, idle[lane])
<1>1. /\ lane \in Lanes /\ left \in 0..Prefetch /\ Prefetch \in Nat /\ permits \in Nat
      /\ count \in Nat /\ batch \in Seq(Lanes) /\ Len(batch) \in Nat
      /\ room \in [Lanes -> Nat] /\ idle \in [Lanes -> Nat] /\ step = "claim"
  BY LoopAssumption, LenProperties DEF LoopInv, TypeOK, Claim
<1>2. /\ take \in Nat /\ got \in Nat /\ got <= take /\ take <= left /\ take <= room[lane]
      /\ idle[lane] \in Nat /\ got <= idle[lane]
  <2>1. room[lane] \in Nat /\ idle[lane] \in Nat /\ left \in Nat
    BY <1>1
  <2>2. take \in Nat /\ take <= left /\ take <= room[lane]
    BY <2>1, LeastIs
  <2> HIDE DEF take
  <2> QED BY <2>1, <2>2, LeastIs
<1>3. /\ Took(lane, take, got) /\ idle' = [idle EXCEPT ![lane] = @ - got]
      /\ UNCHANGED <<waiting, due, permits, held, channel, slot, freed, cancel, count,
                     picks, open, credit, flags, quiet>>
  BY DEF Claim, consumer
<1>4. /\ count >= 1 /\ count <= permits /\ Len(batch) + left = count /\ picks = << >>
  BY <1>1 DEF LoopInv, ReadsLeft, Reading, Owed
<1>5. idle' \in [Lanes -> Nat]
  <2> HIDE DEF got
  <2> QED BY <1>1, <1>2, <1>3
<1>6. \/ /\ Weighted /\ left' = left - got
         /\ \/ lane < NumLanes /\ step' = "claim" /\ lane' = lane + 1
            \/ lane = NumLanes /\ left = got /\ step' = "send" /\ lane' = lane
            \/ lane = NumLanes /\ left > got /\ step' = "pick" /\ lane' = 1
      \/ /\ ~Weighted /\ left' = left - got
         /\ (step' = "new" /\ lane' = lane) \/ NextLane
  BY <1>1, <1>2 DEF Claim
<1> HIDE DEF take, got
<1>7. ASSUME Reading' \/ step' = "send"
      PROVE  /\ batch' \in Seq(Lanes) /\ Len(batch') = Len(batch) + got
             /\ room' \in [Lanes -> Nat] /\ dry' \subseteq Lanes
             /\ Balance' /\ Ended' /\ BatchSent' /\ RoomLeft'
  BY <1>1, <1>2, <1>3, <1>7, ReadKeeps DEF Reading
<1>8. CASE Weighted
  <2>1. /\ step' \in {"claim", "send", "pick"} /\ left' = left - got /\ left' \in 0..Prefetch
        /\ lane' \in Lanes /\ (step' = "pick" => left' >= 1 /\ lane' = 1)
    <3>1. left' = left - got /\ left' \in 0..Prefetch
      BY <1>1, <1>2, <1>6, <1>8
    <3>2. CASE lane < NumLanes /\ step' = "claim" /\ lane' = lane + 1
      <4>1. lane + 1 \in Int /\ 1 <= lane + 1 /\ lane + 1 <= NumLanes
        BY <1>1, <3>2, LanesAre
      <4> QED BY <3>1, <3>2, <4>1, LanesAre
    <3>3. CASE step' = "send" /\ lane' = lane
      BY <1>1, <3>1, <3>3
    <3>4. CASE left > got /\ step' = "pick" /\ lane' = 1
      BY <1>1, <1>2, <3>1, <3>4, LanesAre
    <3> QED BY <1>6, <1>8, <3>2, <3>3, <3>4
  <2>2. Weighted'
    BY <1>8 DEF Weighted, Weights
  <2>3. Len(batch') + left' = count /\ Len(batch') \in Nat
    <3>1. Reading' \/ step' = "send"
      BY <2>1 DEF Reading
    <3>2. Len(batch') = Len(batch) + got
      BY <1>7, <3>1
    <3>3. /\ Len(batch) \in Nat /\ left \in Nat /\ got \in Nat /\ left' = left - got
          /\ Len(batch) + left = count
      BY <1>1, <1>2, <1>4, <2>1
    <3> QED BY <3>2, <3>3
  <2>4. ReadsLeft'
    BY <1>1, <1>3, <1>4, <2>1, <2>2, <2>3, EmptySeq DEF ReadsLeft, Reading, Owed
  <2> QED BY <1>1, <1>3, <1>5, <1>7, <2>1, <2>4 DEF LoopInv, TypeOK, Steps, Reading, flags
<1>9. CASE ~Weighted
  <2>1. (step' = "new" /\ lane' = lane) \/ NextLane
    BY <1>6, <1>9
  <2>2. Reading' \/ step' = "send"
    BY <2>1 DEF NextLane, Returned, Reading
  <2>3. /\ ReadsLeft' /\ step' \in Steps /\ lane' \in Lanes /\ left' \in 0..Prefetch
    BY <1>1, <1>2, <1>3, <1>6, <1>7, <1>9, <2>1, <2>2, StrictReads
  <2> QED BY <1>1, <1>3, <1>5, <1>7, <2>2, <2>3 DEF LoopInv, TypeOK, flags
<1> QED BY <1>8, <1>9

LEMMA PickKeeps == ASSUME LoopInv, Pick, config' = config PROVE LoopInv'
<1> DEFINE earned == [l \in Lanes |-> credit[l] + Weights[l]]
<1>1. /\ step = "pick" /\ left \in 0..Prefetch /\ Prefetch \in Nat /\ permits \in Nat
      /\ picks \in Seq(Lanes) /\ Len(picks) \in Nat /\ batch \in Seq(Lanes)
      /\ Len(batch) \in Nat /\ credit \in [Lanes -> Int] /\ config \in Configs
  BY LoopAssumption, LenProperties DEF LoopInv, TypeOK, Pick
<1>2. /\ count >= 1 /\ count <= permits /\ Len(batch) + left + Len(picks) = count
      /\ Weighted /\ left >= 1 /\ Weighted'
  BY <1>1 DEF LoopInv, ReadsLeft, Reading, Owed, Weighted, Weights
<1>3. PICK l \in Lanes : /\ picks' = Append(picks, l)
                         /\ credit' = [earned EXCEPT ![l] = @ - SumTo[NumLanes]]
  BY DEF Pick, Richest, Spend
<1>4. /\ left' = left - 1 /\ step' = (IF left > 1 THEN "pick" ELSE "new")
      /\ UNCHANGED <<redis, permits, held, channel, slot, freed, cancel, count, room, open,
                     batch, lane, dry, flags, quiet>>
  BY DEF Pick, consumer
<1>5. picks' \in Seq(Lanes) /\ Len(picks') = Len(picks) + 1
  BY <1>1, <1>3, AppendProperties
<1>6. credit' \in [Lanes -> Int]
  <2>1. \A m \in Lanes : Weights[m] \in Int
    BY <1>1, <1>2, LoopAssumption DEF Weights, Weighted
  <2>2. earned \in [Lanes -> Int]
    BY <1>1, <2>1
  <2>3. SumTo[NumLanes] \in Int
    BY <1>1, <1>2, WeightsAddUp
  <2> HIDE DEF earned
  <2> QED BY <1>3, <2>2, <2>3
<1>7. TypeOK'
  <2>1. left' \in 0..Prefetch /\ step' \in Steps
    BY <1>1, <1>2, <1>4 DEF Steps
  <2> QED BY <1>4, <1>5, <1>6, <2>1 DEF LoopInv, TypeOK, redis, flags
<1>8. lane = 1 /\ lane' = 1
  BY <1>1, <1>4 DEF LoopInv, ReadsLeft
<1>9. ReadsLeft'
  <2>1. CASE left > 1
    BY <1>1, <1>2, <1>4, <1>5, <1>8, <2>1 DEF ReadsLeft, Reading, Owed
  <2>2. CASE left = 1
    <3>1. Owed' = Len(picks')
      BY <1>2, <1>4, <1>5, <1>8, <2>2, AheadEnds DEF Owed
    <3> QED BY <1>1, <1>2, <1>4, <1>5, <2>2, <3>1 DEF ReadsLeft, Reading
  <2> QED BY <1>1, <1>2, <2>1, <2>2
<1>10. Balance'
  BY <1>1, <1>4, BalanceStays DEF LoopInv
<1>11. RoomLeft'
  BY <1>1, <1>4 DEF LoopInv, RoomLeft, Reading, Limits
<1> QED BY <1>1, <1>4, <1>7, <1>9, <1>10, <1>11 DEF LoopInv, Ended, BatchSent, Reading

LEMMA NewStrictKeeps == ASSUME LoopInv, NewStrict, config' = config PROVE LoopInv'
<1> DEFINE ask == Least(left, room[lane])
           got == Least(ask, waiting[lane])
<1>1. /\ lane \in Lanes /\ left \in Nat /\ room \in [Lanes -> Nat]
      /\ waiting \in [Lanes -> Nat] /\ step = "new" /\ ~Weighted
  BY LoopAssumption DEF LoopInv, TypeOK, NewStrict
<1>2. /\ ask \in Nat /\ got \in Nat /\ got <= ask /\ ask <= left /\ ask <= room[lane]
      /\ waiting[lane] \in Nat /\ got <= waiting[lane]
  <2>1. room[lane] \in Nat /\ waiting[lane] \in Nat
    BY <1>1
  <2>2. ask \in Nat /\ ask <= left /\ ask <= room[lane]
    BY <1>1, <2>1, LeastIs
  <2> HIDE DEF ask
  <2> QED BY <2>1, <2>2, LeastIs
<1>3. /\ Took(lane, ask, got) /\ waiting' = [waiting EXCEPT ![lane] = @ - got]
      /\ left' = left - got /\ NextLane
      /\ UNCHANGED <<idle, due, permits, held, channel, slot, freed, cancel, count, picks,
                     open, credit, flags, quiet>>
  BY DEF NewStrict, consumer
<1> HIDE DEF ask, got
<1>4. waiting' \in [Lanes -> Nat]
  BY <1>1, <1>2, <1>3
<1>5. Reading' \/ step' = "send"
  BY <1>1, <1>3 DEF NextLane, Returned, Reading
<1>6. Reading
  BY <1>1 DEF Reading
<1>7. /\ batch' \in Seq(Lanes) /\ Len(batch') = Len(batch) + got
      /\ room' \in [Lanes -> Nat] /\ dry' \subseteq Lanes
      /\ Balance' /\ Ended' /\ BatchSent' /\ RoomLeft'
  BY <1>1, <1>2, <1>3, <1>5, <1>6, ReadKeeps
<1>8. got <= left
  BY <1>1, <1>2
<1>9. ReadsLeft' /\ step' \in Steps /\ lane' \in Lanes /\ left' \in 0..Prefetch
  BY <1>1, <1>2, <1>3, <1>7, <1>8, StrictReads
<1> QED BY <1>3, <1>4, <1>7, <1>9 DEF LoopInv, TypeOK, flags

\* What a lane leaves of its share is spare.
LEMMA NewShareKeeps == ASSUME LoopInv, NewShare, config' = config PROVE LoopInv'
<1> DEFINE c == Count(picks, lane)
           ask == Least(c, room[lane])
           got == Least(ask, waiting[lane])
           rest == Ahead(picks, lane + 1)
<1>1. /\ lane \in Lanes /\ left \in Nat /\ room \in [Lanes -> Nat] /\ count \in 0..Prefetch
      /\ waiting \in [Lanes -> Nat] /\ step = "new" /\ Weighted /\ Weighted'
      /\ picks \in Seq(Lanes) /\ open \in Seq(Lanes) /\ batch \in Seq(Lanes)
      /\ Len(batch) \in Nat
  BY LoopAssumption, LenProperties DEF LoopInv, TypeOK, NewShare, Weighted, Weights
<1>2. /\ c \in Nat /\ rest \in Nat /\ Ahead(picks, lane) = c + rest
  BY <1>1, AheadSplit
<1>3. /\ ask \in Nat /\ got \in Nat /\ got <= ask /\ ask <= c /\ ask <= room[lane]
      /\ waiting[lane] \in Nat /\ got <= waiting[lane]
  <2>1. room[lane] \in Nat /\ waiting[lane] \in Nat
    BY <1>1
  <2>2. ask \in Nat /\ ask <= c /\ ask <= room[lane]
    BY <1>2, <2>1, LeastIs
  <2> HIDE DEF ask, c
  <2> QED BY <2>1, <2>2, LeastIs
<1>4. /\ Took(lane, ask, got) /\ waiting' = [waiting EXCEPT ![lane] = @ - got]
      /\ left' = left + (c - got)
      /\ open' \in {open, Append(open, lane)}
      /\ \/ lane < NumLanes /\ lane' = lane + 1 /\ step' = step
         \/ lane = NumLanes /\ step' = "spare" /\ lane' = lane
      /\ UNCHANGED <<idle, due, permits, held, channel, slot, freed, cancel, count, picks,
                     credit, flags, quiet>>
  BY DEF NewShare, PassOn, consumer
<1> HIDE DEF c, ask, got, rest
<1>5. waiting' \in [Lanes -> Nat] /\ open' \in Seq(Lanes)
  <2>1. Append(open, lane) \in Seq(Lanes)
    BY <1>1, AppendProperties
  <2>2. open' \in Seq(Lanes)
    BY <1>1, <1>4, <2>1
  <2>3. waiting' \in [Lanes -> Nat]
    <3>1. waiting[lane] - got \in Nat
      BY <1>3
    <3> QED BY <1>1, <1>4, <3>1
  <2> QED BY <2>2, <2>3
<1>6. lane' \in Lanes /\ step' \in {"new", "spare"}
  <2>1. CASE lane < NumLanes /\ lane' = lane + 1
    <3>1. lane + 1 \in Int /\ 1 <= lane + 1 /\ lane + 1 <= NumLanes
      BY <1>1, <2>1, LanesAre
    <3> QED BY <1>1, <1>4, <2>1, <3>1, LanesAre
  <2> QED BY <1>1, <1>4, <2>1
<1>7. Reading /\ Reading' /\ step' \in Steps
  BY <1>1, <1>6 DEF Reading, Steps
<1>8. /\ batch' \in Seq(Lanes) /\ Len(batch') = Len(batch) + got
      /\ room' \in [Lanes -> Nat] /\ dry' \subseteq Lanes
      /\ Balance' /\ Ended' /\ BatchSent' /\ RoomLeft'
  BY <1>1, <1>3, <1>4, <1>7, ReadKeeps
<1>9. Owed' = left' + rest
  <2>1. CASE step' = "new"
    <3>1. lane' = lane + 1 /\ picks' = picks
      BY <1>4, <1>6, <2>1
    <3> QED BY <1>1, <2>1, <3>1 DEF Owed, rest
  <2>2. CASE step' = "spare"
    <3>1. lane = NumLanes
      BY <1>1, <1>4, <2>2
    <3>2. rest = 0
      BY <1>1, <3>1, AheadEnds DEF rest
    <3>3. left' \in Int
      BY <1>1, <1>2, <1>3, <1>4
    <3> QED BY <2>2, <3>2, <3>3 DEF Owed
  <2> QED BY <1>6, <2>1, <2>2
<1>10. count >= 1 /\ count <= permits /\ Len(batch) + left + (c + rest) = count
  BY <1>1, <1>2 DEF LoopInv, ReadsLeft, Reading, Owed
<1>11. Len(batch') + Owed' = count /\ left' \in 0..count
  <2>1. /\ Len(batch) \in Nat /\ left \in Nat /\ c \in Nat /\ rest \in Nat /\ got \in Nat
        /\ got <= c /\ count \in Nat
    BY <1>1, <1>2, <1>3
  <2>2. /\ Len(batch') = Len(batch) + got /\ left' = left + (c - got)
        /\ Owed' = left' + rest /\ Len(batch) + left + (c + rest) = count
    BY <1>4, <1>8, <1>9, <1>10
  <2>3. left' \in Nat /\ Len(batch') \in Nat
    BY <2>1, <2>2
  <2> QED BY <2>1, <2>2, <2>3
<1>12. ReadsLeft'
  BY <1>1, <1>4, <1>6, <1>10, <1>11 DEF ReadsLeft
<1>13. left' \in 0..Prefetch
  BY <1>1, <1>11, LoopAssumption
<1> QED BY <1>4, <1>5, <1>6, <1>7, <1>8, <1>12, <1>13 DEF LoopInv, TypeOK, flags

LEMMA NewSpareKeeps == ASSUME LoopInv, NewSpare, config' = config PROVE LoopInv'
<1> DEFINE l == Head(open)
           ask == Least(left, room[l])
           got == Least(ask, waiting[l])
<1>1. /\ left \in 0..Prefetch /\ room \in [Lanes -> Nat] /\ Prefetch \in Nat
      /\ waiting \in [Lanes -> Nat] /\ step = "spare" /\ open \in Seq(Lanes) /\ open # << >>
      /\ batch \in Seq(Lanes) /\ Len(batch) \in Nat
  BY LoopAssumption, LenProperties DEF LoopInv, TypeOK, NewSpare
<1>2. l \in Lanes /\ Tail(open) \in Seq(Lanes)
  BY <1>1, HeadTailProperties
<1>3. /\ ask \in Nat /\ got \in Nat /\ got <= ask /\ ask <= left /\ ask <= room[l]
      /\ waiting[l] \in Nat /\ got <= waiting[l]
  <2>1. room[l] \in Nat /\ waiting[l] \in Nat /\ left \in Nat
    BY <1>1, <1>2
  <2>2. ask \in Nat /\ ask <= left /\ ask <= room[l]
    BY <2>1, LeastIs
  <2> HIDE DEF ask, l
  <2> QED BY <2>1, <2>2, LeastIs
<1>4. /\ Took(l, ask, got) /\ waiting' = [waiting EXCEPT ![l] = @ - got]
      /\ left' = left - got /\ open' = Tail(open)
      /\ UNCHANGED <<idle, due, permits, held, channel, slot, freed, cancel, step, count,
                     picks, credit, lane, flags, quiet>>
  BY DEF NewSpare, consumer
<1> HIDE DEF l, ask, got
<1>5. waiting' \in [Lanes -> Nat]
  BY <1>1, <1>2, <1>3, <1>4
<1>6. Reading /\ Reading'
  BY <1>1, <1>4 DEF Reading
<1>7. /\ batch' \in Seq(Lanes) /\ Len(batch') = Len(batch) + got
      /\ room' \in [Lanes -> Nat] /\ dry' \subseteq Lanes
      /\ Balance' /\ Ended' /\ BatchSent' /\ RoomLeft'
  BY <1>1, <1>2, <1>3, <1>4, <1>6, ReadKeeps
<1>8. left' \in 0..Prefetch
  BY <1>1, <1>3, <1>4
<1>9. count >= 1 /\ count <= permits /\ Len(batch) + left = count
  BY <1>1 DEF LoopInv, ReadsLeft, Reading, Owed
<1>10. Len(batch') + left' = count
  <2>1. left \in Nat /\ got \in Nat /\ Len(batch) \in Nat
    BY <1>1, <1>3
  <2> QED BY <1>4, <1>7, <1>9, <2>1
<1>11. ReadsLeft'
  BY <1>1, <1>4, <1>8, <1>9, <1>10 DEF LoopInv, ReadsLeft, Owed, Weighted, Weights
<1> QED BY <1>2, <1>4, <1>5, <1>7, <1>8, <1>11 DEF LoopInv, TypeOK, flags

LEMMA SpareDoneKeeps == ASSUME LoopInv, SpareDone, config' = config PROVE LoopInv'
<1> USE DEF LoopInv
<1>1. /\ step = "spare" /\ step' \in {"block", "send"} /\ (step' = "block" => batch = << >>)
      /\ UNCHANGED <<permits, held, channel, slot, freed, cancel, reader, flags, redis, quiet>>
  BY DEF SpareDone, Returned, consumer
<1>2. Balance'
  BY <1>1, BalanceStays
<1>3. TypeOK'
  BY <1>1 DEF TypeOK, Steps, reader, flags, redis
<1>4. RoomLeft'
  <2>1. ASSUME NEW l \in Lanes
        PROVE  /\ Count(batch, l) \in Nat /\ held[l] \in Nat /\ room[l] \in Nat
               /\ Limits[l] \in Nat /\ Limits'[l] = Limits[l]
    BY CountBounded, LimitsAre, LoopAssumption DEF TypeOK, Limits
  <2>2. ASSUME NEW l \in Lanes
        PROVE  Count(batch', l) + held'[l] + (IF Reading' THEN room'[l] ELSE 0) <= Limits'[l]
    <3>1. Count(batch, l) + held[l] + room[l] <= Limits[l]
      BY <1>1 DEF RoomLeft, Reading
    <3>2. batch' = batch /\ held' = held /\ room' = room
      BY <1>1 DEF reader
    <3> QED BY <2>1, <3>1, <3>2
  <2> QED BY <2>2 DEF RoomLeft
<1>5. ReadsLeft'
  <2>1. /\ count >= 1 /\ count <= permits /\ Len(batch) + left = count
        /\ count \in Nat /\ left \in Nat /\ Len(batch) \in Nat /\ permits \in Nat
    BY <1>1, LoopAssumption, LenProperties DEF ReadsLeft, Reading, Owed, TypeOK
  <2> QED BY <1>1, <2>1 DEF ReadsLeft, Reading, Owed, reader, Weighted, Weights
<1> QED BY <1>1, <1>2, <1>3, <1>4, <1>5 DEF Ended, BatchSent, Reading, reader

LEMMA BlockKeeps == ASSUME LoopInv, Block, config' = config PROVE LoopInv'
<1> DEFINE ready == {l \in Lanes : WakesOn(l)}
           keep == Keep(ready)
<1>1. /\ step = "block" /\ count \in Nat /\ permits \in Nat /\ waiting \in [Lanes -> Nat]
      /\ room \in [Lanes -> Nat] /\ held \in [Lanes -> 0..Prefetch] /\ config \in Configs
      /\ batch = << >> /\ count <= permits
  <2>1. /\ step = "block" /\ count \in Nat /\ permits \in Nat /\ waiting \in [Lanes -> Nat]
        /\ room \in [Lanes -> Nat] /\ held \in [Lanes -> 0..Prefetch] /\ config \in Configs
    BY LoopAssumption DEF LoopInv, TypeOK, Block
  <2> QED BY <2>1 DEF LoopInv, ReadsLeft, Reading
<1>2. /\ batch' \in InOrder(keep) /\ step' = "send"
      /\ waiting' = [l \in Lanes |-> IF l \in keep THEN waiting[l] - 1 ELSE waiting[l]]
      /\ UNCHANGED <<idle, due, permits, held, channel, slot, freed, cancel, count, left,
                     room, picks, open, credit, lane, dry, flags, quiet>>
  BY DEF Block, consumer
<1>3. keep \subseteq ready /\ ready \subseteq Lanes /\ IsFiniteSet(keep)
  BY LanesAre, FS_Subset DEF Keep
<1>4. batch' \in Seq(Lanes) /\ Len(batch') <= count /\ Len(batch') \in Nat
  BY <1>1, <1>2, KeepBounded, LenProperties
<1>5. waiting' \in [Lanes -> Nat]
  <2>1. \A l \in keep : waiting[l] > 0 /\ room[l] > 0
    BY <1>3 DEF WakesOn
  <2> HIDE DEF keep, ready
  <2> QED BY <1>1, <1>2, <2>1
<1>6. TypeOK'
  BY <1>2, <1>4, <1>5 DEF LoopInv, TypeOK, Steps, flags
<1>7. Balance'
  BY <1>1, <1>2, BalanceStays DEF LoopInv
<1>8. ReadsLeft'
  BY <1>1, <1>2, <1>4 DEF LoopInv, ReadsLeft, Reading, Weighted, Weights
<1>9. RoomLeft'
  <2>1. ASSUME NEW l \in Lanes PROVE Count(batch', l) + held[l] <= Limits[l]
    <3>1. held[l] \in Nat /\ room[l] \in Nat /\ Limits[l] \in Nat
      BY <1>1, LimitsAre, LoopAssumption
    <3>2. held[l] + room[l] <= Limits[l]
      <4>1. Count(batch, l) = 0
        BY <1>1, CountEmpty
      <4> QED BY <1>1, <3>1, <4>1 DEF LoopInv, RoomLeft, Reading
    <3>3. Count(batch', l) \in {0, 1} /\ (l \notin keep => Count(batch', l) = 0)
      <4>1. keep \in SUBSET Lanes
        BY <1>3
      <4> HIDE DEF keep
      <4> QED BY <1>2, <1>3, <4>1, KeptOnce
    <3>4. l \in keep => room[l] > 0
      BY <1>3 DEF WakesOn
    <3> HIDE DEF keep
    <3> QED BY <3>1, <3>2, <3>3, <3>4
  <2>2. ASSUME NEW l \in Lanes PROVE Count(batch', l) \in Nat /\ held[l] \in Nat
    BY <1>1, <1>4, CountBounded
  <2>3. ~Reading' /\ held' = held /\ Limits' = Limits
    BY <1>2 DEF Reading, Limits
  <2> HIDE DEF keep
  <2> QED BY <2>1, <2>2, <2>3 DEF RoomLeft
<1>10. Ended' /\ BatchSent'
  BY <1>2 DEF LoopInv, Ended, BatchSent
<1> QED BY <1>6, <1>7, <1>8, <1>9, <1>10 DEF LoopInv

LEMMA SendKeeps == ASSUME LoopInv, Send, config' = config PROVE LoopInv'
<1> DEFINE h == Head(batch)
<1>1. /\ step = "send" /\ batch \in Seq(Lanes) /\ batch # << >> /\ channel \in Seq(Lanes)
      /\ permits \in 0..Prefetch /\ held \in [Lanes -> 0..Prefetch] /\ Prefetch \in Nat
      /\ Len(batch) \in Nat \ {0} /\ Len(channel) \in Nat /\ config \in Configs
  BY LoopAssumption, LenProperties, EmptySeq DEF LoopInv, TypeOK, Send
<1>2. /\ permits' = permits - 1 /\ held' = [held EXCEPT ![h] = @ + 1]
      /\ channel' = Append(channel, h) /\ batch' = Tail(batch) /\ none' = FALSE
      /\ UNCHANGED <<redis, slot, freed, cancel, step, lane, count, left, room, picks, open,
                     credit, dry, everyLane, promoted, quiet>>
  BY DEF Send, consumer
<1>3. /\ h \in Lanes /\ batch' \in Seq(Lanes) /\ Len(batch') = Len(batch) - 1
      /\ channel' \in Seq(Lanes) /\ Len(channel') = Len(channel) + 1
  <2>1. h \in Lanes /\ batch' \in Seq(Lanes) /\ Len(batch') = Len(batch) - 1
    BY <1>1, <1>2, HeadTailProperties
  <2> QED BY <1>1, <1>2, <2>1, AppendProperties
<1> HIDE DEF h
<1>4. /\ Len(batch) <= permits /\ permits = Prefetch - Len(channel) - Busy
      /\ \A l \in Lanes : held[l] = Count(channel, l) + Number(l)
  BY <1>1 DEF LoopInv, ReadsLeft, Balance
<1>5. Busy \in Nat /\ \A l \in Lanes : Number(l) \in Nat /\ Number(l) <= Busy
  BY BusyBounds DEF LoopInv
<1>6. permits' \in 0..Prefetch /\ Len(batch') <= permits'
  BY <1>1, <1>2, <1>3, <1>4
<1>7. held' \in [Lanes -> 0..Prefetch]
  <2>1. Count(channel, h) \in Nat /\ Count(channel, h) <= Len(channel)
    BY <1>1, CountBounded
  <2>2. held[h] + 1 \in 0..Prefetch
    <3>1. /\ held[h] = Count(channel, h) + Number(h) /\ Number(h) \in Nat /\ Number(h) <= Busy
      BY <1>3, <1>4, <1>5
    <3> QED BY <1>1, <1>4, <1>5, <2>1, <3>1
  <2> QED BY <1>1, <1>2, <1>3, <2>2
<1>8. TypeOK'
  BY <1>2, <1>3, <1>6, <1>7 DEF LoopInv, TypeOK, redis
<1>9. \A l \in Lanes : /\ Count(channel', l) = Count(channel, l) + (IF h = l THEN 1 ELSE 0)
                       /\ held'[l] = held[l] + (IF h = l THEN 1 ELSE 0)
                       /\ Count(batch, l) = Count(batch', l) + (IF h = l THEN 1 ELSE 0)
  <2>1. \A l \in Lanes : Count(channel', l) = Count(channel, l) + (IF h = l THEN 1 ELSE 0)
    BY <1>1, <1>2, <1>3, CountAppend
  <2>2. \A l \in Lanes : Count(batch, l) = Count(batch', l) + (IF h = l THEN 1 ELSE 0)
    BY <1>1, <1>2, CountTail DEF h
  <2>3. \A l \in Lanes : held'[l] = held[l] + (IF h = l THEN 1 ELSE 0)
    BY <1>1, <1>2
  <2> QED BY <2>1, <2>2, <2>3
<1>10. \A l \in Lanes : /\ Count(channel, l) \in Nat /\ Count(batch', l) \in Nat
                        /\ held[l] \in Nat
  BY <1>1, <1>3, CountBounded
<1>11. Balance'
  <2>1. Busy' = Busy /\ \A l \in Lanes : Number(l)' = Number(l)
    BY <1>2 DEF Busy, Number
  <2>2. permits' = Prefetch - Len(channel') - Busy'
    BY <1>1, <1>2, <1>3, <1>4, <1>5, <2>1
  <2>3. ASSUME NEW l \in Lanes PROVE held'[l] = Count(channel', l) + Number(l)'
    <3>1. /\ Number(l)' = Number(l) /\ Number(l) \in Nat /\ Count(channel, l) \in Nat
          /\ held[l] = Count(channel, l) + Number(l)
      BY <1>4, <1>5, <1>10, <2>1
    <3> QED BY <1>9, <3>1
  <2> QED BY <2>2, <2>3 DEF Balance
<1>12. RoomLeft'
  <2>1. ASSUME NEW l \in Lanes PROVE Count(batch', l) + held'[l] <= Limits[l]
    <3>1. Count(batch, l) + held[l] <= Limits[l] /\ Limits[l] \in Nat
      <4>1. Count(batch, l) + held[l] + 0 <= Limits[l]
        BY <1>1 DEF LoopInv, RoomLeft, Reading
      <4>2. Count(batch, l) \in Nat /\ held[l] \in Nat /\ Limits[l] \in Nat
        BY <1>1, <1>10, CountBounded, LimitsAre
      <4> QED BY <4>1, <4>2
    <3> QED BY <1>9, <1>10, <3>1
  <2>2. ASSUME NEW l \in Lanes PROVE Count(batch', l) \in Nat /\ held'[l] \in Nat
    BY <1>3, <1>7, CountBounded
  <2>3. ~Reading' /\ Limits' = Limits
    BY <1>1, <1>2 DEF Reading, Limits
  <2> QED BY <2>1, <2>2, <2>3 DEF RoomLeft
<1>13. Ended' /\ BatchSent' /\ ReadsLeft'
  BY <1>1, <1>2, <1>6 DEF LoopInv, Ended, BatchSent, ReadsLeft, Reading, Weighted, Weights
<1> QED BY <1>8, <1>11, <1>12, <1>13 DEF LoopInv

\* Outside the reads, nothing is between Redis and the channel.
LEMMA RoomHeld ==
  ASSUME LoopInv, ~Reading, batch = << >>, NEW l \in Lanes
  PROVE  held[l] \in Nat /\ Limits[l] \in Nat /\ held[l] <= Limits[l]
<1>1. Count(batch, l) = 0
  BY CountEmpty
<1>2. held[l] \in Nat /\ Limits[l] \in Nat
  BY LimitsAre, LoopAssumption DEF LoopInv, TypeOK
<1>3. Count(batch, l) + held[l] + 0 <= Limits[l]
  BY DEF LoopInv, RoomLeft
<1> QED BY <1>1, <1>2, <1>3

\* ... so a step of the producer there has only its own place to look after.
LEMMA IdleKeeps ==
  ASSUME LoopInv, config' = config, ~Reading, ~Reading', batch = << >>, batch' = << >>,
         step # "gone", step' # "gone", step' = "left" => cancel', picks' = << >>,
         UNCHANGED <<permits, held, channel, slot, freed>>
  PROVE  Balance' /\ Ended' /\ BatchSent' /\ ReadsLeft' /\ RoomLeft'
<1>1. Balance'
  BY BalanceStays DEF LoopInv
<1>2. Ended' /\ BatchSent'
  BY DEF LoopInv, Ended, BatchSent
<1>3. permits \in Nat /\ Len(batch') = 0
  BY LoopAssumption, EmptySeq DEF LoopInv, TypeOK
<1>4. ReadsLeft'
  BY <1>3 DEF ReadsLeft, Reading
<1>5. ASSUME NEW l \in Lanes
      PROVE  Count(batch', l) + held'[l] + (IF Reading' THEN room'[l] ELSE 0) <= Limits'[l]
  <2>1. Count(batch', l) = 0 /\ Limits' = Limits
    BY CountEmpty DEF Limits
  <2>2. held[l] \in Nat /\ Limits[l] \in Nat /\ held[l] <= Limits[l]
    BY RoomHeld
  <2> QED BY <2>1, <2>2
<1> QED BY <1>1, <1>2, <1>4, <1>5 DEF RoomLeft

LEMMA AllSentKeeps == ASSUME LoopInv, AllSent, config' = config PROVE LoopInv'
<1>1. /\ step = "send" /\ batch = << >> /\ batch' = batch /\ step' = "promote"
      /\ lane' = 1 /\ promoted' = 0 /\ count' = 0 /\ left' = 0 /\ room' = Zero
      /\ picks' = << >> /\ open' = << >> /\ dry' = {}
      /\ UNCHANGED <<redis, permits, held, channel, slot, freed, cancel, credit, batch,
                     everyLane, none, quiet>>
  BY DEF AllSent, consumer
<1>2. Balance' /\ Ended' /\ BatchSent' /\ ReadsLeft' /\ RoomLeft'
  BY <1>1, IdleKeeps DEF Reading
<1>3. Zero \in [Lanes -> Nat] /\ 0 \in 0..Prefetch /\ 0 \in Nat
  BY LoopAssumption DEF Zero
<1>4. TypeOK'
  BY <1>1, <1>3, LanesAre, EmptySeq DEF LoopInv, TypeOK, Steps, redis
<1> QED BY <1>2, <1>4 DEF LoopInv

LEMMA PromoteKeeps == ASSUME LoopInv, Promote, config' = config PROVE LoopInv'
<1>1. /\ step = "promote" /\ batch' = batch /\ step' \in {"promote", "check"}
      /\ promoted' = promoted + due[lane] /\ picks' = picks
      /\ waiting' = [waiting EXCEPT ![lane] = @ + due[lane]]
      /\ due' = [due EXCEPT ![lane] = 0]
      /\ \/ lane < NumLanes /\ lane' = lane + 1
         \/ lane' = lane
      /\ UNCHANGED <<idle, permits, held, channel, slot, freed, cancel, count, left, room,
                     picks, open, credit, batch, dry, everyLane, none, quiet>>
  BY DEF Promote, consumer
<1>2. batch = << >> /\ picks = << >>
  BY <1>1 DEF LoopInv, BatchSent, ReadsLeft, Reading
<1>3. Balance' /\ Ended' /\ BatchSent' /\ ReadsLeft' /\ RoomLeft'
  BY <1>1, <1>2, IdleKeeps DEF Reading
<1>4. /\ waiting \in [Lanes -> Nat] /\ due \in [Lanes -> Nat] /\ lane \in Lanes /\ promoted \in Nat
  BY DEF LoopInv, TypeOK
<1>5. lane' \in Lanes
  <2>1. CASE lane < NumLanes /\ lane' = lane + 1
    <3>1. lane + 1 \in Int /\ 1 <= lane + 1 /\ lane + 1 <= NumLanes
      BY <1>4, <2>1, LanesAre
    <3> QED BY <2>1, <3>1, LanesAre
  <2> QED BY <1>1, <1>4, <2>1
<1>6. waiting' \in [Lanes -> Nat] /\ due' \in [Lanes -> Nat] /\ promoted' \in Nat
  <2>1. due[lane] \in Nat /\ waiting[lane] + due[lane] \in Nat
    BY <1>4
  <2>2. waiting' \in [Lanes -> Nat]
    BY <1>1, <1>4, <2>1
  <2>3. due' \in [Lanes -> Nat]
    BY <1>1, <1>4
  <2> QED BY <1>1, <1>4, <2>1, <2>2, <2>3
<1>7. TypeOK'
  BY <1>1, <1>5, <1>6 DEF LoopInv, TypeOK, Steps
<1> QED BY <1>3, <1>7 DEF LoopInv

LEMMA CheckKeeps == ASSUME LoopInv, Check, config' = config PROVE LoopInv'
<1>1. /\ step = "check" /\ cancel' \in BOOLEAN
      /\ step' \in {"left", "top"} /\ (step' = "left" => cancel')
      /\ UNCHANGED <<redis, permits, held, channel, slot, freed, reader, flags, quiet>>
  BY DEF LoopInv, TypeOK, Check, consumer
<1>2. batch = << >> /\ picks = << >> /\ batch' = << >> /\ picks' = << >>
  BY <1>1 DEF LoopInv, BatchSent, ReadsLeft, Reading, reader
<1>3. Balance' /\ Ended' /\ BatchSent' /\ ReadsLeft' /\ RoomLeft'
  BY <1>1, <1>2, IdleKeeps DEF Reading
<1>4. TypeOK'
  BY <1>1 DEF LoopInv, TypeOK, Steps, redis, reader, flags
<1> QED BY <1>3, <1>4 DEF LoopInv

LEMMA LeaveKeeps == ASSUME LoopInv, Leave, config' = config PROVE LoopInv'
<1>1. /\ step = "left" /\ freed = {} /\ \A s \in Slots : slot[s] = 0
      /\ waiting' = [l \in Lanes |-> waiting[l] + Count(channel, l)]
      /\ channel' = << >> /\ step' = "gone"
      /\ UNCHANGED <<idle, due, permits, held, slot, freed, cancel, reader, flags, quiet>>
  BY DEF Leave, consumer
<1>2. /\ batch = << >> /\ picks = << >> /\ cancel /\ ~Reading /\ ~Reading' /\ permits \in Nat
      /\ batch' = batch /\ picks' = picks
  BY <1>1, LoopAssumption DEF LoopInv, TypeOK, BatchSent, ReadsLeft, Reading, Ended, reader
<1>3. waiting' \in [Lanes -> Nat]
  <2>1. \A l \in Lanes : waiting[l] \in Nat /\ Count(channel, l) \in Nat
    BY CountBounded DEF LoopInv, TypeOK
  <2> QED BY <1>1, <2>1
<1>4. TypeOK'
  BY <1>1, <1>3, EmptySeq DEF LoopInv, TypeOK, Steps, reader, flags
<1>5. Balance' /\ Ended' /\ BatchSent'
  BY <1>1, <1>2 DEF Balance, Ended, BatchSent
<1>6. ReadsLeft'
  BY <1>1, <1>2, EmptySeq DEF ReadsLeft, Reading
<1>7. RoomLeft'
  BY <1>1, <1>2 DEF LoopInv, RoomLeft, Limits, reader
<1> QED BY <1>4, <1>5, <1>6, <1>7 DEF LoopInv

-----------------------------------------------------------------------------
(* The consumers and everyone else keep it.                                *)

\* A consumer changes the balance, and gives permits and room, never takes any.
LEMMA ConsumerKeeps ==
  ASSUME LoopInv, step # "gone", config' = config, TypeOK', Balance', permits' >= permits,
         \A s \in freed' : slot'[s] = 0,
         \A l \in Lanes : held'[l] <= held[l],
         UNCHANGED <<redis, cancel, step, reader, flags, quiet>>
  PROVE  LoopInv'
<1>1. permits \in Nat /\ permits' \in Nat
  BY LoopAssumption DEF LoopInv, TypeOK
<1>2. Ended' /\ BatchSent'
  <2>1. step' = step /\ cancel' = cancel /\ batch' = batch
    BY DEF reader
  <2> QED BY <2>1 DEF LoopInv, Ended, BatchSent, Reading
<1>3. Len(batch) \in Nat /\ count \in Nat
  BY LenProperties, LoopAssumption DEF LoopInv, TypeOK
<1>4. ReadsLeft'
  BY <1>1, <1>3 DEF LoopInv, ReadsLeft, Reading, Owed, Weighted, Weights, reader
<1>5. ASSUME NEW l \in Lanes
      PROVE  Count(batch', l) + held'[l] + (IF Reading' THEN room'[l] ELSE 0) <= Limits'[l]
  <2>1. batch' = batch /\ Reading' = Reading /\ room' = room /\ Limits' = Limits
    BY DEF Reading, Limits, reader
  <2>2. /\ Count(batch, l) \in Nat /\ held[l] \in Nat /\ held'[l] \in Nat
        /\ room[l] \in Nat /\ Limits[l] \in Nat
    <3>1. held'[l] \in Nat
      BY LoopAssumption DEF TypeOK
    <3> QED BY <3>1, LaneNumbers DEF LoopInv
  <2>3. Count(batch, l) + held[l] + (IF Reading THEN room[l] ELSE 0) <= Limits[l]
    BY DEF LoopInv, RoomLeft
  <2>4. held'[l] <= held[l]
    OBVIOUS
  <2>5. CASE Reading
    BY <2>1, <2>2, <2>3, <2>4, <2>5
  <2>6. CASE ~Reading
    BY <2>1, <2>2, <2>3, <2>4, <2>6
  <2> QED BY <2>5, <2>6
<1> QED BY <1>2, <1>4, <1>5 DEF LoopInv, RoomLeft

LEMMA TakeMsgKeeps ==
  ASSUME LoopInv, NEW s \in Slots, TakeMsg(s), config' = config PROVE LoopInv'
<1> DEFINE h == Head(channel)
<1>1. /\ slot[s] = 0 /\ channel # << >> /\ slot' = [slot EXCEPT ![s] = h]
      /\ channel' = Tail(channel)
      /\ UNCHANGED <<redis, permits, held, freed, cancel, step, reader, flags, quiet>>
  BY DEF TakeMsg
<1>2. step # "gone" /\ step' # "gone"
  BY <1>1 DEF LoopInv, Ended
<1>3. /\ channel \in Seq(Lanes) /\ channel' \in Seq(Lanes) /\ h \in Lanes
      /\ Len(channel') = Len(channel) - 1 /\ Len(channel) \in Nat
      /\ \A l \in Lanes : Count(channel, l) = Count(channel', l) + (IF h = l THEN 1 ELSE 0)
      /\ \A l \in Lanes : Count(channel', l) \in Nat
  <2>1. channel \in Seq(Lanes)
    BY DEF LoopInv, TypeOK
  <2>2. h \in Lanes /\ channel' \in Seq(Lanes) /\ Len(channel') = Len(channel) - 1
    BY <1>1, <2>1, HeadTailProperties
  <2>3. \A l \in Lanes : Count(channel, l) = Count(channel', l) + (IF h = l THEN 1 ELSE 0)
    BY <1>1, <2>1, CountTail
  <2> QED BY <2>1, <2>2, <2>3, LenProperties, CountBounded
<1> HIDE DEF h
<1>4. /\ Cardinality(Running)' = Cardinality(Running) + 1
      /\ \A l \in Lanes : Number(l)' = Number(l) + (IF h = l THEN 1 ELSE 0)
  BY <1>1, <1>3, SlotTaken DEF LoopInv
<1>5. /\ Busy = Cardinality(Running) + Cardinality(freed)
      /\ Cardinality(Running) \in Nat /\ Cardinality(freed) \in Nat
      /\ \A l \in Lanes : Number(l) \in Nat
  BY BusyBounds DEF LoopInv
<1>6. Busy' = Busy + 1
  <2>1. Busy' = Cardinality(Running)' + Cardinality(freed)
    BY <1>1 DEF Busy, Running
  <2> QED BY <1>4, <1>5, <2>1
<1>7. /\ permits = Prefetch - Len(channel) - Busy /\ Prefetch \in Nat /\ permits \in Nat
      /\ \A l \in Lanes : held[l] = Count(channel, l) + Number(l)
  BY <1>2, LoopAssumption DEF LoopInv, Balance, TypeOK
<1>8. Balance'
  <2>1. permits' = Prefetch - Len(channel') - Busy'
    BY <1>1, <1>3, <1>5, <1>6, <1>7
  <2>2. ASSUME NEW l \in Lanes PROVE held'[l] = Count(channel', l) + Number(l)'
    <3>1. held' = held /\ Number(l) \in Nat /\ Count(channel', l) \in Nat
      BY <1>1, <1>3, <1>5
    <3>2. held[l] = Count(channel', l) + (IF h = l THEN 1 ELSE 0) + Number(l)
      BY <1>3, <1>7
    <3>3. Number(l)' = Number(l) + (IF h = l THEN 1 ELSE 0)
      BY <1>4
    <3> QED BY <3>1, <3>2, <3>3
  <2> QED BY <2>1, <2>2 DEF Balance
<1>9. TypeOK'
  BY <1>1, <1>3 DEF LoopInv, TypeOK, redis, reader, flags
<1>10. \A v \in freed' : slot'[v] = 0
  <2>1. slot \in [Slots -> Lanes \cup {0}] /\ freed \subseteq Slots /\ s \notin freed
        /\ \A v \in freed : slot[v] = 0
    BY DEF LoopInv, TypeOK, Ended, TakeMsg
  <2> QED BY <1>1, <2>1
<1>11. permits' >= permits /\ \A l \in Lanes : held'[l] <= held[l]
  <2>1. \A l \in Lanes : held[l] \in Nat
    BY LaneNumbers DEF LoopInv
  <2> QED BY <1>1, <1>7, <2>1
<1> QED BY <1>1, <1>2, <1>8, <1>9, <1>10, <1>11, ConsumerKeeps

LEMMA RunEndsKeeps ==
  ASSUME LoopInv, NEW s \in Slots, RunEnds(s), config' = config PROVE LoopInv'
<1> DEFINE h == slot[s]
<1>1. /\ slot[s] # 0 /\ slot' = [slot EXCEPT ![s] = 0] /\ held' = [held EXCEPT ![h] = @ - 1]
      /\ freed' = freed \cup {s}
      /\ UNCHANGED <<redis, permits, channel, cancel, step, reader, flags, quiet>>
  BY DEF RunEnds
<1>2. step # "gone" /\ step' # "gone"
  BY <1>1 DEF LoopInv, Ended
<1>3. /\ h \in Lanes /\ Cardinality(Running) = Cardinality(Running)' + 1
      /\ \A l \in Lanes : Number(l) = Number(l)' + (IF h = l THEN 1 ELSE 0)
  BY <1>1, SlotFreed DEF LoopInv
<1> HIDE DEF h
<1>4. /\ Busy = Cardinality(Running) + Cardinality(freed)
      /\ Cardinality(Running) \in Nat /\ Cardinality(freed) \in Nat
      /\ \A l \in Lanes : Number(l) \in Nat
  BY BusyBounds DEF LoopInv
<1>5. /\ permits = Prefetch - Len(channel) - Busy /\ Prefetch \in Nat /\ permits \in Nat
      /\ held \in [Lanes -> 0..Prefetch] /\ channel \in Seq(Lanes)
      /\ \A l \in Lanes : held[l] = Count(channel, l) + Number(l)
  BY <1>2, LoopAssumption DEF LoopInv, Balance, TypeOK
<1>6. /\ \A l \in Lanes : Number(l)' \in Nat /\ Count(channel, l) \in Nat
      /\ Cardinality(Running)' \in Nat /\ Cardinality(freed') \in Nat
  <2>1. \A l \in Lanes : Count(channel, l) \in Nat
    BY <1>5, CountBounded
  <2>2. \A l \in Lanes : Number(l)' \in Nat
    BY SlotsFinite DEF Number
  <2>3. freed' \subseteq Slots
    BY <1>1 DEF LoopInv, TypeOK
  <2>4. Running' \subseteq Slots
    BY DEF Running
  <2> QED BY <2>1, <2>2, <2>3, <2>4, SlotsFinite
<1>7. Cardinality(freed') = Cardinality(freed) + 1
  <2>1. IsFiniteSet(freed) /\ s \notin freed
    BY <1>1, SlotsFinite DEF LoopInv, TypeOK, Ended
  <2> QED BY <1>1, <2>1, FS_AddElement
<1>8. Busy' = Busy
  <2>1. Busy' = Cardinality(Running)' + Cardinality(freed')
    BY DEF Busy, Running
  <2> QED BY <1>3, <1>4, <1>6, <1>7, <2>1
<1>9. \A l \in Lanes : held'[l] = held[l] - (IF h = l THEN 1 ELSE 0)
  BY <1>1, <1>5
<1>10. Balance'
  <2>1. permits' = Prefetch - Len(channel') - Busy'
    BY <1>1, <1>5, <1>8
  <2>2. ASSUME NEW l \in Lanes PROVE held'[l] = Count(channel', l) + Number(l)'
    <3>1. /\ held[l] = Count(channel, l) + Number(l) /\ Number(l)' \in Nat
          /\ Count(channel, l) \in Nat /\ channel' = channel
      BY <1>1, <1>5, <1>6
    <3> QED BY <1>3, <1>9, <3>1
  <2> QED BY <2>1, <2>2 DEF Balance
<1>11. held' \in [Lanes -> 0..Prefetch]
  <2>1. ASSUME NEW l \in Lanes, l = h PROVE held[l] - 1 \in 0..Prefetch
    <3>1. held[l] = Count(channel, l) + Number(l) /\ held[l] \in 0..Prefetch
      BY <1>5
    <3>2. Number(l) = Number(l)' + 1
      BY <1>3, <2>1
    <3>3. Count(channel, l) \in Nat /\ Number(l)' \in Nat
      BY <1>6
    <3> QED BY <1>5, <3>1, <3>2, <3>3
  <2>2. held[h] - 1 \in 0..Prefetch
    BY <1>3, <2>1
  <2> QED BY <1>1, <1>3, <1>5, <2>2
<1>12. TypeOK'
  BY <1>1, <1>11 DEF LoopInv, TypeOK, redis, reader, flags
<1>13. \A v \in freed' : slot'[v] = 0
  <2>1. slot \in [Slots -> Lanes \cup {0}] /\ freed \subseteq Slots
        /\ \A v \in freed : slot[v] = 0
    BY DEF LoopInv, TypeOK, Ended
  <2> QED BY <1>1, <2>1
<1>14. permits' >= permits /\ \A l \in Lanes : held'[l] <= held[l]
  BY <1>1, <1>5, <1>9
<1> QED BY <1>1, <1>2, <1>10, <1>12, <1>13, <1>14, ConsumerKeeps

LEMMA FreePermitKeeps ==
  ASSUME LoopInv, NEW s \in Slots, FreePermit(s), config' = config PROVE LoopInv'
<1>1. /\ s \in freed /\ permits' = permits + 1 /\ freed' = freed \ {s}
      /\ UNCHANGED <<redis, held, channel, slot, cancel, step, reader, flags, quiet>>
  BY DEF FreePermit
<1>2. step # "gone" /\ step' # "gone"
  BY <1>1 DEF LoopInv, Ended
<1>3. /\ Busy = Cardinality(Running) + Cardinality(freed)
      /\ Cardinality(Running) \in Nat /\ Cardinality(freed) \in Nat
      /\ Cardinality(freed) >= 1
  BY <1>1, BusyBounds DEF LoopInv
<1>4. /\ permits = Prefetch - Len(channel) - Busy /\ Prefetch \in Nat /\ permits \in Nat
      /\ held \in [Lanes -> 0..Prefetch] /\ Len(channel) \in Nat
      /\ \A l \in Lanes : held[l] = Count(channel, l) + Number(l)
  BY <1>2, LoopAssumption, LenProperties DEF LoopInv, Balance, TypeOK
<1>5. Cardinality(freed') = Cardinality(freed) - 1
  <2>1. IsFiniteSet(freed)
    BY SlotsFinite DEF LoopInv, TypeOK
  <2> QED BY <1>1, <2>1, FS_RemoveElement
<1>6. Busy' = Busy - 1
  <2>1. Busy' = Cardinality(Running) + Cardinality(freed')
    BY <1>1 DEF Busy, Running
  <2> QED BY <1>3, <1>5, <2>1
<1>7. Balance'
  <2>1. permits' = Prefetch - Len(channel') - Busy'
    BY <1>1, <1>3, <1>4, <1>6
  <2>2. \A l \in Lanes : held'[l] = Count(channel', l) + Number(l)'
    BY <1>1, <1>4 DEF Number
  <2> QED BY <2>1, <2>2 DEF Balance
<1>8. permits' \in 0..Prefetch
  BY <1>1, <1>3, <1>4
<1>9. TypeOK'
  BY <1>1, <1>8 DEF LoopInv, TypeOK, redis, reader, flags
<1>10. \A v \in freed' : slot'[v] = 0
  BY <1>1 DEF LoopInv, Ended
<1>11. permits' >= permits /\ \A l \in Lanes : held'[l] <= held[l]
  BY <1>1, <1>4
<1> QED BY <1>1, <1>2, <1>7, <1>9, <1>10, <1>11, ConsumerKeeps

\* What changes in Redis, or a stop, is none of the invariant's business.
LEMMA OutsideKeeps ==
  ASSUME LoopInv, config' = config, TypeOK', cancel => cancel',
         UNCHANGED <<permits, held, channel, consumer, step, reader, flags>>
  PROVE  LoopInv'
<1>1. UNCHANGED <<permits, held, channel, slot, freed>>
  BY DEF consumer
<1>2. Balance'
  BY <1>1 DEF LoopInv, Balance, Busy, Number
<1>3. Ended' /\ BatchSent'
  BY <1>1 DEF LoopInv, Ended, BatchSent, Reading, reader
<1>4. ReadsLeft'
  BY <1>1 DEF LoopInv, ReadsLeft, Reading, Owed, Weighted, Weights, reader
<1>5. RoomLeft'
  BY <1>1 DEF LoopInv, RoomLeft, Reading, Limits, reader
<1> QED BY <1>2, <1>3, <1>4, <1>5 DEF LoopInv

LEMMA OthersKeep == ASSUME LoopInv, Others PROVE LoopInv'
<1>1. config' = config
  BY DEF Others
<1>2. /\ waiting \in [Lanes -> Nat] /\ idle \in [Lanes -> Nat] /\ due \in [Lanes -> Nat]
      /\ quiet \in BOOLEAN
  BY DEF LoopInv, TypeOK
<1>3. CASE Stop
  <2>1. TypeOK'
    BY <1>1, <1>3 DEF Stop, LoopInv, TypeOK, redis, consumer, reader, flags
  <2> QED BY <1>1, <1>3, <2>1, OutsideKeeps DEF Stop
<1>4. CASE \E l \in Lanes : Arrive(l) \/ BecomeDue(l) \/ BecomeIdle(l) \/ Taken(l)
  <2>1. PICK l \in Lanes : Arrive(l) \/ BecomeDue(l) \/ BecomeIdle(l) \/ Taken(l)
    BY <1>4
  <2>2. waiting[l] \in Nat /\ idle[l] \in Nat /\ due[l] \in Nat
    BY <1>2
  <2>3. Elsewhere
    BY <2>1 DEF Arrive, BecomeDue, BecomeIdle, Taken
  <2>4. /\ waiting' \in [Lanes -> Nat] /\ idle' \in [Lanes -> Nat] /\ due' \in [Lanes -> Nat]
        /\ quiet' \in BOOLEAN
    <3>1. CASE Arrive(l)
      <4>1. waiting' = [waiting EXCEPT ![l] = @ + 1] /\ quiet' = FALSE /\ UNCHANGED <<idle, due>>
        BY <3>1 DEF Arrive
      <4>2. waiting' \in [Lanes -> Nat]
        BY <1>2, <2>2, <4>1
      <4> QED BY <1>2, <4>1, <4>2
    <3>2. CASE BecomeDue(l)
      <4>1. due' = [due EXCEPT ![l] = @ + 1] /\ quiet' = FALSE /\ UNCHANGED <<waiting, idle>>
        BY <3>2 DEF BecomeDue
      <4>2. due' \in [Lanes -> Nat]
        BY <1>2, <2>2, <4>1
      <4> QED BY <1>2, <4>1, <4>2
    <3>3. CASE BecomeIdle(l)
      <4>1. idle' = [idle EXCEPT ![l] = @ + 1] /\ quiet' = FALSE /\ UNCHANGED <<waiting, due>>
        BY <3>3 DEF BecomeIdle
      <4>2. idle' \in [Lanes -> Nat]
        BY <1>2, <2>2, <4>1
      <4> QED BY <1>2, <4>1, <4>2
    <3>4. CASE Taken(l)
      <4>1. CASE waiting[l] > 0 /\ waiting' = [waiting EXCEPT ![l] = @ - 1]
                 /\ UNCHANGED <<idle, due, quiet>>
        BY <1>2, <2>2, <4>1
      <4>2. CASE idle[l] > 0 /\ idle' = [idle EXCEPT ![l] = @ - 1]
                 /\ UNCHANGED <<waiting, due, quiet>>
        BY <1>2, <2>2, <4>2
      <4>3. CASE /\ due' = [due EXCEPT ![l] = 0] /\ waiting' = [waiting EXCEPT ![l] = @ + due[l]]
                 /\ quiet' = FALSE /\ UNCHANGED idle
        <5>1. waiting[l] + due[l] \in Nat
          BY <2>2
        <5>2. waiting' \in [Lanes -> Nat]
          BY <1>2, <4>3, <5>1
        <5> QED BY <1>2, <4>3, <5>2
      <4> QED BY <3>4, <4>1, <4>2, <4>3 DEF Taken
    <3> QED BY <2>1, <3>1, <3>2, <3>3, <3>4
  <2>5. TypeOK'
    BY <1>1, <2>3, <2>4 DEF LoopInv, TypeOK, Elsewhere, consumer, reader, flags
  <2> QED BY <1>1, <2>3, <2>5, OutsideKeeps DEF Elsewhere
<1> QED BY <1>3, <1>4 DEF Others

LEMMA LoopInvKept == LoopInv /\ [Next]_vars => LoopInv'
<1> SUFFICES ASSUME LoopInv, [Next]_vars PROVE LoopInv'
  OBVIOUS
<1>1. CASE ProducerStep
  BY <1>1, TopKeeps, WaitKeeps, ClaimKeeps, PickKeeps, NewStrictKeeps, NewShareKeeps,
     NewSpareKeeps, SpareDoneKeeps, BlockKeeps, SendKeeps, AllSentKeeps, PromoteKeeps,
     CheckKeeps, LeaveKeeps DEF ProducerStep
<1>2. ASSUME NEW s \in Slots, ConsumerStep(s) PROVE LoopInv'
  BY <1>2, TakeMsgKeeps, RunEndsKeeps, FreePermitKeeps DEF ConsumerStep
<1>3. CASE Others
  BY <1>3, OthersKeep
<1>4. CASE UNCHANGED vars
  <2>1. TypeOK'
    BY <1>4 DEF LoopInv, TypeOK, vars, redis, consumer, reader, flags
  <2> QED BY <1>4, <2>1, OutsideKeeps DEF vars
<1> QED BY <1>1, <1>2, <1>3, <1>4 DEF Next

-----------------------------------------------------------------------------
(* The theorems.                                                           *)

\* The inductive invariant holds in every state.
THEOREM LoopInductive == Spec => []LoopInv
<1> QED BY LoopInvStarts, LoopInvKept, PTL DEF Spec

\* Every variable keeps its type: no permit and no place in a lane goes below zero
\* or above what the worker has (RunState of worker.rs).
THEOREM LoopTypes == Spec => []TypeOK
<1>1. LoopInv => TypeOK
  BY DEF LoopInv
<1> QED BY <1>1, LoopInductive, PTL

\* The permits and the lanes' places are exactly those of what the worker holds,
\* between any two steps of the producer and the consumers (worker.rs).
THEOREM CountersTell == Spec => []Balance
<1>1. LoopInv => Balance
  BY DEF LoopInv
<1> QED BY <1>1, LoopInductive, PTL

\* What is read, prefetched or running is never more than prefetch, so that a
\* send into the channel of that size never waits (worker.rs).
THEOREM PrefetchBounds == Spec => []WithinPrefetch
<1>1. ASSUME LoopInv PROVE WithinPrefetch
  <2>1. /\ Len(batch) \in Nat /\ Len(channel) \in Nat /\ Busy \in Nat /\ Prefetch \in Nat
        /\ permits \in Nat
    BY <1>1, LenProperties, BusyBounds, LoopAssumption DEF LoopInv, TypeOK
  <2>2. CASE step = "gone"
    <3>1. batch = << >> /\ channel = << >> /\ Running = {} /\ freed = {}
      BY <1>1, <2>2 DEF LoopInv, Ended, BatchSent, Reading, Running
    <3>2. Cardinality(Running) = 0 /\ Cardinality(freed) = 0
      BY <3>1, FS_EmptySet
    <3>3. Busy = 0 /\ Len(batch) = 0 /\ Len(channel) = 0
      BY <3>1, <3>2, EmptySeq DEF Busy, Running
    <3> QED BY <2>1, <3>3 DEF WithinPrefetch
  <2>3. CASE step # "gone"
    <3>1. Len(batch) <= permits
      <4>1. CASE Reading
        <5>1. Len(batch) + Owed = count /\ count <= permits /\ count \in Nat
          BY <1>1, <4>1, LoopAssumption DEF LoopInv, ReadsLeft, TypeOK
        <5>2. Owed \in Nat
          <6>1. left \in Nat /\ Len(picks) \in Nat
            BY <1>1, LenProperties, LoopAssumption DEF LoopInv, TypeOK
          <6>2. Ahead(picks, lane) \in Nat
            <7>1. picks \in Seq(Lanes) /\ lane \in Lanes
              BY <1>1 DEF LoopInv, TypeOK
            <7>2. {i \in DOMAIN picks : picks[i] >= lane} \subseteq 1..Len(picks)
              BY <7>1, LenProperties
            <7> QED BY <6>1, <7>2, IndicesFinite DEF Ahead
          <6> QED BY <6>1, <6>2 DEF Owed
        <5> QED BY <2>1, <5>1, <5>2
      <4>2. CASE step = "send"
        BY <1>1, <4>2 DEF LoopInv, ReadsLeft
      <4>3. CASE ~Reading /\ step # "send"
        BY <1>1, <2>1, <4>3, EmptySeq DEF LoopInv, BatchSent
      <4> QED BY <4>1, <4>2, <4>3
    <3>2. permits = Prefetch - Len(channel) - Busy
      BY <1>1, <2>3 DEF LoopInv, Balance
    <3> QED BY <2>1, <3>1, <3>2 DEF WithinPrefetch
  <2> QED BY <2>2, <2>3
<1> QED BY <1>1, LoopInductive, PTL

\* No more of a lane is read, prefetched or running than its limit (room_in of
\* worker.rs, read_batch of queue.rs).
THEOREM LimitsAreKept == Spec => []LimitsKept
<1>1. ASSUME LoopInv PROVE LimitsKept
  <2>1. ASSUME NEW l \in Lanes
        PROVE  Count(batch, l) + Count(channel, l) + Number(l) <= Limits[l]
    <3>1. /\ Count(batch, l) \in Nat /\ Count(channel, l) \in Nat /\ Number(l) \in Nat
          /\ held[l] \in Nat /\ room[l] \in Nat /\ Limits[l] \in Nat
      BY <1>1, LaneNumbers DEF LoopInv
    <3>2. Count(batch, l) + held[l] + (IF Reading THEN room[l] ELSE 0) <= Limits[l]
      BY <1>1 DEF LoopInv, RoomLeft
    <3>3. CASE step = "gone"
      <4>1. batch = << >> /\ channel = << >> /\ {s \in Slots : slot[s] = l} = {}
        BY <1>1, <3>3, LanesAre DEF LoopInv, Ended, BatchSent, Reading
      <4>2. Number(l) = 0
        BY <4>1, FS_EmptySet DEF Number
      <4>3. Count(batch, l) = 0 /\ Count(channel, l) = 0
        BY <4>1, CountEmpty
      <4> QED BY <3>1, <4>2, <4>3
    <3>4. CASE step # "gone"
      <4>1. held[l] = Count(channel, l) + Number(l)
        BY <1>1, <3>4 DEF LoopInv, Balance
      <4> QED BY <3>1, <3>2, <4>1
    <3> QED BY <3>3, <3>4
  <2> QED BY <2>1 DEF LimitsKept
<1> QED BY <1>1, LoopInductive, PTL

-----------------------------------------------------------------------------
(* No lane is left behind.                                                 *)

\* The last read of the lane came back short, or the lane is at its limit.
Satisfied(l) == room[l] = 0 \/ l \in dry
Satisfies(l) == room'[l] = 0 \/ l \in dry'  \* after the step

\* So far as read_batch has come: what it has passed is satisfied, or still open
\* to the spare reads while there are any.
LanesSeen ==
  /\ step \in {"claim", "new"} /\ ~Weighted => \A l \in Lanes : l < lane => Satisfied(l)
  /\ step = "new" /\ Weighted =>
       \A l \in Lanes : l < lane => Satisfied(l) \/ Count(open, l) > 0
  /\ step = "spare" => left = 0 \/ \A l \in Lanes : Satisfied(l) \/ Count(open, l) > 0

\* The part of NoneLeftBehind that is about one step.
LeavesNone ==
  /\ step \in {"claim", "new", "spare"} /\ step' \in {"send", "block"} /\ Len(batch') < count
  => \A l \in Lanes : Satisfies(l)

LEMMA ReadSatisfies ==
  ASSUME TypeOK, NEW l \in Lanes, NEW ask \in Nat, NEW got \in Nat, got <= ask,
         ask <= room[l], Took(l, ask, got)
  PROVE  /\ got < ask \/ ask = room[l] => Satisfies(l)
         /\ \A m \in Lanes : m # l => Satisfies(m) = Satisfied(m)
<1>1. room \in [Lanes -> Nat] /\ room' = [room EXCEPT ![l] = @ - got]
      /\ dry' = IF got < ask THEN dry \cup {l} ELSE dry \ {l}
  BY DEF TypeOK, Took
<1>2. room'[l] = room[l] - got /\ room[l] \in Nat
  BY <1>1
<1>3. got < ask \/ ask = room[l] => room'[l] = 0 \/ l \in dry'
  BY <1>1, <1>2
<1>4. \A m \in Lanes : m # l => room'[m] = room[m] /\ (m \in dry' <=> m \in dry)
  BY <1>1
<1> QED BY <1>3, <1>4 DEF Satisfied, Satisfies

LEMMA StrictSees ==
  ASSUME LoopInv, LanesSeen, ~Weighted, config' = config, step \in {"claim", "new"},
         NEW got \in Nat, NEW ask \in Nat, got <= ask, ask = Least(left, room[lane]),
         Took(lane, ask, got), left' = left - got,
         (got < ask /\ step' = "new" /\ lane' = lane) \/ NextLane
  PROVE  LanesSeen' /\ LeavesNone
<1>1. /\ lane \in Lanes /\ left \in Nat /\ room[lane] \in Nat /\ Len(batch) \in Nat
      /\ batch \in Seq(Lanes) /\ count \in Nat
  BY LoopAssumption, LenProperties DEF LoopInv, TypeOK
<1>2. ask <= left /\ ask <= room[lane] /\ ask \in {left, room[lane]}
  BY <1>1, LeastIs
<1>3. /\ got < ask \/ ask = room[lane] => Satisfies(lane)
      /\ \A m \in Lanes : m # lane => Satisfies(m) = Satisfied(m)
  BY <1>1, <1>2, ReadSatisfies DEF LoopInv
<1>4. \A m \in Lanes : m < lane => Satisfies(m)
  <2>1. \A m \in Lanes : m < lane => Satisfied(m) /\ m # lane
    BY <1>1, LanesAre DEF LanesSeen
  <2> QED BY <1>3, <2>1
<1>5. left' > 0 => Satisfies(lane)
  <2>1. left' > 0 => got < ask \/ ask = room[lane]
    BY <1>1, <1>2
  <2> QED BY <1>3, <2>1
<1>6. ~Weighted'
  BY DEF Weighted, Weights
<1>7. CASE step' = "new" /\ lane' = lane
  BY <1>4, <1>6, <1>7 DEF LanesSeen, LeavesNone, Satisfied, Satisfies
<1>8. CASE lane < NumLanes /\ left' > 0 /\ step' = "claim" /\ lane' = lane + 1
  <2>1. \A m \in Lanes : m < lane' => m < lane \/ m = lane
    BY <1>1, <1>8, LanesAre
  <2>2. \A m \in Lanes : m < lane' => Satisfies(m)
    BY <1>4, <1>5, <1>8, <2>1
  <2> QED BY <1>6, <1>8, <2>2 DEF LanesSeen, LeavesNone, Satisfied, Satisfies
<1>9. CASE (lane = NumLanes \/ left' = 0) /\ step' = Returned(batch')
  <2>1. step' \in {"block", "send"}
    BY <1>9 DEF Returned
  <2>2. Len(batch') + left' = count
    <3>1. Len(batch) + left = count
      BY <1>1 DEF LoopInv, ReadsLeft, Reading, Owed
    <3>2. Len(batch') = Len(batch) + got
      BY <1>1, CountCopies DEF Took
    <3> QED BY <1>1, <3>1, <3>2
  <2>3. ASSUME Len(batch') < count, NEW m \in Lanes PROVE Satisfies(m)
    <3>1. left' > 0
      <4>1. left' \in Nat /\ Len(batch') \in Nat
        <5>1. batch' \in Seq(Lanes)
          BY <1>1, CountCopies DEF Took
        <5> QED BY <1>1, <1>2, <5>1, LenProperties
      <4> QED BY <1>1, <2>2, <2>3, <4>1
    <3>2. m < lane \/ m = lane
      BY <1>1, <1>9, <3>1, LanesAre
    <3> QED BY <1>4, <1>5, <3>1, <3>2
  <2> QED BY <2>1, <2>3 DEF LanesSeen, LeavesNone, Satisfied, Satisfies
<1> QED BY <1>7, <1>8, <1>9 DEF NextLane

LEMMA ClaimSees ==
  ASSUME LoopInv, LanesSeen, Claim, config' = config PROVE LanesSeen' /\ LeavesNone
<1> DEFINE take == Least(left, room[lane])
           got == Least(take, idle[lane])
<1>1. /\ lane \in Lanes /\ left \in Nat /\ room[lane] \in Nat /\ idle[lane] \in Nat
      /\ Len(batch) \in Nat /\ batch \in Seq(Lanes) /\ count \in Nat /\ step = "claim"
  BY LoopAssumption, LenProperties DEF LoopInv, TypeOK, Claim
<1>2. take \in Nat /\ take <= left /\ take <= room[lane]
  BY <1>1, LeastIs
<1>3. got \in Nat /\ got <= take
  <2> HIDE DEF take
  <2> QED BY <1>1, <1>2, LeastIs
<1>4. Took(lane, take, got)
  BY DEF Claim
<1>5. CASE ~Weighted
  <2>1. left' = left - got /\ ((got < take /\ step' = "new" /\ lane' = lane) \/ NextLane)
    BY <1>5 DEF Claim
  <2> HIDE DEF got
  <2> QED BY <1>1, <1>2, <1>3, <1>4, <1>5, <2>1, StrictSees
<1>6. CASE Weighted
  <2>1. Weighted'
    BY <1>6 DEF Weighted, Weights
  <2>2. \/ step' \in {"claim", "pick"}
        \/ step' = "send" /\ left = got
    BY <1>6 DEF Claim
  <2>3. LanesSeen'
    BY <2>1, <2>2 DEF LanesSeen
  <2>4. Len(batch) + left = count
    BY <1>1 DEF LoopInv, ReadsLeft, Reading, Owed
  <2> HIDE DEF take, got
  <2>5. Len(batch') = Len(batch) + got
    BY <1>1, <1>3, <1>4, CountCopies DEF Took
  <2>6. step' = "send" => ~(Len(batch') < count)
    BY <1>1, <1>3, <2>2, <2>4, <2>5
  <2>7. step' # "block"
    BY <2>2
  <2> QED BY <2>3, <2>6, <2>7 DEF LeavesNone
<1> QED BY <1>5, <1>6

LEMMA NewStrictSees ==
  ASSUME LoopInv, LanesSeen, NewStrict, config' = config PROVE LanesSeen' /\ LeavesNone
<1> DEFINE ask == Least(left, room[lane])
           got == Least(ask, waiting[lane])
<1>1. /\ lane \in Lanes /\ left \in Nat /\ room[lane] \in Nat /\ waiting[lane] \in Nat
      /\ step = "new" /\ ~Weighted
  BY LoopAssumption DEF LoopInv, TypeOK, NewStrict
<1>2. ask \in Nat
  BY <1>1, LeastIs
<1>3. got \in Nat /\ got <= ask
  <2> HIDE DEF ask
  <2> QED BY <1>1, <1>2, LeastIs
<1>4. Took(lane, ask, got) /\ left' = left - got /\ NextLane
  BY DEF NewStrict
<1> HIDE DEF got
<1> QED BY <1>1, <1>2, <1>3, <1>4, StrictSees

LEMMA NewShareSees ==
  ASSUME LoopInv, LanesSeen, NewShare, config' = config PROVE LanesSeen' /\ LeavesNone
<1> DEFINE ask == Least(Count(picks, lane), room[lane])
           got == Least(ask, waiting[lane])
<1>1. /\ lane \in Lanes /\ room \in [Lanes -> Nat] /\ waiting \in [Lanes -> Nat]
      /\ step = "new" /\ Weighted /\ Weighted' /\ picks \in Seq(Lanes) /\ open \in Seq(Lanes)
  BY DEF LoopInv, TypeOK, NewShare, Weighted, Weights
<1>2. ask \in Nat /\ ask <= room[lane] /\ room[lane] \in Nat /\ waiting[lane] \in Nat
  <2>1. Count(picks, lane) \in Nat /\ room[lane] \in Nat /\ waiting[lane] \in Nat
    BY <1>1, CountBounded
  <2> QED BY <2>1, LeastIs
<1>3. got \in Nat /\ got <= ask
  <2> HIDE DEF ask
  <2> QED BY <1>2, LeastIs
<1>4. /\ Took(lane, ask, got)
      /\ open' = (IF got = ask /\ room[lane] > got THEN Append(open, lane) ELSE open)
      /\ \/ lane < NumLanes /\ lane' = lane + 1 /\ step' = step
         \/ lane = NumLanes /\ step' = "spare" /\ lane' = lane
  BY DEF NewShare
<1> HIDE DEF ask, got
<1>5. /\ got < ask \/ ask = room[lane] => Satisfies(lane)
      /\ \A m \in Lanes : m # lane => Satisfies(m) = Satisfied(m)
  BY <1>1, <1>2, <1>3, <1>4, ReadSatisfies DEF LoopInv
<1>6. \A m \in Lanes : /\ Count(open, m) \in Nat
                       /\ Count(Append(open, lane), m) = Count(open, m) + (IF lane = m THEN 1 ELSE 0)
  BY <1>1, CountBounded, CountAppend
<1>7. \A m \in Lanes : m < lane => Satisfies(m) \/ Count(open', m) > 0
  <2>1. \A m \in Lanes : m < lane => m # lane /\ (Satisfied(m) \/ Count(open, m) > 0)
    BY <1>1, LanesAre DEF LanesSeen
  <2>2. \A m \in Lanes : Count(open, m) > 0 => Count(open', m) > 0
    BY <1>4, <1>6
  <2> QED BY <1>5, <2>1, <2>2
<1>8. Satisfies(lane) \/ Count(open', lane) > 0
  <2>1. CASE got = ask /\ room[lane] > got
    <3>1. Count(open', lane) = Count(open, lane) + 1 /\ Count(open, lane) \in Nat
      BY <1>1, <1>4, <1>6, <2>1
    <3> QED BY <3>1
  <2>2. CASE ~(got = ask /\ room[lane] > got)
    <3>1. got < ask \/ ask = room[lane]
      BY <1>2, <1>3, <2>2
    <3> QED BY <1>5, <3>1
  <2> QED BY <2>1, <2>2
<1>9. CASE lane < NumLanes /\ lane' = lane + 1 /\ step' = step
  <2>1. \A m \in Lanes : m < lane' => m < lane \/ m = lane
    BY <1>1, <1>9, LanesAre
  <2>2. \A m \in Lanes : m < lane' => Satisfies(m) \/ Count(open', m) > 0
    BY <1>7, <1>8, <2>1
  <2> QED BY <1>1, <1>9, <2>2 DEF LanesSeen, LeavesNone, Satisfied, Satisfies
<1>10. CASE lane = NumLanes /\ step' = "spare"
  <2>1. \A m \in Lanes : m < lane \/ m = lane
    BY <1>1, <1>10, LanesAre
  <2>2. \A m \in Lanes : Satisfies(m) \/ Count(open', m) > 0
    BY <1>7, <1>8, <2>1
  <2> QED BY <1>10, <2>2 DEF LanesSeen, LeavesNone, Satisfied, Satisfies
<1> QED BY <1>4, <1>9, <1>10

LEMMA NewSpareSees ==
  ASSUME LoopInv, LanesSeen, NewSpare, config' = config PROVE LanesSeen' /\ LeavesNone
<1> DEFINE l == Head(open)
           ask == Least(left, room[l])
           got == Least(ask, waiting[l])
<1>1. /\ left \in Nat /\ left > 0 /\ room \in [Lanes -> Nat] /\ waiting \in [Lanes -> Nat]
      /\ step = "spare" /\ step' = "spare" /\ open \in Seq(Lanes) /\ open # << >>
  <2>1. left \in Nat /\ left > 0
    BY LoopAssumption DEF LoopInv, TypeOK, NewSpare
  <2> QED BY <2>1 DEF LoopInv, TypeOK, NewSpare
<1>2. l \in Lanes /\ Tail(open) \in Seq(Lanes)
  BY <1>1, HeadTailProperties
<1>3. room[l] \in Nat /\ waiting[l] \in Nat
  BY <1>1, <1>2
<1>4. ask \in Nat /\ ask <= left /\ ask <= room[l] /\ ask \in {left, room[l]}
  BY <1>1, <1>3, LeastIs
<1>5. got \in Nat /\ got <= ask
  <2> HIDE DEF ask
  <2> QED BY <1>3, <1>4, LeastIs
<1>6. Took(l, ask, got) /\ left' = left - got /\ open' = Tail(open)
  BY DEF NewSpare
<1>7. \A m : Count(open, m) = Count(open', m) + (IF l = m THEN 1 ELSE 0)
  BY <1>1, <1>6, CountTail
<1> HIDE DEF l, ask, got
<1>8. /\ got < ask \/ ask = room[l] => Satisfies(l)
      /\ \A m \in Lanes : m # l => Satisfies(m) = Satisfied(m)
  BY <1>2, <1>3, <1>4, <1>5, <1>6, ReadSatisfies DEF LoopInv
<1>9. ASSUME left' # 0, NEW m \in Lanes PROVE Satisfies(m) \/ Count(open', m) > 0
  <2>1. got < ask \/ ask = room[l]
    BY <1>1, <1>3, <1>4, <1>5, <1>6, <1>9
  <2>2. Satisfied(m) \/ Count(open, m) > 0
    BY <1>1 DEF LanesSeen
  <2>3. Count(open', m) \in Nat
    BY <1>2, <1>6, CountBounded
  <2>4. m # l => Count(open', m) = Count(open, m)
    BY <1>7, <2>3
  <2> QED BY <1>8, <2>1, <2>2, <2>4
<1> QED BY <1>1, <1>9 DEF LanesSeen, LeavesNone, Satisfied, Satisfies

LEMMA LanesSeenKept == LoopInv /\ LanesSeen /\ [Next]_vars => LanesSeen' /\ [LeavesNone]_vars
<1> SUFFICES ASSUME LoopInv, LanesSeen, [Next]_vars PROVE LanesSeen' /\ LeavesNone
  OBVIOUS
<1>1. ASSUME UNCHANGED <<config, step, reader>> PROVE LanesSeen' /\ LeavesNone
  BY <1>1 DEF LanesSeen, LeavesNone, Satisfied, Satisfies, Weighted, Weights, reader
<1>2. ASSUME step' \notin {"claim", "new", "spare"}, step \notin {"claim", "new", "spare"}
      PROVE  LanesSeen' /\ LeavesNone
  BY <1>2 DEF LanesSeen, LeavesNone, Satisfied, Satisfies
<1>3. CASE ProducerStep
  <2>1. CASE Top
    <3>1. step = "top" /\ step' \in {"left", "wait", "claim"} /\ (step' = "claim" => lane' = 1)
      BY <2>1 DEF Top
    <3>2. \A l \in Lanes : ~(l < 1)
      BY LanesAre
    <3> QED BY <3>1, <3>2 DEF LanesSeen, LeavesNone, Satisfied, Satisfies
  <2>2. CASE Pick
    <3>1. step = "pick" /\ step' \in {"pick", "new"} /\ lane = 1 /\ lane' = lane /\ Weighted
      BY <2>2 DEF Pick, LoopInv, ReadsLeft
    <3>2. Weighted'
      BY <1>3, <3>1 DEF ProducerStep, Weighted, Weights
    <3>3. \A l \in Lanes : ~(l < 1)
      BY LanesAre
    <3> QED BY <3>1, <3>2, <3>3 DEF LanesSeen, LeavesNone, Satisfied, Satisfies
  <2>3. CASE SpareDone
    <3>1. /\ step = "spare" /\ step' \in {"send", "block"} /\ UNCHANGED reader
          /\ open = << >> \/ left = 0
      BY <2>3 DEF SpareDone, Returned
    <3>2. ASSUME Len(batch') < count, NEW l \in Lanes PROVE Satisfied(l)
      <4>1. Len(batch) + left = count
        BY <3>1, LoopAssumption DEF LoopInv, TypeOK, ReadsLeft, Reading, Owed
      <4>2. batch' = batch /\ left \in Nat /\ Len(batch) \in Nat
        BY <3>1, LoopAssumption, LenProperties DEF LoopInv, TypeOK, reader
      <4>3. left # 0
        BY <3>2, <4>1, <4>2
      <4>4. Count(open, l) = 0
        BY <3>1, <4>3, CountEmpty
      <4> QED BY <3>1, <4>3, <4>4 DEF LanesSeen
    <3>3. LeavesNone
      BY <3>1, <3>2 DEF LeavesNone, Satisfied, Satisfies, reader
    <3> QED BY <3>1, <3>3 DEF LanesSeen
  <2>4. CASE Wait \/ Block \/ Send \/ AllSent \/ Promote \/ Check \/ Leave
    <3>1. step \in {"wait", "block", "send", "promote", "check", "left"}
      BY <2>4 DEF Wait, Block, Send, AllSent, Promote, Check, Leave
    <3>2. step' \in {"left", "send", "promote", "check", "top", "gone"}
      BY <2>4 DEF Wait, Block, Send, AllSent, Promote, Check, Leave
    <3> QED BY <1>2, <3>1, <3>2
  <2> QED BY <1>3, <2>1, <2>2, <2>3, <2>4, ClaimSees, NewStrictSees, NewShareSees, NewSpareSees
          DEF ProducerStep
<1>4. CASE Others
  BY <1>1, <1>4 DEF Others, Stop, Arrive, BecomeDue, BecomeIdle, Taken, Elsewhere
<1>5. ASSUME NEW s \in Slots, ConsumerStep(s) PROVE LanesSeen' /\ LeavesNone
  BY <1>1, <1>5 DEF ConsumerStep, TakeMsg, RunEnds, FreePermit
<1>6. CASE UNCHANGED vars
  BY <1>1, <1>6 DEF vars
<1> QED BY <1>3, <1>4, <1>5, <1>6 DEF Next

\* A read that returns less than it was asked for has satisfied every lane
\* (read_batch of queue.rs, strict and weighted).
THEOREM NobodyLeftBehind == Spec => NoneLeftBehind
<1>1. Init => LanesSeen
  BY DEF Init, LanesSeen
<1>2. Spec => [](LoopInv /\ LanesSeen)
  BY <1>1, LoopInvStarts, LoopInvKept, LanesSeenKept, PTL DEF Spec
<1>3. LoopInv /\ LanesSeen /\ [Next]_vars
      => [(/\ step \in {"claim", "new", "spare"} /\ step' \in {"send", "block"}
           /\ Len(batch') < count) =>
             \A l \in Lanes : room'[l] = 0 \/ l \in dry']_vars
  BY LanesSeenKept DEF LeavesNone, Satisfies
<1> QED BY <1>2, <1>3, PTL DEF Spec, NoneLeftBehind

-----------------------------------------------------------------------------
(* A burst worker leaves nothing.                                          *)

\* It looked at every lane, and so far nothing was there.
Nothing == everyLane /\ none /\ quiet /\ batch = << >>

\* The lanes that were asked for reclaims.
Claimed(l) == (step = "claim" => l < lane) /\ (step = "new" /\ ~Weighted => l <= lane)

\* A worker that nobody stops has finished what it held when it leaves ...
RunsToTheEnd ==
  /\ cancel /\ ~CanStop => step \in {"left", "gone"}
  /\ step = "left" /\ ~CanStop => permits = Prefetch

\* ... and had room in every lane whenever read_every_lane says so ...
LooksEverywhere ==
  /\ step = "wait" => ~everyLane
  /\ Reading /\ everyLane /\ batch = << >> => \A l \in Lanes : room[l] > 0

\* ... so that what it found empty is empty, unless something came since.
NothingFound ==
  /\ Reading /\ Nothing => \A l \in Lanes : Claimed(l) => idle[l] = 0
  /\ step = "send" /\ Nothing => \A l \in Lanes : waiting[l] = 0 /\ idle[l] = 0
  /\ step = "promote" /\ Nothing /\ promoted = 0 =>
       \A l \in Lanes : waiting[l] = 0 /\ idle[l] = 0 /\ (l < lane => due[l] = 0)
  /\ step = "check" /\ Nothing /\ promoted = 0 =>
       \A l \in Lanes : waiting[l] = 0 /\ idle[l] = 0 /\ due[l] = 0
  /\ step = "left" /\ ~CanStop /\ quiet =>
       \A l \in Lanes : waiting[l] = 0 /\ idle[l] = 0 /\ due[l] = 0

BurstInv == RunsToTheEnd /\ LooksEverywhere /\ NothingFound

LEMMA BurstInvStarts == ASSUME Init PROVE BurstInv
  BY DEF Init, BurstInv, RunsToTheEnd, LooksEverywhere, NothingFound, Reading

LEMMA OthersLeave ==
  ASSUME Others
  PROVE  UNCHANGED <<config, permits, held, channel, consumer, step, reader, flags>>
  BY DEF Others, Stop, Arrive, BecomeDue, BecomeIdle, Taken, Elsewhere

LEMMA ConsumersLeave ==
  ASSUME NEW s \in Slots, ConsumerStep(s)
  PROVE  UNCHANGED <<config, redis, cancel, step, reader, flags, quiet>>
  BY DEF ConsumerStep, TakeMsg, RunEnds, FreePermit

\* Nobody takes a permit while the worker holds nothing.
LEMMA RunsToTheEndKept ==
  ASSUME LoopInv, RunsToTheEnd, [Next]_vars PROVE RunsToTheEnd'
<1>1. CASE ProducerStep
  <2>1. UNCHANGED config
    BY <1>1 DEF ProducerStep
  <2>2. CASE Check
    <3>1. permits <= Prefetch /\ permits \in Int /\ Prefetch \in Int
      BY LoopAssumption DEF LoopInv, TypeOK
    <3> QED BY <2>1, <2>2, <3>1 DEF Check, Drained, RunsToTheEnd, CanStop
  <2>3. CASE Leave
    BY <2>1, <2>3 DEF Leave, RunsToTheEnd, CanStop
  <2>4. CASE Top \/ Wait
    BY <2>1, <2>4 DEF Top, Wait, RunsToTheEnd, CanStop
  <2>5. CASE Claim \/ Pick \/ NewStrict \/ NewShare \/ NewSpare \/ SpareDone \/ Block
             \/ Send \/ AllSent \/ Promote
    <3>1. step \notin {"left", "gone"} /\ cancel' = cancel
      BY <2>5 DEF Claim, Pick, NewStrict, NewShare, NewSpare, SpareDone, Block, Send, AllSent,
                  Promote
    <3>2. step' # "left"
      BY <2>5, <3>1 DEF Claim, Pick, NewStrict, NewShare, NewSpare, SpareDone, Block, Send,
                        AllSent, Promote, NextLane, Returned
    <3> QED BY <2>1, <3>1, <3>2 DEF RunsToTheEnd, CanStop
  <2> QED BY <1>1, <2>2, <2>3, <2>4, <2>5 DEF ProducerStep
<1>2. CASE Others
  <2>1. UNCHANGED <<config, permits, step>> /\ (CanStop \/ cancel' = cancel)
    BY <1>2 DEF Others, Stop, Arrive, BecomeDue, BecomeIdle, Taken, Elsewhere
  <2> QED BY <2>1 DEF RunsToTheEnd, CanStop
<1>3. ASSUME NEW s \in Slots, ConsumerStep(s) PROVE RunsToTheEnd'
  <2>1. UNCHANGED <<config, step, cancel>>
    BY <1>3 DEF ConsumerStep, TakeMsg, RunEnds, FreePermit
  <2>2. permits' = permits \/ s \in freed
    BY <1>3 DEF ConsumerStep, TakeMsg, RunEnds, FreePermit
  <2>3. ASSUME step = "left", s \in freed PROVE permits < Prefetch
    <3>1. permits = Prefetch - Len(channel) - Busy /\ Prefetch \in Nat
      BY <2>3, LoopAssumption DEF LoopInv, Balance
    <3>2. Len(channel) \in Nat
      BY LenProperties DEF LoopInv, TypeOK
    <3>3. /\ Busy = Cardinality(Running) + Cardinality(freed) /\ Cardinality(Running) \in Nat
          /\ Cardinality(freed) \in Nat /\ Cardinality(freed) >= 1
      BY <2>3, BusyBounds DEF LoopInv
    <3> QED BY <3>1, <3>2, <3>3
  <2> QED BY <2>1, <2>2, <2>3, LoopAssumption DEF RunsToTheEnd, CanStop
<1>4. CASE UNCHANGED vars
  BY <1>4 DEF vars, RunsToTheEnd, CanStop
<1> QED BY <1>1, <1>2, <1>3, <1>4 DEF Next

\* A read that brings nothing, though it asked, found its lane empty.
LEMMA ReadNothing ==
  ASSUME LoopInv, Reading, NEW l \in Lanes, NEW ask \in Nat, NEW got \in Nat,
         got <= ask, ask <= room[l], Took(l, ask, got), batch' = << >>
  PROVE  batch = << >> /\ got = 0 /\ room' = room /\ Len(batch) = 0
<1>1. batch \in Seq(Lanes) /\ room \in [Lanes -> Nat] /\ Len(batch) \in Nat
  BY LenProperties DEF LoopInv, TypeOK
<1>2. Len(batch') = Len(batch) + got
  <2>1. batch' = batch \o Copies(l, got)
    BY DEF Took
  <2>2. /\ Len(batch \o Copies(l, got)) = Len(batch) + got
        /\ Count(batch \o Copies(l, got), l) = Count(batch, l) + got
    BY <1>1, CountCopies
  <2> QED BY <2>1, <2>2
<1>3. Len(batch') = 0
  BY EmptySeq
<1>4. Len(batch) = 0 /\ got = 0
  BY <1>1, <1>2, <1>3
<1>5. room' = room
  BY <1>1, <1>4 DEF Took
<1> QED BY <1>1, <1>4, <1>5, EmptySeq

LEMMA LooksEverywhereKept ==
  ASSUME LoopInv, LooksEverywhere, [Next]_vars PROVE LooksEverywhere'
<1>1. ASSUME NEW l \in Lanes, NEW ask \in Nat, NEW got \in Nat, got <= ask, ask <= room[l],
             Took(l, ask, got), Reading, everyLane' = everyLane, step' # "wait"
      PROVE  LooksEverywhere'
  BY <1>1, ReadNothing DEF LooksEverywhere
<1>2. ASSUME step' # "wait", ~Reading' PROVE LooksEverywhere'
  BY <1>2 DEF LooksEverywhere
<1>3. ASSUME UNCHANGED <<batch, everyLane, room>>, step' = step \/ (Reading /\ step' # "wait")
      PROVE  LooksEverywhere'
  BY <1>3 DEF LooksEverywhere, Reading
<1>4. CASE Top
  <2>1. CASE cancel
    BY <1>2, <1>4, <2>1 DEF Top, Reading
  <2>2. CASE ~cancel
    <3> DEFINE r == [l \in Lanes |-> AtLeastZero(Limits[l] - held[l])]
               c == AtLeastZero(permits)
    <3>1. /\ step' = (IF c > 0 /\ \E l \in Lanes : r[l] > 0 THEN "claim" ELSE "wait")
          /\ room' = r /\ everyLane' = EveryLane(c, r)
      BY <1>4, <2>2 DEF Top
    <3> HIDE DEF r, c
    <3>2. 1 \in Lanes
      BY LanesAre
    <3> QED BY <3>1, <3>2 DEF LooksEverywhere, EveryLane, Reading
  <2> QED BY <2>1, <2>2
<1>5. CASE Claim
  <2> DEFINE take == Least(left, room[lane])
             got == Least(take, idle[lane])
  <2>1. /\ lane \in Lanes /\ left \in Nat /\ room[lane] \in Nat /\ idle[lane] \in Nat
    BY LoopAssumption DEF LoopInv, TypeOK
  <2>2. take \in Nat /\ take <= room[lane]
    BY <2>1, LeastIs
  <2>3. got \in Nat /\ got <= take
    <3> HIDE DEF take
    <3> QED BY <2>1, <2>2, LeastIs
  <2>4. Took(lane, take, got) /\ Reading /\ everyLane' = everyLane /\ step' # "wait"
    BY <1>5 DEF Claim, Reading, flags, NextLane, Returned
  <2> HIDE DEF take, got
  <2> QED BY <1>1, <2>1, <2>2, <2>3, <2>4
<1>6. CASE NewStrict
  <2> DEFINE ask == Least(left, room[lane])
             got == Least(ask, waiting[lane])
  <2>1. /\ lane \in Lanes /\ left \in Nat /\ room[lane] \in Nat /\ waiting[lane] \in Nat
    BY LoopAssumption DEF LoopInv, TypeOK
  <2>2. ask \in Nat /\ ask <= room[lane]
    BY <2>1, LeastIs
  <2>3. got \in Nat /\ got <= ask
    <3> HIDE DEF ask
    <3> QED BY <2>1, <2>2, LeastIs
  <2>4. Took(lane, ask, got) /\ Reading /\ everyLane' = everyLane /\ step' # "wait"
    BY <1>6 DEF NewStrict, Reading, flags, NextLane, Returned
  <2> HIDE DEF ask, got
  <2> QED BY <1>1, <2>1, <2>2, <2>3, <2>4
<1>7. CASE NewShare
  <2> DEFINE ask == Least(Count(picks, lane), room[lane])
             got == Least(ask, waiting[lane])
  <2>1. /\ lane \in Lanes /\ Count(picks, lane) \in Nat /\ room[lane] \in Nat
        /\ waiting[lane] \in Nat
    BY CountBounded DEF LoopInv, TypeOK
  <2>2. ask \in Nat /\ ask <= room[lane]
    BY <2>1, LeastIs
  <2>3. got \in Nat /\ got <= ask
    <3> HIDE DEF ask
    <3> QED BY <2>1, <2>2, LeastIs
  <2>4. Took(lane, ask, got) /\ Reading /\ everyLane' = everyLane /\ step' # "wait"
    BY <1>7 DEF NewShare, Reading, flags
  <2> HIDE DEF ask, got
  <2> QED BY <1>1, <2>1, <2>2, <2>3, <2>4
<1>8. CASE NewSpare
  <2> DEFINE l == Head(open)
             ask == Least(left, room[l])
             got == Least(ask, waiting[l])
  <2>1. l \in Lanes
    BY <1>8, HeadTailProperties DEF LoopInv, TypeOK, NewSpare
  <2>2. left \in Nat /\ room[l] \in Nat /\ waiting[l] \in Nat
    BY <2>1, LoopAssumption DEF LoopInv, TypeOK
  <2>3. ask \in Nat /\ ask <= room[l]
    BY <2>2, LeastIs
  <2>4. got \in Nat /\ got <= ask
    <3> HIDE DEF ask, l
    <3> QED BY <2>2, <2>3, LeastIs
  <2>5. Took(l, ask, got) /\ Reading /\ everyLane' = everyLane /\ step' # "wait"
    BY <1>8 DEF NewSpare, Reading, flags
  <2> HIDE DEF ask, got, l
  <2> QED BY <1>1, <2>1, <2>3, <2>4, <2>5
<1>9. CASE Pick \/ SpareDone
  BY <1>3, <1>9 DEF Pick, SpareDone, Returned, reader, flags, Reading
<1>10. CASE Wait \/ Block \/ Send \/ AllSent \/ Promote \/ Check \/ Leave
  BY <1>2, <1>10 DEF Wait, Block, Send, AllSent, Promote, Check, Leave, Reading
<1>11. CASE Others
  BY <1>3, <1>11, OthersLeave DEF reader, flags
<1>12. ASSUME NEW s \in Slots, ConsumerStep(s) PROVE LooksEverywhere'
  BY <1>3, <1>12, ConsumersLeave DEF reader, flags
<1>13. CASE UNCHANGED vars
  <2>1. UNCHANGED <<batch, everyLane, room, step>>
    BY <1>13 DEF vars, reader, flags
  <2> QED BY <1>3, <2>1
<1> QED BY <1>4, <1>5, <1>6, <1>7, <1>8, <1>9, <1>10, <1>11, <1>12, <1>13 DEF Next, ProducerStep

\* What everyone else does while nothing comes only takes away.
LEMMA OthersOnlyTake ==
  ASSUME LoopInv, Others, quiet'
  PROVE  /\ quiet
         /\ \A m \in Lanes : /\ waiting[m] = 0 => waiting'[m] = 0
                             /\ idle[m] = 0 => idle'[m] = 0
                             /\ due[m] = 0 => due'[m] = 0
<1>1. /\ waiting \in [Lanes -> Nat] /\ idle \in [Lanes -> Nat]
  BY DEF LoopInv, TypeOK
<1>2. CASE Stop
  BY <1>2 DEF Stop, redis
<1>3. ASSUME NEW l \in Lanes, Arrive(l) \/ BecomeDue(l) \/ BecomeIdle(l) \/ Taken(l)
      PROVE  /\ quiet' = quiet /\ due' = due
             /\ \/ waiting' = waiting /\ idle' = idle
                \/ waiting[l] > 0 /\ waiting' = [waiting EXCEPT ![l] = @ - 1] /\ idle' = idle
                \/ idle[l] > 0 /\ idle' = [idle EXCEPT ![l] = @ - 1] /\ waiting' = waiting
  BY <1>3 DEF Arrive, BecomeDue, BecomeIdle, Taken
<1>4. ASSUME NEW l \in Lanes, Arrive(l) \/ BecomeDue(l) \/ BecomeIdle(l) \/ Taken(l),
             NEW m \in Lanes
      PROVE  (waiting[m] = 0 => waiting'[m] = 0) /\ (idle[m] = 0 => idle'[m] = 0)
  <2>1. CASE waiting' = waiting /\ idle' = idle
    BY <2>1
  <2>2. CASE waiting[l] > 0 /\ waiting' = [waiting EXCEPT ![l] = @ - 1] /\ idle' = idle
    BY <1>1, <2>2
  <2>3. CASE idle[l] > 0 /\ idle' = [idle EXCEPT ![l] = @ - 1] /\ waiting' = waiting
    BY <1>1, <2>3
  <2> QED BY <1>3, <1>4, <2>1, <2>2, <2>3
<1> QED BY <1>2, <1>3, <1>4 DEF Others

LEMMA ClaimFinds ==
  ASSUME LoopInv, BurstInv, Claim, config' = config PROVE NothingFound'
<1> DEFINE take == Least(left, room[lane])
           got == Least(take, idle[lane])
<1>1. /\ lane \in Lanes /\ left \in Nat /\ room[lane] \in Nat /\ idle \in [Lanes -> Nat]
      /\ idle[lane] \in Nat /\ step = "claim" /\ Reading
  BY LoopAssumption DEF LoopInv, TypeOK, Claim, Reading
<1>2. take \in Nat /\ take <= room[lane] /\ take \in {left, room[lane]}
  BY <1>1, LeastIs
<1>3. got \in Nat /\ got <= take /\ got \in {take, idle[lane]}
  <2> HIDE DEF take
  <2> QED BY <1>1, <1>2, LeastIs
<1>4. /\ Took(lane, take, got) /\ idle' = [idle EXCEPT ![lane] = @ - got]
      /\ UNCHANGED <<flags, quiet>>
  BY DEF Claim
<1>5. step' \in {"claim", "pick", "new", "block", "send"}
  BY DEF Claim, NextLane, Returned
<1>6. CASE batch' # << >>
  BY <1>5, <1>6 DEF NothingFound, Nothing
<1>7. CASE ~everyLane
  BY <1>4, <1>5, <1>7 DEF NothingFound, Nothing, flags
<1>8. CASE batch' = << >> /\ everyLane
  <2> HIDE DEF take, got
  <2>1. batch = << >> /\ got = 0 /\ room' = room /\ Len(batch) = 0
    BY <1>1, <1>2, <1>3, <1>4, <1>8, ReadNothing
  <2>2. left >= 1 /\ room[lane] > 0
    <3>1. Len(batch) + left = count /\ count >= 1
      BY <1>1 DEF LoopInv, ReadsLeft, Owed
    <3>2. room[lane] > 0
      BY <1>1, <1>8, <2>1 DEF BurstInv, LooksEverywhere
    <3> QED BY <1>1, <2>1, <3>1, <3>2
  <2>3. idle[lane] = 0 /\ take > 0 /\ idle' = idle
    BY <1>1, <1>2, <1>3, <1>4, <2>1, <2>2
  <2>4. \/ step' = "claim" /\ lane' = lane + 1
        \/ step' = "new" /\ lane' = lane /\ ~Weighted
        \/ step' \in {"pick", "block"} /\ lane = NumLanes
    <3>1. CASE Weighted
      <4>1. \/ lane < NumLanes /\ step' = "claim" /\ lane' = lane + 1
            \/ lane = NumLanes /\ left = got
            \/ lane = NumLanes /\ step' = "pick"
        BY <3>1 DEF Claim, got, take
      <4> QED BY <2>1, <2>2, <4>1
    <3>2. CASE ~Weighted
      <4>1. left' = left - got /\ ((step' = "new" /\ lane' = lane) \/ NextLane)
        BY <3>2 DEF Claim, got, take
      <4>2. left' > 0
        BY <1>1, <2>1, <2>2, <4>1
      <4> QED BY <1>8, <3>2, <4>1, <4>2 DEF NextLane, Returned
    <3> QED BY <3>1, <3>2
  <2>5. ASSUME Nothing, NEW m \in Lanes, Claimed(m)' PROVE idle'[m] = 0
    <3>1. m < lane => idle[m] = 0
      BY <1>1, <2>5 DEF BurstInv, NothingFound, Claimed
    <3>2. m < lane \/ m = lane
      BY <1>1, <2>4, <2>5, LanesAre DEF Claimed, Weighted, Weights
    <3> QED BY <2>3, <3>1, <3>2
  <2>6. Nothing' => Nothing
    BY <1>4, <2>1 DEF Nothing, flags
  <2> QED BY <2>4, <2>5, <2>6 DEF NothingFound
<1> QED BY <1>6, <1>7, <1>8

LEMMA NewStrictFinds ==
  ASSUME LoopInv, BurstInv, NewStrict, config' = config PROVE NothingFound'
<1> DEFINE ask == Least(left, room[lane])
           got == Least(ask, waiting[lane])
<1>1. /\ lane \in Lanes /\ left \in Nat /\ room[lane] \in Nat /\ waiting[lane] \in Nat
      /\ step = "new" /\ ~Weighted /\ Reading
  BY LoopAssumption DEF LoopInv, TypeOK, NewStrict, Reading
<1>2. ask \in Nat /\ ask <= room[lane]
  BY <1>1, LeastIs
<1>3. got \in Nat /\ got <= ask
  <2> HIDE DEF ask
  <2> QED BY <1>1, <1>2, LeastIs
<1>4. /\ Took(lane, ask, got) /\ left' = left - got /\ NextLane
      /\ UNCHANGED <<idle, flags, quiet>>
  BY DEF NewStrict
<1> HIDE DEF ask, got
<1>5. step' \in {"claim", "block", "send"}
  BY <1>4 DEF NextLane, Returned
<1>6. CASE batch' # << >>
  BY <1>5, <1>6 DEF NothingFound, Nothing
<1>7. CASE batch' = << >>
  <2>1. batch = << >> /\ got = 0 /\ Len(batch) = 0
    BY <1>1, <1>2, <1>3, <1>4, <1>7, ReadNothing
  <2>2. left' > 0
    <3>1. Len(batch) + left = count /\ count >= 1
      BY <1>1 DEF LoopInv, ReadsLeft, Owed
    <3> QED BY <1>1, <1>4, <2>1, <3>1
  <2>3. \/ step' = "claim" /\ lane' = lane + 1
        \/ step' = "block" /\ lane = NumLanes
    BY <1>4, <1>7, <2>2 DEF NextLane, Returned
  <2>4. ASSUME Nothing, NEW m \in Lanes, Claimed(m)' PROVE idle'[m] = 0
    <3>1. m <= lane => idle[m] = 0
      BY <1>1, <2>4 DEF BurstInv, NothingFound, Claimed
    <3>2. m <= lane
      BY <1>1, <2>3, <2>4, LanesAre DEF Claimed
    <3> QED BY <1>4, <3>1, <3>2
  <2>5. Nothing' => Nothing
    BY <1>4, <2>1 DEF Nothing, flags
  <2> QED BY <2>3, <2>4, <2>5 DEF NothingFound
<1> QED BY <1>6, <1>7

\* Once all reclaims were asked for, the weighted reads leave them alone.
LEMMA WeightedFinds ==
  ASSUME LoopInv, BurstInv, Pick \/ NewShare \/ NewSpare \/ SpareDone, config' = config
  PROVE  NothingFound'
<1>1. /\ step \in {"pick", "spare"} \/ (step = "new" /\ Weighted)
      /\ step' \in {"pick", "new", "spare", "block", "send"} /\ (step' = "new" => Weighted)
      /\ step' = "send" => batch' # << >>
      /\ UNCHANGED <<idle, flags, quiet>>
  BY DEF Pick, NewShare, NewSpare, SpareDone, Returned, LoopInv, ReadsLeft, redis, reader
<1>2. Weighted' = Weighted
  BY DEF Weighted, Weights
<1>3. batch' = << >> => batch = << >>
  <2>1. CASE Pick \/ SpareDone
    BY <2>1 DEF Pick, SpareDone, reader
  <2>2. CASE NewShare \/ NewSpare
    <3>1. PICK more \in Seq(Lanes) : batch' = batch \o more
      <4>1. CASE NewShare
        <5> DEFINE ask == Least(Count(picks, lane), room[lane])
                   got == Least(ask, waiting[lane])
        <5>1. /\ lane \in Lanes /\ Count(picks, lane) \in Nat /\ room[lane] \in Nat
              /\ waiting[lane] \in Nat
          BY CountBounded DEF LoopInv, TypeOK
        <5>2. ask \in Nat
          BY <5>1, LeastIs
        <5>3. got \in Nat
          <6> HIDE DEF ask
          <6> QED BY <5>1, <5>2, LeastIs
        <5>4. batch' = batch \o Copies(lane, got)
          BY <4>1 DEF NewShare, Took
        <5> HIDE DEF got
        <5>5. Copies(lane, got) \in Seq(Lanes)
          BY <5>1, <5>3 DEF Copies
        <5> QED BY <5>4, <5>5
      <4>2. CASE NewSpare
        <5> DEFINE l == Head(open)
                   ask == Least(left, room[l])
                   got == Least(ask, waiting[l])
        <5>1. l \in Lanes
          BY <4>2, HeadTailProperties DEF LoopInv, TypeOK, NewSpare
        <5>2. left \in Nat /\ room[l] \in Nat /\ waiting[l] \in Nat
          BY <5>1, LoopAssumption DEF LoopInv, TypeOK
        <5>3. ask \in Nat
          BY <5>2, LeastIs
        <5>4. got \in Nat
          <6> HIDE DEF ask, l
          <6> QED BY <5>2, <5>3, LeastIs
        <5>5. batch' = batch \o Copies(l, got)
          BY <4>2 DEF NewSpare, Took
        <5> HIDE DEF got, l
        <5>6. Copies(l, got) \in Seq(Lanes)
          BY <5>1, <5>4 DEF Copies
        <5> QED BY <5>5, <5>6
      <4> QED BY <2>2, <4>1, <4>2
    <3>2. batch \in Seq(Lanes)
      BY DEF LoopInv, TypeOK
    <3>3. batch \o more = << >> => batch = << >>
      BY <3>2, ConcatEqualIffEmpty
    <3> QED BY <3>1, <3>3
  <2> QED BY <2>1, <2>2
<1>4. ASSUME Nothing', NEW l \in Lanes PROVE idle'[l] = 0
  <2>1. Nothing
    BY <1>1, <1>3, <1>4 DEF Nothing, flags
  <2>2. Reading /\ Claimed(l)
    BY <1>1 DEF Reading, Claimed
  <2> QED BY <1>1, <2>1, <2>2 DEF BurstInv, NothingFound
<1>5. step' = "send" => ~Nothing'
  BY <1>1 DEF Nothing
<1> QED BY <1>1, <1>4, <1>5 DEF NothingFound

LEMMA BlockFinds ==
  ASSUME LoopInv, BurstInv, Block, config' = config PROVE NothingFound'
<1> DEFINE ready == {l \in Lanes : WakesOn(l)}
           keep == Keep(ready)
<1>1. /\ step = "block" /\ step' = "send" /\ batch' \in InOrder(keep) /\ Reading
      /\ waiting' = [l \in Lanes |-> IF l \in keep THEN waiting[l] - 1 ELSE waiting[l]]
      /\ UNCHANGED <<idle, flags, quiet>>
  BY DEF Block, Reading
<1>2. /\ count \in Nat \ {0} /\ batch = << >> /\ waiting \in [Lanes -> Nat]
      /\ room \in [Lanes -> Nat]
  <2>1. count \in Nat /\ waiting \in [Lanes -> Nat] /\ room \in [Lanes -> Nat]
    BY LoopAssumption DEF LoopInv, TypeOK
  <2>2. count >= 1 /\ batch = << >>
    BY <1>1 DEF LoopInv, ReadsLeft
  <2> QED BY <2>1, <2>2
<1>3. ASSUME Nothing' PROVE \A l \in Lanes : waiting'[l] = 0 /\ idle'[l] = 0
  <2>1. Nothing
    BY <1>1, <1>2, <1>3 DEF Nothing, flags
  <2>2. keep = {}
    <3>1. ready \in SUBSET Lanes /\ keep \subseteq ready
      BY DEF Keep
    <3>2. Len(batch') = Cardinality(keep) /\ Len(batch') = 0
      <4>1. batch' = << >>
        BY <1>3 DEF Nothing
      <4>2. Len(batch') = Cardinality(keep)
        <5> HIDE DEF ready
        <5> QED BY <1>1, <1>2, <3>1, KeepBounded
      <4> QED BY <4>1, <4>2, EmptySeq
    <3>3. IsFiniteSet(keep)
      BY <3>1, LanesAre, FS_Subset
    <3> HIDE DEF keep
    <3> QED BY <3>2, <3>3, FS_EmptySet
  <2>3. ready = {}
    <3>1. ready \in SUBSET Lanes
      OBVIOUS
    <3> HIDE DEF ready
    <3> QED BY <1>2, <2>2, <3>1, KeepsSome
  <2>4. \A l \in Lanes : room[l] > 0
    BY <1>1, <1>2, <2>1 DEF BurstInv, LooksEverywhere, Nothing
  <2>5. \A l \in Lanes : ~WakesOn(l)
    BY <2>3
  <2> HIDE DEF keep
  <2>6. \A l \in Lanes : waiting'[l] = 0
    BY <1>1, <1>2, <2>2, <2>4, <2>5 DEF WakesOn
  <2>7. \A l \in Lanes : idle[l] = 0
    BY <1>1, <2>1 DEF BurstInv, NothingFound, Claimed
  <2> QED BY <1>1, <2>6, <2>7
<1> QED BY <1>1, <1>3 DEF NothingFound, Reading

LEMMA PromoteFinds ==
  ASSUME LoopInv, BurstInv, Promote, config' = config PROVE NothingFound'
<1>1. /\ step = "promote" /\ promoted' = promoted + due[lane]
      /\ waiting' = [waiting EXCEPT ![lane] = @ + due[lane]]
      /\ due' = [due EXCEPT ![lane] = 0]
      /\ \/ step' = "promote" /\ lane' = lane + 1
         \/ step' = "check" /\ lane = NumLanes
      /\ UNCHANGED <<idle, batch, everyLane, none, quiet>>
  BY DEF Promote
<1>2. /\ waiting \in [Lanes -> Nat] /\ due \in [Lanes -> Nat] /\ lane \in Lanes /\ promoted \in Nat
  BY DEF LoopInv, TypeOK
<1>3. ASSUME Nothing', promoted' = 0, NEW m \in Lanes
      PROVE  /\ waiting'[m] = 0 /\ idle'[m] = 0
             /\ m < lane \/ m = lane => due'[m] = 0
  <2>1. Nothing
    BY <1>1, <1>3 DEF Nothing
  <2>2. promoted = 0 /\ due[lane] = 0
    BY <1>1, <1>2, <1>3
  <2>3. waiting[m] = 0 /\ idle[m] = 0 /\ (m < lane => due[m] = 0)
    BY <1>1, <2>1, <2>2 DEF BurstInv, NothingFound
  <2> QED BY <1>1, <1>2, <2>2, <2>3
<1>4. CASE step' = "promote" /\ lane' = lane + 1
  <2>1. \A m \in Lanes : m < lane' => m < lane \/ m = lane
    BY <1>2, <1>4, LanesAre
  <2> QED BY <1>3, <1>4, <2>1 DEF NothingFound, Reading
<1>5. CASE step' = "check" /\ lane = NumLanes
  <2>1. \A m \in Lanes : m < lane \/ m = lane
    BY <1>2, <1>5, LanesAre
  <2> QED BY <1>3, <1>5, <2>1 DEF NothingFound, Reading
<1> QED BY <1>1, <1>4, <1>5

LEMMA NothingFoundKept ==
  ASSUME LoopInv, BurstInv, [Next]_vars PROVE NothingFound'
<1>1. CASE ProducerStep
  <2>1. config' = config
    BY <1>1 DEF ProducerStep
  <2>2. CASE Top
    <3>1. \/ step' = "left" /\ CanStop
          \/ step' = "wait"
          \/ step' = "claim" /\ lane' = 1
      BY <2>2 DEF Top, BurstInv, RunsToTheEnd
    <3>2. \A l \in Lanes : ~(l < 1)
      BY LanesAre
    <3> QED BY <2>1, <3>1, <3>2 DEF NothingFound, Reading, Claimed, CanStop
  <2>3. CASE Wait
    <3>1. \/ step' = "left" /\ CanStop
          \/ step' = "send" /\ ~everyLane'
      BY <2>3 DEF Wait, BurstInv, RunsToTheEnd, LooksEverywhere, flags
    <3> QED BY <2>1, <3>1 DEF NothingFound, Reading, Nothing, CanStop
  <2>4. CASE Send
    BY <2>4 DEF Send, NothingFound, Reading, Nothing
  <2>5. CASE AllSent
    <3>1. /\ step = "send" /\ step' = "promote" /\ lane' = 1
          /\ UNCHANGED <<waiting, idle, batch, everyLane, none, quiet>>
      BY <2>5 DEF AllSent, redis
    <3>2. \A l \in Lanes : ~(l < 1)
      BY LanesAre
    <3>3. Nothing' = Nothing
      BY <3>1 DEF Nothing
    <3>4. Nothing => \A l \in Lanes : waiting'[l] = 0 /\ idle'[l] = 0
      BY <3>1 DEF BurstInv, NothingFound
    <3> QED BY <3>1, <3>2, <3>3, <3>4 DEF NothingFound, Reading
  <2>6. CASE Check
    <3>1. /\ step = "check" /\ step' \in {"left", "top"} /\ (step' = "left" => Drained)
          /\ UNCHANGED <<waiting, idle, due, quiet, batch>>
      BY <2>6 DEF Check, redis, reader
    <3>2. batch = << >>
      BY <3>1 DEF LoopInv, BatchSent, Reading
    <3>3. step' = "left" /\ quiet => Nothing /\ promoted = 0
      BY <3>1, <3>2 DEF Drained, Nothing
    <3> QED BY <3>1, <3>3 DEF BurstInv, NothingFound, Reading
  <2>7. CASE Leave
    BY <2>7 DEF Leave, NothingFound, Reading
  <2> QED BY <1>1, <2>1, <2>2, <2>3, <2>4, <2>5, <2>6, <2>7, ClaimFinds, NewStrictFinds,
             WeightedFinds, BlockFinds, PromoteFinds DEF ProducerStep
<1>2. CASE Others
  <2>1. UNCHANGED <<config, step, lane, batch, everyLane, none, promoted>>
    BY <1>2, OthersLeave DEF reader, flags
  <2>2. quiet' => /\ quiet
                  /\ \A m \in Lanes : /\ waiting[m] = 0 => waiting'[m] = 0
                                      /\ idle[m] = 0 => idle'[m] = 0
                                      /\ due[m] = 0 => due'[m] = 0
    BY <1>2, OthersOnlyTake
  <2> QED BY <2>1, <2>2 DEF BurstInv, NothingFound, Nothing, Claimed, Reading, Weighted, Weights,
                            CanStop
<1>3. ASSUME UNCHANGED <<config, redis, step, reader, flags, quiet>> PROVE NothingFound'
  BY <1>3 DEF BurstInv, NothingFound, Nothing, Claimed, Reading, Weighted, Weights, CanStop,
              redis, reader, flags
<1>4. ASSUME NEW s \in Slots, ConsumerStep(s) PROVE NothingFound'
  BY <1>3, <1>4, ConsumersLeave
<1>5. CASE UNCHANGED vars
  BY <1>3, <1>5 DEF vars
<1> QED BY <1>1, <1>2, <1>4, <1>5 DEF Next

\* A burst worker leaves by itself only when it holds nothing and, unless something
\* came while it looked, when every lane is empty (the burst exit of worker.rs).
THEOREM BurstLeavesNothing == Spec => []BurstDrained
<1>1. LoopInv /\ BurstInv /\ [Next]_vars => BurstInv'
  BY RunsToTheEndKept, LooksEverywhereKept, NothingFoundKept DEF BurstInv
<1>2. Spec => [](LoopInv /\ BurstInv)
  BY <1>1, LoopInvStarts, BurstInvStarts, LoopInvKept, PTL DEF Spec
<1>3. ASSUME LoopInv, BurstInv PROVE BurstDrained
  <2>1. SUFFICES ASSUME step = "left", ~CanStop
                 PROVE  /\ channel = << >> /\ Busy = 0
                        /\ quiet => waiting = Zero /\ idle = Zero /\ due = Zero
    BY DEF BurstDrained
  <2>2. permits = Prefetch /\ permits = Prefetch - Len(channel) - Busy /\ Prefetch \in Nat
    BY <1>3, <2>1, LoopAssumption DEF LoopInv, Balance, BurstInv, RunsToTheEnd
  <2>3. Len(channel) \in Nat /\ channel \in Seq(Lanes)
    BY <1>3, LenProperties DEF LoopInv, TypeOK
  <2>4. Busy \in Nat
    BY <1>3, BusyBounds DEF LoopInv
  <2>5. Len(channel) = 0 /\ Busy = 0
    BY <2>2, <2>3, <2>4
  <2>6. waiting \in [Lanes -> Nat] /\ idle \in [Lanes -> Nat] /\ due \in [Lanes -> Nat]
    BY <1>3 DEF LoopInv, TypeOK
  <2>7. quiet => \A l \in Lanes : waiting[l] = 0 /\ idle[l] = 0 /\ due[l] = 0
    BY <1>3, <2>1 DEF BurstInv, NothingFound
  <2>8. quiet => waiting = Zero /\ idle = Zero /\ due = Zero
    BY <2>6, <2>7 DEF Zero
  <2> QED BY <2>3, <2>5, <2>8, EmptySeq
<1> QED BY <1>2, <1>3, PTL

=============================================================================
