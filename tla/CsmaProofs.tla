----------------------------- MODULE CsmaProofs -----------------------------
(***************************************************************************)
(* Proofs about the simulation of mp4: the counters and the backoff of the *)
(* nodes, and the numbers it reports.                                      *)
(***************************************************************************)
EXTENDS Csma, ProofLemmas

------------------------------------------------------------------------------
(* Sums over the nodes *)

(* What the sum of f over the set s is, when g gives the sums over smaller sets:
   MapThenSumSet takes the elements out one by one. *)
Added(f, g, s) ==
  IF s = {} THEN 0 ELSE LET x == CHOOSE x \in s : TRUE IN f[x] + g[s \ {x}]

(* There are finitely many nodes. *)
LEMMA NodesFinite == IsFiniteSet(Nodes)
  BY NodesAssumption, FS_Interval DEF Nodes

(* A set of nodes is finite, and has one node less without the chosen one. *)
LEMMA SetsOfNodes ==
  ASSUME NEW s \in SUBSET Nodes
  PROVE  /\ IsFiniteSet(s) /\ Cardinality(s) \in Nat
         /\ s # {} =>
              /\ (CHOOSE x \in s : TRUE) \in s
              /\ s \ {CHOOSE x \in s : TRUE} \in SUBSET Nodes
              /\ Cardinality(s \ {CHOOSE x \in s : TRUE}) = Cardinality(s) - 1
  <1>1. IsFiniteSet(s) /\ Cardinality(s) \in Nat
    BY NodesFinite, FS_Subset, FS_CardinalityType
  <1>2. ASSUME s # {}
        PROVE  (CHOOSE x \in s : TRUE) \in s
    BY <1>2
  <1> QED
    BY <1>1, <1>2, FS_RemoveElement

(* There is a function of the sums of f over all sets of nodes. *)
LEMMA SumsExist ==
  ASSUME NEW f \in [Nodes -> Nat]
  PROVE  \E g \in [SUBSET Nodes -> Nat] : \A s \in SUBSET Nodes : g[s] = Added(f, g, s)
  <1> DEFINE UpTo(g, n) ==
               \A s \in SUBSET Nodes : Cardinality(s) <= n => g[s] = Added(f, g, s)
             W == {n \in Nat : \E g \in [SUBSET Nodes -> Nat] : UpTo(g, n)}
  <1>1. \E g \in [SUBSET Nodes -> Nat] : UpTo(g, 0)
    <2> DEFINE g == [s \in SUBSET Nodes |-> 0]
    <2>1. ASSUME NEW s \in SUBSET Nodes, Cardinality(s) <= 0
          PROVE  g[s] = Added(f, g, s)
      <3>1. s = {}
        BY <2>1, SetsOfNodes, FS_EmptySet
      <3> QED
        BY <3>1 DEF Added
    <2> QED
      BY <2>1
  <1>2. ASSUME NEW n \in Nat, \E g \in [SUBSET Nodes -> Nat] : UpTo(g, n)
        PROVE  \E g \in [SUBSET Nodes -> Nat] : UpTo(g, n + 1)
    <2>1. PICK g \in [SUBSET Nodes -> Nat] : UpTo(g, n)
      BY <1>2
    <2> DEFINE h == [s \in SUBSET Nodes |->
                       IF Cardinality(s) <= n THEN g[s] ELSE Added(f, g, s)]
    <2>2. \A s \in SUBSET Nodes : Added(f, g, s) \in Nat
      BY SetsOfNodes DEF Added
    <2>3. h \in [SUBSET Nodes -> Nat]
      BY <2>2
    <2>4. ASSUME NEW s \in SUBSET Nodes, Cardinality(s) <= n + 1
          PROVE  h[s] = Added(f, h, s)
      <3>1. h[s] = Added(f, g, s)
        BY <2>1
      <3>2. Added(f, h, s) = Added(f, g, s)
        <4>1. CASE s = {}
          BY <4>1 DEF Added
        <4>2. CASE s # {}
          <5> DEFINE x == CHOOSE x \in s : TRUE
          <5>1. s \ {x} \in SUBSET Nodes /\ Cardinality(s \ {x}) <= n
            BY <2>4, <4>2, SetsOfNodes
          <5>2. h[s \ {x}] = g[s \ {x}]
            BY <5>1
          <5> QED
            BY <5>2, <4>2 DEF Added
        <4> QED
          BY <4>1, <4>2
      <3> QED
        BY <3>1, <3>2
    <2> QED
      BY <2>3, <2>4
  <1>3. Nat \subseteq W
    <2> HIDE DEF UpTo
    <2>1. 0 \in W
      BY <1>1
    <2>2. ASSUME NEW n \in Nat, n \in W
          PROVE  n + 1 \in W
      <3>1. \E g \in [SUBSET Nodes -> Nat] : UpTo(g, n)
        BY <2>2
      <3>2. \E g \in [SUBSET Nodes -> Nat] : UpTo(g, n + 1)
        BY <1>2, <3>1
      <3>3. n + 1 \in Nat
        OBVIOUS
      <3> QED
        BY <3>2, <3>3
    <2> HIDE DEF W
    <2> QED
      BY <2>1, <2>2, AllNumbers
  <1>4. Cardinality(Nodes) \in Nat
    BY SetsOfNodes
  <1>5. PICK g \in [SUBSET Nodes -> Nat] : UpTo(g, Cardinality(Nodes))
    <2> HIDE DEF UpTo
    <2> QED
      BY <1>3, <1>4
  <1>6. \A s \in SUBSET Nodes : Cardinality(s) <= Cardinality(Nodes)
    BY NodesFinite, FS_Subset
  <1> QED
    BY <1>5, <1>6

(* Induction over the sets of nodes, by taking out the chosen node. *)
LEMMA AllSetsOfNodes ==
  ASSUME NEW G,
         \A s \in SUBSET Nodes :
           (s # {} => s \ {CHOOSE x \in s : TRUE} \in G) => s \in G
  PROVE  SUBSET Nodes \subseteq G
  <1> DEFINE W == {n \in Nat : \A s \in SUBSET Nodes : Cardinality(s) <= n => s \in G}
  <1>1. ASSUME NEW s \in SUBSET Nodes, Cardinality(s) <= 0
        PROVE  s \in G
    <2>1. s = {}
      BY <1>1, SetsOfNodes, FS_EmptySet
    <2> QED
      BY <2>1
  <1>2. ASSUME NEW n \in Nat, n \in W
        PROVE  n + 1 \in W
    <2>1. ASSUME NEW s \in SUBSET Nodes, Cardinality(s) <= n + 1
          PROVE  s \in G
      <3>1. ASSUME s # {}
            PROVE  s \ {CHOOSE x \in s : TRUE} \in G
        <4> DEFINE t == s \ {CHOOSE x \in s : TRUE}
        <4>1. t \in SUBSET Nodes /\ Cardinality(t) = Cardinality(s) - 1
          BY <3>1, SetsOfNodes
        <4>2. Cardinality(t) <= n
          BY <2>1, <4>1, SetsOfNodes
        <4> HIDE DEF t
        <4>3. t \in G
          BY <1>2, <4>1, <4>2
        <4> QED
          BY <4>3 DEF t
      <3> QED
        BY <3>1
    <2>2. n + 1 \in Nat
      OBVIOUS
    <2> QED
      BY <2>1, <2>2
  <1>3. 0 \in W
    BY <1>1
  <1> HIDE DEF W
  <1>4. Nat \subseteq W
    BY <1>2, <1>3, AllNumbers
  <1>5. ASSUME NEW s \in SUBSET Nodes
        PROVE  s \in G
    <2>1. Cardinality(s) \in Nat
      BY SetsOfNodes
    <2>2. Cardinality(s) \in W /\ Cardinality(s) <= Cardinality(s)
      BY <1>4, <2>1
    <2> QED
      BY <2>2 DEF W
  <1> QED
    BY <1>5

(* MapThenSumSet is such a function, so its value has the properties of a sum. *)
LEMMA SumIsOfSums ==
  ASSUME NEW f \in [Nodes -> Nat]
  PROVE  \E g \in [SUBSET Nodes -> Nat] :
           /\ \A s \in SUBSET Nodes : g[s] = Added(f, g, s)
           /\ Sum(f) = g[Nodes]
  <1> DEFINE g == CHOOSE g : g = [s \in SUBSET Nodes |-> Added(f, g, s)]
  <1>1. Sum(f) = g[Nodes]
    BY DEF Sum, MapThenSumSet, MapThenFoldSet, Added
  <1>2. PICK h \in [SUBSET Nodes -> Nat] : \A s \in SUBSET Nodes : h[s] = Added(f, h, s)
    BY SumsExist
  <1>3. h = [s \in SUBSET Nodes |-> Added(f, h, s)]
    BY <1>2
  <1>4. g = [s \in SUBSET Nodes |-> Added(f, g, s)]
    BY <1>3
  <1> HIDE DEF g
  <1>5. \A s \in SUBSET Nodes : g[s] = Added(f, g, s)
    BY <1>4
  <1>6. ASSUME NEW s \in SUBSET Nodes
        PROVE  g[s] \in Nat
    <2> DEFINE G == {r \in SUBSET Nodes : g[r] \in Nat}
    <2>1. ASSUME NEW r \in SUBSET Nodes,
                 r # {} => r \ {CHOOSE x \in r : TRUE} \in G
          PROVE  r \in G
      <3>1. CASE r = {}
        BY <1>5, <3>1 DEF Added
      <3>2. CASE r # {}
        <4> DEFINE x == CHOOSE x \in r : TRUE
        <4>1. x \in r /\ r \ {x} \in G
          BY <2>1, <3>2
        <4>2. g[r] = f[x] + g[r \ {x}]
          BY <1>5, <3>2 DEF Added
        <4> HIDE DEF x
        <4> QED
          BY <4>1, <4>2
      <3> QED
        BY <3>1, <3>2
    <2> HIDE DEF G
    <2>2. s \in G
      BY <2>1, AllSetsOfNodes
    <2> QED
      BY <2>2 DEF G
  <1>7. g \in [SUBSET Nodes -> Nat]
    BY <1>4, <1>6
  <1> QED
    BY <1>1, <1>5, <1>7

(* The sum is a number. *)
LEMMA SumType ==
  ASSUME NEW f \in [Nodes -> Nat]
  PROVE  Sum(f) \in Nat
  BY SumIsOfSums

(* A sum of zeros is zero. *)
LEMMA SumOfZeros == Sum([i \in Nodes |-> 0]) = 0
  <1> DEFINE f == [i \in Nodes |-> 0]
  <1>1. f \in [Nodes -> Nat] /\ \A i \in Nodes : f[i] = 0
    OBVIOUS
  <1> HIDE DEF f
  <1>2. PICK g \in [SUBSET Nodes -> Nat] :
          (\A s \in SUBSET Nodes : g[s] = Added(f, g, s)) /\ Sum(f) = g[Nodes]
    BY <1>1, SumIsOfSums
  <1> DEFINE G == {s \in SUBSET Nodes : g[s] = 0}
  <1>3. ASSUME NEW s \in SUBSET Nodes, s # {} => s \ {CHOOSE x \in s : TRUE} \in G
        PROVE  s \in G
    BY <1>1, <1>2, <1>3, SetsOfNodes DEF Added
  <1> HIDE DEF G
  <1>4. Nodes \in G
    BY <1>3, AllSetsOfNodes
  <1> QED
    BY <1>2, <1>4 DEF G, f

(* When the number of one node grows by one, so does the sum. *)
LEMMA SumGrows ==
  ASSUME NEW f \in [Nodes -> Nat], NEW i \in Nodes
  PROVE  Sum([f EXCEPT ![i] = @ + 1]) = Sum(f) + 1
  <1> DEFINE e == [f EXCEPT ![i] = @ + 1]
  <1>1. /\ e \in [Nodes -> Nat] /\ e[i] = f[i] + 1
        /\ \A j \in Nodes : j # i => e[j] = f[j]
    OBVIOUS
  <1> HIDE DEF e
  <1>2. PICK g \in [SUBSET Nodes -> Nat] :
          (\A s \in SUBSET Nodes : g[s] = Added(f, g, s)) /\ Sum(f) = g[Nodes]
    BY SumIsOfSums
  <1>3. PICK h \in [SUBSET Nodes -> Nat] :
          (\A s \in SUBSET Nodes : h[s] = Added(e, h, s)) /\ Sum(e) = h[Nodes]
    BY <1>1, SumIsOfSums
  <1> DEFINE G == {s \in SUBSET Nodes : h[s] = IF i \in s THEN g[s] + 1 ELSE g[s]}
  <1>4. ASSUME NEW s \in SUBSET Nodes, s # {} => s \ {CHOOSE x \in s : TRUE} \in G
        PROVE  s \in G
    <2>1. CASE s = {}
      BY <1>2, <1>3, <2>1 DEF Added
    <2>2. CASE s # {}
      <3> DEFINE x == CHOOSE x \in s : TRUE
                 r == s \ {x}
      <3>1. x \in s /\ r \in SUBSET Nodes /\ r \in G
        BY <1>4, <2>2, SetsOfNodes
      <3>2. g[s] = f[x] + g[r] /\ h[s] = e[x] + h[r]
        BY <1>2, <1>3, <2>2 DEF Added
      <3>3. i \in r <=> i \in s /\ x # i
        OBVIOUS
      <3> HIDE DEF x, r
      <3>4. /\ h[r] = IF i \in r THEN g[r] + 1 ELSE g[r]
            /\ g[r] \in Nat /\ h[r] \in Nat /\ f[x] \in Nat
        BY <3>1
      <3>5. h[s] = IF i \in s THEN g[s] + 1 ELSE g[s]
        <4>1. CASE x = i
          BY <1>1, <3>1, <3>2, <3>3, <3>4, <4>1
        <4>2. CASE x # i
          <5>1. e[x] = f[x]
            BY <1>1, <3>1, <4>2
          <5> QED
            BY <3>2, <3>3, <3>4, <4>2, <5>1
        <4> QED
          BY <4>1, <4>2
      <3> QED
        BY <3>5
    <2> QED
      BY <2>1, <2>2
  <1> HIDE DEF G
  <1>5. Nodes \in G
    BY <1>4, AllSetsOfNodes
  <1> QED
    BY <1>2, <1>3, <1>5 DEF G, e

------------------------------------------------------------------------------
(* The inductive invariant *)

(* The index is below the number of ranges in use; this follows from the streak,
   and with it the next index is in the list. *)
BackoffInUse == \A i \in Nodes : backoffIdx[i] \in 0 .. M - 2

(* A transmission starts with its time at zero. *)
TransmissionStarts == ~channelBusy => transmissionTime = 0

IInv ==
  CountersInRange /\ BackoffInUse /\ BackoffFollowsStreak /\ TransmissionStarts
    /\ TicksAddUp

(* What the ranges of the counters are. *)
LEMMA DrawProperties ==
  ASSUME NEW x \in 0 .. M - 2
  PROVE  x \in 0 .. Len(R) - 1 /\ Draw(x) \subseteq Nat /\ R[x + 1] \in Nat
  <1>1. Len(R) \in Nat
    BY RangesAssumption
  <1>2. x \in 0 .. Len(R) - 1 /\ x + 1 \in 1 .. Len(R)
    BY <1>1, RangesSuffice
  <1>3. R[x + 1] \in Nat
    BY <1>2, RangesAssumption
  <1> QED
    BY <1>2, <1>3 DEF Draw

(* It holds at first. *)
LEMMA IInvInit == Init => IInv
  <1> SUFFICES ASSUME Init PROVE IInv
    OBVIOUS
  <1> USE DEF Init
  <1>1. 0 \in 0 .. M - 2
    BY RangesSuffice
  <1>2. Draw(0) \subseteq Nat /\ 0 \in 0 .. Len(R) - 1
    BY <1>1, DrawProperties
  <1>3. CountersInRange
    <2>1. counter \in [Nodes -> Nat] /\ \A i \in Nodes : counter[i] \in Draw(0)
      BY <1>2
    <2>2. tick \in 0 .. T /\ transmissionTime \in 0 .. L - 1
      BY NodesAssumption
    <2>3. backoffIdx \in [Nodes -> 0 .. Len(R) - 1] /\ \A i \in Nodes : backoffIdx[i] = 0
      BY <1>2
    <2>4. /\ collisions \in [Nodes -> Nat] /\ successes \in [Nodes -> Nat]
          /\ streak \in [Nodes -> Nat]
      OBVIOUS
    <2> QED
      BY <2>1, <2>2, <2>3, <2>4 DEF CountersInRange, TypeOK
  <1>4. BackoffInUse /\ TransmissionStarts
    BY <1>1 DEF BackoffInUse, TransmissionStarts
  <1>5. BackoffFollowsStreak
    <2>1. 0 % (M - 1) = 0
      BY RangesSuffice
    <2> QED
      BY <2>1 DEF BackoffFollowsStreak
  <1>6. TicksAddUp
    BY SumOfZeros, NodesAssumption DEF TicksAddUp
  <1> QED
    BY <1>3, <1>4, <1>5, <1>6 DEF IInv

(* Where the index of a node goes after a collision. *)
LEMMA NextIndexFollows ==
  ASSUME IInv, NEW i \in Nodes
  PROVE  /\ NextIndex(i) \in 0 .. M - 2
         /\ NextIndex(i) = (streak[i] + 1) % (M - 1)
  <1>1. backoffIdx[i] \in 0 .. M - 2 /\ backoffIdx[i] = streak[i] % (M - 1)
    BY DEF IInv, BackoffInUse, BackoffFollowsStreak
  <1>2. streak[i] \in Nat /\ M - 1 \in Nat \ {0}
    BY RangesSuffice DEF IInv, CountersInRange, TypeOK
  <1>3. (streak[i] + 1) % (M - 1) =
          IF (streak[i] % (M - 1)) + 1 = M - 1 THEN 0 ELSE (streak[i] % (M - 1)) + 1
    BY <1>2, RemainderOfNext
  <1> QED
    BY <1>1, <1>2, <1>3, RangesSuffice DEF NextIndex

(* A tick in which the channel is busy. *)
LEMMA BusyTickPreserves ==
  ASSUME IInv, BusyTick
  PROVE  IInv'
  <1> USE DEF IInv, BusyTick, Tick
  <1>1. UNCHANGED <<counter, backoffIdx, collisions, successes, streak>>
    BY DEF nodeVars
  <1>2. /\ tick \in Nat /\ tick' = tick + 1 /\ tick' \in 0 .. T
        /\ transmissionTime \in 0 .. L - 1 /\ out_channelUtil \in Nat
        /\ transmissionTime' \in 0 .. L - 1 /\ channelBusy' \in BOOLEAN
    <2>1. /\ tick \in 0 .. T /\ channelBusy = TRUE
          /\ transmissionTime \in 0 .. L - 1 /\ out_channelUtil \in Nat
      BY DEF CountersInRange, TypeOK
    <2>2. transmissionTime' \in 0 .. L - 1
      <3>1. CASE transmissionTime + 1 = L
        BY <3>1, NodesAssumption
      <3>2. CASE transmissionTime + 1 # L
        <4>1. transmissionTime' = transmissionTime + 1
          BY <3>2
        <4> QED
          BY <2>1, <3>2, <4>1, NodesAssumption
      <3> QED
        BY <3>1, <3>2
    <2>3. channelBusy' \in BOOLEAN
      <3>1. channelBusy' = FALSE \/ channelBusy' = channelBusy
        OBVIOUS
      <3> QED
        BY <2>1, <3>1, Zenon
    <2> QED
      BY <2>1, <2>2, <2>3, NodesAssumption
  <1>3. CountersInRange'
    BY <1>1, <1>2 DEF CountersInRange, TypeOK
  <1>4. BackoffInUse' /\ BackoffFollowsStreak'
    BY <1>1 DEF BackoffInUse, BackoffFollowsStreak
  <1>5. TransmissionStarts'
    BY <1>2 DEF TransmissionStarts
  <1>6. TicksAddUp'
    <2>1. Sum(successes') = Sum(successes) /\ Sum(successes) \in Nat
      BY <1>1, SumType DEF CountersInRange, TypeOK
    <2> DEFINE used == L * Sum(successes)
               sum == Sum(successes)
    <2>2. used \in Nat /\ L \in Nat
      BY <2>1, NodesAssumption
    <2>3. out_channelUtil = used - (L - transmissionTime)
      BY DEF TicksAddUp
    <2>4. out_channelUtil' = used - (IF channelBusy' THEN L - transmissionTime' ELSE 0)
      <3> HIDE DEF used
      <3>1. CASE transmissionTime + 1 = L
        BY <1>2, <2>2, <2>3, <3>1
      <3>2. CASE transmissionTime + 1 # L
        BY <1>2, <2>2, <2>3, <3>2
      <3> QED
        BY <3>1, <3>2
    <2>5. tick' = idleTicks + out_collisions + out_channelUtil' + sum
      <3>1. tick = idleTicks + out_collisions + out_channelUtil + sum
        BY DEF TicksAddUp
      <3>2. idleTicks \in Nat /\ out_collisions \in Nat /\ sum \in Nat
        BY <2>1 DEF CountersInRange, TypeOK
      <3> HIDE DEF sum
      <3> QED
        BY <1>2, <3>1, <3>2
    <2> QED
      BY <2>1, <2>4, <2>5 DEF TicksAddUp
  <1> QED
    BY <1>3, <1>4, <1>5, <1>6

(* A tick in which all nodes count down. *)
LEMMA IdleTickPreserves ==
  ASSUME IInv, IdleTick
  PROVE  IInv'
  <1> USE DEF IInv, IdleTick, Tick
  <1>1. tick \in Nat /\ tick' = tick + 1 /\ tick' \in 0 .. T
    BY NodesAssumption DEF CountersInRange, TypeOK
  <1>2. ASSUME NEW i \in Nodes
        PROVE  counter'[i] \in Nat /\ counter'[i] \in Draw(backoffIdx[i])
    <2>1. /\ counter[i] \in Nat /\ counter[i] # 0
          /\ counter[i] \in 0 .. R[backoffIdx[i] + 1]
          /\ R[backoffIdx[i] + 1] \in Nat
      BY DrawProperties DEF CountersInRange, TypeOK, Transmitters, Draw, BackoffInUse
    <2> QED
      BY <2>1 DEF Draw
  <1>3. counter' \in [Nodes -> Nat]
    BY <1>2
  <1>4. CountersInRange'
    BY <1>1, <1>2, <1>3 DEF CountersInRange, TypeOK
  <1>5. BackoffInUse' /\ BackoffFollowsStreak' /\ TransmissionStarts'
    BY DEF BackoffInUse, BackoffFollowsStreak, TransmissionStarts
  <1>6. TicksAddUp'
    <2>1. Sum(successes') = Sum(successes) /\ Sum(successes) \in Nat
      BY SumType DEF CountersInRange, TypeOK
    <2>2. tick' = (idleTicks + 1) + out_collisions + out_channelUtil + Sum(successes)
      BY <1>1, <2>1, SMTT(30) DEF TicksAddUp, CountersInRange, TypeOK
    <2> QED
      BY <2>1, <2>2 DEF TicksAddUp
  <1> QED
    BY <1>4, <1>5, <1>6

(* A tick in which one node starts a transmission. *)
LEMMA SuccessPreserves ==
  ASSUME IInv, NEW i \in Nodes, Success(i)
  PROVE  IInv'
  <1> USE DEF IInv, Success, Tick
  <1>1. tick \in Nat /\ tick' = tick + 1 /\ tick' \in 0 .. T
    BY NodesAssumption DEF CountersInRange, TypeOK
  <1>2. UNCHANGED <<collisions, out_channelUtil, out_collisions, idleTicks>>
    BY DEF outVars
  <1>3. 0 \in 0 .. M - 2 /\ 0 \in 0 .. Len(R) - 1 /\ Draw(0) \subseteq Nat
    <2>1. 0 \in 0 .. M - 2
      BY RangesSuffice
    <2> QED
      BY <2>1, DrawProperties
  <1>4. PICK drawn \in Draw(0) : counter' = [counter EXCEPT ![i] = drawn]
    OBVIOUS
  <1>5. CountersInRange'
    <2>1. counter' \in [Nodes -> Nat] /\ backoffIdx' \in [Nodes -> 0 .. Len(R) - 1]
      BY <1>3, <1>4 DEF CountersInRange, TypeOK
    <2>2. successes' \in [Nodes -> Nat] /\ streak' \in [Nodes -> Nat]
      BY DEF CountersInRange, TypeOK
    <2>3. ASSUME NEW j \in Nodes PROVE counter'[j] \in Draw(backoffIdx'[j])
      <3>1. CASE j = i
        BY <1>4, <3>1 DEF CountersInRange, TypeOK
      <3>2. CASE j # i
        BY <1>4, <3>2 DEF CountersInRange, TypeOK
      <3> QED
        BY <3>1, <3>2
    <2> QED
      BY <1>1, <1>2, <2>1, <2>2, <2>3 DEF CountersInRange, TypeOK
  <1>6. BackoffInUse'
    BY <1>3 DEF BackoffInUse, CountersInRange, TypeOK
  <1>7. BackoffFollowsStreak'
    <2>1. 0 % (M - 1) = 0
      BY RangesSuffice
    <2> QED
      BY <2>1 DEF BackoffFollowsStreak, CountersInRange, TypeOK
  <1>8. TransmissionStarts'
    BY DEF TransmissionStarts
  <1>9. TicksAddUp'
    <2> DEFINE sum == Sum(successes)
    <2>1. sum \in Nat /\ Sum(successes') = sum + 1
      BY SumType, SumGrows DEF CountersInRange, TypeOK
    <2>2. L * (sum + 1) = L * sum + L /\ L * sum \in Nat /\ L \in Nat
      BY <2>1, NodesAssumption
    <2>3. transmissionTime' = 0 /\ transmissionTime = 0
      BY DEF TransmissionStarts
    <2>4. out_channelUtil = L * sum /\ tick = idleTicks + out_collisions + out_channelUtil + sum
      <3>1. out_channelUtil = L * sum - 0
        BY DEF TicksAddUp
      <3> QED
        BY <2>2, <3>1 DEF TicksAddUp
    <2>5. idleTicks \in Nat /\ out_collisions \in Nat /\ out_channelUtil \in Nat
      BY DEF CountersInRange, TypeOK
    <2> HIDE DEF sum
    <2>6. out_channelUtil = L * (sum + 1) - (L - transmissionTime')
      BY <2>2, <2>3, <2>4
    <2>7. tick' = idleTicks + out_collisions + out_channelUtil + (sum + 1)
      BY <1>1, <2>1, <2>4, <2>5
    <2> QED
      BY <1>2, <2>1, <2>6, <2>7 DEF TicksAddUp
  <1> QED
    BY <1>5, <1>6, <1>7, <1>8, <1>9

(* A tick in which several nodes collide. *)
LEMMA CollisionPreserves ==
  ASSUME IInv, Collision
  PROVE  IInv'
  <1> USE DEF IInv, Collision, Tick
  <1>1. tick \in Nat /\ tick' = tick + 1 /\ tick' \in 0 .. T
    BY NodesAssumption DEF CountersInRange, TypeOK
  <1>2. PICK drawn \in NewCounters :
          counter' = [i \in Nodes |->
            IF i \in Transmitters THEN drawn[i] ELSE counter[i] - 1]
    OBVIOUS
  <1>3. ASSUME NEW i \in Nodes
        PROVE  /\ backoffIdx'[i] \in 0 .. M - 2 /\ backoffIdx'[i] = streak'[i] % (M - 1)
               /\ counter'[i] \in Nat /\ counter'[i] \in Draw(backoffIdx'[i])
               /\ collisions'[i] \in Nat /\ streak'[i] \in Nat
    <2>1. /\ collisions[i] \in Nat /\ streak[i] \in Nat /\ counter[i] \in Nat
          /\ backoffIdx[i] \in 0 .. M - 2 /\ backoffIdx[i] = streak[i] % (M - 1)
          /\ counter[i] \in Draw(backoffIdx[i])
      BY DEF CountersInRange, TypeOK, BackoffInUse, BackoffFollowsStreak
    <2>2. CASE i \in Transmitters
      <3>1. /\ backoffIdx'[i] = NextIndex(i) /\ streak'[i] = streak[i] + 1
            /\ collisions'[i] = collisions[i] + 1 /\ counter'[i] = drawn[i]
        BY <1>2, <2>2
      <3>2. drawn[i] \in Draw(NextIndex(i))
        BY <1>2, <2>2 DEF NewCounters
      <3>3. NextIndex(i) \in 0 .. M - 2 /\ NextIndex(i) = (streak[i] + 1) % (M - 1)
        BY NextIndexFollows
      <3>4. drawn[i] \in Nat
        BY <3>2, <3>3, DrawProperties
      <3>5. collisions[i] + 1 \in Nat /\ streak[i] + 1 \in Nat
        BY <2>1
      <3> QED
        BY <3>1, <3>2, <3>3, <3>4, <3>5
    <2>3. CASE i \notin Transmitters
      <3>1. /\ backoffIdx'[i] = backoffIdx[i] /\ streak'[i] = streak[i]
            /\ collisions'[i] = collisions[i] /\ counter'[i] = counter[i] - 1
        BY <1>2, <2>3
      <3>2. counter[i] # 0
        BY <2>3 DEF Transmitters
      <3>3. R[backoffIdx[i] + 1] \in Nat
        BY <2>1, DrawProperties
      <3>4. counter[i] - 1 \in Nat /\ counter[i] - 1 \in Draw(backoffIdx[i])
        BY <2>1, <3>2, <3>3 DEF Draw
      <3> QED
        BY <2>1, <3>1, <3>4
    <2> QED
      BY <2>2, <2>3
  <1>4. CountersInRange'
    <2>1. /\ counter' \in [Nodes -> Nat] /\ collisions' \in [Nodes -> Nat]
          /\ streak' \in [Nodes -> Nat]
      <3>1. counter' = [i \in Nodes |-> counter'[i]]
        BY <1>2
      <3>2. collisions' = [i \in Nodes |-> collisions'[i]]
        OBVIOUS
      <3>3. streak' = [i \in Nodes |-> streak'[i]]
        OBVIOUS
      <3> QED
        BY <1>3, <3>1, <3>2, <3>3
    <2>2. backoffIdx' \in [Nodes -> 0 .. Len(R) - 1]
      <3>1. backoffIdx' = [i \in Nodes |-> backoffIdx'[i]]
        OBVIOUS
      <3>2. \A i \in Nodes : backoffIdx'[i] \in 0 .. Len(R) - 1
        BY <1>3, DrawProperties
      <3> QED
        BY <3>1, <3>2
    <2>3. out_collisions' \in Nat
      BY DEF CountersInRange, TypeOK
    <2> QED
      BY <1>1, <1>3, <2>1, <2>2, <2>3 DEF CountersInRange, TypeOK
  <1>5. BackoffInUse' /\ BackoffFollowsStreak'
    BY <1>3 DEF BackoffInUse, BackoffFollowsStreak
  <1>6. TransmissionStarts'
    BY DEF TransmissionStarts
  <1>7. TicksAddUp'
    <2>1. Sum(successes') = Sum(successes) /\ Sum(successes) \in Nat
      BY SumType DEF CountersInRange, TypeOK
    <2>2. idleTicks \in Nat /\ out_collisions \in Nat /\ out_channelUtil \in Nat
      BY DEF CountersInRange, TypeOK
    <2>3. tick' = idleTicks + (out_collisions + 1) + out_channelUtil + Sum(successes)
      BY <1>1, <2>1, <2>2 DEF TicksAddUp
    <2> QED
      BY <2>1, <2>3 DEF TicksAddUp
  <1> QED
    BY <1>4, <1>5, <1>6, <1>7

(* Every tick preserves the invariant. *)
LEMMA IInvNext == IInv /\ [Next]_vars => IInv'
  <1> SUFFICES ASSUME IInv, [Next]_vars PROVE IInv'
    OBVIOUS
  <1>1. CASE UNCHANGED vars
    BY <1>1 DEF vars, nodeVars, outVars, IInv, CountersInRange, TypeOK, BackoffInUse,
                BackoffFollowsStreak, TransmissionStarts, TicksAddUp
  <1> QED
    BY <1>1, BusyTickPreserves, IdleTickPreserves, SuccessPreserves, CollisionPreserves
    DEF Next

(* The inductive invariant is an invariant. *)
LEMMA CsmaInvariant == Spec => []IInv
  <1> QED
    BY IInvInit, IInvNext, PTL DEF Spec

------------------------------------------------------------------------------
(* The properties *)

(* No counter ever becomes negative or leaves the range of its node's backoff
   index, and the index stays in the list of ranges. *)
THEOREM CsmaCountersInRange == Spec => []CountersInRange
  <1>1. IInv => CountersInRange
    BY DEF IInv
  <1> QED
    BY <1>1, CsmaInvariant, PTL

(* The backoff index is the number of collisions since the last success, modulo
   the number of ranges in use. *)
THEOREM CsmaBackoffFollowsStreak == Spec => []BackoffFollowsStreak
  <1>1. IInv => BackoffFollowsStreak
    BY DEF IInv
  <1> QED
    BY <1>1, CsmaInvariant, PTL

(* The reported numbers account for every tick, for any number of nodes. *)
THEOREM CsmaTicksAddUp == Spec => []TicksAddUp
  <1>1. IInv => TicksAddUp
    BY DEF IInv
  <1> QED
    BY <1>1, CsmaInvariant, PTL

==============================================================================
