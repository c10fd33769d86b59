------------------------------ MODULE DvProofs ------------------------------
(***************************************************************************)
(* Proofs about distance vector routing: the tables lead along cheaper and *)
(* cheaper vertices and never in a circle, every change is on its way to   *)
(* the neighbours, and the costs are those of shortest paths.              *)
(***************************************************************************)
EXTENDS DistanceVector, ProofLemmas

------------------------------------------------------------------------------
(* The topology *)

(* There are finitely many vertices, with numbers. *)
LEMMA VerticesFinite ==
  ASSUME NeighborsType
  PROVE  /\ vertices \subseteq Nat /\ IsFiniteSet(vertices)
         /\ Cardinality(vertices) \in Nat
         /\ Cardinality(vertices) <= Cardinality(Numbers)
         /\ Cardinality(Numbers) \in Nat
  BY NumbersAssumption, FS_Subset, FS_CardinalityType DEF NeighborsType

(* Weights are numbers, the same at both ends of an edge. *)
LEMMA EdgeWeights ==
  ASSUME NeighborsType, NEW v \in vertices, NEW u \in DOMAIN neighbors[v]
  PROVE  /\ u \in vertices /\ u # v /\ v \in DOMAIN neighbors[u]
         /\ neighbors[v][u] \in Weights /\ neighbors[v][u] \in Nat
         /\ neighbors[u][v] = neighbors[v][u]
  BY WeightsAssumption DEF NeighborsType, EdgesBothWays

(* A line of the input keeps the topology well formed. *)
LEMMA AddElementsKeepsType ==
  ASSUME NeighborsType, NEW line \in Lines, AddElements(line)
  PROVE  NeighborsType' /\ vertices \subseteq vertices'
  <1>1. Edges(neighbors, Numbers, Weights)
    BY DEF NeighborsType, EdgesBothWays, vertices, Edges
  <1>2. /\ line[1] \in Numbers /\ line[2] \in Numbers /\ line[1] # line[2]
        /\ line[3] \in Weights \cup {RemoveMark}
    BY DEF Lines
  <1>3. neighbors' = WithEdge(neighbors, line[1], line[2], line[3], RemoveMark)
    BY DEF AddElements, WithEdge, EdgesOf, NeighborsOf, Put, Drop, vertices
  <1>4. Edges(neighbors', Numbers, Weights) /\ DOMAIN neighbors \subseteq DOMAIN neighbors'
    BY <1>1, <1>2, <1>3, WithEdgeKeeps
  <1> QED
    BY <1>4 DEF NeighborsType, EdgesBothWays, vertices, Edges

------------------------------------------------------------------------------
(* The messages *)

MessageSet(senders) == {e \in senders \X vertices : e[2] \in DOMAIN neighbors[e[1]]}

(* The loops over the neighbours put every message into the queue, and nothing
   else. *)
LEMMA MessagesOfAll ==
  ASSUME NeighborsType, NEW senders \in SUBSET vertices
  PROVE  /\ MessagesOf(senders) \in Seq(MessageSet(senders))
         /\ \A e \in MessageSet(senders) :
              \E i \in 1 .. Len(MessagesOf(senders)) : MessagesOf(senders)[i] = e
  <1> DEFINE M == MessageSet(senders)
             n == Cardinality(M)
             Earlier(e) == {d \in M : Before(d, e)}
             rank == [e \in M |-> Cardinality(Earlier(e))]
  <1>1. MessagesOf(senders) =
          [i \in 1 .. n |-> CHOOSE e \in M : Cardinality(Earlier(e)) = i - 1]
    BY DEF MessagesOf, MessageSet
  <1>2. M \subseteq Nat \X Nat /\ IsFiniteSet(M) /\ n \in Nat
    <2>1. vertices \subseteq Nat /\ IsFiniteSet(vertices)
      BY VerticesFinite
    <2>2. IsFiniteSet(vertices \X vertices)
      BY <2>1, FS_Product
    <2>3. M \in SUBSET (vertices \X vertices)
      BY DEF MessageSet
    <2>4. IsFiniteSet(M)
      <3> HIDE DEF M
      <3> QED
        BY <2>2, <2>3, FS_Subset
    <2> QED
      BY <2>1, <2>3, <2>4, FS_CardinalityType
  <1> HIDE DEF M
  <1>3. ASSUME NEW e \in M
        PROVE  IsFiniteSet(Earlier(e)) /\ Cardinality(Earlier(e)) \in 0 .. n - 1
    <2>1. e \notin Earlier(e) /\ Earlier(e) \in SUBSET (M \ {e})
      BY <1>2 DEF Before
    <2>2. IsFiniteSet(M \ {e}) /\ Cardinality(M \ {e}) = n - 1
      BY <1>2, FS_RemoveElement
    <2> HIDE DEF Earlier
    <2>3. IsFiniteSet(Earlier(e)) /\ Cardinality(Earlier(e)) <= n - 1
      BY <2>1, <2>2, FS_Subset
    <2> QED
      BY <1>2, <2>3, FS_CardinalityType
  <1>4. ASSUME NEW d \in M, NEW e \in M, Before(d, e)
        PROVE  Cardinality(Earlier(d)) < Cardinality(Earlier(e))
    <2>1. Earlier(d) \in SUBSET Earlier(e)
      BY <1>2, <1>4 DEF Before
    <2>2. d \in Earlier(e) /\ d \notin Earlier(d)
      BY <1>2, <1>4 DEF Before
    <2> HIDE DEF Earlier
    <2>3. /\ Cardinality(Earlier(d)) <= Cardinality(Earlier(e))
          /\ Cardinality(Earlier(d)) # Cardinality(Earlier(e))
      BY <1>3, <2>1, <2>2, FS_Subset
    <2> QED
      BY <1>2, <1>3, <2>3
  <1>5. ASSUME NEW d \in M, NEW e \in M, Cardinality(Earlier(d)) = Cardinality(Earlier(e))
        PROVE  d = e
    <2> HIDE DEF Earlier, rank
    <2>1. Cardinality(Earlier(d)) \in Int /\ Cardinality(Earlier(e)) \in Int
      BY <1>2, <1>3
    <2>2. ~Before(d, e)
      BY <1>4, <1>5, <2>1
    <2>3. ~Before(e, d)
      BY <1>4, <1>5, <2>1
    <2> QED
      BY <1>2, <2>2, <2>3 DEF Before
  <1>6. ASSUME NEW k \in 0 .. n - 1
        PROVE  \E e \in M : Cardinality(Earlier(e)) = k
    <2>1. rank \in Injection(M, 0 .. n - 1)
      <3>1. rank \in [M -> 0 .. n - 1]
        BY <1>3
      <3> QED
        BY <1>5, <3>1 DEF Injection, IsInjective
    <2>2. IsFiniteSet(0 .. n - 1) /\ Cardinality(0 .. n - 1) = n
      BY <1>2, <1>6, FS_Interval
    <2> HIDE DEF rank
    <2>3. rank \in Surjection(M, 0 .. n - 1)
      BY <2>1, <2>2, FS_Injection
    <2>4. PICK e \in M : rank[e] = k
      BY <2>3 DEF Surjection
    <2> QED
      BY <2>4 DEF rank
  <1> HIDE DEF Earlier
  <1>7. ASSUME NEW i \in 1 .. n
        PROVE  MessagesOf(senders)[i] \in M
               /\ Cardinality(Earlier(MessagesOf(senders)[i])) = i - 1
    <2>1. i - 1 \in 0 .. n - 1
      BY <1>2
    <2>2. PICK e \in M : Cardinality(Earlier(e)) = i - 1
      BY <1>6, <2>1
    <2> QED
      BY <1>1, <2>2
  <1>8. MessagesOf(senders) \in Seq(M) /\ Len(MessagesOf(senders)) = n
    <2>1. MessagesOf(senders) \in [1 .. n -> M]
      BY <1>1, <1>7
    <2>2. \A f : f \in [1 .. n -> M] => f \in Seq(M) /\ Len(f) = n
      BY <1>2
    <2> QED
      BY <2>1, <2>2
  <1>9. ASSUME NEW e \in M
        PROVE  \E i \in 1 .. n : MessagesOf(senders)[i] = e
    <2> DEFINE i == Cardinality(Earlier(e)) + 1
    <2>1. i \in 1 .. n /\ i - 1 = Cardinality(Earlier(e))
      BY <1>2, <1>3
    <2> HIDE DEF i
    <2>2. MessagesOf(senders)[i] = e
      BY <1>5, <1>7, <2>1
    <2> QED
      BY <2>1, <2>2
  <1> QED
    BY <1>8, <1>9 DEF M

------------------------------------------------------------------------------
(* The inductive invariant *)

(* The lengths of the shortest paths from start by the number of their edges. *)
Lengths(start) == Over(vertices, neighbors, INT_MAX, start)

(* The tables are those of this topology; a vertex is at no distance to itself. *)
Tables ==
  /\ DOMAIN dv_cost = vertices
  /\ \A v \in vertices : v \in DOMAIN dv_cost[v] /\ dv_cost[v][v] = 0

(* The next hop is a neighbour that knows the destination at a covered cost. *)
Leads ==
  \A v \in vertices : \A dst \in DOMAIN dv_cost[v] : v # dst =>
    /\ dv_next_hop[v][dst] \in DOMAIN neighbors[v]
    /\ dst \in DOMAIN dv_cost[dv_next_hop[v][dst]]
    /\ neighbors[v][dv_next_hop[v][dst]] + dv_cost[dv_next_hop[v][dst]][dst]
         <= dv_cost[v][dst]

(* The next hops towards dst never leave C. *)
Circle(C, dst) ==
  /\ C # {} /\ C \subseteq vertices \ {dst}
  /\ \A v \in C : dst \in DOMAIN dv_cost[v] /\ dv_next_hop[v][dst] \in C

NoCircle == \A dst \in vertices : \A C \in SUBSET vertices : ~Circle(C, dst)

(* The cost of an entry came over the vertices of S, one after the other.  None of
   them has the destination at a higher cost now, so none was passed twice. *)
CameOver(v, dst, S, w) ==
  /\ v \in S
  /\ dv_cost[v][dst] <= w * (Cardinality(S) - 1)
  /\ Lengths(v)[Cardinality(S) - 1][dst] <= dv_cost[v][dst]
  /\ \A u \in S : dst \in DOMAIN dv_cost[u] /\ dv_cost[u][dst] <= dv_cost[v][dst]

PathsBehind ==
  \A v \in vertices : \A dst \in DOMAIN dv_cost[v] :
    \E S \in SUBSET vertices, w \in Weights \cup {0} : CameOver(v, dst, S, w)

(* What could be improved, is about to be told. *)
Pending ==
  \A v \in vertices : \A u \in DOMAIN neighbors[v] :
    Improved(v, u) # {} => \E i \in 1 .. Len(q) : q[i] = <<v, u>>

(* When messages are sent, there is nothing left to tell. *)
Settled ==
  \A v \in vertices : \A u \in DOMAIN neighbors[v] : Improved(v, u) = {}

IInv ==
  /\ TypeOK
  /\ pc # "receive" => q = << >>
  /\ pc # "messages" => message = NoMessage
  /\ pc \in {"receive", "messages"} => Tables /\ Leads /\ NoCircle /\ PathsBehind
  /\ pc = "receive" => Pending
  /\ pc = "messages" => Settled
  /\ MessageCosts


(* The topology is a graph, and its distances are the last of the lengths. *)
LEMMA TopologyIsGraph ==
  ASSUME NeighborsType
  PROVE  /\ Graph(vertices, neighbors, INT_MAX)
         /\ \A v \in vertices : Distances(v) = Lengths(v)[Cardinality(vertices)]
  <1>1. Graph(vertices, neighbors, INT_MAX)
    BY VerticesFinite, EdgeWeights, CostsFit DEF Graph
  <1>2. \A v \in vertices : Distances(v) = Lengths(v)[Cardinality(vertices)]
    BY DEF Distances, Lengths, Over, OneMore, Least, Smallest
  <1> QED
    BY <1>1, <1>2

(* The entries of the tables are numbers and vertices. *)
LEMMA EntryTypes ==
  ASSUME TypeOK, Tables, NEW v \in vertices
  PROVE  /\ DOMAIN dv_next_hop[v] = DOMAIN dv_cost[v]
         /\ \A dst \in DOMAIN dv_cost[v] :
              /\ dst \in vertices /\ dv_next_hop[v][dst] \in vertices
              /\ dv_cost[v][dst] \in Nat /\ dv_cost[v][dst] < INT_MAX
  BY CostsFit DEF TypeOK, Tables

(* A cost over different vertices is less than INT_MAX. *)
LEMMA CostsInRange ==
  ASSUME NeighborsType, NEW S \in SUBSET vertices, NEW v \in S, NEW w \in Weights \cup {0},
         NEW n \in Nat, n <= w * (Cardinality(S) - 1)
  PROVE  n < INT_MAX
  <1>1. /\ IsFiniteSet(S) /\ Cardinality(S) \in Nat
        /\ Cardinality(S) <= Cardinality(vertices) /\ Cardinality(S) # 0
    BY VerticesFinite, FS_Subset, FS_CardinalityType, FS_EmptySet
  <1>2. Cardinality(S) - 1 \in Nat /\ Cardinality(S) - 1 <= Cardinality(Numbers)
        /\ Cardinality(Numbers) \in Nat
    BY <1>1, VerticesFinite
  <1>3. w \in Nat /\ w * Cardinality(Numbers) < INT_MAX
    BY <1>2, WeightsAssumption, CostsFit
  <1> DEFINE a == Cardinality(S) - 1
             b == Cardinality(Numbers)
  <1>4. w * a <= w * b
    <2>1. a \in Nat /\ b - a \in Nat /\ b = a + (b - a)
      BY <1>2
    <2> HIDE DEF a, b
    <2>2. w * b = w * a + w * (b - a)
      BY <1>3, <2>1
    <2>3. w * (b - a) \in Nat /\ w * a \in Nat
      BY <1>3, <2>1
    <2> QED
      BY <2>2, <2>3
  <1>5. w * a \in Nat /\ w * b \in Nat
    BY <1>2, <1>3
  <1> HIDE DEF a, b
  <1> QED
    BY <1>3, <1>4, <1>5, CostsFit DEF a, b

------------------------------------------------------------------------------
(* The start of a computation *)

(* Every vertex starts with its neighbours, which are their own next hops. *)
LEMMA StartsWith ==
  ASSUME TypeOK, StartTables
  PROVE  /\ UNCHANGED <<neighbors, message>> /\ pc = "distanceVector" /\ pc' = "receive"
         /\ DOMAIN dv_cost' = vertices /\ DOMAIN dv_next_hop' = vertices
         /\ \A v \in vertices :
              /\ DOMAIN dv_cost'[v] = DOMAIN neighbors[v] \cup {v}
              /\ DOMAIN dv_next_hop'[v] = DOMAIN neighbors[v] \cup {v}
              /\ dv_cost'[v] = [u \in DOMAIN dv_cost'[v] |-> dv_cost'[v][u]]
              /\ dv_next_hop'[v] = [u \in DOMAIN dv_cost'[v] |-> u]
              /\ dv_cost'[v][v] = 0
              /\ \A u \in DOMAIN neighbors[v] : dv_cost'[v][u] = neighbors[v][u]
  <1>1. \A v \in vertices : v \notin DOMAIN neighbors[v]
    BY DEF TypeOK, NeighborsType
  <1> QED
    BY <1>1 DEF StartTables, Put

(* The first tables are in order. *)
LEMMA StartTablesInOrder ==
  ASSUME TypeOK, StartTables
  PROVE  Tables' /\ Leads' /\ NoCircle' /\ PathsBehind'
  <1>1. NeighborsType /\ vertices' = vertices /\ neighbors' = neighbors
    BY StartsWith DEF TypeOK, vertices
  <1>2. ASSUME NEW v \in vertices, NEW u \in DOMAIN neighbors[v]
        PROVE  /\ u \in vertices /\ u # v /\ v \in DOMAIN neighbors[u]
               /\ neighbors[v][u] \in Nat /\ neighbors[v][u] \in Weights
    BY <1>1, EdgeWeights
  <1>3. Tables'
    BY <1>1, StartsWith DEF Tables
  <1>4. Leads'
    <2> SUFFICES ASSUME NEW v \in vertices, NEW u \in DOMAIN neighbors[v]
                 PROVE  /\ dv_next_hop'[v][u] \in DOMAIN neighbors[v]
                        /\ u \in DOMAIN dv_cost'[dv_next_hop'[v][u]]
                        /\ neighbors[v][dv_next_hop'[v][u]] + dv_cost'[dv_next_hop'[v][u]][u]
                             <= dv_cost'[v][u]
      BY <1>1, StartsWith DEF Leads
    <2>1. dv_next_hop'[v][u] = u /\ dv_cost'[v][u] = neighbors[v][u]
      BY StartsWith
    <2>2. u \in DOMAIN dv_cost'[u] /\ dv_cost'[u][u] = 0
      BY <1>2, StartsWith
    <2> QED
      BY <1>2, <2>1, <2>2
  <1>5. NoCircle'
    <2> SUFFICES ASSUME NEW dst \in vertices, NEW C \in SUBSET vertices, Circle(C, dst)'
                 PROVE  FALSE
      BY <1>1 DEF NoCircle
    <2>1. PICK v \in C : dst \in DOMAIN dv_cost'[v] /\ dv_next_hop'[v][dst] \in C
      BY DEF Circle
    <2>2. dv_next_hop'[v][dst] = dst
      BY <2>1, StartsWith
    <2> QED
      BY <2>1, <2>2 DEF Circle
  <1>6. PathsBehind'
    <2> SUFFICES ASSUME NEW v \in vertices, NEW dst \in DOMAIN neighbors[v] \cup {v}
                 PROVE  \E S \in SUBSET vertices, w \in Weights \cup {0} :
                          CameOver(v, dst, S, w)'
      BY <1>1, StartsWith DEF PathsBehind
    <2> DEFINE n == Cardinality(vertices)
    <2>1. Graph(vertices, neighbors, INT_MAX) /\ IsFiniteSet(vertices) /\ n \in Nat /\ n # 0
      BY <1>1, TopologyIsGraph, VerticesFinite, FS_EmptySet
    <2>2. ASSUME NEW x \in vertices
          PROVE  Lengths(x)[0][x] = 0 /\ Lengths(x)' = Lengths(x)
      <3>1. Lengths(x)' = Lengths(x)
        BY <1>1 DEF Lengths
      <3>2. Lengths(x)[0] = [u \in vertices |-> IF u = x THEN 0 ELSE INT_MAX]
        BY <2>1, OverIs DEF Lengths
      <3> QED
        BY <3>1, <3>2
    <2>3. CASE dst = v
      <3>1. Cardinality({v}) - 1 = 0
        BY FS_Singleton
      <3>2. 0 * (Cardinality({v}) - 1) = 0
        BY <3>1
      <3>3. dv_cost'[v][v] = 0 /\ v \in DOMAIN dv_cost'[v]
        BY StartsWith
      <3>4. CameOver(v, v, {v}, 0)'
        BY <2>2, <3>1, <3>2, <3>3 DEF CameOver
      <3> QED
        BY <2>3, <3>4
    <2>4. CASE dst # v
      <3>1. dst \in DOMAIN neighbors[v] /\ dst \in vertices
        BY <1>2, <2>4
      <3> DEFINE S == {v, dst}
      <3>2. PICK w \in Nat : w \in Weights /\ w = neighbors[v][dst]
        BY <1>2, <3>1
      <3>3. Cardinality(S) - 1 = 1
        <4>1. Cardinality({v, dst}) = 2
          BY <2>4, TwoElements
        <4> QED
          BY <4>1
      <3>4. Lengths(v)[1][dst] <= w
        <4>1. 0 \in Nat /\ 0 < n /\ 0 + 1 = 1
          BY <2>1
        <4>2. Lengths(v)[1][dst] <= w + Lengths(dst)[0][dst]
          <5>1. Over(vertices, neighbors, INT_MAX, v)[0 + 1][dst]
                  <= neighbors[v][dst] + Over(vertices, neighbors, INT_MAX, dst)[0][dst]
            BY <2>1, <3>1, <4>1, OverNeighbor
          <5> QED
            BY <3>2, <4>1, <5>1 DEF Lengths
        <4> QED
          BY <2>2, <3>1, <3>2, <4>2
      <3> HIDE DEF S
      <3>5. /\ dv_cost'[v][dst] = w /\ dv_cost'[dst][dst] = 0
            /\ dst \in DOMAIN dv_cost'[v] /\ dst \in DOMAIN dv_cost'[dst]
        BY <3>1, <3>2, StartsWith
      <3>6. CameOver(v, dst, S, w)'
        <4>1. w * (Cardinality(S) - 1) = w
          BY <3>2, <3>3
        <4>2. \A u \in S : dst \in DOMAIN dv_cost'[u] /\ dv_cost'[u][dst] <= w
          BY <3>2, <3>5 DEF S
        <4>3. (Lengths(v)[Cardinality(S) - 1][dst])' <= w
          BY <2>2, <3>3, <3>4
        <4>4. v \in S /\ w <= w
          BY <3>2 DEF S
        <4> QED
          BY <1>1, <3>5, <4>1, <4>2, <4>3, <4>4 DEF CameOver
      <3> QED
        BY <3>1, <3>2, <3>6 DEF S
    <2> QED
      BY <2>3, <2>4
  <1> QED
    BY <1>3, <1>4, <1>5, <1>6

(* The start of a computation preserves the invariant. *)
LEMMA StartTablesPreserves ==
  ASSUME IInv, StartTables
  PROVE  IInv'
  <1>1. TypeOK /\ message = NoMessage /\ MessageCosts
    BY DEF IInv, StartTables
  <1>2. /\ NeighborsType /\ NeighborsType' /\ vertices' = vertices /\ neighbors' = neighbors
        /\ message' = message /\ pc' = "receive"
    BY <1>1, StartsWith DEF TypeOK, NeighborsType, EdgesBothWays, vertices
  <1>3. Tables' /\ Leads' /\ NoCircle' /\ PathsBehind'
    BY <1>1, StartTablesInOrder
  <1>4. q' = MessagesOf(vertices)
    BY DEF StartTables
  <1>5. /\ q' \in Seq(MessageSet(vertices))
        /\ \A e \in MessageSet(vertices) : \E i \in 1 .. Len(q') : q'[i] = e
    BY <1>2, <1>4, MessagesOfAll
  <1>6. Pending'
    <2> SUFFICES ASSUME NEW v \in vertices, NEW u \in DOMAIN neighbors[v]
                 PROVE  \E i \in 1 .. Len(q') : q'[i] = <<v, u>>
      BY <1>2 DEF Pending
    <2>1. <<v, u>> \in MessageSet(vertices)
      BY <1>2, EdgeWeights DEF MessageSet
    <2> QED
      BY <1>5, <2>1
  <1>7. TypeOK'
    <2>1. q' \in Seq({e \in vertices' \X vertices' : e[2] \in DOMAIN neighbors'[e[1]]})
      BY <1>2, <1>5 DEF MessageSet
    <2>2. ASSUME NEW v \in vertices
          PROVE  /\ DOMAIN dv_cost'[v] \subseteq vertices
                 /\ dv_cost'[v] \in [DOMAIN dv_cost'[v] -> 0 .. INT_MAX - 1]
                 /\ dv_next_hop'[v] \in [DOMAIN dv_cost'[v] -> vertices]
      <3>1. DOMAIN dv_cost'[v] \subseteq vertices
        BY <1>1, <1>2, EdgeWeights, StartsWith
      <3>2. ASSUME NEW u \in DOMAIN dv_cost'[v]
            PROVE  dv_cost'[v][u] \in 0 .. INT_MAX - 1
        <4>1. dv_cost'[v][u] \in Nat
          BY <1>1, <1>2, EdgeWeights, StartsWith
        <4>2. PICK S \in SUBSET vertices, w \in Weights \cup {0} : CameOver(v, u, S, w)'
          BY <1>2, <1>3 DEF PathsBehind
        <4>3. v \in S /\ dv_cost'[v][u] <= w * (Cardinality(S) - 1)
          BY <4>2 DEF CameOver
        <4>4. dv_cost'[v][u] < INT_MAX
          BY <1>2, <4>1, <4>3, CostsInRange
        <4> QED
          BY <4>1, <4>4, CostsFit
      <3> QED
        BY <1>1, <3>1, <3>2, StartsWith
    <2>3. DOMAIN dv_cost' = vertices /\ DOMAIN dv_next_hop' = vertices
      BY <1>1, StartsWith
    <2>4. message'.hops \in Seq(vertices')
      BY <1>1, <1>2 DEF TypeOK
    <2> QED
      BY <1>2, <2>1, <2>2, <2>3, <2>4 DEF TypeOK
  <1>8. MessageCosts'
    BY <1>1, <1>2 DEF MessageCosts, NoMessage, Message
  <1> QED
    BY <1>1, <1>2, <1>3, <1>6, <1>7, <1>8 DEF IInv


------------------------------------------------------------------------------
(* A message *)

(* Does the vertex v learn of dst from s, when r is the receiver? *)
Told(s, r, v, dst) == v = r /\ dst \in Improved(s, r)

(* What a message from s to r changes in the tables. *)
UpdatesFrom(s, r) ==
  /\ UNCHANGED <<neighbors, pc, message>>
  /\ DOMAIN dv_cost' = vertices /\ DOMAIN dv_next_hop' = vertices
  /\ \A v \in vertices :
       /\ DOMAIN dv_cost'[v] = DOMAIN dv_cost[v] \cup {dst \in vertices : Told(s, r, v, dst)}
       /\ dv_cost'[v] \in [DOMAIN dv_cost'[v] -> Nat]
       /\ dv_next_hop'[v] \in [DOMAIN dv_cost'[v] -> vertices]
       /\ \A dst \in DOMAIN dv_cost'[v] :
            IF Told(s, r, v, dst)
            THEN /\ dv_cost'[v][dst] = neighbors[s][r] + dv_cost[s][dst]
                 /\ dv_next_hop'[v][dst] = s
            ELSE /\ dst \in DOMAIN dv_cost[v]
                 /\ dv_cost'[v][dst] = dv_cost[v][dst]
                 /\ dv_next_hop'[v][dst] = dv_next_hop[v][dst]

(* A destination that is told of is known to the sender, is not the receiver, and
   gets cheaper. *)
LEMMA ToldOf ==
  ASSUME TypeOK, Tables, NEW s \in vertices, NEW r \in DOMAIN neighbors[s]
  PROVE  /\ r \in vertices /\ r # s /\ s \in DOMAIN neighbors[r]
         /\ neighbors[s][r] \in Nat /\ neighbors[s][r] \in Weights
         /\ neighbors[r][s] = neighbors[s][r]
         /\ \A dst \in Improved(s, r) :
              /\ dst \in DOMAIN dv_cost[s] /\ dst \in vertices /\ dst # r
              /\ dv_cost[s][dst] \in Nat
              /\ dst \in DOMAIN dv_cost[r] =>
                   neighbors[s][r] + dv_cost[s][dst] < dv_cost[r][dst]
  <1>1. NeighborsType
    BY DEF TypeOK
  <1>2. /\ r \in vertices /\ r # s /\ s \in DOMAIN neighbors[r]
        /\ neighbors[s][r] \in Nat /\ neighbors[s][r] \in Weights
        /\ neighbors[r][s] = neighbors[s][r]
    BY <1>1, EdgeWeights
  <1>3. ASSUME NEW dst \in Improved(s, r)
        PROVE  /\ dst \in DOMAIN dv_cost[s] /\ dst \in vertices /\ dst # r
               /\ dv_cost[s][dst] \in Nat
               /\ dst \in DOMAIN dv_cost[r] =>
                    neighbors[s][r] + dv_cost[s][dst] < dv_cost[r][dst]
    BY EntryTypes DEF Improved, Offer
  <1> QED
    BY <1>2, <1>3

(* A step of the receiver is such an update. *)
LEMMA ReceiveUpdates ==
  ASSUME IInv, Receive
  PROVE  /\ pc = "receive" /\ q # << >>
         /\ \E s \in vertices : \E r \in DOMAIN neighbors[s] :
              /\ Head(q) = <<s, r>> /\ q' = Tail(q) \o Broadcast(s, r)
              /\ UpdatesFrom(s, r)
  <1> DEFINE s == Head(q)[1]
             r == Head(q)[2]
             new == Improved(s, r)
  <1>1. pc = "receive" /\ q # << >> /\ TypeOK /\ Tables
    BY DEF Receive, IInv
  <1>2. s \in vertices /\ r \in DOMAIN neighbors[s] /\ Head(q) = <<s, r>>
    <2> DEFINE M == {e \in vertices \X vertices : e[2] \in DOMAIN neighbors[e[1]]}
    <2>1. q \in Seq(M)
      BY <1>1 DEF TypeOK
    <2>2. Head(q) \in M
      <3> HIDE DEF M
      <3> QED
        BY <1>1, <2>1, HeadTailProperties
    <2> QED
      BY <2>2
  <1>3. /\ dv_cost' = [dv_cost EXCEPT ![r] =
             [dst \in DOMAIN @ \cup new |->
                IF dst \in new THEN Offer(s, r, dst) ELSE @[dst]]]
        /\ dv_next_hop' = [dv_next_hop EXCEPT ![r] =
             [dst \in DOMAIN @ \cup new |-> IF dst \in new THEN s ELSE @[dst]]]
        /\ q' = Tail(q) \o Broadcast(s, r)
        /\ UNCHANGED <<neighbors, pc, message>>
    BY DEF Receive
  <1> HIDE DEF s, r, new
  <1>4. r \in vertices /\ \A dst \in new :
               /\ dst \in DOMAIN dv_cost[s] /\ dst \in vertices
               /\ neighbors[s][r] + dv_cost[s][dst] \in Nat
    BY <1>1, <1>2, ToldOf DEF new
  <1>5. DOMAIN dv_cost = vertices /\ DOMAIN dv_next_hop = vertices
    BY <1>1 DEF Tables, TypeOK
  <1>6. ASSUME NEW v \in vertices
        PROVE  /\ DOMAIN dv_cost'[v] =
                    DOMAIN dv_cost[v] \cup {dst \in vertices : Told(s, r, v, dst)}
               /\ dv_cost'[v] \in [DOMAIN dv_cost'[v] -> Nat]
               /\ dv_next_hop'[v] \in [DOMAIN dv_cost'[v] -> vertices]
               /\ \A dst \in DOMAIN dv_cost'[v] :
                    IF Told(s, r, v, dst)
                    THEN /\ dv_cost'[v][dst] = neighbors[s][r] + dv_cost[s][dst]
                         /\ dv_next_hop'[v][dst] = s
                    ELSE /\ dst \in DOMAIN dv_cost[v]
                         /\ dv_cost'[v][dst] = dv_cost[v][dst]
                         /\ dv_next_hop'[v][dst] = dv_next_hop[v][dst]
    <2>1. /\ DOMAIN dv_next_hop[v] = DOMAIN dv_cost[v]
          /\ dv_cost[v] \in [DOMAIN dv_cost[v] -> Nat]
          /\ dv_next_hop[v] \in [DOMAIN dv_cost[v] -> vertices]
      BY <1>1, <1>5, EntryTypes DEF TypeOK
    <2>2. CASE v # r
      <3>1. dv_cost'[v] = dv_cost[v] /\ dv_next_hop'[v] = dv_next_hop[v]
        BY <1>3, <1>5, <2>2
      <3>2. \A dst : ~Told(s, r, v, dst)
        BY <2>2 DEF Told
      <3> QED
        BY <2>1, <3>1, <3>2
    <2>3. CASE v = r
      <3>1. /\ dv_cost'[v] = [dst \in DOMAIN dv_cost[v] \cup new |->
                  IF dst \in new THEN Offer(s, r, dst) ELSE dv_cost[v][dst]]
            /\ dv_next_hop'[v] = [dst \in DOMAIN dv_cost[v] \cup new |->
                  IF dst \in new THEN s ELSE dv_next_hop[v][dst]]
        BY <1>3, <1>5, <2>1, <2>3
      <3>2. \A dst : Told(s, r, v, dst) <=> dst \in new
        BY <2>3 DEF Told, new
      <3>3. DOMAIN dv_cost'[v] =
              DOMAIN dv_cost[v] \cup {dst \in vertices : Told(s, r, v, dst)}
        BY <1>4, <3>1, <3>2
      <3>4. \A dst \in new : Offer(s, r, dst) = neighbors[s][r] + dv_cost[s][dst]
        BY DEF Offer
      <3>5. dv_cost'[v] \in [DOMAIN dv_cost'[v] -> Nat]
        BY <1>4, <2>1, <3>1, <3>4
      <3>6. dv_next_hop'[v] \in [DOMAIN dv_cost'[v] -> vertices]
        BY <1>2, <2>1, <3>1
      <3>7. ASSUME NEW dst \in DOMAIN dv_cost'[v]
            PROVE  IF Told(s, r, v, dst)
                   THEN /\ dv_cost'[v][dst] = neighbors[s][r] + dv_cost[s][dst]
                        /\ dv_next_hop'[v][dst] = s
                   ELSE /\ dst \in DOMAIN dv_cost[v]
                        /\ dv_cost'[v][dst] = dv_cost[v][dst]
                        /\ dv_next_hop'[v][dst] = dv_next_hop[v][dst]
        BY <3>1, <3>2, <3>4
      <3> QED
        BY <3>3, <3>5, <3>6, <3>7
    <2> QED
      BY <2>2, <2>3
  <1>7. DOMAIN dv_cost' = vertices /\ DOMAIN dv_next_hop' = vertices
    BY <1>3, <1>5
  <1>8. UpdatesFrom(s, r)
    BY <1>3, <1>6, <1>7 DEF UpdatesFrom
  <1> QED
    BY <1>1, <1>2, <1>3, <1>8

(* No entry is lost and no cost grows. *)
LEMMA CostsShrink ==
  ASSUME TypeOK, Tables, NEW s \in vertices, NEW r \in DOMAIN neighbors[s],
         UpdatesFrom(s, r), NEW v \in vertices, NEW dst \in DOMAIN dv_cost[v]
  PROVE  /\ dst \in DOMAIN dv_cost'[v]
         /\ dv_cost'[v][dst] \in Nat /\ dv_cost[v][dst] \in Nat
         /\ dv_cost'[v][dst] <= dv_cost[v][dst]
  <1>1. dst \in DOMAIN dv_cost'[v] /\ dv_cost'[v][dst] \in Nat
    BY DEF UpdatesFrom
  <1>2. dv_cost[v][dst] \in Nat
    BY EntryTypes
  <1>3. CASE Told(s, r, v, dst)
    <2>1. dv_cost'[v][dst] = neighbors[s][r] + dv_cost[s][dst]
      BY <1>1, <1>3 DEF UpdatesFrom
    <2>2. neighbors[s][r] + dv_cost[s][dst] < dv_cost[v][dst]
      BY <1>3, ToldOf DEF Told
    <2> QED
      BY <1>1, <1>2, <2>1, <2>2
  <1>4. CASE ~Told(s, r, v, dst)
    BY <1>1, <1>2, <1>4 DEF UpdatesFrom
  <1> QED
    BY <1>1, <1>2, <1>3, <1>4

(* An update keeps the tables complete, and the next hops lead on. *)
LEMMA UpdateLeads ==
  ASSUME TypeOK, Tables, Leads, NEW s \in vertices, NEW r \in DOMAIN neighbors[s],
         UpdatesFrom(s, r)
  PROVE  Tables' /\ Leads'
  <1>1. vertices' = vertices /\ neighbors' = neighbors
    BY DEF UpdatesFrom, vertices
  <1>2. ASSUME NEW v \in vertices
        PROVE  v \in DOMAIN dv_cost'[v] /\ dv_cost'[v][v] = 0
    <2>1. v \in DOMAIN dv_cost[v] /\ dv_cost[v][v] = 0
      BY DEF Tables
    <2>2. ~Told(s, r, v, v)
      BY ToldOf DEF Told
    <2> QED
      BY <2>1, <2>2, CostsShrink DEF UpdatesFrom
  <1>3. Tables'
    BY <1>1, <1>2 DEF Tables, UpdatesFrom
  <1>4. ASSUME NEW v \in vertices, NEW dst \in DOMAIN dv_cost'[v], v # dst
        PROVE  /\ dv_next_hop'[v][dst] \in DOMAIN neighbors[v]
               /\ dst \in DOMAIN dv_cost'[dv_next_hop'[v][dst]]
               /\ neighbors[v][dv_next_hop'[v][dst]] + dv_cost'[dv_next_hop'[v][dst]][dst]
                    <= dv_cost'[v][dst]
    <2>1. CASE Told(s, r, v, dst)
      <3>1. /\ dv_cost'[v][dst] = neighbors[s][r] + dv_cost[s][dst]
            /\ dv_next_hop'[v][dst] = s /\ v = r /\ dst \in Improved(s, r)
        BY <2>1 DEF UpdatesFrom, Told
      <3>2. /\ dst \in DOMAIN dv_cost[s] /\ s \in DOMAIN neighbors[r]
            /\ neighbors[r][s] = neighbors[s][r] /\ neighbors[s][r] \in Nat
        BY <3>1, ToldOf
      <3>3. /\ dst \in DOMAIN dv_cost'[s]
            /\ dv_cost'[s][dst] \in Nat /\ dv_cost[s][dst] \in Nat
            /\ dv_cost'[s][dst] <= dv_cost[s][dst]
        BY <3>2, CostsShrink
      <3> QED
        BY <3>1, <3>2, <3>3
    <2>2. CASE ~Told(s, r, v, dst)
      <3> DEFINE hop == dv_next_hop[v][dst]
      <3>1. /\ dst \in DOMAIN dv_cost[v] /\ dv_cost'[v][dst] = dv_cost[v][dst]
            /\ dv_next_hop'[v][dst] = hop
        BY <2>2 DEF UpdatesFrom
      <3>2. /\ hop \in DOMAIN neighbors[v] /\ dst \in DOMAIN dv_cost[hop]
            /\ neighbors[v][hop] + dv_cost[hop][dst] <= dv_cost[v][dst]
        BY <1>4, <3>1 DEF Leads
      <3>3. hop \in vertices /\ neighbors[v][hop] \in Nat /\ dv_cost[v][dst] \in Nat
        BY <3>1, <3>2, EdgeWeights, EntryTypes DEF TypeOK
      <3> HIDE DEF hop
      <3>4. /\ dst \in DOMAIN dv_cost'[hop]
            /\ dv_cost'[hop][dst] \in Nat /\ dv_cost[hop][dst] \in Nat
            /\ dv_cost'[hop][dst] <= dv_cost[hop][dst]
        BY <3>2, <3>3, CostsShrink
      <3> QED
        BY <3>1, <3>2, <3>3, <3>4
    <2> QED
      BY <2>1, <2>2
  <1>5. Leads'
    BY <1>1, <1>4 DEF Leads
  <1> QED
    BY <1>3, <1>5

(* An update closes no circle: the vertices of a new circle that are no further
   from the destination than the sender formed one before without the receiver. *)
LEMMA UpdateNoCircle ==
  ASSUME TypeOK, Tables, Leads, NoCircle, NEW s \in vertices, NEW r \in DOMAIN neighbors[s],
         UpdatesFrom(s, r)
  PROVE  NoCircle'
  <1>1. vertices' = vertices /\ neighbors' = neighbors
    BY DEF UpdatesFrom, vertices
  <1> SUFFICES ASSUME NEW dst \in vertices, NEW C \in SUBSET vertices, Circle(C, dst)'
               PROVE  FALSE
    BY <1>1 DEF NoCircle
  <1>2. /\ C # {} /\ C \subseteq vertices \ {dst}
        /\ \A v \in C : dst \in DOMAIN dv_cost'[v] /\ dv_next_hop'[v][dst] \in C
    BY <1>1 DEF Circle
  <1>3. ASSUME NEW v \in C, ~Told(s, r, v, dst)
        PROVE  dst \in DOMAIN dv_cost[v] /\ dv_next_hop'[v][dst] = dv_next_hop[v][dst]
               /\ dv_next_hop[v][dst] \in C
    BY <1>2, <1>3 DEF UpdatesFrom
  <1>4. CASE \A v \in C : ~Told(s, r, v, dst)
    <2>1. Circle(C, dst)
      BY <1>2, <1>3, <1>4 DEF Circle
    <2> QED
      BY <2>1 DEF NoCircle
  <1>5. CASE \E v \in C : Told(s, r, v, dst)
    <2>1. r \in C /\ dst \in Improved(s, r) /\ Told(s, r, r, dst)
      BY <1>5 DEF Told
    <2>2. /\ s # r /\ dst \in DOMAIN dv_cost[s] /\ dv_cost[s][dst] \in Nat
          /\ neighbors[s][r] \in Nat
          /\ dst \in DOMAIN dv_cost[r] =>
               neighbors[s][r] + dv_cost[s][dst] < dv_cost[r][dst]
      BY <2>1, ToldOf
    <2>3. s \in C
      <3>1. dv_next_hop'[r][dst] = s
        BY <1>2, <2>1 DEF UpdatesFrom
      <3> QED
        BY <1>2, <2>1, <3>1
    <2> DEFINE D == {v \in C \ {r} : dv_cost[v][dst] <= dv_cost[s][dst]}
    <2>4. s \in D
      BY <2>2, <2>3
    <2>5. ASSUME NEW v \in D
          PROVE  dst \in DOMAIN dv_cost[v] /\ dv_next_hop[v][dst] \in D
      <3> DEFINE hop == dv_next_hop[v][dst]
      <3>1. v \in C /\ v # r /\ v # dst /\ v \in vertices
            /\ dv_cost[v][dst] <= dv_cost[s][dst]
        BY <1>2
      <3>2. dst \in DOMAIN dv_cost[v] /\ hop \in C
        BY <1>3, <3>1 DEF Told
      <3>3. /\ hop \in DOMAIN neighbors[v] /\ dst \in DOMAIN dv_cost[hop]
            /\ neighbors[v][hop] + dv_cost[hop][dst] <= dv_cost[v][dst]
        BY <3>1, <3>2 DEF Leads
      <3>4. /\ hop \in vertices /\ neighbors[v][hop] \in Nat
            /\ dv_cost[v][dst] \in Nat /\ dv_cost[hop][dst] \in Nat
        <4>1. hop \in vertices /\ neighbors[v][hop] \in Nat
          BY <3>1, <3>3, EdgeWeights DEF TypeOK
        <4> HIDE DEF hop
        <4> QED
          BY <3>1, <3>2, <3>3, <4>1, EntryTypes
      <3> HIDE DEF hop
      <3>5. dv_cost[hop][dst] <= dv_cost[s][dst]
        BY <2>2, <3>1, <3>3, <3>4
      <3>6. hop # r
        BY <2>2, <3>3, <3>4, <3>5
      <3> QED
        BY <3>2, <3>5, <3>6 DEF hop
    <2>6. Circle(D, dst)
      BY <1>2, <2>4, <2>5 DEF Circle
    <2> QED
      BY <2>6 DEF NoCircle
  <1> QED
    BY <1>4, <1>5


(* The cost that a vertex is told came over one vertex more. *)
LEMMA UpdatePathsBehind ==
  ASSUME TypeOK, Tables, PathsBehind, NEW s \in vertices, NEW r \in DOMAIN neighbors[s],
         UpdatesFrom(s, r)
  PROVE  PathsBehind'
  <1>1. vertices' = vertices /\ neighbors' = neighbors /\ NeighborsType
    BY DEF UpdatesFrom, vertices, TypeOK
  <1>2. ASSUME NEW x
        PROVE  Lengths(x)' = Lengths(x)
    BY <1>1 DEF Lengths
  <1> SUFFICES ASSUME NEW v \in vertices, NEW dst \in DOMAIN dv_cost'[v]
               PROVE  \E S \in SUBSET vertices, w \in Weights \cup {0} :
                        CameOver(v, dst, S, w)'
    BY <1>1 DEF PathsBehind
  <1>3. CASE ~Told(s, r, v, dst)
    <2>1. dst \in DOMAIN dv_cost[v] /\ dv_cost'[v][dst] = dv_cost[v][dst]
      BY <1>3 DEF UpdatesFrom
    <2>2. PICK S \in SUBSET vertices, w \in Weights \cup {0} : CameOver(v, dst, S, w)
      BY <2>1 DEF PathsBehind
    <2>3. ASSUME NEW u \in S
          PROVE  dst \in DOMAIN dv_cost'[u] /\ dv_cost'[u][dst] <= dv_cost'[v][dst]
      <3>1. dst \in DOMAIN dv_cost[u] /\ dv_cost[u][dst] <= dv_cost[v][dst]
        BY <2>2 DEF CameOver
      <3>2. /\ dst \in DOMAIN dv_cost'[u] /\ dv_cost'[u][dst] \in Nat
            /\ dv_cost[u][dst] \in Nat /\ dv_cost'[u][dst] <= dv_cost[u][dst]
        BY <3>1, CostsShrink
      <3>3. dv_cost[v][dst] \in Nat
        BY <2>1, EntryTypes
      <3> QED
        BY <2>1, <3>1, <3>2, <3>3
    <2>4. CameOver(v, dst, S, w)'
      BY <1>2, <2>1, <2>2, <2>3 DEF CameOver
    <2> QED
      BY <2>4
  <1>4. CASE Told(s, r, v, dst)
    <2>1. PICK e \in Nat : e = neighbors[s][r] /\ e \in Weights
      BY ToldOf
    <2>2. v = r /\ dst \in Improved(s, r) /\ dv_cost'[r][dst] = e + dv_cost[s][dst]
      BY <1>4, <2>1 DEF UpdatesFrom, Told
    <2>3. /\ r \in vertices /\ dst \in vertices /\ s \in DOMAIN neighbors[r]
          /\ neighbors[r][s] = e /\ dst \in DOMAIN dv_cost[s] /\ dv_cost[s][dst] \in Nat
          /\ dst \in DOMAIN dv_cost[r] => e + dv_cost[s][dst] < dv_cost[r][dst]
      BY <2>1, <2>2, ToldOf
    <2>4. PICK S \in SUBSET vertices, w \in Weights \cup {0} : CameOver(s, dst, S, w)
      BY <2>3 DEF PathsBehind
    <2>5. /\ s \in S /\ dv_cost[s][dst] <= w * (Cardinality(S) - 1)
          /\ Lengths(s)[Cardinality(S) - 1][dst] <= dv_cost[s][dst]
          /\ \A u \in S : dst \in DOMAIN dv_cost[u] /\ dv_cost[u][dst] <= dv_cost[s][dst]
      BY <2>4 DEF CameOver
    <2>6. r \notin S
      <3> SUFFICES ASSUME r \in S PROVE FALSE
        OBVIOUS
      <3>1. dst \in DOMAIN dv_cost[r] /\ dv_cost[r][dst] <= dv_cost[s][dst]
        BY <2>5
      <3>2. dv_cost[r][dst] \in Nat
        BY <2>3, <3>1, EntryTypes
      <3> QED
        BY <2>1, <2>3, <3>1, <3>2
    <2> DEFINE T == S \cup {r}
               k == Cardinality(S) - 1
    <2>7. /\ T \in SUBSET vertices /\ r \in T
          /\ Cardinality(T) - 1 = k + 1 /\ k \in Nat /\ k < Cardinality(vertices)
      <3>1. IsFiniteSet(vertices) /\ IsFiniteSet(S) /\ Cardinality(S) \in Nat
            /\ Cardinality(S) <= Cardinality(vertices) /\ Cardinality(vertices) \in Nat
        BY <1>1, VerticesFinite, FS_Subset, FS_CardinalityType
      <3>2. Cardinality(S) # 0
        BY <2>5, <3>1, FS_EmptySet
      <3>3. Cardinality(T) = Cardinality(S) + 1
        BY <2>6, <3>1, FS_AddElement
      <3>4. T \in SUBSET vertices /\ r \in T
        BY <2>3
      <3> HIDE DEF T
      <3> QED
        BY <3>1, <3>2, <3>3, <3>4
    <2>8. \E x \in Weights \cup {0} : e + dv_cost[s][dst] <= x * (Cardinality(T) - 1)
      <3>1. w \in Nat
        BY WeightsAssumption
      <3>2. \A x \in Nat : x * (k + 1) = x * k + x /\ x * k \in Nat
        BY <2>7
      <3>3. dv_cost[s][dst] <= w * k
        BY <2>5
      <3> HIDE DEF T, k
      <3>4. CASE e <= w
        <4>1. e + dv_cost[s][dst] <= w * (k + 1)
          BY <2>3, <3>1, <3>2, <3>3, <3>4
        <4> QED
          BY <2>7, <4>1
      <3>5. CASE w <= e
        <4>1. w * k <= e * k
          <5>1. e - w \in Nat /\ k \in Nat
            BY <2>7, <3>1, <3>5
          <5>2. (e - w) * k \in Nat /\ e * k = w * k + (e - w) * k
            BY <3>1, <5>1
          <5> QED
            BY <3>1, <3>2, <5>2
        <4>2. e + dv_cost[s][dst] <= e * (k + 1)
          BY <2>3, <3>1, <3>2, <3>3, <4>1
        <4> QED
          BY <2>1, <2>7, <4>2
      <3> QED
        BY <2>1, <3>1, <3>4, <3>5
    <2>9. PICK x \in Weights \cup {0} : e + dv_cost[s][dst] <= x * (Cardinality(T) - 1)
      BY <2>8
    <2>10. Lengths(r)[k + 1][dst] <= e + dv_cost[s][dst]
      <3>1. Graph(vertices, neighbors, INT_MAX)
        BY <1>1, TopologyIsGraph
      <3>2. Over(vertices, neighbors, INT_MAX, r)[k + 1][dst]
              <= neighbors[r][s] + Over(vertices, neighbors, INT_MAX, s)[k][dst]
        <4> HIDE DEF k
        <4> QED
          BY <2>3, <2>7, <3>1, OverNeighbor
      <3>3. k \in 0 .. Cardinality(vertices) /\ k + 1 \in 0 .. Cardinality(vertices)
        BY <1>1, <2>7, VerticesFinite
      <3>4. /\ Lengths(s)[k][dst] \in 0 .. INT_MAX
            /\ Lengths(r)[k + 1][dst] \in 0 .. INT_MAX
        <4> HIDE DEF k
        <4> QED
          BY <2>3, <3>1, <3>3, OverShrinks DEF Lengths
      <3>5. Lengths(r)[k + 1][dst] <= e + Lengths(s)[k][dst]
        BY <2>3, <3>2 DEF Lengths
      <3>6. Lengths(s)[k][dst] <= dv_cost[s][dst]
        BY <2>5
      <3> HIDE DEF k
      <3> QED
        BY <2>3, <3>4, <3>5, <3>6
    <2>11. ASSUME NEW u \in T
           PROVE  dst \in DOMAIN dv_cost'[u] /\ dv_cost'[u][dst] <= dv_cost'[r][dst]
      <3>1. CASE u = r
        <4>1. dst \in DOMAIN dv_cost'[r] /\ dv_cost'[r][dst] \in Nat
          BY <2>2, <2>3
        <4> QED
          BY <3>1, <4>1
      <3>2. CASE u \in S
        <4>1. dst \in DOMAIN dv_cost[u] /\ dv_cost[u][dst] <= dv_cost[s][dst]
          BY <2>5, <3>2
        <4>2. /\ dst \in DOMAIN dv_cost'[u] /\ dv_cost'[u][dst] \in Nat
              /\ dv_cost[u][dst] \in Nat /\ dv_cost'[u][dst] <= dv_cost[u][dst]
          BY <3>2, <4>1, CostsShrink
        <4> QED
          BY <2>2, <2>3, <4>1, <4>2
      <3> QED
        BY <3>1, <3>2
    <2>12. dv_cost'[r][dst] <= x * (Cardinality(T) - 1)
      BY <2>2, <2>9
    <2>13. Lengths(r)'[Cardinality(T) - 1][dst] <= dv_cost'[r][dst]
      <3> HIDE DEF T, k
      <3> QED
        BY <1>2, <2>2, <2>7, <2>10
    <2> HIDE DEF T, k
    <2>14. CameOver(r, dst, T, x)'
      BY <2>7, <2>11, <2>12, <2>13 DEF CameOver
    <2> QED
      BY <2>2, <2>7, <2>14
  <1> QED
    BY <1>3, <1>4

(* An update makes no promise that is not told on: the sender has nothing more to
   tell the receiver, which tells its neighbours if it learnt something. *)
LEMMA UpdatePending ==
  ASSUME TypeOK, Tables, Pending, q # << >>, NEW s \in vertices, NEW r \in DOMAIN neighbors[s],
         Head(q) = <<s, r>>, q' = Tail(q) \o Broadcast(s, r), UpdatesFrom(s, r)
  PROVE  /\ q' \in Seq({e \in vertices \X vertices : e[2] \in DOMAIN neighbors[e[1]]})
         /\ Pending'
  <1> DEFINE M == {e \in vertices \X vertices : e[2] \in DOMAIN neighbors[e[1]]}
             b == Broadcast(s, r)
  <1>1. vertices' = vertices /\ neighbors' = neighbors /\ NeighborsType
    BY DEF UpdatesFrom, vertices, TypeOK
  <1>2. r \in vertices
    BY ToldOf
  <1>3. /\ b \in Seq(M)
        /\ Improved(s, r) # {} => \A u \in DOMAIN neighbors[r] :
             \E i \in 1 .. Len(b) : b[i] = <<r, u>>
    <2>1. CASE Improved(s, r) = {}
      BY <2>1, EmptySeq DEF Broadcast
    <2>2. CASE Improved(s, r) # {}
      <3>1. b = MessagesOf({r})
        BY <2>2 DEF Broadcast
      <3>2. /\ MessagesOf({r}) \in Seq(MessageSet({r}))
            /\ \A e \in MessageSet({r}) :
                 \E i \in 1 .. Len(MessagesOf({r})) : MessagesOf({r})[i] = e
        BY <1>1, <1>2, MessagesOfAll
      <3>3. MessageSet({r}) \subseteq M
        BY <1>2 DEF MessageSet
      <3>4. \A u \in DOMAIN neighbors[r] : <<r, u>> \in MessageSet({r})
        BY <1>1, <1>2, EdgeWeights DEF MessageSet
      <3>5. b \in Seq(M)
        <4> HIDE DEF M, b
        <4> QED
          BY <3>1, <3>2, <3>3, SeqOfMore
      <3> QED
        BY <3>1, <3>2, <3>4, <3>5
    <2> QED
      BY <2>1, <2>2
  <1>4. q \in Seq(M)
    BY DEF TypeOK
  <1> HIDE DEF M, b
  <1>5. /\ Tail(q) \in Seq(M) /\ Len(q) \in Nat /\ Len(q) # 0 /\ Head(q) = q[1]
        /\ Len(Tail(q)) = Len(q) - 1
        /\ \A i \in 1 .. Len(q) - 1 : Tail(q)[i] = q[i + 1]
    <2>1. Len(q) \in Nat /\ Len(q) # 0 /\ Head(q) = q[1]
      BY <1>4, EmptySeq
    <2> QED
      BY <1>4, <2>1, HeadTailProperties
  <1>6. /\ q' \in Seq(M) /\ Len(q') = Len(q) - 1 + Len(b) /\ Len(b) \in Nat
        /\ \A i \in 1 .. Len(q) - 1 : q'[i] = q[i + 1]
        /\ \A i \in 1 .. Len(b) : q'[Len(q) - 1 + i] = b[i]
    <2>1. q' = Tail(q) \o b
      BY DEF b
    <2>2. Len(b) \in Nat /\ Len(Tail(q)) \in Nat
      BY <1>3, <1>5
    <2>3. /\ q' \in Seq(M) /\ Len(q') = Len(Tail(q)) + Len(b)
          /\ \A i \in 1 .. Len(Tail(q)) + Len(b) :
               q'[i] = IF i <= Len(Tail(q)) THEN Tail(q)[i] ELSE b[i - Len(Tail(q))]
      <3> DEFINE t == Tail(q)
      <3>1. t \in Seq(M) /\ b \in Seq(M) /\ q' = t \o b
        BY <1>3, <1>5, <2>1
      <3> HIDE DEF t
      <3>2. /\ t \o b \in Seq(M) /\ Len(t \o b) = Len(t) + Len(b)
            /\ \A i \in 1 .. Len(t) + Len(b) :
                 (t \o b)[i] = IF i <= Len(t) THEN t[i] ELSE b[i - Len(t)]
        BY <3>1, ConcatProperties
      <3>3. /\ q' \in Seq(M) /\ Len(q') = Len(t) + Len(b)
            /\ \A i \in 1 .. Len(t) + Len(b) :
                 q'[i] = IF i <= Len(t) THEN t[i] ELSE b[i - Len(t)]
        BY <3>1, <3>2
      <3> QED
        BY <3>3 DEF t
    <2>4. ASSUME NEW i \in 1 .. Len(q) - 1
          PROVE  q'[i] = q[i + 1]
      BY <1>5, <2>2, <2>3
    <2>5. ASSUME NEW i \in 1 .. Len(b)
          PROVE  q'[Len(q) - 1 + i] = b[i]
      <3>1. /\ Len(q) - 1 + i \in 1 .. Len(Tail(q)) + Len(b)
            /\ ~(Len(q) - 1 + i <= Len(Tail(q)))
            /\ Len(q) - 1 + i - Len(Tail(q)) = i
        BY <1>5, <2>2
      <3>2. \A k \in 1 .. Len(Tail(q)) + Len(b) :
              ~(k <= Len(Tail(q))) => q'[k] = b[k - Len(Tail(q))]
        BY <2>3
      <3> DEFINE k == Len(q) - 1 + i
      <3>3. /\ k \in 1 .. Len(Tail(q)) + Len(b) /\ ~(k <= Len(Tail(q)))
            /\ k - Len(Tail(q)) = i
        BY <3>1
      <3> HIDE DEF k
      <3>4. q'[k] = b[i]
        BY <3>2, <3>3
      <3> QED
        BY <3>4 DEF k
    <2> QED
      BY <1>5, <2>2, <2>3, <2>4, <2>5
  <1>7. ASSUME NEW v \in vertices, NEW u \in DOMAIN neighbors[v], Improved(v, u)' # {}
        PROVE  \E i \in 1 .. Len(q') : q'[i] = <<v, u>>
    <2>1. u \in vertices /\ u # v /\ neighbors[v][u] \in Nat
      BY <1>1, EdgeWeights
    <2>2. PICK dst : dst \in Improved(v, u)'
      BY <1>7
    <2>3. /\ dst \in DOMAIN dv_cost'[v] /\ dst # u
          /\ dst \in DOMAIN dv_cost'[u] =>
               neighbors[v][u] + dv_cost'[v][dst] < dv_cost'[u][dst]
      BY <1>1, <2>2 DEF Improved, Offer
    <2>4. dst \in vertices /\ dv_cost'[v][dst] \in Nat
      <3>1. /\ DOMAIN dv_cost'[v] = DOMAIN dv_cost[v] \cup {x \in vertices : Told(s, r, v, x)}
            /\ dv_cost'[v] \in [DOMAIN dv_cost'[v] -> Nat]
        BY DEF UpdatesFrom
      <3>2. dst \in vertices
        BY <2>3, <3>1, EntryTypes
      <3> QED
        BY <2>3, <3>1, <3>2
    <2>5. CASE Improved(v, u) # {} /\ <<v, u>> # <<s, r>>
      <3>1. PICK i \in 1 .. Len(q) : q[i] = <<v, u>>
        BY <2>5 DEF Pending
      <3>2. i # 1
        BY <1>5, <2>5, <3>1
      <3>3. i - 1 \in 1 .. Len(q) - 1 /\ (i - 1) + 1 = i /\ i - 1 \in 1 .. Len(q')
        BY <1>5, <1>6, <3>2
      <3>4. q'[i - 1] = <<v, u>>
        BY <1>6, <3>1, <3>3
      <3> QED
        BY <3>3, <3>4
    <2>6. CASE v = r /\ Improved(s, r) # {}
      <3>1. PICK i \in 1 .. Len(b) : b[i] = <<v, u>>
        BY <1>3, <2>6
      <3>2. Len(q) - 1 + i \in 1 .. Len(q') /\ q'[Len(q) - 1 + i] = <<v, u>>
        BY <1>5, <1>6, <3>1
      <3> QED
        BY <3>2
    <2>7. CASE v # r \/ Improved(s, r) = {}
      <3>1. ~Told(s, r, v, dst)
        BY <2>7 DEF Told
      <3>2. dst \in DOMAIN dv_cost[v] /\ dv_cost'[v][dst] = dv_cost[v][dst]
        BY <2>3, <3>1 DEF UpdatesFrom
      <3>3. dst \in Improved(v, u)
        <4>1. CASE dst \in DOMAIN dv_cost[u]
          <5>1. /\ dst \in DOMAIN dv_cost'[u] /\ dv_cost'[u][dst] <= dv_cost[u][dst]
                /\ dv_cost'[u][dst] \in Nat /\ dv_cost[u][dst] \in Nat
            BY <2>1, <4>1, CostsShrink
          <5>2. neighbors[v][u] + dv_cost[v][dst] < dv_cost[u][dst]
            BY <2>1, <2>3, <2>4, <3>2, <5>1
          <5> QED
            BY <2>3, <3>2, <5>2 DEF Improved, Offer
        <4>2. CASE dst \notin DOMAIN dv_cost[u]
          BY <2>3, <3>2, <4>2 DEF Improved
        <4> QED
          BY <4>1, <4>2
      <3>4. <<v, u>> # <<s, r>>
        <4> SUFFICES ASSUME v = s, u = r PROVE FALSE
          OBVIOUS
        <4>1. dst \in Improved(s, r) /\ Told(s, r, r, dst) /\ dst \in vertices
          BY <2>4, <3>3 DEF Told
        <4>2. dst \in DOMAIN dv_cost'[r]
          BY <1>2, <4>1 DEF UpdatesFrom
        <4>3. dv_cost'[r][dst] = neighbors[s][r] + dv_cost[s][dst]
          BY <1>2, <4>1, <4>2 DEF UpdatesFrom
        <4> QED
          BY <2>1, <2>3, <2>4, <3>2, <4>2, <4>3
      <3> QED
        BY <2>5, <3>3, <3>4
    <2> QED
      BY <2>6, <2>7
  <1> QED
    BY <1>1, <1>6, <1>7 DEF Pending, M

(* Taking a message out of the queue preserves the invariant. *)
LEMMA ReceivePreserves ==
  ASSUME IInv, Receive
  PROVE  IInv'
  <1>1. pc = "receive" /\ q # << >>
    BY ReceiveUpdates
  <1>2. PICK s \in vertices : \E r \in DOMAIN neighbors[s] :
           /\ Head(q) = <<s, r>> /\ q' = Tail(q) \o Broadcast(s, r)
           /\ UpdatesFrom(s, r)
    BY ReceiveUpdates
  <1>3. PICK r \in DOMAIN neighbors[s] :
           /\ Head(q) = <<s, r>> /\ q' = Tail(q) \o Broadcast(s, r)
           /\ UpdatesFrom(s, r)
    BY <1>2
  <1>4. /\ TypeOK /\ Tables /\ Leads /\ NoCircle /\ PathsBehind /\ Pending
        /\ message = NoMessage
    BY <1>1 DEF IInv
  <1>5. /\ NeighborsType /\ NeighborsType' /\ vertices' = vertices /\ neighbors' = neighbors
        /\ pc' = "receive" /\ message' = message
    BY <1>1, <1>3, <1>4
    DEF TypeOK, UpdatesFrom, NeighborsType, EdgesBothWays, vertices
  <1>6. Tables' /\ Leads' /\ NoCircle' /\ PathsBehind'
    BY <1>3, <1>4, UpdateLeads, UpdateNoCircle, UpdatePathsBehind
  <1>7. /\ q' \in Seq({e \in vertices \X vertices : e[2] \in DOMAIN neighbors[e[1]]})
        /\ Pending'
    BY <1>1, <1>3, <1>4, UpdatePending
  <1>8. TypeOK'
    <2>1. ASSUME NEW v \in vertices
          PROVE  /\ DOMAIN dv_cost'[v] \subseteq vertices
                 /\ dv_cost'[v] \in [DOMAIN dv_cost'[v] -> 0 .. INT_MAX - 1]
                 /\ dv_next_hop'[v] \in [DOMAIN dv_cost'[v] -> vertices]
      <3>1. DOMAIN dv_cost'[v] \subseteq vertices
        <4>1. DOMAIN dv_cost'[v] = DOMAIN dv_cost[v] \cup {x \in vertices : Told(s, r, v, x)}
          BY <1>3 DEF UpdatesFrom
        <4>2. DOMAIN dv_cost[v] \subseteq vertices
          BY <1>4, EntryTypes
        <4> QED
          BY <4>1, <4>2
      <3>2. /\ dv_cost'[v] \in [DOMAIN dv_cost'[v] -> Nat]
            /\ dv_next_hop'[v] \in [DOMAIN dv_cost'[v] -> vertices]
        BY <1>3 DEF UpdatesFrom
      <3>3. ASSUME NEW dst \in DOMAIN dv_cost'[v]
            PROVE  dv_cost'[v][dst] \in 0 .. INT_MAX - 1
        <4>1. PICK S \in SUBSET vertices, w \in Weights \cup {0} : CameOver(v, dst, S, w)'
          BY <1>5, <1>6 DEF PathsBehind
        <4>2. v \in S /\ dv_cost'[v][dst] <= w * (Cardinality(S) - 1)
          BY <4>1 DEF CameOver
        <4>3. dv_cost'[v][dst] \in Nat
          BY <3>2
        <4>4. dv_cost'[v][dst] < INT_MAX
          BY <1>5, <4>2, <4>3, CostsInRange
        <4> QED
          BY <4>3, <4>4, CostsFit
      <3> QED
        BY <3>1, <3>2, <3>3
    <2>2. DOMAIN dv_cost' = vertices /\ DOMAIN dv_next_hop' = vertices
      BY <1>3 DEF UpdatesFrom
    <2>3. message'.hops \in Seq(vertices')
      BY <1>4, <1>5 DEF TypeOK
    <2> QED
      BY <1>5, <1>7, <2>1, <2>2, <2>3 DEF TypeOK
  <1>9. MessageCosts'
    BY <1>4, <1>5, CostsFit DEF MessageCosts, NoMessage, Message
  <1> QED
    BY <1>4, <1>5, <1>6, <1>7, <1>8, <1>9 DEF IInv


------------------------------------------------------------------------------
(* The way along the next hops *)

(* Where the loop over the next hops is after every turn. *)
LEMMA WayIs ==
  ASSUME IsFiniteSet(vertices), NEW from, NEW to
  PROVE  /\ DOMAIN Way(from, to) = 0 .. Cardinality(vertices)
         /\ Way(from, to)[0] = from
         /\ \A i \in 1 .. Cardinality(vertices) :
              Way(from, to)[i] = IF Way(from, to)[i - 1] = to THEN to
                                 ELSE dv_next_hop[Way(from, to)[i - 1]][to]
  <1> DEFINE Turn(v) == IF v = to THEN to ELSE dv_next_hop[v][to]
             Is(g, n) == g = [i \in 0 .. n |-> IF i = 0 THEN from ELSE
                                IF g[i - 1] = to THEN to ELSE dv_next_hop[g[i - 1]][to]]
             W == {n \in Nat : \E g : Is(g, n)}
             c == Cardinality(vertices)
  <1>1. Way(from, to) = CHOOSE g : Is(g, c)
    BY DEF Way
  <1>2. c \in Nat
    BY FS_CardinalityType
  <1>3. ASSUME NEW g, NEW n \in Nat
        PROVE  Is(g, n) <=> g = [i \in 0 .. n |-> IF i = 0 THEN from ELSE Turn(g[i - 1])]
    OBVIOUS
  <1> HIDE DEF Turn, Is, c
  <1>4. 0 \in W
    <2> DEFINE g == [k \in 0 .. 0 |-> from]
    <2>1. g = [i \in 0 .. 0 |-> IF i = 0 THEN from ELSE Turn(g[i - 1])]
      OBVIOUS
    <2> HIDE DEF g
    <2> QED
      BY <1>3, <2>1
  <1>5. ASSUME NEW n \in Nat, n \in W
        PROVE  n + 1 \in W
    <2>1. PICK g : g = [i \in 0 .. n |-> IF i = 0 THEN from ELSE Turn(g[i - 1])]
      BY <1>3, <1>5
    <2> DEFINE h == [k \in 0 .. n + 1 |-> IF k <= n THEN g[k] ELSE Turn(g[n])]
    <2>2. ASSUME NEW k \in 0 .. n + 1
          PROVE  h[k] = IF k = 0 THEN from ELSE Turn(h[k - 1])
      <3>1. CASE k = 0
        BY <2>1, <3>1
      <3>2. CASE k # 0 /\ k <= n
        <4>1. k \in 0 .. n /\ k - 1 \in 0 .. n + 1 /\ k - 1 <= n
          BY <3>2
        <4>2. h[k] = g[k] /\ h[k - 1] = g[k - 1]
          BY <4>1
        <4>3. g[k] = Turn(g[k - 1])
          BY <2>1, <3>2, <4>1
        <4> HIDE DEF h
        <4> QED
          BY <3>2, <4>2, <4>3
      <3>3. CASE k = n + 1
        <4>1. h[n + 1] = Turn(g[n]) /\ h[n] = g[n]
          OBVIOUS
        <4> HIDE DEF h
        <4> QED
          BY <3>3, <4>1
      <3> QED
        BY <3>1, <3>2, <3>3
    <2>3. h = [i \in 0 .. n + 1 |-> IF i = 0 THEN from ELSE Turn(h[i - 1])]
      BY <2>2
    <2> HIDE DEF h
    <2> QED
      BY <1>3, <2>3, SMTT(30)
  <1>6. Nat \subseteq W
    <2> HIDE DEF W
    <2> QED
      BY <1>4, <1>5, AllNumbers
  <1>7. Is(Way(from, to), c)
    BY <1>1, <1>2, <1>6
  <1> DEFINE g == Way(from, to)
  <1> HIDE DEF g
  <1>8. g = [i \in 0 .. c |-> IF i = 0 THEN from ELSE Turn(g[i - 1])]
    BY <1>2, <1>3, <1>7 DEF g
  <1>9. /\ DOMAIN g = 0 .. c /\ g[0] = from
        /\ \A i \in 1 .. c : g[i] = Turn(g[i - 1])
    <2>1. \A i \in 1 .. c : i \in 0 .. c /\ i # 0
      BY <1>2
    <2> QED
      BY <1>2, <1>8, <2>1
  <1> QED
    BY <1>9 DEF g, c, Turn

(* All vertices on the way know the destination. *)
LEMMA WayOverEntries ==
  ASSUME TypeOK, Tables, Leads, NEW from \in vertices, NEW to \in DOMAIN dv_cost[from],
         NEW i \in 0 .. Cardinality(vertices)
  PROVE  Way(from, to)[i] \in vertices /\ to \in DOMAIN dv_cost[Way(from, to)[i]]
  <1> DEFINE at == Way(from, to)
             c == Cardinality(vertices)
             W == {n \in Nat : n <= c => at[n] \in vertices /\ to \in DOMAIN dv_cost[at[n]]}
  <1>1. IsFiniteSet(vertices) /\ c \in Nat /\ NeighborsType
    BY VerticesFinite DEF TypeOK
  <1>2. /\ at[0] = from
        /\ \A n \in 1 .. c : at[n] = IF at[n - 1] = to THEN to ELSE dv_next_hop[at[n - 1]][to]
    BY <1>1, WayIs
  <1> HIDE DEF at, c
  <1>3. 0 \in W
    BY <1>2
  <1>4. ASSUME NEW n \in Nat, n \in W
        PROVE  n + 1 \in W
    <2> SUFFICES ASSUME n + 1 <= c
                 PROVE  at[n + 1] \in vertices /\ to \in DOMAIN dv_cost[at[n + 1]]
      OBVIOUS
    <2>1. n + 1 \in 1 .. c /\ (n + 1) - 1 = n /\ n <= c
      BY <1>1
    <2>2. at[n] \in vertices /\ to \in DOMAIN dv_cost[at[n]]
      BY <1>4, <2>1
    <2>3. at[n + 1] = IF at[n] = to THEN to ELSE dv_next_hop[at[n]][to]
      BY <1>2, <2>1
    <2>4. CASE at[n] = to
      BY <2>2, <2>3, <2>4
    <2>5. CASE at[n] # to
      <3>1. to \in DOMAIN dv_cost[dv_next_hop[at[n]][to]]
        BY <2>2, <2>5 DEF Leads
      <3>2. dv_next_hop[at[n]][to] \in vertices
        BY <2>2, EntryTypes
      <3> QED
        BY <2>3, <2>5, <3>1, <3>2
    <2> QED
      BY <2>4, <2>5
  <1>5. Nat \subseteq W
    <2> HIDE DEF W
    <2> QED
      BY <1>3, <1>4, AllNumbers
  <1>6. i \in Nat /\ i <= c
    BY <1>1 DEF c
  <1> QED
    BY <1>5, <1>6 DEF at

(* As the next hops form no circle the loop arrives, in at most as many turns as
   there are vertices. *)
LEMMA WayArrives ==
  ASSUME TypeOK, Tables, Leads, NoCircle, NEW from \in vertices, NEW to \in DOMAIN dv_cost[from]
  PROVE  Arrives(from, to)
  <1> DEFINE at == Way(from, to)
             c == Cardinality(vertices)
             f == [n \in 0 .. c |-> at[n]]
  <1>1. IsFiniteSet(vertices) /\ c \in Nat /\ NeighborsType
    BY VerticesFinite DEF TypeOK
  <1>2. /\ DOMAIN at = 0 .. c
        /\ \A n \in 1 .. c : at[n] = IF at[n - 1] = to THEN to ELSE dv_next_hop[at[n - 1]][to]
    BY <1>1, WayIs
  <1>3. \A n \in 0 .. c : at[n] \in vertices /\ to \in DOMAIN dv_cost[at[n]]
    BY WayOverEntries
  <1>4. to \in vertices
    BY EntryTypes
  <1> HIDE DEF at, c
  <1> SUFFICES ASSUME \A n \in 0 .. c : at[n] # to
               PROVE  FALSE
    BY <1>2 DEF Arrives, at
  <1>5. PICK a, b \in 0 .. c : a # b /\ at[a] = at[b]
    <2>1. f \in [0 .. c -> vertices]
      BY <1>3
    <2>2. IsFiniteSet(0 .. c) /\ Cardinality(0 .. c) = c + 1
      <3>1. 0 \in Int /\ c \in Int /\ ~(0 > c) /\ c - 0 + 1 = c + 1
        BY <1>1
      <3>2. IsFiniteSet(0 .. c) /\ Cardinality(0 .. c) = IF 0 > c THEN 0 ELSE c - 0 + 1
        BY <3>1, FS_Interval
      <3> QED
        BY <3>1, <3>2
    <2>3. Cardinality(vertices) < Cardinality(0 .. c)
      BY <1>1, <2>2 DEF c
    <2> HIDE DEF f
    <2>4. \E a, b \in 0 .. c : a # b /\ f[a] = f[b]
      BY <1>1, <2>1, <2>2, <2>3, FS_PigeonHole
    <2> QED
      BY <2>4 DEF f
  <1>6. PICK x \in 0 .. c : \E y \in 0 .. c : x < y /\ at[x] = at[y]
    <2>1. CASE a < b
      BY <1>5, <2>1
    <2>2. CASE b < a
      BY <1>5, <2>2
    <2> QED
      BY <1>1, <1>5, <2>1, <2>2
  <1>7. PICK y \in 0 .. c : x < y /\ at[x] = at[y]
    BY <1>6
  <1> DEFINE C == {at[n] : n \in x .. y - 1}
  <1>8. x \in x .. y - 1 /\ \A n \in x .. y - 1 : n \in 0 .. c /\ n + 1 \in 1 .. c
    BY <1>1, <1>7
  <1>9. C # {} /\ C \in SUBSET vertices /\ C \subseteq vertices \ {to}
    BY <1>3, <1>8
  <1>10. ASSUME NEW v \in C
         PROVE  to \in DOMAIN dv_cost[v] /\ dv_next_hop[v][to] \in C
    <2>1. PICK n \in x .. y - 1 : v = at[n]
      OBVIOUS
    <2>2. n \in 0 .. c /\ n + 1 \in 1 .. c /\ (n + 1) - 1 = n
      BY <1>1, <1>8
    <2>3. at[n + 1] = dv_next_hop[v][to] /\ to \in DOMAIN dv_cost[v]
      BY <1>2, <1>3, <2>1, <2>2
    <2>4. at[n + 1] \in C
      <3>1. CASE n + 1 \in x .. y - 1
        BY <3>1
      <3>2. CASE n + 1 = y
        BY <1>7, <1>8, <3>2
      <3> QED
        BY <1>1, <3>1, <3>2
    <2> QED
      BY <2>3, <2>4
  <1> HIDE DEF C
  <1>11. Circle(C, to)
    BY <1>9, <1>10 DEF Circle
  <1> QED
    BY <1>4, <1>9, <1>11 DEF NoCircle

(* With nothing left to tell, the cost of an entry is exactly that of its edge and
   of the entry of the next hop. *)
LEMMA SettledCosts ==
  ASSUME TypeOK, Tables, Leads, Settled,
         NEW v \in vertices, NEW dst \in DOMAIN dv_cost[v], v # dst
  PROVE  /\ dv_next_hop[v][dst] \in DOMAIN neighbors[v]
         /\ dv_next_hop[v][dst] \in vertices
         /\ dst \in DOMAIN dv_cost[dv_next_hop[v][dst]]
         /\ dv_cost[v][dst] = neighbors[v][dv_next_hop[v][dst]]
                                + dv_cost[dv_next_hop[v][dst]][dst]
  <1> DEFINE hop == dv_next_hop[v][dst]
  <1>1. /\ hop \in DOMAIN neighbors[v] /\ dst \in DOMAIN dv_cost[hop]
        /\ neighbors[v][hop] + dv_cost[hop][dst] <= dv_cost[v][dst]
    BY DEF Leads
  <1> HIDE DEF hop
  <1>2. NeighborsType
    BY DEF TypeOK
  <1>3. /\ hop \in vertices /\ v \in DOMAIN neighbors[hop]
        /\ neighbors[v][hop] \in Nat /\ neighbors[hop][v] = neighbors[v][hop]
    BY <1>1, <1>2, EdgeWeights
  <1>4. dv_cost[v][dst] \in Nat /\ dv_cost[hop][dst] \in Nat
    BY <1>1, <1>3, EntryTypes
  <1>5. ~(Offer(hop, v, dst) < dv_cost[v][dst])
    <2>1. Improved(hop, v) = {}
      BY <1>3 DEF Settled
    <2> QED
      BY <1>1, <2>1 DEF Improved
  <1>6. Offer(hop, v, dst) = neighbors[v][hop] + dv_cost[hop][dst]
    BY <1>3 DEF Offer
  <1>7. dv_cost[v][dst] = neighbors[v][hop] + dv_cost[hop][dst]
    BY <1>1, <1>3, <1>4, <1>5, <1>6
  <1> QED
    BY <1>1, <1>3, <1>7 DEF hop

------------------------------------------------------------------------------
(* The messages that are sent along the tables *)

(* The vertices that the hops name, with the destination. *)
PathOf(from, to) == Append(Hops(from, to), to)

(* The hops lead to the destination along edges whose weights make the cost. *)
LEMMA HopsCost ==
  ASSUME TypeOK, Tables, Leads, Settled, NEW from \in vertices, NEW to \in DOMAIN dv_cost[from],
         Arrives(from, to)
  PROVE  /\ Hops(from, to) \in Seq(vertices)
         /\ PathOf(from, to)[1] = from
         /\ \A i \in 2 .. Len(PathOf(from, to)) :
              PathOf(from, to)[i] \in DOMAIN neighbors[PathOf(from, to)[i - 1]]
         /\ CostUpTo(neighbors, PathOf(from, to))[Len(PathOf(from, to))] = dv_cost[from][to]
  <1> DEFINE at == Way(from, to)
             c == Cardinality(vertices)
             T == {i \in DOMAIN at : at[i] = to}
             n == Least(T)
             cost == [v \in vertices |-> dv_cost[v][to]]
             path == PathOf(from, to)
             hops == Hops(from, to)
  <1>1. IsFiniteSet(vertices) /\ c \in Nat /\ NeighborsType
    BY VerticesFinite DEF TypeOK
  <1>2. /\ DOMAIN at = 0 .. c /\ at[0] = from
        /\ \A i \in 1 .. c : at[i] = IF at[i - 1] = to THEN to ELSE dv_next_hop[at[i - 1]][to]
    BY <1>1, WayIs
  <1>3. \A i \in 0 .. c : at[i] \in vertices /\ to \in DOMAIN dv_cost[at[i]]
    BY WayOverEntries
  <1>4. n \in 0 .. c /\ n \in Nat /\ at[n] = to /\ \A i \in 0 .. n - 1 : at[i] # to
    <2>1. T \in SUBSET Nat /\ T # {}
      BY <1>2 DEF Arrives
    <2>2. n \in T /\ n \in Nat /\ \A m \in T : n <= m
      <3> HIDE DEF T
      <3> QED
        BY <2>1, LeastIsMember
    <2> HIDE DEF n
    <2>3. n \in 0 .. c /\ at[n] = to
      BY <1>2, <2>2
    <2>4. ASSUME NEW i \in 0 .. n - 1
          PROVE  at[i] # to
      <3>1. i \in 0 .. c /\ ~(n <= i)
        BY <1>1, <2>2, <2>3
      <3> QED
        BY <1>2, <2>2, <3>1
    <2> QED
      BY <2>2, <2>3, <2>4
  <1>5. hops = [i \in 1 .. n |-> at[i - 1]]
    BY DEF Hops, Smallest, Least
  <1>6. path = Append(hops, to)
    BY DEF PathOf
  <1>7. \A v \in vertices : cost[v] = dv_cost[v][to]
    OBVIOUS
  <1> HIDE DEF at, c, T, n, hops, path, cost
  <1>8. hops \in Seq(vertices) /\ Len(hops) = n
    <2>1. \A i \in 1 .. n : i - 1 \in 0 .. c
      BY <1>1, <1>4
    <2> QED
      BY <1>3, <1>4, <1>5, <2>1
  <1>9. Len(path) = n + 1 /\ \A i \in 1 .. n + 1 : path[i] = at[i - 1]
    <2>1. Len(path) = n + 1 /\ path[n + 1] = to /\ \A i \in 1 .. n : path[i] = hops[i]
      BY <1>4, <1>6, <1>8
    <2>2. (n + 1) - 1 = n /\ \A i \in 1 .. n + 1 : i # n + 1 => i \in 1 .. n
      BY <1>4
    <2> QED
      BY <1>4, <1>5, <2>1, <2>2
  <1>10. \A i \in 1 .. n + 1 : path[i] \in vertices /\ to \in DOMAIN dv_cost[path[i]]
    <2>1. \A i \in 1 .. n + 1 : i - 1 \in 0 .. c
      BY <1>1, <1>4
    <2> QED
      BY <1>3, <1>9, <2>1
  <1>11. ASSUME NEW i \in 2 .. n + 1
         PROVE  /\ path[i] \in DOMAIN neighbors[path[i - 1]]
                /\ cost[path[i - 1]] = neighbors[path[i - 1]][path[i]] + cost[path[i]]
    <2>1. /\ i - 1 \in 1 .. n + 1 /\ i \in 1 .. n + 1 /\ i - 2 \in 0 .. n - 1
          /\ (i - 1) - 1 = i - 2 /\ i - 1 \in 1 .. c
      BY <1>1, <1>4
    <2>2. path[i - 1] = at[i - 2] /\ path[i] = at[i - 1]
      BY <1>9, <2>1
    <2>3. at[i - 2] # to
      BY <1>4, <2>1
    <2>4. at[i - 1] = dv_next_hop[at[i - 2]][to]
      BY <1>2, <2>1, <2>3
    <2>5. /\ path[i - 1] \in vertices /\ to \in DOMAIN dv_cost[path[i - 1]]
          /\ path[i - 1] # to /\ path[i] = dv_next_hop[path[i - 1]][to]
      BY <1>10, <2>1, <2>2, <2>3, <2>4
    <2>6. /\ path[i] \in DOMAIN neighbors[path[i - 1]] /\ path[i] \in vertices
          /\ dv_cost[path[i - 1]][to] = neighbors[path[i - 1]][path[i]] + dv_cost[path[i]][to]
      BY <2>5, SettledCosts
    <2> QED
      BY <1>7, <2>5, <2>6
  <1>12. \A i \in 1 .. n + 1 : cost[path[i]] \in Nat
    BY <1>7, <1>10, EntryTypes
  <1>13. /\ path[1] = from /\ path[n + 1] = to /\ 1 \in 1 .. n + 1 /\ n + 1 \in 1 .. n + 1
    BY <1>2, <1>4, <1>9
  <1>14. cost[to] = 0 /\ cost[from] = dv_cost[from][to] /\ cost[from] \in Nat
    BY <1>7, <1>12, <1>13, EntryTypes DEF Tables
  <1> DEFINE g == [i \in 1 .. n + 1 |-> cost[from] - cost[path[i]]]
  <1>15. g \in [1 .. n + 1 -> Int] /\ \A i \in 1 .. n + 1 : g[i] = cost[from] - cost[path[i]]
    BY <1>12, <1>14
  <1> HIDE DEF g
  <1>16. ASSUME NEW i \in 1 .. n + 1
         PROVE  g[i] = IF i = 1 THEN 0 ELSE g[i - 1] + neighbors[path[i - 1]][path[i]]
    <2>1. CASE i = 1
      BY <1>13, <1>14, <1>15, <2>1
    <2>2. CASE i # 1
      <3>1. i \in 2 .. n + 1 /\ i - 1 \in 1 .. n + 1
        BY <1>4, <2>2
      <3> DEFINE a == cost[path[i - 1]]
                 b == cost[path[i]]
                 e == neighbors[path[i - 1]][path[i]]
      <3>2. a = e + b /\ path[i] \in DOMAIN neighbors[path[i - 1]]
        BY <1>11, <3>1
      <3>3. a \in Nat /\ b \in Nat
        BY <1>12, <3>1
      <3>4. e \in Nat
        BY <1>1, <1>10, <3>1, <3>2, EdgeWeights
      <3>5. g[i] = cost[from] - b /\ g[i - 1] = cost[from] - a
        BY <1>15, <3>1
      <3> HIDE DEF a, b, e
      <3>6. g[i] = g[i - 1] + e
        BY <1>14, <3>2, <3>3, <3>4, <3>5
      <3> QED
        BY <2>2, <3>6 DEF e
    <2> QED
      BY <2>1, <2>2
  <1>17. g[n + 1] = cost[from]
    BY <1>13, <1>14, <1>15
  <1>18. CostUpTo(neighbors, path) = g
    <2> DEFINE w == neighbors
    <2>1. Len(path) \in Nat \ {0} /\ g \in [1 .. Len(path) -> Int]
      BY <1>4, <1>9, <1>15
    <2>2. \A i \in 1 .. Len(path) :
            g[i] = IF i = 1 THEN 0 ELSE g[i - 1] + w[path[i - 1]][path[i]]
      BY <1>9, <1>16
    <2> HIDE DEF w
    <2>3. CostUpTo(w, path) = g
      BY <2>1, <2>2, CostUpToIs
    <2> QED
      BY <2>3 DEF w
  <1>19. CostUpTo(neighbors, path)[Len(path)] = dv_cost[from][to]
    BY <1>9, <1>14, <1>17, <1>18
  <1>20. \A i \in 2 .. Len(path) : path[i] \in DOMAIN neighbors[path[i - 1]]
    BY <1>9, <1>11
  <1> QED
    BY <1>8, <1>13, <1>19, <1>20 DEF path, hops

(* What is printed with a message keeps the invariant. *)
LEMMA SendMessagePreserves ==
  ASSUME IInv, NEW v1 \in vertices, NEW v2 \in vertices, SendMessage(v1, v2)
  PROVE  IInv'
  <1>1. /\ pc = "messages" /\ pc' = pc /\ q' = q /\ dv_cost' = dv_cost
        /\ dv_next_hop' = dv_next_hop /\ neighbors' = neighbors
    BY DEF SendMessage, dvVars
  <1>2. vertices' = vertices
    BY <1>1 DEF vertices
  <1>3. TypeOK /\ Tables /\ Leads /\ NoCircle /\ PathsBehind /\ Settled /\ q = << >>
    BY <1>1 DEF IInv
  <1>4. message'.hops \in Seq(vertices) /\ MessageCosts'
    <2>1. CASE v2 \in DOMAIN dv_cost[v1] /\ Arrives(v1, v2)
                 /\ message' = Message(v1, v2, dv_cost[v1][v2], Hops(v1, v2))
      <3> DEFINE path == PathOf(v1, v2)
      <3>1. /\ message'.hops = Hops(v1, v2) /\ message'.to = v2 /\ message'.from = v1
            /\ message'.cost = dv_cost[v1][v2]
        BY <2>1 DEF Message
      <3>3. Append(message'.hops, message'.to) = path
        BY <3>1 DEF PathOf
      <3>2. /\ Hops(v1, v2) \in Seq(vertices) /\ path[1] = v1
            /\ \A i \in 2 .. Len(path) : path[i] \in DOMAIN neighbors[path[i - 1]]
            /\ CostUpTo(neighbors, path)[Len(path)] = dv_cost[v1][v2]
        BY <1>3, <2>1, HopsCost
      <3> HIDE DEF path
      <3>4. MessageCosts' = (message'.cost < INT_MAX =>
                              /\ path[1] = message'.from
                              /\ \A i \in 2 .. Len(path) : path[i] \in DOMAIN neighbors[path[i - 1]]
                              /\ CostUpTo(neighbors, path)[Len(path)] = message'.cost)
        BY <1>1, <3>3 DEF MessageCosts, CostUpTo
      <3> QED
        BY <3>1, <3>2, <3>4
    <2>2. CASE v2 \notin DOMAIN dv_cost[v1] /\ message' = Message(v1, v2, INT_MAX, << >>)
      <3>1. message'.cost = INT_MAX /\ message'.hops = << >>
        BY <2>2 DEF Message
      <3>2. ~(message'.cost < INT_MAX)
        BY <3>1, CostsFit
      <3> QED
        BY <3>1, <3>2 DEF MessageCosts
    <2> QED
      BY <2>1, <2>2 DEF SendMessage
  <1>5. TypeOK'
    BY <1>1, <1>2, <1>3, <1>4 DEF TypeOK, NeighborsType, EdgesBothWays
  <1>6. Tables' /\ Leads' /\ NoCircle' /\ PathsBehind'
    <2>1. \A x : Lengths(x)' = Lengths(x)
      BY <1>1, <1>2 DEF Lengths
    <2>2. Tables' /\ Leads'
      BY <1>1, <1>2, <1>3 DEF Tables, Leads
    <2>3. NoCircle'
      BY <1>1, <1>2, <1>3 DEF NoCircle, Circle
    <2>4. PathsBehind'
      BY <1>1, <1>2, <1>3, <2>1 DEF PathsBehind, CameOver
    <2> QED
      BY <2>2, <2>3, <2>4
  <1>7. Settled'
    BY <1>1, <1>2, <1>3 DEF Settled, Improved, Offer
  <1> QED
    BY <1>1, <1>3, <1>4, <1>5, <1>6, <1>7 DEF IInv

------------------------------------------------------------------------------
(* The invariant holds *)

(* Outside of the computation and the sending of messages nothing is promised
   about the tables. *)
LEMMA OutsideInOrder ==
  ASSUME IInv, pc # "receive", NeighborsType', vertices \subseteq vertices',
         UNCHANGED <<q, dvVars>>, message' = NoMessage,
         pc' \in {"topology", "distanceVector", "end"}
  PROVE  IInv'
  <1>1. TypeOK /\ q = << >> /\ q' = << >>
    BY DEF IInv
  <1>2. /\ dv_cost' = dv_cost /\ dv_next_hop' = dv_next_hop
        /\ DOMAIN dv_cost' \subseteq vertices' /\ DOMAIN dv_next_hop' = DOMAIN dv_cost'
    BY <1>1 DEF TypeOK, dvVars
  <1>3. ASSUME NEW v \in DOMAIN dv_cost'
        PROVE  /\ DOMAIN dv_cost'[v] \subseteq vertices'
               /\ dv_cost'[v] \in [DOMAIN dv_cost'[v] -> 0 .. INT_MAX - 1]
               /\ dv_next_hop'[v] \in [DOMAIN dv_cost'[v] -> vertices']
    <2>1. /\ DOMAIN dv_cost[v] \subseteq vertices
          /\ dv_cost[v] \in [DOMAIN dv_cost[v] -> 0 .. INT_MAX - 1]
          /\ dv_next_hop[v] \in [DOMAIN dv_cost[v] -> vertices]
      BY <1>1, <1>2 DEF TypeOK
    <2> QED
      BY <1>2, <2>1
  <1>4. message'.hops = << >> /\ message'.cost = INT_MAX /\ ~(message'.cost < INT_MAX)
    BY CostsFit DEF NoMessage, Message
  <1>5. TypeOK'
    BY <1>1, <1>2, <1>3, <1>4 DEF TypeOK
  <1>6. MessageCosts'
    BY <1>4 DEF MessageCosts
  <1> QED
    BY <1>1, <1>5, <1>6 DEF IInv, NoMessage

LEMMA IInvInit ==
  ASSUME Init
  PROVE  IInv
  <1>1. vertices = {} /\ DOMAIN dv_cost = {} /\ DOMAIN dv_next_hop = {} /\ q = << >>
    BY DEF Init, vertices
  <1>2. message.hops = << >> /\ message.cost = INT_MAX /\ ~(message.cost < INT_MAX)
    BY CostsFit DEF Init, NoMessage, Message
  <1>3. NeighborsType
    BY <1>1 DEF NeighborsType, EdgesBothWays
  <1>4. TypeOK
    BY <1>1, <1>2, <1>3 DEF TypeOK, Init
  <1>5. MessageCosts
    BY <1>2 DEF MessageCosts
  <1> QED
    BY <1>1, <1>4, <1>5 DEF IInv, Init

LEMMA IInvNext ==
  ASSUME IInv, [Next]_vars
  PROVE  IInv'
  <1>1. TypeOK /\ NeighborsType /\ (pc # "messages" => message = NoMessage)
    BY DEF IInv, TypeOK
  <1>2. ASSUME NEW line \in Lines, ReadTopology(line)
        PROVE  IInv'
    <2>1. NeighborsType' /\ vertices \subseteq vertices'
      BY <1>1, <1>2, AddElementsKeepsType DEF ReadTopology
    <2> QED
      BY <1>1, <1>2, <2>1, OutsideInOrder DEF ReadTopology
  <1>3. ASSUME NEW line \in Lines, ReadChange(line)
        PROVE  IInv'
    <2>1. NeighborsType' /\ vertices \subseteq vertices'
      BY <1>1, <1>3, AddElementsKeepsType DEF ReadChange
    <2> QED
      BY <1>1, <1>3, <2>1, OutsideInOrder DEF ReadChange
  <1>4. CASE EndOfTopology \/ EndOfChanges
    <2>1. NeighborsType' /\ vertices \subseteq vertices'
      BY <1>1, <1>4 DEF EndOfTopology, EndOfChanges, NeighborsType, EdgesBothWays, vertices
    <2>2. /\ pc # "receive" /\ UNCHANGED <<q, dvVars>> /\ message' = NoMessage
          /\ pc' \in {"topology", "distanceVector", "end"}
      BY <1>1, <1>4 DEF EndOfTopology, EndOfChanges
    <2> QED
      BY <2>1, <2>2, OutsideInOrder
  <1>5. CASE StartTables
    BY <1>5, StartTablesPreserves
  <1>6. CASE Receive
    BY <1>6, ReceivePreserves
  <1>7. ASSUME UNCHANGED <<neighbors, q, dvVars, message>>
        PROVE  /\ TypeOK /\ pc' \in {"receive", "messages", pc} => TypeOK'
               /\ Tables /\ Leads /\ NoCircle /\ PathsBehind
                    => (Tables /\ Leads /\ NoCircle /\ PathsBehind)'
               /\ (Pending => Pending') /\ (Settled => Settled') /\ (MessageCosts => MessageCosts')
    <2>1. /\ neighbors' = neighbors /\ q' = q /\ dv_cost' = dv_cost
          /\ dv_next_hop' = dv_next_hop /\ message' = message /\ vertices' = vertices
      BY <1>7 DEF dvVars, vertices
    <2>2. TypeOK /\ pc' \in {"receive", "messages", pc} => TypeOK'
      BY <2>1 DEF TypeOK, NeighborsType, EdgesBothWays
    <2>3. Tables /\ Leads /\ NoCircle => (Tables /\ Leads /\ NoCircle)'
      BY <2>1 DEF Tables, Leads, NoCircle, Circle
    <2>4. PathsBehind => PathsBehind'
      <3>1. \A x : Lengths(x)' = Lengths(x)
        BY <2>1 DEF Lengths
      <3> QED
        BY <2>1, <3>1 DEF PathsBehind, CameOver
    <2>5. (Pending => Pending') /\ (Settled => Settled')
      BY <2>1 DEF Pending, Settled, Improved, Offer
    <2>6. MessageCosts => MessageCosts'
      <3> DEFINE path == Append(message.hops, message.to)
                 Costs(u, way) == message.cost < INT_MAX =>
                   /\ way[1] = message.from
                   /\ \A i \in 2 .. Len(way) : way[i] \in DOMAIN neighbors[way[i - 1]]
                   /\ u = message.cost
      <3>1. MessageCosts = Costs(CostUpTo(neighbors, path)[Len(path)], path)
        BY DEF MessageCosts, CostUpTo
      <3>2. MessageCosts' = Costs(CostUpTo(neighbors, path)[Len(path)], path)'
        BY DEF MessageCosts, CostUpTo
      <3> QED
        BY <2>1, <3>1, <3>2
    <2> QED
      BY <2>2, <2>3, <2>4, <2>5, <2>6
  <1>8. CASE PrintTable
    <2>1. /\ UNCHANGED <<neighbors, q, dvVars, message>> /\ pc' = "messages"
          /\ pc = "receive" /\ q = << >>
      BY <1>8 DEF PrintTable
    <2>2. Settled
      <3>1. Pending /\ Len(q) = 0
        BY <2>1 DEF IInv
      <3> QED
        BY <3>1 DEF Pending, Settled
    <2> QED
      BY <1>7, <2>1, <2>2 DEF IInv
  <1>9. ASSUME NEW v1 \in vertices, NEW v2 \in vertices, SendMessage(v1, v2)
        PROVE  IInv'
    BY <1>9, SendMessagePreserves
  <1>10. CASE UNCHANGED vars
    <2>1. UNCHANGED <<neighbors, q, dvVars, message>> /\ pc' = pc
      BY <1>10 DEF vars
    <2> QED
      BY <1>7, <2>1 DEF IInv
  <1> QED
    BY <1>2, <1>3, <1>4, <1>5, <1>6, <1>8, <1>9, <1>10 DEF Next, Compute

------------------------------------------------------------------------------
(* What the tables promise *)

(* No entry costs less than a shortest path. *)
LEMMA CostsCovered ==
  ASSUME TypeOK, Tables, PathsBehind, NEW v \in vertices, NEW u \in DOMAIN dv_cost[v]
  PROVE  /\ Lengths(v)[Cardinality(vertices)][u] <= dv_cost[v][u]
         /\ dv_cost[v][u] < INT_MAX /\ dv_cost[v][u] \in Nat
  <1>1. NeighborsType
    BY DEF TypeOK
  <1>2. Graph(vertices, neighbors, INT_MAX)
    BY <1>1, TopologyIsGraph
  <1>3. u \in vertices /\ dv_cost[v][u] \in Nat /\ dv_cost[v][u] < INT_MAX
    BY EntryTypes
  <1>4. PICK S \in SUBSET vertices : \E w \in Weights \cup {0} : CameOver(v, u, S, w)
    BY DEF PathsBehind
  <1> DEFINE k == Cardinality(S) - 1
             c == Cardinality(vertices)
  <1>5. v \in S /\ Lengths(v)[k][u] <= dv_cost[v][u]
    BY <1>4 DEF CameOver
  <1>6. k \in 0 .. c /\ c \in 0 .. c
    <2>1. /\ IsFiniteSet(S) /\ Cardinality(S) \in Nat /\ c \in Nat
          /\ Cardinality(S) <= c /\ Cardinality(S) # 0
      BY <1>1, <1>5, VerticesFinite, FS_Subset, FS_CardinalityType, FS_EmptySet
    <2> QED
      BY <2>1
  <1> HIDE DEF k
  <1>7. /\ Over(vertices, neighbors, INT_MAX, v)[c][u] <= Over(vertices, neighbors, INT_MAX, v)[k][u]
        /\ Over(vertices, neighbors, INT_MAX, v)[k][u] \in 0 .. INT_MAX
    BY <1>2, <1>3, <1>6, OverShrinks
  <1>8. Over(vertices, neighbors, INT_MAX, v)[c][u] \in 0 .. INT_MAX
    BY <1>2, <1>3, <1>6, OverShrinks
  <1>9. Lengths(v)[c][u] <= Lengths(v)[k][u] /\ Lengths(v)[k][u] \in Nat /\ Lengths(v)[c][u] \in Nat
    BY <1>7, <1>8, CostsFit DEF Lengths
  <1>10. Lengths(v)[c][u] <= dv_cost[v][u]
    BY <1>3, <1>5, <1>9
  <1> QED
    BY <1>3, <1>10

(* With nothing left to tell, whoever can be reached from v knows v at the length
   of every path between them at most. *)
LEMMA SettledKnow ==
  ASSUME TypeOK, Tables, Settled, NEW v \in vertices, NEW x \in vertices
  PROVE  /\ Lengths(v)[Cardinality(vertices)][x] \in 0 .. INT_MAX
         /\ Lengths(v)[Cardinality(vertices)][x] < INT_MAX =>
              v \in DOMAIN dv_cost[x] /\ dv_cost[x][v] <= Lengths(v)[Cardinality(vertices)][x]
  <1> DEFINE c == Cardinality(vertices)
             g == Over(vertices, neighbors, INT_MAX, v)
             Knows(y, n) == v \in DOMAIN dv_cost[y] /\ dv_cost[y][v] <= n
             W == {n \in Nat : n <= c => \A y \in vertices : g[n][y] < INT_MAX => Knows(y, g[n][y])}
  <1>1. /\ NeighborsType /\ c \in Nat /\ IsFiniteSet(vertices) /\ INT_MAX \in Nat \ {0}
    BY VerticesFinite, CostsFit DEF TypeOK
  <1>2. Graph(vertices, neighbors, INT_MAX)
    BY <1>1, TopologyIsGraph
  <1>3. \A n \in 0 .. c :
          /\ g[n] \in [vertices -> 0 .. INT_MAX]
          /\ n > 0 => g[n] = OneMore(vertices, neighbors, INT_MAX, g[n - 1])
    BY <1>2, OverReaches
  <1>4. g[0] = [y \in vertices |-> IF y = v THEN 0 ELSE INT_MAX]
    BY <1>1, OverIs
  <1> HIDE DEF g, c
  <1>5. 0 \in W
    <2>1. Knows(v, 0)
      BY DEF Tables
    <2>2. ASSUME NEW y \in vertices, g[0][y] < INT_MAX
          PROVE  y = v /\ g[0][y] = 0
      BY <1>1, <1>4, <2>2
    <2> HIDE DEF Knows
    <2> QED
      BY <2>1, <2>2
  <1>6. ASSUME NEW n \in Nat, n \in W
        PROVE  n + 1 \in W
    <2> SUFFICES ASSUME n + 1 <= c, NEW y \in vertices, g[n + 1][y] < INT_MAX
                 PROVE  Knows(y, g[n + 1][y])
      BY <1>6
    <2>1. n \in 0 .. c /\ n + 1 \in 0 .. c /\ n + 1 > 0 /\ (n + 1) - 1 = n /\ n <= c
      BY <1>1
    <2>2. /\ g[n] \in [vertices -> 0 .. INT_MAX] /\ g[n + 1] \in [vertices -> 0 .. INT_MAX]
          /\ g[n + 1] = OneMore(vertices, neighbors, INT_MAX, g[n])
      BY <1>3, <2>1
    <2>3. \A z \in vertices : g[n][z] < INT_MAX => Knows(z, g[n][z])
      BY <1>6, <2>1
    <2>4. CASE g[n + 1][y] = g[n][y]
      BY <2>3, <2>4
    <2>5. CASE \E u \in DOMAIN neighbors[y] :
                 g[n][u] < INT_MAX /\ g[n + 1][y] = g[n][u] + neighbors[u][y]
      <3>1. PICK u \in DOMAIN neighbors[y] :
                 g[n][u] < INT_MAX /\ g[n + 1][y] = g[n][u] + neighbors[u][y]
        BY <2>5
      <3>2. /\ u \in vertices /\ y \in DOMAIN neighbors[u] /\ neighbors[u][y] \in Nat
        BY <1>1, EdgeWeights
      <3>3. v \in DOMAIN dv_cost[u] /\ dv_cost[u][v] <= g[n][u] /\ g[n][u] \in Nat
        BY <1>1, <2>2, <2>3, <3>1, <3>2
      <3>4. dv_cost[u][v] \in Nat
        BY <3>2, <3>3, EntryTypes
      <3>5. CASE v = y
        <4>1. v \in DOMAIN dv_cost[y] /\ dv_cost[y][v] = 0
          BY <3>5 DEF Tables
        <4>2. 0 <= g[n + 1][y]
          BY <3>1, <3>2, <3>3
        <4> QED
          BY <4>1, <4>2
      <3>6. CASE v # y
        <4>1. Improved(u, y) = {}
          BY <3>2 DEF Settled
        <4>2. v \in DOMAIN dv_cost[y] /\ ~(Offer(u, y, v) < dv_cost[y][v])
          BY <3>3, <3>6, <4>1 DEF Improved
        <4>3. dv_cost[y][v] \in Nat
          BY <4>2, EntryTypes
        <4>4. Offer(u, y, v) = neighbors[u][y] + dv_cost[u][v]
          BY DEF Offer
        <4>5. dv_cost[y][v] <= g[n + 1][y]
          BY <3>1, <3>2, <3>3, <3>4, <4>2, <4>3, <4>4
        <4> QED
          BY <4>2, <4>5
      <3> QED
        BY <3>5, <3>6
    <2>6. \/ g[n + 1][y] = g[n][y]
          \/ \E u \in DOMAIN neighbors[y] :
               g[n][u] < INT_MAX /\ g[n + 1][y] = g[n][u] + neighbors[u][y]
      BY <1>2, <2>2, OneMoreReaches
    <2> QED
      BY <2>4, <2>5, <2>6
  <1>7. Nat \subseteq W
    <2> HIDE DEF W
    <2> QED
      BY <1>5, <1>6, AllNumbers
  <1>8. c \in 0 .. c /\ c \in Nat
    BY <1>1
  <1>9. g[c][x] \in 0 .. INT_MAX /\ (g[c][x] < INT_MAX => Knows(x, g[c][x]))
    BY <1>3, <1>7, <1>8
  <1>10. Lengths(v) = g
    BY DEF g, Lengths
  <1> QED
    BY <1>9, <1>10 DEF c

(* Then the entries are exactly the vertices that can be reached, at the cost of a
   shortest path. *)
LEMMA SettledExact ==
  ASSUME TypeOK, Tables, PathsBehind, Settled, NEW v \in vertices, NEW u \in vertices
  PROVE  IF u \in DOMAIN dv_cost[v]
         THEN dv_cost[v][u] = Lengths(v)[Cardinality(vertices)][u]
         ELSE Lengths(v)[Cardinality(vertices)][u] = INT_MAX
  <1> DEFINE c == Cardinality(vertices)
             there == Lengths(v)[c][u]
             back == Lengths(u)[c][v]
  <1>1. INT_MAX \in Nat
    BY CostsFit
  <1>2. /\ there \in 0 .. INT_MAX
        /\ there < INT_MAX => v \in DOMAIN dv_cost[u] /\ dv_cost[u][v] <= there
    BY SettledKnow
  <1>3. /\ back \in 0 .. INT_MAX
        /\ back < INT_MAX => u \in DOMAIN dv_cost[v] /\ dv_cost[v][u] <= back
    BY SettledKnow
  <1>4. u \in DOMAIN dv_cost[v] =>
          there <= dv_cost[v][u] /\ dv_cost[v][u] < INT_MAX /\ dv_cost[v][u] \in Nat
    BY CostsCovered
  <1>5. v \in DOMAIN dv_cost[u] =>
          back <= dv_cost[u][v] /\ dv_cost[u][v] < INT_MAX /\ dv_cost[u][v] \in Nat
    BY CostsCovered
  <1> HIDE DEF there, back
  <1>6. CASE u \in DOMAIN dv_cost[v]
    <2>1. there <= dv_cost[v][u] /\ dv_cost[v][u] < INT_MAX /\ dv_cost[v][u] \in Nat
          /\ there < INT_MAX
      BY <1>1, <1>2, <1>4, <1>6
    <2>2. /\ v \in DOMAIN dv_cost[u] /\ dv_cost[u][v] <= there
          /\ back <= dv_cost[u][v] /\ dv_cost[u][v] < INT_MAX /\ dv_cost[u][v] \in Nat
      BY <1>2, <1>5, <2>1
    <2>3. dv_cost[v][u] <= back
      BY <1>1, <1>3, <2>2
    <2>4. dv_cost[v][u] = there
      BY <1>1, <1>2, <1>3, <2>1, <2>2, <2>3
    <2> QED
      BY <1>6, <2>4 DEF there
  <1>7. CASE u \notin DOMAIN dv_cost[v]
    <2>1. ~(back < INT_MAX)
      BY <1>3, <1>7
    <2>2. v \notin DOMAIN dv_cost[u]
      BY <1>1, <1>3, <1>5, <2>1
    <2>3. there = INT_MAX
      BY <1>1, <1>2, <2>2
    <2> QED
      BY <1>7, <2>3 DEF there
  <1> QED
    BY <1>6, <1>7

------------------------------------------------------------------------------
(* Theorems *)

(* The tables, the queue and the topology stay consistent after every message,
   whatever lines the files hold. *)
THEOREM DvInvariant == Spec => []IInv
  BY IInvInit, IInvNext, PTL DEF Spec

(* The next hop of every entry is a neighbour that knows the destination at a cost
   that the entry covers. *)
THEOREM DvNextHopsLead == Spec => []NextHopsLead
  <1>1. IInv => NextHopsLead
    <2> SUFFICES ASSUME IInv PROVE NextHopsLead
      OBVIOUS
    <2>1. TypeOK
      BY DEF IInv
    <2>2. ASSUME pc = "receive", NEW e \in Entries, e[1] # e[2]
          PROVE  LET hop == dv_next_hop[e[1]][e[2]]
                 IN  /\ hop \in DOMAIN neighbors[e[1]] /\ <<hop, e[2]>> \in Entries
                     /\ neighbors[e[1]][hop] + dv_cost[hop][e[2]] <= dv_cost[e[1]][e[2]]
      <3> DEFINE v == e[1]
                 dst == e[2]
                 hop == dv_next_hop[v][dst]
      <3>1. v \in vertices /\ dst \in vertices /\ dst \in DOMAIN dv_cost[v]
        BY DEF Entries
      <3>2. Leads /\ NeighborsType
        BY <2>2 DEF IInv, TypeOK
      <3>3. /\ hop \in DOMAIN neighbors[v] /\ dst \in DOMAIN dv_cost[hop]
            /\ neighbors[v][hop] + dv_cost[hop][dst] <= dv_cost[v][dst]
        BY <2>2, <3>1, <3>2 DEF Leads
      <3>4. hop \in vertices
        BY <3>1, <3>2, <3>3, EdgeWeights
      <3>5. <<hop, dst>> \in Entries
        BY <3>1, <3>3, <3>4 DEF Entries
      <3> QED
        BY <3>3, <3>5
    <2> QED
      BY <2>1, <2>2 DEF NextHopsLead, Computing
  <1> QED
    BY <1>1, DvInvariant, PTL

(* Whatever a neighbour could still use is in the queue. *)
THEOREM DvPendingUpdates == Spec => []PendingUpdates
  <1>1. IInv => PendingUpdates
    BY DEF IInv, Pending, PendingUpdates, Computing
  <1> QED
    BY <1>1, DvInvariant, PTL

(* No table promises less than a shortest path costs. *)
THEOREM DvCostsAreOfPaths == Spec => []CostsAreOfPaths
  <1>1. IInv => CostsAreOfPaths
    <2> SUFFICES ASSUME IInv, pc = "receive", NEW v \in vertices, NEW u \in DOMAIN dv_cost[v]
                 PROVE  Distances(v)[u] <= dv_cost[v][u]
      BY DEF CostsAreOfPaths, Computing
    <2>1. TypeOK /\ Tables /\ PathsBehind /\ NeighborsType
      BY DEF IInv, TypeOK
    <2>2. Distances(v) = Lengths(v)[Cardinality(vertices)]
      BY <2>1, TopologyIsGraph
    <2> QED
      BY <2>1, <2>2, CostsCovered
  <1> QED
    BY <1>1, DvInvariant, PTL

(* The next hops form no loop at any time. *)
THEOREM DvNoRoutingLoops == Spec => []NoRoutingLoops
  <1>1. IInv => NoRoutingLoops
    <2> SUFFICES ASSUME IInv, pc = "receive", NEW e \in Entries
                 PROVE  Arrives(e[1], e[2])
      BY DEF NoRoutingLoops, Computing
    <2>1. TypeOK /\ Tables /\ Leads /\ NoCircle
      BY DEF IInv
    <2>2. e[1] \in vertices /\ e[2] \in DOMAIN dv_cost[e[1]]
      BY DEF Entries
    <2> QED
      BY <2>1, <2>2, WayArrives
  <1> QED
    BY <1>1, DvInvariant, PTL

(* When the queue is empty the tables are those of shortest paths, and messages
   take such paths. *)
THEOREM DvShortestPaths == Spec => []ShortestPaths
  <1>1. IInv => ShortestPaths
    <2> SUFFICES ASSUME IInv PROVE ShortestPaths
      OBVIOUS
    <2>1. TypeOK /\ NeighborsType /\ MessageCosts
      BY DEF IInv, TypeOK
    <2>2. ASSUME pc = "receive", q = << >>, NEW v \in vertices, NEW u \in vertices
          PROVE  IF <<v, u>> \in Entries THEN dv_cost[v][u] = Distances(v)[u]
                                         ELSE Distances(v)[u] = INT_MAX
      <3>1. Tables /\ PathsBehind /\ Pending /\ Len(q) = 0
        BY <2>2 DEF IInv
      <3>2. Settled
        BY <3>1 DEF Pending, Settled
      <3>3. Distances(v) = Lengths(v)[Cardinality(vertices)]
        BY <2>1, TopologyIsGraph
      <3>4. <<v, u>> \in Entries <=> u \in DOMAIN dv_cost[v]
        BY DEF Entries
      <3> QED
        BY <2>1, <3>1, <3>2, <3>3, <3>4, SettledExact
    <2>3. pc = "receive" /\ q = << >> =>
            \A v \in vertices : \A u \in vertices :
              IF <<v, u>> \in Entries THEN dv_cost[v][u] = Distances(v)[u]
                                      ELSE Distances(v)[u] = INT_MAX
      BY <2>2
    <2> QED
      BY <2>1, <2>3 DEF ShortestPaths, Computing
  <1> QED
    BY <1>1, DvInvariant, PTL

==============================================================================
