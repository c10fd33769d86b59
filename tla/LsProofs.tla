------------------------------ MODULE LsProofs ------------------------------
(***************************************************************************)
(* Proofs about link state routing: Dijkstra's algorithm finds the shortest *)
(* paths of every vertex, the ties are broken by the number of the last    *)
(* hop, and for that reason the paths of different vertices fit together.  *)
(***************************************************************************)
EXTENDS LinkState, ProofLemmas

------------------------------------------------------------------------------
(* The inductive invariant *)

Lengths(start) == Over(vertices, neighbors, INT_MAX, start)

(* The members of S over which u is reached at its cost. *)
Via(v, u, S) == {x \in S : OnShortestPath(v, x, u)}

Rows(v) ==
  /\ ls_known[v] \in [vertices -> BOOLEAN]
  /\ ls_cost[v] \in [vertices -> 0 .. INT_MAX]
  /\ ls_predecessor[v] \in [vertices -> vertices \cup {None}]

(* The known vertices are the nearest, and their costs are final. *)
NearestKnown(v) ==
  /\ v \in Destinations(v) /\ ls_cost[v][v] = 0
  /\ \A u \in Destinations(v) :
       /\ ls_cost[v][u] < INT_MAX
       /\ ls_cost[v][u] <= Lengths(v)[Cardinality(vertices)][u]
       /\ \A x \in vertices \ Destinations(v) : ls_cost[v][u] <= ls_cost[v][x]

(* A cost is that of a path over known vertices only. *)
OverKnown(v) ==
  \A u \in vertices :
    /\ u \in Destinations(v) =>
         Lengths(v)[Cardinality(Destinations(v)) - 1][u] <= ls_cost[v][u]
    /\ u \notin Destinations(v) =>
         Lengths(v)[Cardinality(Destinations(v))][u] <= ls_cost[v][u]

(* No edge from a vertex of S makes a shorter way. *)
Relaxed(v, S) ==
  \A u \in S : \A x \in DOMAIN neighbors[u] :
    ls_cost[v][x] <= ls_cost[v][u] + neighbors[u][x]

(* The predecessor is the lowest of the vertices of S on a shortest path. *)
LowestOf(v, S) ==
  /\ ls_predecessor[v][v] = None
  /\ \A u \in vertices \ {v} : ls_cost[v][u] < INT_MAX =>
       /\ ls_predecessor[v][u] \in Via(v, u, S)
       /\ \A x \in Via(v, u, S) : ls_predecessor[v][u] <= x

(* What djikstra has done for v, when S are the vertices it worked at. *)
Table(v, S) ==
  Rows(v) /\ NearestKnown(v) /\ OverKnown(v) /\ Relaxed(v, S) /\ LowestOf(v, S)

Finished(v) ==
  /\ Table(v, Destinations(v))
  /\ \A u \in vertices \ Destinations(v) : ls_cost[v][u] = INT_MAX

AtCurrNode ==
  /\ Table(node, Destinations(node) \ {currNode})
  /\ currNode \in Destinations(node)
  /\ \A u \in Destinations(node) : ls_cost[node][u] <= ls_cost[node][currNode]

(* The vertices whose tables are finished. *)
Finishers == vertices \ (todo \cup IF pc \in {"relax", "select"} THEN {node} ELSE {})

Dijkstra ==
  /\ DOMAIN ls_known = vertices /\ DOMAIN ls_cost = vertices
  /\ DOMAIN ls_predecessor = vertices
  /\ \A v \in Finishers : Finished(v)
  /\ pc \in {"relax", "select"} => node \in vertices \ todo
  /\ pc = "relax" => AtCurrNode
  /\ pc = "select" => Table(node, Destinations(node))
  /\ pc \in {"table", "messages"} => todo = {}

Printed ==
  /\ \A v \in vertices : \A d \in Destinations(v) : LoopEnds(v, d)
  /\ table = [v \in vertices |-> [d \in Destinations(v) |-> <<NextHop(v, d), ls_cost[v][d]>>]]
  /\ \/ message = NoMessage
     \/ \E v1, v2 \in vertices :
          \/ v2 \in Destinations(v1) /\ message = Message(v1, v2, ls_cost[v1][v2], Hops(v1, v2))
          \/ message = Message(v1, v2, INT_MAX, << >>)

IInv ==
  /\ TypeOK
  /\ pc \in {"node", "relax", "select", "table", "messages"} => Dijkstra
  /\ pc = "messages" => Printed
  /\ pc # "messages" => message = NoMessage

------------------------------------------------------------------------------
(* The topology *)

(* There are finitely many vertices, with numbers. *)
LEMMA VerticesFinite ==
  ASSUME NeighborsType
  PROVE  /\ vertices \subseteq Nat /\ IsFiniteSet(vertices)
         /\ Cardinality(vertices) \in Nat
  BY NumbersAssumption, FS_Subset, FS_CardinalityType DEF NeighborsType

(* Weights are numbers, the same at both ends of an edge. *)
LEMMA EdgeWeights ==
  ASSUME NeighborsType, NEW v \in vertices, NEW u \in DOMAIN neighbors[v]
  PROVE  /\ u \in vertices /\ u # v /\ v \in DOMAIN neighbors[u]
         /\ neighbors[v][u] \in Nat /\ neighbors[u][v] = neighbors[v][u]
  BY WeightsAssumption DEF NeighborsType, EdgesBothWays

(* A line of the input keeps the topology well formed. *)
LEMMA AddElementsKeepsType ==
  ASSUME NeighborsType, NEW line \in Lines, AddElements(line)
  PROVE  NeighborsType' /\ vertices \subseteq vertices'
  <1>1. Edges(neighbors, Numbers, Weights)
    BY DEF NeighborsType, EdgesBothWays, vertices, Edges
  <1>2. /\ line[1] \in Numbers /\ line[2] \in Numbers /\ line[1] # line[2]
        /\ line[3] \in Weights \cup {RemoveMark}
    BY DEF Lines
  <1>3. neighbors' = WithEdge(neighbors, line[1], line[2], line[3], RemoveMark)
    BY DEF AddElements, WithEdge, EdgesOf, NeighborsOf, Put, Drop, vertices
  <1>4. Edges(neighbors', Numbers, Weights) /\ DOMAIN neighbors \subseteq DOMAIN neighbors'
    BY <1>1, <1>2, <1>3, WithEdgeKeeps
  <1> QED
    BY <1>4 DEF NeighborsType, EdgesBothWays, vertices, Edges

(* The topology is a graph, and its distances are the last of the lengths. *)
LEMMA TopologyIsGraph ==
  ASSUME NeighborsType
  PROVE  /\ Graph(vertices, neighbors, INT_MAX)
         /\ \A v \in vertices : Distances(v) = Lengths(v)[Cardinality(vertices)]
  <1>1. Graph(vertices, neighbors, INT_MAX)
    BY VerticesFinite, EdgeWeights, CostsFit DEF Graph
  <1>2. \A v \in vertices : Distances(v) = Lengths(v)[Cardinality(vertices)]
    BY DEF Distances, Lengths, Over, OneMore, Least, Smallest
  <1> QED
    BY <1>1, <1>2

------------------------------------------------------------------------------
(* Paths over the known vertices *)

(* The heart of Dijkstra's algorithm.  If the vertices of K are nearer than the
   others, and their edges were followed, then their costs are at most the
   lengths of any paths, and a path to another vertex is at least as long as the
   cost of some vertex that is not of K. *)
LEMMA NoShorterPath ==
  ASSUME NEW V, NEW w, NEW max, Graph(V, w, max), NEW start \in V,
         NEW K \in SUBSET V, start \in K, NEW cost \in [V -> 0 .. max], cost[start] = 0,
         \A u \in K : \A x \in V \ K : cost[u] <= cost[x],
         \A u \in K : \A x \in DOMAIN w[u] : cost[x] <= cost[u] + w[u][x],
         NEW k \in 0 .. Cardinality(V), NEW v \in V
  PROVE  /\ v \in K => cost[v] <= Over(V, w, max, start)[k][v]
         /\ v \notin K => \E u \in V \ K : cost[u] <= Over(V, w, max, start)[k][v]
  <1> DEFINE g == Over(V, w, max, start)
             c == Cardinality(V)
             Bound(n, x) == \E u \in V : (x \in K => u = x) /\ (x \notin K => u \notin K)
                                         /\ cost[u] <= g[n][x]
             W == {n \in Nat : n <= c => \A x \in V : Bound(n, x)}
  <1>1. c \in Nat /\ max \in Nat /\ IsFiniteSet(V)
    BY FS_CardinalityType DEF Graph
  <1>2. g[0] = [x \in V |-> IF x = start THEN 0 ELSE max]
    BY <1>1, OverIs
  <1>3. ASSUME NEW n \in Nat, n < c, NEW x \in V
        PROVE  /\ g[n][x] \in 0 .. max /\ g[n + 1][x] \in 0 .. max
               /\ g[n + 1][x] <= g[n][x]
               /\ \/ g[n + 1][x] = g[n][x]
                  \/ \E u \in DOMAIN w[x] : g[n + 1][x] = g[n][u] + w[u][x]
    BY <1>3, OverStep
  <1>4. \A x \in V : \A u \in DOMAIN w[x] :
          u \in V /\ x \in DOMAIN w[u] /\ w[u][x] \in Nat
    BY DEF Graph
  <1> HIDE DEF g, c
  <1>5. 0 \in W
    BY <1>1, <1>2
  <1>6. ASSUME NEW n \in Nat, n \in W
        PROVE  n + 1 \in W
    <2> SUFFICES ASSUME n + 1 <= c, NEW x \in V
                 PROVE  Bound(n + 1, x)
      OBVIOUS
    <2>1. n < c /\ n <= c
      BY <1>1
    <2>2. \A y \in V : Bound(n, y)
      BY <1>6, <2>1
    <2>3. CASE g[n + 1][x] = g[n][x]
      BY <2>2, <2>3
    <2>4. CASE \E u \in DOMAIN w[x] : g[n + 1][x] = g[n][u] + w[u][x]
      <3>1. PICK u \in DOMAIN w[x] : g[n + 1][x] = g[n][u] + w[u][x]
        BY <2>4
      <3>2. u \in V /\ x \in DOMAIN w[u] /\ w[u][x] \in Nat
        BY <1>4
      <3>3. PICK y \in V : /\ u \in K => y = u
                           /\ u \notin K => y \notin K
                           /\ cost[y] <= g[n][u]
        BY <2>2, <3>2
      <3>4. g[n][u] \in 0 .. max /\ cost[y] \in 0 .. max /\ cost[x] \in 0 .. max
        BY <1>3, <2>1, <3>2
      <3>5. cost[y] <= g[n + 1][x]
        BY <1>1, <3>1, <3>2, <3>3, <3>4
      <3>6. CASE u \in K
        <4>1. cost[x] <= cost[u] + w[u][x] /\ cost[u] <= g[n][u] /\ cost[u] \in 0 .. max
          BY <3>2, <3>3, <3>4, <3>6
        <4>2. cost[x] <= g[n + 1][x]
          BY <1>1, <3>1, <3>2, <3>4, <4>1
        <4> QED
          BY <4>2
      <3>7. CASE u \notin K /\ x \in K
        <4>1. cost[x] <= cost[y]
          BY <3>3, <3>7
        <4>2. cost[x] <= g[n + 1][x]
          <5>1. g[n + 1][x] \in 0 .. max
            BY <1>3, <2>1
          <5> QED
            BY <1>1, <3>4, <3>5, <4>1, <5>1
        <4> QED
          BY <4>2
      <3>8. CASE u \notin K /\ x \notin K
        BY <3>3, <3>5, <3>8
      <3> QED
        BY <3>6, <3>7, <3>8
    <2> QED
      BY <1>3, <2>1, <2>3, <2>4
  <1>7. Nat \subseteq W
    <2> HIDE DEF W
    <2> QED
      BY <1>5, <1>6, AllNumbers
  <1>8. Bound(k, v)
    <2>1. k \in Nat /\ k <= c
      BY <1>1 DEF c
    <2> QED
      BY <1>7, <2>1
  <1> QED
    BY <1>8 DEF g

------------------------------------------------------------------------------
(* The tables *)

(* The known vertices are some of the vertices. *)
LEMMA KnownFinite ==
  ASSUME NeighborsType, NEW v \in vertices
  PROVE  /\ Destinations(v) \in SUBSET vertices /\ IsFiniteSet(Destinations(v))
         /\ Cardinality(Destinations(v)) \in 0 .. Cardinality(vertices)
         /\ Cardinality(Destinations(v)) = 0 => Destinations(v) = {}
         /\ Cardinality(Destinations(v)) = Cardinality(vertices) => Destinations(v) = vertices
  <1> DEFINE K == Destinations(v)
  <1>1. K \in SUBSET vertices /\ IsFiniteSet(vertices) /\ Cardinality(vertices) \in Nat
    BY VerticesFinite DEF Destinations
  <1> HIDE DEF K
  <1>2. /\ IsFiniteSet(K) /\ Cardinality(K) <= Cardinality(vertices)
        /\ Cardinality(K) = Cardinality(vertices) => K = vertices
    BY <1>1, FS_Subset
  <1>3. Cardinality(K) \in Nat /\ (Cardinality(K) = 0 => K = {})
    BY <1>2, FS_CardinalityType, FS_EmptySet
  <1> QED
    BY <1>1, <1>2, <1>3 DEF K

(* The lengths of paths are within the range of costs, and shrink. *)
LEMMA LengthsShrink ==
  ASSUME NeighborsType, NEW v \in vertices, NEW u \in vertices, NEW k \in 0 .. Cardinality(vertices)
  PROVE  /\ Lengths(v)[k][u] \in 0 .. INT_MAX
         /\ Lengths(v)[Cardinality(vertices)][u] \in 0 .. INT_MAX
         /\ \A m \in k .. Cardinality(vertices) : Lengths(v)[m][u] <= Lengths(v)[k][u]
  <1>1. Graph(vertices, neighbors, INT_MAX) /\ Cardinality(vertices) \in Nat
    BY TopologyIsGraph, VerticesFinite
  <1>2. Cardinality(vertices) \in 0 .. Cardinality(vertices)
    BY <1>1
  <1> QED
    BY <1>1, <1>2, OverShrinks DEF Lengths

(* The cost of a known vertex is the length of a shortest path. *)
LEMMA KnownExact ==
  ASSUME NeighborsType, NEW v \in vertices, Rows(v), NearestKnown(v), OverKnown(v),
         NEW u \in Destinations(v)
  PROVE  /\ ls_cost[v][u] = Lengths(v)[Cardinality(vertices)][u]
         /\ ls_cost[v][u] = Distances(v)[u]
         /\ Lengths(v)[Cardinality(vertices) - 1][u] <= ls_cost[v][u]
  <1> DEFINE n == Cardinality(Destinations(v))
             c == Cardinality(vertices)
             g == Lengths(v)
  <1>1. /\ u \in vertices /\ n \in 0 .. c /\ n # 0 /\ c \in Nat
        /\ n - 1 \in 0 .. c /\ c - 1 \in 0 .. c /\ n - 1 <= c - 1 /\ c \in 0 .. c
    BY KnownFinite, VerticesFinite
  <1>2. g[n - 1][u] <= ls_cost[v][u] /\ ls_cost[v][u] <= g[c][u]
    BY <1>1 DEF OverKnown, NearestKnown
  <1>3. /\ ls_cost[v][u] \in Nat /\ g[c][u] \in Nat /\ g[n - 1][u] \in Nat
        /\ g[c - 1][u] \in Nat /\ g[c][u] <= g[n - 1][u] /\ g[c - 1][u] <= g[n - 1][u]
    <2>1. ls_cost[v][u] \in Nat
      BY <1>1, CostsFit DEF Rows
    <2>2. \A k \in 0 .. c : /\ g[k][u] \in 0 .. INT_MAX
                            /\ \A m \in k .. c : g[m][u] <= g[k][u]
      BY <1>1, LengthsShrink
    <2>3. c \in (n - 1) .. c /\ c - 1 \in (n - 1) .. c
      BY <1>1
    <2> QED
      BY <1>1, <2>1, <2>2, <2>3, CostsFit
  <1>4. Distances(v) = g[c]
    BY TopologyIsGraph
  <1> HIDE DEF n, c, g
  <1>5. ls_cost[v][u] = g[c][u]
    BY <1>1, <1>2, <1>3
  <1>6. g[c - 1][u] <= ls_cost[v][u]
    BY <1>2, <1>3
  <1> QED
    BY <1>4, <1>5, <1>6 DEF n, c, g

(* The types of one table. *)
LEMMA RowTypes ==
  ASSUME NEW v \in vertices, Rows(v), NEW u \in vertices
  PROVE  /\ ls_cost[v][u] \in Nat /\ ls_cost[v][u] <= INT_MAX
         /\ ls_predecessor[v][u] \in vertices \cup {None}
         /\ (u \in Destinations(v) <=> ls_known[v][u])
         /\ DOMAIN ls_cost[v] = vertices /\ DOMAIN ls_known[v] = vertices
         /\ DOMAIN ls_predecessor[v] = vertices
  BY CostsFit DEF Rows, Destinations

(* A path to a vertex that is not known is as long as the cost of some vertex
   that is not known, when the edges of the known vertices were followed. *)
LEMMA UnknownFar ==
  ASSUME NeighborsType, NEW v \in vertices, Rows(v), NearestKnown(v),
         Relaxed(v, Destinations(v)),
         NEW k \in 0 .. Cardinality(vertices), NEW u \in vertices \ Destinations(v)
  PROVE  \E x \in vertices \ Destinations(v) : ls_cost[v][x] <= Lengths(v)[k][u]
  <1> DEFINE K == Destinations(v)
             cost == ls_cost[v]
  <1>1. Graph(vertices, neighbors, INT_MAX) /\ K \in SUBSET vertices
    BY TopologyIsGraph, KnownFinite
  <1>2. /\ v \in K /\ cost \in [vertices -> 0 .. INT_MAX] /\ cost[v] = 0
        /\ \A y \in K : \A x \in vertices \ K : cost[y] <= cost[x]
        /\ \A y \in K : \A x \in DOMAIN neighbors[y] : cost[x] <= cost[y] + neighbors[y][x]
    BY DEF Rows, NearestKnown, Relaxed
  <1>3. u \in vertices /\ u \notin K
    OBVIOUS
  <1> HIDE DEF K, cost
  <1>4. \E x \in vertices \ K : cost[x] <= Over(vertices, neighbors, INT_MAX, v)[k][u]
    BY <1>1, <1>2, <1>3, NoShorterPath
  <1> QED
    BY <1>4 DEF K, cost, Lengths

(* The costs of a finished table are the distances. *)
LEMMA FinishedCosts ==
  ASSUME NeighborsType, NEW v \in vertices, Finished(v)
  PROVE  /\ ls_cost[v] = Distances(v)
         /\ \A u \in vertices : u \in Destinations(v) <=> ls_cost[v][u] < INT_MAX
         /\ Destinations(v) = {u \in vertices : Distances(v)[u] < INT_MAX}
  <1> DEFINE c == Cardinality(vertices)
             g == Lengths(v)[c]
  <1>1. Rows(v) /\ NearestKnown(v) /\ OverKnown(v) /\ Relaxed(v, Destinations(v))
    BY DEF Finished, Table
  <1>2. c \in 0 .. c /\ Destinations(v) \subseteq vertices /\ INT_MAX \in Nat
    BY VerticesFinite, CostsFit DEF Destinations
  <1>3. g \in [vertices -> 0 .. INT_MAX]
    BY <1>2, TopologyIsGraph, OverReaches DEF Lengths
  <1>4. Distances(v) = g
    BY TopologyIsGraph
  <1>5. ASSUME NEW u \in Destinations(v)
        PROVE  ls_cost[v][u] = g[u] /\ ls_cost[v][u] < INT_MAX
    <2>1. ls_cost[v][u] = g[u]
      BY <1>1, KnownExact
    <2> QED
      BY <1>1, <2>1 DEF NearestKnown
  <1>6. ASSUME NEW u \in vertices \ Destinations(v)
        PROVE  ls_cost[v][u] = g[u] /\ ls_cost[v][u] = INT_MAX
    <2>1. \A x \in vertices \ Destinations(v) : ls_cost[v][x] = INT_MAX
      BY DEF Finished
    <2>2. PICK x \in vertices \ Destinations(v) : ls_cost[v][x] <= g[u]
      BY <1>1, <1>2, UnknownFar
    <2>3. g[u] \in 0 .. INT_MAX
      BY <1>3
    <2> HIDE DEF g
    <2> QED
      BY <1>2, <2>1, <2>2, <2>3
  <1> HIDE DEF g
  <1>7. ls_cost[v] = g
    <2>1. ls_cost[v] \in [vertices -> 0 .. INT_MAX]
      BY <1>1 DEF Rows
    <2>2. \A u \in vertices : ls_cost[v][u] = g[u]
      BY <1>5, <1>6
    <2> QED
      BY <1>3, <2>1, <2>2
  <1>8. \A u \in vertices : u \in Destinations(v) <=> ls_cost[v][u] < INT_MAX
    BY <1>2, <1>5, <1>6
  <1> QED
    BY <1>2, <1>4, <1>7, <1>8

------------------------------------------------------------------------------
(* The steps of djikstra *)

(* A set of numbers has a smallest. *)
LEMMA SmallestIsMember ==
  ASSUME NEW S \in SUBSET Nat, S # {}
  PROVE  Smallest(S) \in S /\ \A m \in S : Smallest(S) <= m
  <1>1. Smallest(S) = Least(S)
    BY DEF Smallest, Least
  <1> QED
    BY <1>1, LeastIsMember

(* A finished table stays so while the topology and the table stay. *)
LEMMA FinishedKept ==
  ASSUME NEW v, Finished(v), UNCHANGED neighbors, ls_known'[v] = ls_known[v],
         ls_cost'[v] = ls_cost[v], ls_predecessor'[v] = ls_predecessor[v]
  PROVE  Finished(v)'
  <1>1. vertices' = vertices /\ Destinations(v)' = Destinations(v) /\ Lengths(v)' = Lengths(v)
    BY DEF vertices, Destinations, Lengths
  <1>2. Rows(v)' /\ NearestKnown(v)' /\ OverKnown(v)'
    BY <1>1 DEF Finished, Table, Rows, NearestKnown, OverKnown
  <1>3. Relaxed(v, Destinations(v))'
    BY <1>1 DEF Finished, Table, Relaxed
  <1>4. LowestOf(v, Destinations(v))'
    BY <1>1 DEF Finished, Table, LowestOf, Via, OnShortestPath
  <1> QED
    BY <1>1, <1>2, <1>3, <1>4 DEF Finished, Table

(* djikstra starts at its vertex, which alone is known. *)
LEMMA InitNodeStarts ==
  ASSUME NeighborsType, todo \subseteq vertices, DOMAIN ls_known = vertices,
         DOMAIN ls_cost = vertices, DOMAIN ls_predecessor = vertices, InitNode
  PROVE  AtCurrNode' /\ node' \in todo
  <1>1. vertices \in SUBSET Nat /\ todo \in SUBSET Nat /\ todo # {} /\ INT_MAX \in Nat \ {0}
    BY VerticesFinite, CostsFit DEF InitNode
  <1>2. Smallest(todo) \in todo
    BY <1>1, SmallestIsMember
  <1>3. PICK x \in todo : x = Smallest(todo)
    BY <1>2
  <1>4. /\ x \in vertices /\ node' = x /\ currNode' = x /\ neighbors' = neighbors
        /\ ls_known'[x] = [u \in vertices |-> u = x]
        /\ ls_cost'[x] = [u \in vertices |-> IF u = x THEN 0 ELSE INT_MAX]
        /\ ls_predecessor'[x] = [u \in vertices |-> None]
    BY <1>3 DEF InitNode
  <1>5. /\ vertices' = vertices /\ Lengths(x)' = Lengths(x) /\ Destinations(x)' = {x}
    BY <1>4 DEF vertices, Lengths, Destinations
  <1>6. Cardinality({x}) = 1 /\ Cardinality(vertices) \in Nat /\ 1 \in 0 .. Cardinality(vertices)
    <2>1. IsFiniteSet(vertices) /\ Cardinality(vertices) \in Nat /\ vertices # {}
      BY <1>4, VerticesFinite
    <2> QED
      BY <2>1, FS_Singleton, FS_EmptySet
  <1>7. Lengths(x)[0][x] = 0 /\ Lengths(x)[Cardinality(vertices)][x] \in Nat
    <2>1. IsFiniteSet(vertices)
      BY VerticesFinite
    <2>2. Lengths(x)[0][x] = 0
      BY <1>4, <2>1, OverIs DEF Lengths
    <2> QED
      BY <1>1, <1>4, <1>6, <2>2, LengthsShrink
  <1>8. \A u \in vertices : Lengths(x)[1][u] <= INT_MAX
    BY <1>1, <1>4, <1>6, LengthsShrink
  <1>9. Rows(x)'
    BY <1>1, <1>4, <1>5 DEF Rows, None
  <1>10. NearestKnown(x)'
    BY <1>1, <1>4, <1>5, <1>7 DEF NearestKnown
  <1>11. OverKnown(x)'
    BY <1>1, <1>4, <1>5, <1>6, <1>7, <1>8 DEF OverKnown
  <1>12. LowestOf(x, {})' /\ Relaxed(x, {})'
    BY <1>1, <1>4, <1>5 DEF LowestOf, Relaxed
  <1>13. (Destinations(x) \ {x})' = {}
    BY <1>5
  <1>14. Table(x, Destinations(x) \ {x})'
    BY <1>9, <1>10, <1>11, <1>12, <1>13 DEF Table, LowestOf, Relaxed
  <1>15. /\ x \in Destinations(x)' /\ \A u \in Destinations(x)' : ls_cost'[x][u] <= ls_cost'[x][x]
    BY <1>4, <1>5
  <1> QED
    BY <1>4, <1>14, <1>15 DEF AtCurrNode

(* The costs after the edges of currNode were followed: they shrink to those of
   the ways over currNode, and the known vertices keep theirs. *)
LEMMA RelaxCosts ==
  ASSUME NeighborsType, node \in vertices, DOMAIN ls_cost = vertices,
         DOMAIN ls_predecessor = vertices, AtCurrNode, Relax,
         NEW v, v = node, NEW x, x = currNode, NEW u \in vertices
  PROVE  /\ ls_cost'[v][u] \in 0 .. INT_MAX /\ ls_cost'[v][u] <= ls_cost[v][u]
         /\ u \in Destinations(v) => ls_cost'[v][u] = ls_cost[v][u]
         /\ u \in DOMAIN neighbors[x] => ls_cost'[v][u] <= ls_cost[v][x] + neighbors[x][u]
         /\ \/ ls_cost'[v][u] = ls_cost[v][u]
               /\ ls_predecessor'[v][u] = IF /\ u \in DOMAIN neighbors[x]
                                             /\ ls_cost[v][x] + neighbors[x][u] = ls_cost[v][u]
                                             /\ x < ls_predecessor[v][u]
                                          THEN x ELSE ls_predecessor[v][u]
            \/ /\ u \in DOMAIN neighbors[x] /\ u \notin Destinations(v)
               /\ ls_cost'[v][u] = ls_cost[v][x] + neighbors[x][u]
               /\ ls_cost'[v][u] < ls_cost[v][u] /\ ls_predecessor'[v][u] = x
  <1> DEFINE K == Destinations(v)
             cost == ls_cost[v]
             pot == cost[x] + neighbors[x][u]
             better == u \in DOMAIN neighbors[x] /\ pot < cost[u] /\ u \notin K
             tie == u \in DOMAIN neighbors[x] /\ pot = cost[u] /\ x < ls_predecessor[v][u]
  <1>1. /\ v \in vertices /\ x \in K /\ Rows(v) /\ K \subseteq vertices
        /\ \A y \in K : cost[y] <= cost[x]
    BY DEF AtCurrNode, Table, Destinations
  <1>2. /\ cost[u] \in Nat /\ cost[u] <= INT_MAX /\ cost[x] \in Nat /\ INT_MAX \in Nat
        /\ u \in DOMAIN neighbors[x] => neighbors[x][u] \in Nat
        /\ (u \in K <=> ls_known[v][u])
    BY <1>1, RowTypes, EdgeWeights, CostsFit
  <1>3. /\ better <=> IsBetter(u)
        /\ tie <=> IsTie(u)
    BY <1>2 DEF IsBetter, IsTie, PotentialCost
  <1>4. /\ ls_cost'[v][u] = IF better THEN pot ELSE cost[u]
        /\ ls_predecessor'[v][u] = IF better \/ tie THEN x ELSE ls_predecessor[v][u]
    <2>1. /\ ls_cost'[v][u] = IF IsBetter(u) THEN PotentialCost(u) ELSE cost[u]
          /\ ls_predecessor'[v][u] =
               IF IsBetter(u) \/ IsTie(u) THEN x ELSE ls_predecessor[v][u]
      BY <1>1 DEF Relax
    <2>2. PotentialCost(u) = pot
      BY DEF PotentialCost
    <2> HIDE DEF better, tie
    <2> QED
      BY <1>3, <2>1, <2>2
  <1>5. u \in K => cost[u] <= cost[x]
    BY <1>1
  <1> HIDE DEF K, cost
  <1>6. CASE better
    BY <1>2, <1>4, <1>6 DEF K, cost
  <1>7. CASE ~better
    <2>1. /\ ls_cost'[v][u] = cost[u]
          /\ ls_predecessor'[v][u] = IF tie THEN x ELSE ls_predecessor[v][u]
      BY <1>4, <1>7
    <2>2. u \in DOMAIN neighbors[x] => cost[u] <= pot
      BY <1>2, <1>5, <1>7
    <2> QED
      BY <1>2, <2>1, <2>2 DEF K, cost
  <1> QED
    BY <1>6, <1>7

(* Then the edges of all the known vertices were followed. *)
LEMMA RelaxFollows ==
  ASSUME NeighborsType, node \in vertices, DOMAIN ls_cost = vertices,
         DOMAIN ls_predecessor = vertices, AtCurrNode, Relax
  PROVE  Table(node, Destinations(node))'
  <1>1. PICK v \in vertices : v = node
    OBVIOUS
  <1>2. PICK x \in vertices : x = currNode
    BY DEF AtCurrNode, Destinations
  <1>3. PICK K \in SUBSET vertices : K = Destinations(v)
    BY DEF Destinations
  <1>4. PICK cost : cost = ls_cost[v]
    OBVIOUS
  <1>5. PICK new : new = ls_cost'[v]
    OBVIOUS
  <1>6. PICK pred : pred = ls_predecessor[v]
    OBVIOUS
  <1>7. PICK npred : npred = ls_predecessor'[v]
    OBVIOUS
  <1>8. /\ neighbors' = neighbors /\ node' = v /\ vertices' = vertices
        /\ ls_known' = ls_known /\ Destinations(v)' = K /\ Lengths(v)' = Lengths(v)
    BY <1>1, <1>3 DEF Relax, vertices, Destinations, Lengths
  <1>9. /\ Rows(v) /\ NearestKnown(v) /\ OverKnown(v) /\ Relaxed(v, K \ {x})
        /\ LowestOf(v, K \ {x}) /\ x \in K /\ \A y \in K : cost[y] <= cost[x]
    BY <1>1, <1>2, <1>3, <1>4 DEF AtCurrNode, Table
  <1>10. ASSUME NEW u \in vertices
         PROVE  /\ new[u] \in 0 .. INT_MAX /\ new[u] <= cost[u]
                /\ u \in K => new[u] = cost[u]
                /\ u \in DOMAIN neighbors[x] => new[u] <= cost[x] + neighbors[x][u]
                /\ \/ new[u] = cost[u]
                      /\ npred[u] = IF /\ u \in DOMAIN neighbors[x]
                                       /\ cost[x] + neighbors[x][u] = cost[u] /\ x < pred[u]
                                    THEN x ELSE pred[u]
                   \/ /\ u \in DOMAIN neighbors[x] /\ u \notin K
                      /\ new[u] = cost[x] + neighbors[x][u] /\ new[u] < cost[u] /\ npred[u] = x
    <2>1. /\ ls_cost'[v][u] \in 0 .. INT_MAX /\ ls_cost'[v][u] <= ls_cost[v][u]
          /\ u \in Destinations(v) => ls_cost'[v][u] = ls_cost[v][u]
          /\ u \in DOMAIN neighbors[x] => ls_cost'[v][u] <= ls_cost[v][x] + neighbors[x][u]
          /\ \/ ls_cost'[v][u] = ls_cost[v][u]
                /\ ls_predecessor'[v][u] = IF /\ u \in DOMAIN neighbors[x]
                                              /\ ls_cost[v][x] + neighbors[x][u] = ls_cost[v][u]
                                              /\ x < ls_predecessor[v][u]
                                           THEN x ELSE ls_predecessor[v][u]
             \/ /\ u \in DOMAIN neighbors[x] /\ u \notin Destinations(v)
                /\ ls_cost'[v][u] = ls_cost[v][x] + neighbors[x][u]
                /\ ls_cost'[v][u] < ls_cost[v][u] /\ ls_predecessor'[v][u] = x
      BY <1>1, <1>2, RelaxCosts
    <2> QED
      BY <2>1, <1>3, <1>4, <1>5, <1>6, <1>7
  <1>11. ASSUME NEW u \in vertices
         PROVE  /\ cost[u] \in Nat /\ cost[u] <= INT_MAX /\ new[u] \in Nat /\ INT_MAX \in Nat
                /\ pred[u] \in vertices \cup {None} /\ u \in Nat
                /\ (u \in K <=> ls_known[v][u])
                /\ \A y \in DOMAIN neighbors[u] :
                     /\ y \in vertices /\ u \in DOMAIN neighbors[y]
                     /\ neighbors[u][y] \in Nat /\ neighbors[y][u] = neighbors[u][y]
    BY <1>3, <1>4, <1>6, <1>9, <1>10, RowTypes, EdgeWeights, VerticesFinite, CostsFit
  <1>12. Rows(v)'
    <2>1. /\ ls_cost'[v] = [u \in vertices |-> new[u]]
          /\ ls_predecessor'[v] = [u \in vertices |-> npred[u]]
      BY <1>1, <1>5, <1>7 DEF Relax
    <2>2. \A u \in vertices : npred[u] \in vertices \cup {None}
      BY <1>10, <1>11
    <2>3. ls_known'[v] \in [vertices -> BOOLEAN]
      BY <1>8, <1>9 DEF Rows
    <2> QED
      BY <1>8, <1>10, <2>1, <2>2, <2>3 DEF Rows
  <1>13. /\ v \in K /\ cost[v] = 0
         /\ \A u \in K : /\ cost[u] < INT_MAX /\ cost[u] <= Lengths(v)[Cardinality(vertices)][u]
                         /\ \A y \in vertices \ K : cost[u] <= cost[y]
    BY <1>3, <1>4, <1>9 DEF NearestKnown
  <1>14. /\ v \in K /\ new[v] = 0
         /\ \A u \in K : /\ new[u] < INT_MAX /\ new[u] <= Lengths(v)[Cardinality(vertices)][u]
                         /\ \A y \in vertices \ K : new[u] <= new[y]
    <2>1. ASSUME NEW u \in K
          PROVE  new[u] < INT_MAX /\ new[u] <= Lengths(v)[Cardinality(vertices)][u]
      BY <1>10, <1>13
    <2>2. ASSUME NEW u \in K, NEW y \in vertices \ K
          PROVE  new[u] <= new[y]
      <3>1. new[u] = cost[u] /\ cost[u] <= cost[y] /\ cost[u] <= cost[x]
        BY <1>9, <1>10, <1>13
      <3>2. \/ new[y] = cost[y]
            \/ y \in DOMAIN neighbors[x] /\ new[y] = cost[x] + neighbors[x][y]
        BY <1>10
      <3>3. y \in DOMAIN neighbors[x] => neighbors[x][y] \in Nat
        BY <1>11
      <3>4. cost[u] \in Nat /\ cost[x] \in Nat /\ cost[y] \in Nat
        BY <1>11
      <3> QED
        BY <3>1, <3>2, <3>3, <3>4
    <2> QED
      BY <1>10, <1>13, <2>1, <2>2
  <1>15. NearestKnown(v)'
    BY <1>5, <1>8, <1>14 DEF NearestKnown
  <1>16. \A u \in vertices :
           /\ u \in K => Lengths(v)[Cardinality(K) - 1][u] <= cost[u]
           /\ u \notin K => Lengths(v)[Cardinality(K)][u] <= cost[u]
    BY <1>3, <1>4, <1>9 DEF OverKnown
  <1>17. \A u \in vertices :
           /\ u \in K => Lengths(v)[Cardinality(K) - 1][u] <= new[u]
           /\ u \notin K => Lengths(v)[Cardinality(K)][u] <= new[u]
    <2>1. ASSUME NEW u \in vertices, u \notin K, u \in DOMAIN neighbors[x],
                 new[u] = cost[x] + neighbors[x][u]
          PROVE  Lengths(v)[Cardinality(K)][u] <= new[u]
      <3> DEFINE k == Cardinality(K) - 1
                 c == Cardinality(vertices)
      <3>1. k \in Nat /\ k < c /\ k + 1 = Cardinality(K)
        BY <1>3, <1>9, KnownFinite, VerticesFinite
      <3>2. Graph(vertices, neighbors, INT_MAX) /\ x \in DOMAIN neighbors[u]
        BY <1>11, <2>1, TopologyIsGraph
      <3>3. Lengths(v)[k + 1][u] <= Lengths(v)[k][x] + neighbors[x][u]
        <4> HIDE DEF k
        <4> QED
          BY <3>1, <3>2, OverStep DEF Lengths
      <3>4. Lengths(v)[k][x] <= cost[x]
        BY <1>9, <1>16
      <3>5. /\ Lengths(v)[k + 1][u] \in Nat /\ Lengths(v)[k][x] \in Nat
            /\ neighbors[x][u] \in Nat /\ cost[x] \in Nat
        <4>1. k \in 0 .. c /\ k + 1 \in 0 .. c
          BY <3>1, VerticesFinite
        <4>2. Lengths(v)[k + 1][u] \in 0 .. INT_MAX /\ Lengths(v)[k][x] \in 0 .. INT_MAX
          <5> HIDE DEF k, c
          <5> QED
            BY <4>1, LengthsShrink DEF c
        <4> QED
          BY <1>11, <2>1, <4>2
      <3> HIDE DEF k
      <3> QED
        BY <2>1, <3>1, <3>3, <3>4, <3>5
    <2>2. ASSUME NEW u \in vertices
          PROVE  /\ u \in K => Lengths(v)[Cardinality(K) - 1][u] <= new[u]
                 /\ u \notin K => Lengths(v)[Cardinality(K)][u] <= new[u]
      <3>1. \/ new[u] = cost[u]
            \/ u \notin K /\ u \in DOMAIN neighbors[x] /\ new[u] = cost[x] + neighbors[x][u]
        BY <1>10
      <3> QED
        BY <1>16, <2>1, <3>1
    <2> QED
      BY <2>2
  <1>18. OverKnown(v)'
    BY <1>5, <1>8, <1>17 DEF OverKnown
  <1>19. ASSUME NEW y \in K, NEW z \in DOMAIN neighbors[y]
         PROVE  new[z] <= new[y] + neighbors[y][z]
    <2>1. z \in vertices /\ neighbors[y][z] \in Nat
      BY <1>11
    <2>2. CASE y = x
      BY <1>10, <2>1, <2>2
    <2>3. CASE y # x
      <3>1. cost[z] <= cost[y] + neighbors[y][z]
        BY <1>4, <1>9, <2>3 DEF Relaxed
      <3>2. new[z] <= cost[z] /\ new[y] = cost[y]
        BY <1>10, <2>1
      <3>3. new[z] \in Nat /\ cost[z] \in Nat /\ cost[y] \in Nat
        BY <1>11, <2>1
      <3> QED
        BY <2>1, <3>1, <3>2, <3>3
    <2> QED
      BY <2>2, <2>3
  <1>20. Relaxed(v, K)'
    BY <1>5, <1>8, <1>19 DEF Relaxed
  <1> DEFINE On(y, u) == y \in K /\ u \in DOMAIN neighbors[y] /\ cost[y] + neighbors[y][u] = new[u]
  <1>21. ASSUME NEW u \in vertices
         PROVE  \A y : (y \in Via(v, u, K))' <=> On(y, u)
    <2>1. \A y \in K : new[y] < INT_MAX /\ new[y] = cost[y] /\ y \in vertices
      BY <1>10, <1>14
    <2>2. \A y : (y \in Via(v, u, K))' <=> /\ y \in K /\ u \in DOMAIN neighbors[y]
                                           /\ new[y] < INT_MAX /\ new[y] + neighbors[y][u] = new[u]
      BY <1>5, <1>8 DEF Via, OnShortestPath
    <2> QED
      BY <2>1, <2>2
  <1>22. ASSUME NEW u \in vertices
         PROVE  \A y : y \in Via(v, u, K \ {x}) <=>
                  y # x /\ y \in K /\ u \in DOMAIN neighbors[y]
                    /\ cost[y] + neighbors[y][u] = cost[u]
    BY <1>4, <1>13 DEF Via, OnShortestPath
  <1>23. npred[v] = None
    <2>1. pred[v] = None
      BY <1>6, <1>9 DEF LowestOf
    <2>2. ~(x < pred[v])
      BY <1>11, <2>1 DEF None
    <2> QED
      BY <1>10, <1>13, <2>1, <2>2
  <1>24. ASSUME NEW u \in vertices \ {v}, new[u] < INT_MAX
         PROVE  On(npred[u], u) /\ \A y : On(y, u) => npred[u] <= y
    <2>1. CASE new[u] = cost[u]
      <3>1. /\ pred[u] \in Via(v, u, K \ {x})
            /\ \A y \in Via(v, u, K \ {x}) : pred[u] <= y
        BY <1>4, <1>6, <1>9, <1>24, <2>1 DEF LowestOf
      <3>2. /\ On(pred[u], u) /\ \A y : y # x /\ On(y, u) => pred[u] <= y
        BY <1>22, <2>1, <3>1
      <3>3. pred[u] \in Nat /\ x \in Nat
        BY <1>11, <3>2
      <3>4. npred[u] = IF On(x, u) /\ x < pred[u] THEN x ELSE pred[u]
        BY <1>9, <1>10, <2>1
      <3>5. \A y : On(y, u) => y \in Nat
        BY <1>11
      <3> HIDE DEF On
      <3> QED
        BY <3>2, <3>3, <3>4, <3>5
    <2>2. CASE ~(new[u] = cost[u])
      <3>1. /\ u \in DOMAIN neighbors[x] /\ new[u] = cost[x] + neighbors[x][u]
            /\ new[u] < cost[u] /\ npred[u] = x
        BY <1>10, <2>2
      <3>2. ASSUME NEW y, On(y, u), y # x
            PROVE  FALSE
        <4>1. cost[u] <= cost[y] + neighbors[y][u]
          BY <1>4, <1>9, <3>2 DEF Relaxed
        <4>2. cost[u] <= new[u]
          BY <3>2, <4>1
        <4> QED
          BY <1>11, <3>1, <4>2
      <3>3. x \in Nat /\ On(x, u)
        BY <1>9, <1>11, <3>1
      <3> QED
        BY <3>1, <3>2, <3>3
    <2> QED
      BY <2>1, <2>2
  <1>25. LowestOf(v, K)'
    <2>1. ASSUME NEW u \in vertices \ {v}, new[u] < INT_MAX
          PROVE  /\ (npred[u] \in Via(v, u, K))'
                 /\ \A y : (y \in Via(v, u, K))' => npred[u] <= y
      <3> HIDE DEF On
      <3> QED
        BY <1>21, <1>24, <2>1
    <2> QED
      BY <1>5, <1>7, <1>8, <1>23, <2>1 DEF LowestOf
  <1>26. Table(v, K)'
    BY <1>12, <1>15, <1>18, <1>20, <1>25 DEF Table
  <1> QED
    BY <1>8, <1>26 DEF Table, LowestOf, Relaxed, Via

(* The vertex that is selected is the nearest of those that are not known. *)
LEMMA NearestIsNearest ==
  ASSUME NeighborsType, node \in vertices, Rows(node), Reached # {}
  PROVE  /\ Nearest \in vertices \ Destinations(node) /\ ls_cost[node][Nearest] < INT_MAX
         /\ \A y \in vertices \ Destinations(node) : ls_cost[node][Nearest] <= ls_cost[node][y]
  <1> DEFINE cost == ls_cost[node]
             Costs == {cost[u] : u \in Reached}
             R == {u \in Reached : \A y \in Reached : cost[u] <= cost[y]}
  <1>1. /\ \A u \in vertices : cost[u] \in Nat /\ cost[u] <= INT_MAX
        /\ INT_MAX \in Nat /\ Reached = {u \in vertices \ Destinations(node) : cost[u] < INT_MAX}
    BY RowTypes, CostsFit DEF Reached, Destinations
  <1>2. Costs \in SUBSET Nat /\ Costs # {}
    BY <1>1
  <1>3. Least(Costs) \in Costs /\ \A m \in Costs : Least(Costs) <= m
    <2> HIDE DEF Costs
    <2> QED
      BY <1>2, LeastIsMember
  <1>4. R # {} /\ R \in SUBSET Nat
    <2>1. PICK u \in Reached : cost[u] = Least(Costs)
      BY <1>3
    <2>2. \A y \in Reached : cost[y] \in Costs
      OBVIOUS
    <2>3. u \in R
      BY <1>3, <2>1, <2>2
    <2>4. R \in SUBSET Nat
      BY VerticesFinite DEF Reached
    <2> QED
      BY <2>3, <2>4
  <1>5. Nearest \in R
    <2>1. Nearest = Smallest(R)
      BY DEF Nearest
    <2> HIDE DEF R
    <2> QED
      BY <1>4, <2>1, SmallestIsMember
  <1> HIDE DEF cost
  <1>6. ASSUME NEW y \in vertices \ Destinations(node)
        PROVE  cost[Nearest] <= cost[y]
    <2>1. cost[Nearest] < INT_MAX /\ Nearest \in vertices
      BY <1>1, <1>5
    <2>2. cost[y] < INT_MAX => cost[Nearest] <= cost[y]
      BY <1>1, <1>5
    <2>3. cost[y] \in Nat /\ cost[Nearest] \in Nat /\ INT_MAX \in Nat
      BY <1>1, <2>1
    <2> QED
      BY <2>1, <2>2, <2>3
  <1> QED
    BY <1>1, <1>5, <1>6 DEF cost

LEMMA SelectKeeps ==
  ASSUME NeighborsType, node \in vertices, DOMAIN ls_known = vertices,
         Table(node, Destinations(node)), Select
  PROVE  AtCurrNode'
  <1>1. PICK v \in vertices : v = node
    OBVIOUS
  <1>2. PICK K \in SUBSET vertices : K = Destinations(v)
    BY DEF Destinations
  <1>3. PICK cost : cost = ls_cost[v]
    OBVIOUS
  <1>4. Rows(v) /\ NearestKnown(v) /\ OverKnown(v) /\ Relaxed(v, K) /\ LowestOf(v, K)
    BY <1>1, <1>2 DEF Table
  <1>5. PICK x : /\ x = Nearest /\ x \in vertices \ K /\ cost[x] < INT_MAX
                 /\ \A y \in vertices \ K : cost[x] <= cost[y]
    <2>1. Rows(node) /\ Reached # {}
      BY <1>1, <1>4 DEF Select
    <2> QED
      BY <1>1, <1>2, <1>3, <2>1, NearestIsNearest
  <1> DEFINE c == Cardinality(vertices)
             n == Cardinality(K)
             L == K \cup {x}
  <1>6. /\ neighbors' = neighbors /\ node' = v /\ currNode' = x /\ vertices' = vertices
        /\ ls_cost' = ls_cost /\ ls_predecessor' = ls_predecessor
        /\ ls_known'[v] = [ls_known[v] EXCEPT ![x] = TRUE]
        /\ Lengths(v)' = Lengths(v)
    BY <1>1, <1>5 DEF Select, vertices, Lengths
  <1>7. Destinations(v)' = L
    BY <1>2, <1>4, <1>5, <1>6 DEF Destinations, Rows
  <1>8. /\ n \in Nat /\ n # 0 /\ n < c /\ c \in Nat /\ Cardinality(L) = n + 1
        /\ n - 1 \in 0 .. c /\ n \in 0 .. c /\ n + 1 \in 0 .. c /\ c \in 0 .. c
    <2>1. IsFiniteSet(K) /\ n \in 0 .. c /\ (n = 0 => K = {}) /\ (n = c => K = vertices)
      BY <1>2, KnownFinite
    <2>2. v \in K /\ c \in Nat
      BY <1>2, <1>4, VerticesFinite DEF NearestKnown
    <2>3. Cardinality(L) = n + 1
      BY <1>5, <2>1, FS_AddElement
    <2> HIDE DEF n, c, L
    <2> QED
      BY <1>5, <2>1, <2>2, <2>3
  <1>9. \A u \in vertices : cost[u] \in Nat /\ cost[u] <= INT_MAX
    BY <1>3, <1>4, RowTypes
  <1>10. \A u \in vertices : \A k \in 0 .. c :
           /\ Lengths(v)[k][u] \in Nat
           /\ \A m \in k .. c : Lengths(v)[m][u] <= Lengths(v)[k][u]
    BY LengthsShrink, CostsFit
  <1>11. Rows(v)'
    BY <1>4, <1>6 DEF Rows
  <1>12. /\ v \in K /\ cost[v] = 0
         /\ \A u \in K : /\ cost[u] < INT_MAX /\ cost[u] <= Lengths(v)[c][u]
                         /\ \A y \in vertices \ K : cost[u] <= cost[y]
    BY <1>2, <1>3, <1>4 DEF NearestKnown
  <1>13. cost[x] <= Lengths(v)[c][x]
    <2>1. PICK y \in vertices \ K : cost[y] <= Lengths(v)[c][x]
      <3>1. c \in 0 .. c /\ x \in vertices \ Destinations(v) /\ Relaxed(v, Destinations(v))
        BY <1>2, <1>4, <1>5, <1>8
      <3> QED
        BY <1>2, <1>3, <1>4, <3>1, UnknownFar
    <2>2. cost[x] <= cost[y]
      BY <1>5
    <2>3. cost[x] \in Nat /\ cost[y] \in Nat /\ Lengths(v)[c][x] \in Nat
      BY <1>5, <1>8, <1>9, <1>10
    <2> QED
      BY <2>1, <2>2, <2>3
  <1>14. NearestKnown(v)'
    <2>1. \A u \in L : /\ cost[u] < INT_MAX /\ cost[u] <= Lengths(v)[c][u]
                       /\ \A y \in vertices \ L : cost[u] <= cost[y]
      BY <1>5, <1>12, <1>13
    <2> QED
      BY <1>3, <1>6, <1>7, <1>12, <2>1 DEF NearestKnown
  <1>15. \A u \in vertices : /\ u \in K => Lengths(v)[n - 1][u] <= cost[u]
                             /\ u \notin K => Lengths(v)[n][u] <= cost[u]
    BY <1>2, <1>3, <1>4 DEF OverKnown
  <1>16. ASSUME NEW u \in vertices
         PROVE  /\ u \in L => Lengths(v)[n][u] <= cost[u]
                /\ u \notin L => Lengths(v)[n + 1][u] <= cost[u]
    <2>1. /\ Lengths(v)[n - 1][u] \in Nat /\ Lengths(v)[n][u] \in Nat
          /\ Lengths(v)[n + 1][u] \in Nat /\ cost[u] \in Nat
          /\ Lengths(v)[n][u] <= Lengths(v)[n - 1][u]
          /\ Lengths(v)[n + 1][u] <= Lengths(v)[n][u]
      <3>1. n \in (n - 1) .. c /\ n + 1 \in n .. c
        BY <1>8
      <3> HIDE DEF n, c
      <3> QED
        BY <1>8, <1>9, <1>10, <3>1
    <2> HIDE DEF n
    <2> QED
      BY <1>15, <2>1
  <1>17. OverKnown(v)'
    <2>1. (n + 1) - 1 = n
      BY <1>8
    <2> HIDE DEF n, L
    <2> QED
      BY <1>3, <1>6, <1>7, <1>8, <1>16, <2>1 DEF OverKnown
  <1>18. Relaxed(v, K)' /\ LowestOf(v, K)'
    BY <1>4, <1>6 DEF Relaxed, LowestOf, Via, OnShortestPath
  <1>19. L \ {x} = K
    BY <1>5
  <1>20. (Destinations(v) \ {x})' = K
    BY <1>7, <1>19
  <1>21. Table(v, Destinations(v) \ {x})'
    BY <1>11, <1>14, <1>17, <1>18, <1>20 DEF Table, Relaxed, LowestOf, Via
  <1>22. /\ x \in Destinations(v)'
         /\ \A u \in Destinations(v)' : ls_cost'[v][u] <= ls_cost'[v][x]
    BY <1>3, <1>5, <1>6, <1>7, <1>9, <1>12
  <1> QED
    BY <1>6, <1>21, <1>22 DEF AtCurrNode

(* When djikstra ends, the table is finished. *)
LEMMA NodeDoneFinishes ==
  ASSUME NeighborsType, node \in vertices, Table(node, Destinations(node)), Reached = {}
  PROVE  Finished(node)
  <1>1. Rows(node)
    BY DEF Table
  <1>2. ASSUME NEW u \in vertices \ Destinations(node)
        PROVE  ls_cost[node][u] = INT_MAX
    <2>1. ls_cost[node][u] \in Nat /\ ls_cost[node][u] <= INT_MAX /\ INT_MAX \in Nat
      BY <1>1, RowTypes, CostsFit
    <2>2. ~(ls_cost[node][u] < INT_MAX)
      BY DEF Reached, Destinations
    <2> QED
      BY <2>1, <2>2
  <1> QED
    BY <1>2 DEF Finished

------------------------------------------------------------------------------
(* The way back over the predecessors *)

(* In a finished table the predecessor of a known vertex is known, and its edge
   makes the cost; no lower number would do. *)
LEMMA PredecessorKnown ==
  ASSUME NeighborsType, NEW v \in vertices, Finished(v), NEW d \in Destinations(v), d # v
  PROVE  LET p == ls_predecessor[v][d]
         IN  /\ p \in Destinations(v) /\ d \in DOMAIN neighbors[p]
             /\ ls_cost[v][p] + neighbors[p][d] = ls_cost[v][d]
             /\ \A u \in Destinations(v) :
                  d \in DOMAIN neighbors[u] /\ ls_cost[v][u] + neighbors[u][d] = ls_cost[v][d]
                    => p <= u
  <1> DEFINE p == ls_predecessor[v][d]
             K == Destinations(v)
  <1>1. LowestOf(v, K) /\ d \in vertices \ {v} /\ \A u \in K : ls_cost[v][u] < INT_MAX
    BY DEF Finished, Table, NearestKnown, Destinations
  <1>2. p \in Via(v, d, K) /\ \A u \in Via(v, d, K) : p <= u
    BY <1>1 DEF LowestOf
  <1> HIDE DEF p, K
  <1>3. /\ p \in K /\ d \in DOMAIN neighbors[p]
        /\ ls_cost[v][p] + neighbors[p][d] = ls_cost[v][d]
        /\ \A u \in K : d \in DOMAIN neighbors[u] /\ ls_cost[v][u] + neighbors[u][d] = ls_cost[v][d]
                          => p <= u
    BY <1>1, <1>2 DEF Via, OnShortestPath
  <1> QED
    BY <1>3 DEF p, K

(* Where the loop over the predecessors is after every turn. *)
LEMMA WayBackIs ==
  ASSUME IsFiniteSet(vertices), NEW v, NEW d
  PROVE  /\ DOMAIN WayBack(v, d) = 0 .. Cardinality(vertices)
         /\ WayBack(v, d)[0] = d
         /\ \A i \in 1 .. Cardinality(vertices) :
              WayBack(v, d)[i] = IF WayBack(v, d)[i - 1] \in {v, None} THEN WayBack(v, d)[i - 1]
                                 ELSE ls_predecessor[v][WayBack(v, d)[i - 1]]
  <1> DEFINE Turn(u) == IF u \in {v, None} THEN u ELSE ls_predecessor[v][u]
             Is(g, n) == g = [i \in 0 .. n |-> IF i = 0 THEN d ELSE
                                IF g[i - 1] \in {v, None} THEN g[i - 1]
                                ELSE ls_predecessor[v][g[i - 1]]]
             W == {n \in Nat : \E g : Is(g, n)}
             c == Cardinality(vertices)
  <1>1. WayBack(v, d) = CHOOSE g : Is(g, c)
    BY DEF WayBack
  <1>2. c \in Nat
    BY FS_CardinalityType
  <1>3. ASSUME NEW g, NEW n \in Nat
        PROVE  Is(g, n) <=> g = [i \in 0 .. n |-> IF i = 0 THEN d ELSE Turn(g[i - 1])]
    OBVIOUS
  <1> HIDE DEF Turn, Is, c
  <1>4. 0 \in W
    <2> DEFINE g == [k \in 0 .. 0 |-> d]
    <2>1. g = [i \in 0 .. 0 |-> IF i = 0 THEN d ELSE Turn(g[i - 1])]
      OBVIOUS
    <2> HIDE DEF g
    <2> QED
      BY <1>3, <2>1
  <1>5. ASSUME NEW n \in Nat, n \in W
        PROVE  n + 1 \in W
    <2>1. PICK g : g = [i \in 0 .. n |-> IF i = 0 THEN d ELSE Turn(g[i - 1])]
      BY <1>3, <1>5
    <2> DEFINE h == [k \in 0 .. n + 1 |-> IF k <= n THEN g[k] ELSE Turn(g[n])]
    <2>2. ASSUME NEW k \in 0 .. n + 1
          PROVE  h[k] = IF k = 0 THEN d ELSE Turn(h[k - 1])
      <3>1. CASE k = 0
        BY <2>1, <3>1
      <3>2. CASE k # 0 /\ k <= n
        <4>1. k \in 0 .. n /\ k - 1 \in 0 .. n + 1 /\ k - 1 <= n
          BY <3>2
        <4>2. h[k] = g[k] /\ h[k - 1] = g[k - 1]
          BY <4>1
        <4>3. g[k] = Turn(g[k - 1])
          BY <2>1, <3>2, <4>1
        <4> HIDE DEF h
        <4> QED
          BY <3>2, <4>2, <4>3
      <3>3. CASE k = n + 1
        <4>1. h[n + 1] = Turn(g[n]) /\ h[n] = g[n]
          OBVIOUS
        <4> HIDE DEF h
        <4> QED
          BY <3>3, <4>1
      <3> QED
        BY <3>1, <3>2, <3>3
    <2>3. h = [i \in 0 .. n + 1 |-> IF i = 0 THEN d ELSE Turn(h[i - 1])]
      BY <2>2
    <2> HIDE DEF h
    <2> QED
      BY <1>3, <2>3, SMTT(30)
  <1>6. Nat \subseteq W
    <2> HIDE DEF W
    <2> QED
      BY <1>4, <1>5, AllNumbers
  <1>7. Is(WayBack(v, d), c)
    BY <1>1, <1>2, <1>6
  <1> DEFINE g == WayBack(v, d)
  <1> HIDE DEF g
  <1>8. g = [i \in 0 .. c |-> IF i = 0 THEN d ELSE Turn(g[i - 1])]
    BY <1>2, <1>3, <1>7 DEF g
  <1>9. /\ DOMAIN g = 0 .. c /\ g[0] = d
        /\ \A i \in 1 .. c : g[i] = Turn(g[i - 1])
    <2>1. \A i \in 1 .. c : i \in 0 .. c /\ i # 0
      BY <1>2
    <2> QED
      BY <1>2, <1>8, <2>1
  <1> QED
    BY <1>9 DEF g, c, Turn

(* The vertices on the way back from a known vertex are known. *)
LEMMA WayBackKnown ==
  ASSUME NeighborsType, NEW v \in vertices, Finished(v), NEW d \in Destinations(v)
  PROVE  /\ \A i \in 0 .. Cardinality(vertices) : WayBack(v, d)[i] \in Destinations(v)
         /\ \A i \in 1 .. Cardinality(vertices) :
              WayBack(v, d)[i] = IF WayBack(v, d)[i - 1] = v THEN v
                                 ELSE ls_predecessor[v][WayBack(v, d)[i - 1]]
  <1> DEFINE at == WayBack(v, d)
             c == Cardinality(vertices)
             K == Destinations(v)
             W == {n \in Nat : n <= c => at[n] \in K}
  <1>1. IsFiniteSet(vertices) /\ c \in Nat /\ None \notin K /\ v \in K
    BY VerticesFinite DEF Destinations, None, Finished, Table, NearestKnown
  <1>2. /\ at[0] = d
        /\ \A i \in 1 .. c : at[i] = IF at[i - 1] \in {v, None} THEN at[i - 1]
                                     ELSE ls_predecessor[v][at[i - 1]]
    BY <1>1, WayBackIs
  <1>3. \A u \in K : u # v => ls_predecessor[v][u] \in K
    BY PredecessorKnown
  <1> HIDE DEF at, c, K
  <1>4. 0 \in W
    BY <1>2 DEF K
  <1>5. ASSUME NEW n \in Nat, n \in W
        PROVE  n + 1 \in W
    <2> SUFFICES ASSUME n + 1 <= c
                 PROVE  at[n + 1] \in K
      OBVIOUS
    <2>1. n + 1 \in 1 .. c /\ (n + 1) - 1 = n /\ n <= c
      BY <1>1
    <2>2. at[n] \in K
      BY <1>5, <2>1
    <2>3. at[n + 1] = IF at[n] \in {v, None} THEN at[n] ELSE ls_predecessor[v][at[n]]
      BY <1>2, <2>1
    <2> QED
      BY <1>1, <1>3, <2>2, <2>3
  <1>6. Nat \subseteq W
    <2> HIDE DEF W
    <2> QED
      BY <1>4, <1>5, AllNumbers
  <1>7. \A i \in 0 .. c : at[i] \in K
    <2>1. \A i \in 0 .. c : i \in Nat /\ i <= c
      BY <1>1
    <2> QED
      BY <1>6, <2>1
  <1>8. ASSUME NEW i \in 1 .. c
        PROVE  at[i] = IF at[i - 1] = v THEN v ELSE ls_predecessor[v][at[i - 1]]
    <2>1. i - 1 \in 0 .. c
      BY <1>1
    <2>2. at[i - 1] # None
      BY <1>1, <1>7, <2>1
    <2> QED
      BY <1>2, <2>2
  <1> QED
    BY <1>7, <1>8 DEF at, c, K

(* The steps back are those to the first time that the way comes to the start. *)
LEMMA StepsBackIs ==
  ASSUME NeighborsType, NEW v, NEW d, LoopEnds(v, d)
  PROVE  /\ StepsBack(v, d) \in 0 .. Cardinality(vertices)
         /\ WayBack(v, d)[StepsBack(v, d)] = v
         /\ \A i \in 0 .. StepsBack(v, d) - 1 : WayBack(v, d)[i] # v
  <1> DEFINE at == WayBack(v, d)
             T == {i \in DOMAIN at : at[i] = v}
             n == StepsBack(v, d)
             c == Cardinality(vertices)
  <1>1. c \in Nat /\ DOMAIN at = 0 .. c
    BY VerticesFinite, WayBackIs
  <1>2. T \in SUBSET Nat /\ T # {}
    BY <1>1 DEF LoopEnds
  <1>3. n = Smallest(T)
    BY DEF StepsBack
  <1>4. n \in T /\ \A m \in T : n <= m
    <2> HIDE DEF T, n
    <2> QED
      BY <1>2, <1>3, SmallestIsMember
  <1> HIDE DEF n, at, c
  <1>5. n \in 0 .. c /\ at[n] = v
    BY <1>1, <1>4
  <1>6. ASSUME NEW i \in 0 .. n - 1
        PROVE  at[i] # v
    <2>1. i \in 0 .. c /\ ~(n <= i)
      BY <1>1, <1>5
    <2> QED
      BY <1>1, <1>4, <2>1
  <1> QED
    BY <1>5, <1>6 DEF n, at, c

LEMMA StepsAre ==
  ASSUME NeighborsType, NEW v, NEW d, NEW n \in 0 .. Cardinality(vertices),
         WayBack(v, d)[n] = v, \A i \in 0 .. n - 1 : WayBack(v, d)[i] # v
  PROVE  LoopEnds(v, d) /\ StepsBack(v, d) = n
  <1> DEFINE at == WayBack(v, d)
             m == StepsBack(v, d)
             c == Cardinality(vertices)
  <1>1. c \in Nat /\ DOMAIN at = 0 .. c
    BY VerticesFinite, WayBackIs
  <1>2. LoopEnds(v, d)
    BY <1>1 DEF LoopEnds
  <1>3. m \in 0 .. c /\ at[m] = v /\ \A i \in 0 .. m - 1 : at[i] # v
    BY <1>2, StepsBackIs
  <1> HIDE DEF at, m, c
  <1>4. ~(n < m) /\ ~(m < n)
    <2>1. n < m => n \in 0 .. m - 1
      BY <1>1, <1>3 DEF c
    <2>2. m < n => m \in 0 .. n - 1
      BY <1>1, <1>3 DEF c
    <2> QED
      BY <1>3, <2>1, <2>2 DEF at
  <1>5. m = n
    BY <1>1, <1>3, <1>4 DEF c
  <1> QED
    BY <1>2, <1>5 DEF m

(* The way back is a shortest path, edge by edge. *)
LEMMA WayBackEdges ==
  ASSUME NeighborsType, NEW v \in vertices, Finished(v), NEW d \in Destinations(v),
         LoopEnds(v, d)
  PROVE  LET at == WayBack(v, d)
             n == StepsBack(v, d)
         IN  /\ n \in 0 .. Cardinality(vertices) /\ at[0] = d /\ at[n] = v
             /\ \A i \in 0 .. n : at[i] \in Destinations(v)
             /\ \A i \in 0 .. n - 1 :
                  /\ at[i] # v /\ at[i + 1] = ls_predecessor[v][at[i]]
                  /\ at[i] \in DOMAIN neighbors[at[i + 1]]
                  /\ ls_cost[v][at[i + 1]] + neighbors[at[i + 1]][at[i]] = ls_cost[v][at[i]]
  <1> DEFINE at == WayBack(v, d)
             n == StepsBack(v, d)
             c == Cardinality(vertices)
             K == Destinations(v)
  <1>1. c \in Nat /\ at[0] = d
    BY VerticesFinite, WayBackIs
  <1>2. n \in 0 .. c /\ at[n] = v /\ \A i \in 0 .. n - 1 : at[i] # v
    BY StepsBackIs
  <1>3. /\ \A i \in 0 .. c : at[i] \in K
        /\ \A i \in 1 .. c : at[i] = IF at[i - 1] = v THEN v ELSE ls_predecessor[v][at[i - 1]]
    BY WayBackKnown
  <1>4. \A u \in K \ {v} :
          /\ u \in DOMAIN neighbors[ls_predecessor[v][u]]
          /\ ls_cost[v][ls_predecessor[v][u]] + neighbors[ls_predecessor[v][u]][u] = ls_cost[v][u]
    BY PredecessorKnown
  <1> HIDE DEF at, n, c, K
  <1>5. ASSUME NEW i \in 0 .. n - 1
        PROVE  /\ at[i] # v /\ at[i + 1] = ls_predecessor[v][at[i]]
               /\ at[i] \in DOMAIN neighbors[at[i + 1]]
               /\ ls_cost[v][at[i + 1]] + neighbors[at[i + 1]][at[i]] = ls_cost[v][at[i]]
    <2>1. i \in 0 .. c /\ i + 1 \in 1 .. c /\ (i + 1) - 1 = i
      BY <1>1, <1>2
    <2>2. at[i] # v /\ at[i] \in K
      BY <1>2, <1>3, <2>1
    <2>3. at[i + 1] = ls_predecessor[v][at[i]]
      BY <1>3, <2>1, <2>2
    <2> QED
      BY <1>4, <2>2, <2>3
  <1>6. \A i \in 0 .. n : at[i] \in K
    BY <1>1, <1>2, <1>3
  <1> QED
    BY <1>1, <1>2, <1>5, <1>6 DEF at, n, c, K

(* The vertices that the hops name, with the destination. *)
PathOf(v, d) == Append(Hops(v, d), d)

(* The hops are the way back, the other way round. *)
LEMMA PathIs ==
  ASSUME NeighborsType, NEW v \in vertices, Finished(v), NEW d \in Destinations(v),
         LoopEnds(v, d)
  PROVE  /\ Hops(v, d) \in Seq(vertices) /\ Len(Hops(v, d)) = StepsBack(v, d)
         /\ \A i \in 1 .. StepsBack(v, d) :
              Hops(v, d)[i] = WayBack(v, d)[StepsBack(v, d) - i + 1]
         /\ Len(PathOf(v, d)) = StepsBack(v, d) + 1
         /\ \A i \in 1 .. StepsBack(v, d) + 1 :
              PathOf(v, d)[i] = WayBack(v, d)[StepsBack(v, d) - i + 1]
  <1> DEFINE at == WayBack(v, d)
             n == StepsBack(v, d)
             hops == Hops(v, d)
             path == PathOf(v, d)
  <1>1. /\ n \in Nat /\ at[0] = d /\ \A i \in 0 .. n : at[i] \in Destinations(v)
    BY WayBackEdges, VerticesFinite
  <1>2. hops = [i \in 1 .. n |-> at[n - i + 1]]
    BY DEF Hops
  <1>3. path = Append(hops, d) /\ d \in vertices /\ Destinations(v) \subseteq vertices
    BY DEF PathOf, Destinations
  <1> HIDE DEF at, n, hops, path
  <1>4. hops \in Seq(vertices) /\ Len(hops) = n
    <2>1. \A i \in 1 .. n : n - i + 1 \in 0 .. n
      BY <1>1
    <2>2. hops \in [1 .. n -> vertices]
      BY <1>1, <1>2, <1>3, <2>1
    <2> QED
      BY <1>1, <2>2
  <1>5. Len(path) = n + 1 /\ path[n + 1] = d /\ \A i \in 1 .. n : path[i] = hops[i]
    BY <1>1, <1>3, <1>4
  <1>6. ASSUME NEW i \in 1 .. n + 1
        PROVE  path[i] = at[n - i + 1]
    <2>1. CASE i = n + 1
      <3>1. n - i + 1 = 0
        BY <1>1, <2>1
      <3> QED
        BY <1>1, <1>5, <2>1, <3>1
    <2>2. CASE i # n + 1
      BY <1>1, <1>2, <1>5, <2>2
    <2> QED
      BY <2>1, <2>2
  <1> QED
    BY <1>2, <1>4, <1>5, <1>6 DEF at, n, hops, path

(* The hops lead to the destination along edges whose weights make the cost. *)
LEMMA HopsCost ==
  ASSUME NeighborsType, NEW v \in vertices, Finished(v), NEW d \in Destinations(v),
         LoopEnds(v, d)
  PROVE  /\ PathOf(v, d)[1] = v
         /\ \A i \in 2 .. Len(PathOf(v, d)) :
              PathOf(v, d)[i] \in DOMAIN neighbors[PathOf(v, d)[i - 1]]
         /\ CostUpTo(neighbors, PathOf(v, d))[Len(PathOf(v, d))] = ls_cost[v][d]
  <1> DEFINE at == WayBack(v, d)
             n == StepsBack(v, d)
             path == PathOf(v, d)
             cost == ls_cost[v]
  <1>1. /\ n \in Nat /\ at[0] = d /\ at[n] = v
        /\ \A i \in 0 .. n : at[i] \in Destinations(v)
        /\ \A i \in 0 .. n - 1 :
             /\ at[i] \in DOMAIN neighbors[at[i + 1]]
             /\ cost[at[i + 1]] + neighbors[at[i + 1]][at[i]] = cost[at[i]]
    BY WayBackEdges, VerticesFinite
  <1>2. Len(path) = n + 1 /\ \A i \in 1 .. n + 1 : path[i] = at[n - i + 1]
    BY PathIs
  <1>3. Rows(v) /\ cost[v] = 0 /\ Destinations(v) \subseteq vertices
    BY DEF Finished, Table, NearestKnown, Destinations
  <1>4. \A u \in vertices : cost[u] \in Nat
    BY <1>3, RowTypes
  <1> HIDE DEF at, n, path, cost
  <1>5. ASSUME NEW i \in 2 .. n + 1
        PROVE  /\ path[i] \in DOMAIN neighbors[path[i - 1]]
               /\ cost[path[i]] = cost[path[i - 1]] + neighbors[path[i - 1]][path[i]]
    <2> DEFINE k == n - i + 1
    <2>1. /\ i \in 1 .. n + 1 /\ i - 1 \in 1 .. n + 1 /\ k \in 0 .. n - 1
          /\ n - (i - 1) + 1 = k + 1
      BY <1>1
    <2>2. path[i] = at[k] /\ path[i - 1] = at[k + 1]
      BY <1>2, <2>1
    <2> HIDE DEF k
    <2> QED
      BY <1>1, <2>1, <2>2
  <1>6. path[1] = v /\ path[n + 1] = d
    <2>1. n - 1 + 1 = n /\ n - (n + 1) + 1 = 0 /\ 1 \in 1 .. n + 1 /\ n + 1 \in 1 .. n + 1
      BY <1>1
    <2> QED
      BY <1>1, <1>2, <2>1
  <1> DEFINE g == [i \in 1 .. n + 1 |-> cost[path[i]]]
  <1>7. g \in [1 .. n + 1 -> Int] /\ \A i \in 1 .. n + 1 : g[i] = cost[path[i]]
    <2>1. \A i \in 1 .. n + 1 : n - i + 1 \in 0 .. n
      BY <1>1
    <2>2. \A i \in 1 .. n + 1 : path[i] \in vertices
      BY <1>1, <1>2, <1>3, <2>1
    <2> QED
      BY <1>4, <2>2
  <1> HIDE DEF g
  <1>8. ASSUME NEW i \in 1 .. n + 1
        PROVE  g[i] = IF i = 1 THEN 0 ELSE g[i - 1] + neighbors[path[i - 1]][path[i]]
    <2>1. CASE i = 1
      BY <1>3, <1>6, <1>7, <2>1
    <2>2. CASE i # 1
      <3>1. i \in 2 .. n + 1 /\ i - 1 \in 1 .. n + 1
        BY <1>1, <2>2
      <3> QED
        BY <1>5, <1>7, <2>2, <3>1
    <2> QED
      BY <2>1, <2>2
  <1>9. CostUpTo(neighbors, path) = g
    <2> DEFINE w == neighbors
    <2>1. Len(path) \in Nat \ {0} /\ g \in [1 .. Len(path) -> Int]
      BY <1>1, <1>2, <1>7
    <2>2. \A i \in 1 .. Len(path) :
            g[i] = IF i = 1 THEN 0 ELSE g[i - 1] + w[path[i - 1]][path[i]]
      BY <1>2, <1>8
    <2> HIDE DEF w
    <2>3. CostUpTo(w, path) = g
      BY <2>1, <2>2, CostUpToIs
    <2> QED
      BY <2>3 DEF w
  <1>10. g[n + 1] = cost[d]
    <2>1. n + 1 \in 1 .. n + 1
      BY <1>1
    <2> QED
      BY <1>6, <1>7, <2>1
  <1>11. CostUpTo(neighbors, path)[Len(path)] = cost[d]
    BY <1>2, <1>9, <1>10
  <1>12. \A i \in 2 .. Len(path) : path[i] \in DOMAIN neighbors[path[i - 1]]
    BY <1>2, <1>5
  <1> QED
    BY <1>6, <1>11, <1>12 DEF path, cost

------------------------------------------------------------------------------
(* Every step keeps the invariant *)

LEMMA IInvInit == Init => IInv
  <1> SUFFICES ASSUME Init PROVE IInv
    OBVIOUS
  <1>1. /\ neighbors = << >> /\ ls_cost = << >> /\ table = << >>
        /\ DOMAIN << >> = {} /\ message = NoMessage /\ message.hops = << >>
    BY DEF Init, NoMessage, Message
  <1>2. NeighborsType
    BY <1>1 DEF NeighborsType, EdgesBothWays, vertices
  <1>3. TypeOK
    BY <1>1, <1>2 DEF Init, TypeOK
  <1> QED
    BY <1>1, <1>3 DEF Init, IInv

(* Outside of the computation nothing is promised about the tables. *)
LEMMA OutsideInOrder ==
  ASSUME IInv, NeighborsType', vertices \subseteq vertices',
         UNCHANGED <<todo, node, currNode, lsVars>>, table' \in {table, << >>},
         message' = NoMessage, pc' \in {"topology", "linkState", "end"}
  PROVE  IInv'
  <1>1. TypeOK
    BY DEF IInv
  <1>2. todo' \subseteq vertices' /\ node' \in vertices' \cup {None}
        /\ currNode' \in vertices' \cup {None} /\ DOMAIN table' \subseteq vertices'
    BY <1>1 DEF TypeOK
  <1>3. \A v \in DOMAIN ls_cost' :
          /\ ls_known'[v] \in [DOMAIN ls_cost'[v] -> BOOLEAN]
          /\ ls_cost'[v] \in [DOMAIN ls_cost'[v] -> 0 .. INT_MAX]
          /\ ls_predecessor'[v] \in [DOMAIN ls_cost'[v] -> Numbers \cup {None}]
    BY <1>1 DEF TypeOK, lsVars
  <1>4. message'.hops = << >>
    BY DEF NoMessage, Message
  <1>5. TypeOK'
    BY <1>2, <1>3, <1>4 DEF TypeOK
  <1> QED
    BY <1>5 DEF IInv

LEMMA ClearTablesPreserves ==
  ASSUME IInv, ClearTables
  PROVE  IInv'
  <1>1. TypeOK /\ message = NoMessage
    BY DEF IInv, ClearTables
  <1>2. /\ neighbors' = neighbors /\ vertices' = vertices /\ todo' = vertices /\ pc' = "node"
        /\ node' = node /\ currNode' = currNode /\ table' = table /\ message' = message
        /\ ls_known' = [v \in vertices |-> << >>] /\ ls_cost' = [v \in vertices |-> << >>]
        /\ ls_predecessor' = [v \in vertices |-> << >>]
    BY DEF ClearTables, vertices
  <1>3. NeighborsType'
    BY <1>1, <1>2 DEF TypeOK, NeighborsType, EdgesBothWays
  <1>4. TypeOK'
    BY <1>1, <1>2, <1>3 DEF TypeOK
  <1>5. Finishers' = {}
    BY <1>2 DEF Finishers
  <1>6. Dijkstra'
    BY <1>2, <1>5 DEF Dijkstra
  <1> QED
    BY <1>1, <1>2, <1>4, <1>6 DEF IInv

(* A step of djikstra changes one table, and the others stay finished. *)
LEMMA OneTableChanges ==
  ASSUME IInv, Dijkstra, UNCHANGED <<neighbors, table, message>>, pc # "messages",
         pc' \in {"relax", "select"},
         NEW x \in vertices, node' = x, Rows(x)', x \notin Finishers,
         DOMAIN ls_known' = vertices, DOMAIN ls_cost' = vertices,
         DOMAIN ls_predecessor' = vertices,
         \A v \in vertices \ {x} : /\ ls_known'[v] = ls_known[v] /\ ls_cost'[v] = ls_cost[v]
                                   /\ ls_predecessor'[v] = ls_predecessor[v],
         todo' \subseteq todo \ {x}, Finishers' \subseteq Finishers,
         pc' = "relax" => AtCurrNode',
         pc' = "select" => Table(node, Destinations(node))' /\ currNode' = currNode
  PROVE  IInv'
  <1>1. TypeOK /\ message' = NoMessage /\ vertices' = vertices /\ NeighborsType
    BY DEF IInv, vertices, TypeOK
  <1>2. NeighborsType'
    BY <1>1 DEF NeighborsType, EdgesBothWays
  <1>3. ASSUME NEW v \in DOMAIN ls_cost'
        PROVE  /\ ls_known'[v] \in [DOMAIN ls_cost'[v] -> BOOLEAN]
               /\ ls_cost'[v] \in [DOMAIN ls_cost'[v] -> 0 .. INT_MAX]
               /\ ls_predecessor'[v] \in [DOMAIN ls_cost'[v] -> Numbers \cup {None}]
    <2>1. CASE v = x
      <3>1. vertices \subseteq Numbers
        BY <1>1 DEF NeighborsType
      <3>2. /\ ls_known'[v] \in [vertices -> BOOLEAN]
            /\ ls_cost'[v] \in [vertices -> 0 .. INT_MAX]
            /\ ls_predecessor'[v] \in [vertices -> vertices \cup {None}]
        BY <1>1, <2>1 DEF Rows
      <3>3. /\ DOMAIN ls_cost'[v] = vertices
            /\ ls_predecessor'[v] \in [vertices -> Numbers \cup {None}]
        BY <3>1, <3>2
      <3> QED
        BY <3>2, <3>3
    <2>2. CASE v # x
      <3>1. v \in vertices \ {x} /\ v \in DOMAIN ls_cost
        BY <2>2 DEF Dijkstra
      <3>2. /\ ls_known'[v] = ls_known[v] /\ ls_cost'[v] = ls_cost[v]
            /\ ls_predecessor'[v] = ls_predecessor[v]
        BY <3>1
      <3> QED
        BY <1>1, <3>1, <3>2 DEF TypeOK
    <2> QED
      BY <2>1, <2>2
  <1>4. currNode' \in vertices \cup {None}
    <2>1. CASE pc' = "relax"
      BY <1>1, <2>1 DEF AtCurrNode, Destinations
    <2>2. CASE pc' = "select"
      BY <1>1, <2>2 DEF TypeOK
    <2> QED
      BY <2>1, <2>2
  <1>5. TypeOK'
    BY <1>1, <1>2, <1>3, <1>4 DEF TypeOK
  <1>6. ASSUME NEW v \in Finishers'
        PROVE  Finished(v)'
    <2>1. v \in vertices \ {x} /\ Finished(v)
      BY DEF Finishers, Dijkstra
    <2> QED
      BY <2>1, FinishedKept
  <1>7. Dijkstra'
    BY <1>1, <1>6 DEF Dijkstra
  <1> QED
    BY <1>1, <1>5, <1>7 DEF IInv

LEMMA InitNodePreserves ==
  ASSUME IInv, InitNode
  PROVE  IInv'
  <1>1. /\ Dijkstra /\ NeighborsType /\ todo \subseteq vertices /\ pc = "node"
        /\ pc' = "relax" /\ neighbors' = neighbors /\ vertices' = vertices
    BY DEF IInv, TypeOK, InitNode, vertices
  <1>2. /\ DOMAIN ls_known = vertices /\ DOMAIN ls_cost = vertices
        /\ DOMAIN ls_predecessor = vertices
    BY <1>1 DEF Dijkstra
  <1>3. AtCurrNode' /\ node' \in todo
    BY <1>1, <1>2, InitNodeStarts
  <1>4. PICK x \in todo : x = node'
    BY <1>3
  <1>5. x = Smallest(todo)
    BY <1>4 DEF InitNode
  <1>6. /\ DOMAIN ls_known' = vertices /\ DOMAIN ls_cost' = vertices
        /\ DOMAIN ls_predecessor' = vertices
        /\ \A v \in vertices \ {x} : /\ ls_known'[v] = ls_known[v] /\ ls_cost'[v] = ls_cost[v]
                                     /\ ls_predecessor'[v] = ls_predecessor[v]
        /\ todo' = todo \ {x} /\ UNCHANGED <<neighbors, table, message>>
    BY <1>2, <1>5 DEF InitNode
  <1>7. Rows(x)'
    BY <1>3, <1>4 DEF AtCurrNode, Table, Rows
  <1>8. x \notin Finishers /\ Finishers' \subseteq Finishers
    BY <1>1, <1>4, <1>6 DEF Finishers
  <1> QED
    BY <1>1, <1>3, <1>4, <1>6, <1>7, <1>8, OneTableChanges

LEMMA RelaxPreserves ==
  ASSUME IInv, Relax
  PROVE  IInv'
  <1>1. /\ Dijkstra /\ NeighborsType /\ pc = "relax" /\ pc' = "select"
        /\ UNCHANGED <<neighbors, todo, node, currNode, ls_known, table, message>>
        /\ vertices' = vertices
    BY DEF IInv, TypeOK, Relax, vertices
  <1>2. /\ DOMAIN ls_known = vertices /\ DOMAIN ls_cost = vertices
        /\ DOMAIN ls_predecessor = vertices /\ node \in vertices \ todo /\ AtCurrNode
    BY <1>1 DEF Dijkstra
  <1>3. Table(node, Destinations(node))'
    BY <1>1, <1>2, RelaxFollows
  <1>4. PICK x \in vertices : x = node
    BY <1>2
  <1>5. /\ DOMAIN ls_cost' = vertices /\ DOMAIN ls_predecessor' = vertices
        /\ \A v \in vertices \ {x} : /\ ls_cost'[v] = ls_cost[v]
                                     /\ ls_predecessor'[v] = ls_predecessor[v]
    BY <1>2, <1>4 DEF Relax
  <1>6. Rows(x)'
    BY <1>1, <1>3, <1>4 DEF Table, Rows
  <1>7. x \notin Finishers /\ Finishers' \subseteq Finishers
    BY <1>1, <1>4 DEF Finishers
  <1> QED
    BY <1>1, <1>2, <1>3, <1>4, <1>5, <1>6, <1>7, OneTableChanges

LEMMA SelectPreserves ==
  ASSUME IInv, Select
  PROVE  IInv'
  <1>1. /\ Dijkstra /\ NeighborsType /\ pc = "select" /\ pc' = "relax"
        /\ UNCHANGED <<neighbors, todo, node, ls_cost, ls_predecessor, table, message>>
        /\ vertices' = vertices
    BY DEF IInv, TypeOK, Select, vertices
  <1>2. /\ DOMAIN ls_known = vertices /\ DOMAIN ls_cost = vertices
        /\ DOMAIN ls_predecessor = vertices /\ node \in vertices \ todo
        /\ Table(node, Destinations(node))
    BY <1>1 DEF Dijkstra
  <1>3. AtCurrNode'
    BY <1>1, <1>2, SelectKeeps
  <1>4. PICK x \in vertices : x = node
    BY <1>2
  <1>5. /\ DOMAIN ls_known' = vertices
        /\ \A v \in vertices \ {x} : ls_known'[v] = ls_known[v]
    BY <1>2, <1>4 DEF Select
  <1>6. Rows(x)'
    BY <1>1, <1>3, <1>4 DEF AtCurrNode, Table, Rows
  <1>7. x \notin Finishers /\ Finishers' \subseteq Finishers
    BY <1>1, <1>4 DEF Finishers
  <1> QED
    BY <1>1, <1>2, <1>3, <1>4, <1>5, <1>6, <1>7, OneTableChanges

(* Where the tables stay, the finished ones stay finished. *)
LEMMA TablesStay ==
  ASSUME Dijkstra, UNCHANGED <<neighbors, lsVars>>
  PROVE  \A v \in Finishers : Finished(v)'
  <1> SUFFICES ASSUME NEW v \in Finishers PROVE Finished(v)'
    OBVIOUS
  <1>1. Finished(v)
    BY DEF Dijkstra
  <1>2. /\ ls_known'[v] = ls_known[v] /\ ls_cost'[v] = ls_cost[v]
        /\ ls_predecessor'[v] = ls_predecessor[v]
    BY DEF lsVars
  <1> QED
    BY <1>1, <1>2, FinishedKept

(* The types stay, where topology and tables do. *)
LEMMA TypesStay ==
  ASSUME TypeOK, UNCHANGED <<neighbors, lsVars>>, todo' \subseteq todo,
         node' \in {node, None}, currNode' \in {currNode, None},
         pc' \in {"node", "table", "messages"} \cup {pc},
         DOMAIN table' \subseteq vertices, message'.hops \in Seq(Numbers)
  PROVE  TypeOK'
  <1>1. vertices' = vertices /\ NeighborsType'
    BY DEF vertices, TypeOK, NeighborsType, EdgesBothWays
  <1>2. \A v \in DOMAIN ls_cost' :
          /\ ls_known'[v] \in [DOMAIN ls_cost'[v] -> BOOLEAN]
          /\ ls_cost'[v] \in [DOMAIN ls_cost'[v] -> 0 .. INT_MAX]
          /\ ls_predecessor'[v] \in [DOMAIN ls_cost'[v] -> Numbers \cup {None}]
    BY DEF TypeOK, lsVars
  <1> QED
    BY <1>1, <1>2 DEF TypeOK

LEMMA NodeDonePreserves ==
  ASSUME IInv, NodeDone
  PROVE  IInv'
  <1>1. /\ TypeOK /\ Dijkstra /\ message = NoMessage /\ pc = "select" /\ pc' = "node"
        /\ Reached = {}
        /\ UNCHANGED <<neighbors, todo, node, currNode, lsVars, table, message>>
    BY DEF IInv, NodeDone
  <1>2. TypeOK'
    BY <1>1, TypesStay DEF TypeOK
  <1>3. node \in vertices \ todo /\ Table(node, Destinations(node)) /\ NeighborsType
    BY <1>1 DEF Dijkstra, TypeOK
  <1>4. Finished(node)
    BY <1>1, <1>3, NodeDoneFinishes
  <1>5. PICK x \in vertices : x = node
    BY <1>3
  <1>6. Finished(x)'
    <2>1. Finished(x)
      BY <1>4, <1>5
    <2>2. /\ ls_known'[x] = ls_known[x] /\ ls_cost'[x] = ls_cost[x]
          /\ ls_predecessor'[x] = ls_predecessor[x]
      BY <1>1 DEF lsVars
    <2> QED
      BY <1>1, <2>1, <2>2, FinishedKept
  <1>7. \A v \in Finishers' : v = x \/ v \in Finishers
    BY <1>1, <1>5 DEF Finishers, vertices
  <1>8. \A v \in Finishers' : Finished(v)'
    BY <1>1, <1>6, <1>7, TablesStay
  <1>9. Dijkstra'
    BY <1>1, <1>8 DEF Dijkstra, vertices, lsVars
  <1> QED
    BY <1>1, <1>2, <1>9 DEF IInv

(* All tables are finished, and stay so. *)
LEMMA AllFinishedStay ==
  ASSUME Dijkstra, UNCHANGED <<neighbors, lsVars, todo>>, pc \in {"node", "table", "messages"},
         pc' \in {"table", "messages"}, todo = {}
  PROVE  Dijkstra' /\ \A v \in vertices : Finished(v) /\ Finished(v)'
  <1>1. vertices' = vertices /\ Finishers = vertices /\ Finishers' = vertices
    BY DEF Finishers, vertices
  <1>2. \A v \in vertices : Finished(v) /\ Finished(v)'
    BY <1>1, TablesStay DEF Dijkstra
  <1>3. Dijkstra'
    BY <1>1, <1>2 DEF Dijkstra, lsVars
  <1> QED
    BY <1>2, <1>3

LEMMA AllNodesDonePreserves ==
  ASSUME IInv, AllNodesDone
  PROVE  IInv'
  <1>1. /\ TypeOK /\ Dijkstra /\ message = NoMessage /\ pc = "node" /\ pc' = "table"
        /\ todo = {} /\ node' = None /\ currNode' = None
        /\ UNCHANGED <<neighbors, todo, lsVars, table, message>>
    BY DEF IInv, AllNodesDone
  <1>2. TypeOK'
    BY <1>1, TypesStay DEF TypeOK
  <1>3. Dijkstra'
    BY <1>1, AllFinishedStay
  <1> QED
    BY <1>1, <1>2, <1>3 DEF IInv

LEMMA PrintTablePreserves ==
  ASSUME IInv, PrintTable
  PROVE  IInv'
  <1>1. /\ TypeOK /\ Dijkstra /\ message = NoMessage /\ pc = "table" /\ pc' = "messages"
        /\ todo = {} /\ UNCHANGED <<neighbors, todo, node, currNode, lsVars, message>>
    BY DEF IInv, PrintTable, Dijkstra
  <1>2. DOMAIN table' \subseteq vertices
    BY DEF PrintTable
  <1>3. TypeOK'
    BY <1>1, <1>2, TypesStay DEF TypeOK
  <1>4. Dijkstra'
    BY <1>1, AllFinishedStay
  <1>5. /\ vertices' = vertices /\ \A v : Destinations(v)' = Destinations(v)
        /\ \A v, d : LoopEnds(v, d)' = LoopEnds(v, d) /\ NextHop(v, d)' = NextHop(v, d)
        /\ ls_cost' = ls_cost
    BY <1>1 DEF vertices, Destinations, LoopEnds, NextHop, StepsBack, WayBack, lsVars, Smallest
  <1>6. Printed'
    BY <1>1, <1>5 DEF Printed, PrintTable, NoMessage, Message
  <1> QED
    BY <1>1, <1>3, <1>4, <1>6 DEF IInv

LEMMA SendMessagePreserves ==
  ASSUME IInv, NEW v1 \in vertices, NEW v2 \in vertices, SendMessage(v1, v2)
  PROVE  IInv'
  <1>1. /\ TypeOK /\ Dijkstra /\ Printed /\ pc = "messages" /\ pc' = "messages" /\ todo = {}
        /\ UNCHANGED <<neighbors, todo, node, currNode, lsVars, table>>
    BY DEF IInv, SendMessage, Dijkstra
  <1>2. /\ Dijkstra' /\ \A v \in vertices : Finished(v)
    BY <1>1, AllFinishedStay
  <1>3. \/ /\ v2 \in Destinations(v1) /\ LoopEnds(v1, v2)
           /\ message' = Message(v1, v2, ls_cost[v1][v2], Hops(v1, v2))
        \/ message' = Message(v1, v2, INT_MAX, << >>)
    BY DEF SendMessage, Destinations
  <1>4. message'.hops \in Seq(Numbers)
    <2>1. NeighborsType /\ vertices \subseteq Numbers
      BY <1>1 DEF TypeOK, NeighborsType
    <2>2. CASE /\ v2 \in Destinations(v1) /\ LoopEnds(v1, v2)
               /\ message' = Message(v1, v2, ls_cost[v1][v2], Hops(v1, v2))
      <3>1. message'.hops = Hops(v1, v2)
        BY <2>2 DEF Message
      <3>2. Hops(v1, v2) \in Seq(vertices)
        BY <1>2, <2>1, <2>2, PathIs
      <3> QED
        BY <2>1, <3>1, <3>2, SeqOfMore
    <2>3. CASE message' = Message(v1, v2, INT_MAX, << >>)
      BY <2>3 DEF Message
    <2> QED
      BY <1>3, <2>2, <2>3
  <1>5. TypeOK'
    BY <1>1, <1>4, TypesStay DEF TypeOK
  <1>6. /\ vertices' = vertices /\ \A v : Destinations(v)' = Destinations(v)
        /\ \A v, d : LoopEnds(v, d)' = LoopEnds(v, d) /\ NextHop(v, d)' = NextHop(v, d)
        /\ \A v, d : Hops(v, d)' = Hops(v, d)
        /\ ls_cost' = ls_cost /\ table' = table
    BY <1>1 DEF vertices, Destinations, LoopEnds, NextHop, Hops, StepsBack, WayBack, lsVars, Smallest
  <1>7. \A v \in vertices : \A d \in Destinations(v) : LoopEnds(v, d)
    BY <1>1 DEF Printed
  <1>8. table = [v \in vertices |-> [d \in Destinations(v) |-> <<NextHop(v, d), ls_cost[v][d]>>]]
    BY <1>1 DEF Printed
  <1>9. \E u1, u2 \in vertices' :
          \/ u2 \in Destinations(u1)' /\ message' = Message(u1, u2, ls_cost'[u1][u2], Hops(u1, u2)')
          \/ message' = Message(u1, u2, INT_MAX, << >>)
    BY <1>3, <1>6
  <1>10. /\ \A v \in vertices' : \A d \in Destinations(v)' : LoopEnds(v, d)'
         /\ table' = [v \in vertices' |->
                        [d \in Destinations(v)' |-> <<NextHop(v, d)', ls_cost'[v][d]>>]]
    BY <1>6, <1>7, <1>8
  <1>11. Printed'
    BY <1>9, <1>10 DEF Printed, Message
  <1> QED
    BY <1>1, <1>2, <1>5, <1>11 DEF IInv

LEMMA IInvNext == IInv /\ [Next]_vars => IInv'
  <1> SUFFICES ASSUME IInv, [Next]_vars PROVE IInv'
    OBVIOUS
  <1>1. TypeOK /\ NeighborsType
    BY DEF IInv, TypeOK
  <1>2. ASSUME NEW line \in Lines, ReadTopology(line)
        PROVE  IInv'
    <2>1. NeighborsType' /\ vertices \subseteq vertices'
      BY <1>1, <1>2, AddElementsKeepsType DEF ReadTopology
    <2>2. /\ UNCHANGED <<todo, node, currNode, lsVars>> /\ table' = table
          /\ message' = NoMessage /\ pc' = "topology"
      BY <1>2 DEF ReadTopology, IInv
    <2> QED
      BY <2>1, <2>2, OutsideInOrder
  <1>3. ASSUME NEW line \in Lines, ReadChange(line)
        PROVE  IInv'
    <2>1. NeighborsType' /\ vertices \subseteq vertices'
      BY <1>1, <1>3, AddElementsKeepsType DEF ReadChange
    <2>2. /\ UNCHANGED <<todo, node, currNode, lsVars>> /\ table' = << >>
          /\ message' = NoMessage /\ pc' = "linkState"
      BY <1>3 DEF ReadChange
    <2> QED
      BY <2>1, <2>2, OutsideInOrder
  <1>4. CASE EndOfTopology
    <2>1. NeighborsType' /\ vertices \subseteq vertices'
      BY <1>1, <1>4 DEF EndOfTopology, NeighborsType, EdgesBothWays, vertices
    <2>2. /\ UNCHANGED <<todo, node, currNode, lsVars>> /\ table' = table
          /\ message' = NoMessage /\ pc' = "linkState"
      BY <1>4 DEF EndOfTopology, IInv
    <2> QED
      BY <2>1, <2>2, OutsideInOrder
  <1>5. CASE EndOfChanges
    <2>1. NeighborsType' /\ vertices \subseteq vertices'
      BY <1>1, <1>5 DEF EndOfChanges, NeighborsType, EdgesBothWays, vertices
    <2>2. /\ UNCHANGED <<todo, node, currNode, lsVars>> /\ table' = << >>
          /\ message' = NoMessage /\ pc' = "end"
      BY <1>5 DEF EndOfChanges
    <2> QED
      BY <2>1, <2>2, OutsideInOrder
  <1>6. CASE Compute
    <2>1. CASE ClearTables
      BY <2>1, ClearTablesPreserves
    <2>2. CASE InitNode
      BY <2>2, InitNodePreserves
    <2>3. CASE AllNodesDone
      BY <2>3, AllNodesDonePreserves
    <2>4. CASE Relax
      BY <2>4, RelaxPreserves
    <2>5. CASE Select
      BY <2>5, SelectPreserves
    <2>6. CASE NodeDone
      BY <2>6, NodeDonePreserves
    <2>7. CASE PrintTable
      BY <2>7, PrintTablePreserves
    <2> QED
      BY <1>6, <2>1, <2>2, <2>3, <2>4, <2>5, <2>6, <2>7 DEF Compute
  <1>7. ASSUME NEW v1 \in vertices, NEW v2 \in vertices, SendMessage(v1, v2)
        PROVE  IInv'
    BY <1>7, SendMessagePreserves
  <1>8. CASE UNCHANGED vars
    <2>1. /\ UNCHANGED <<neighbors, pc, todo, node, currNode, lsVars, table, message>>
          /\ vertices' = vertices
      BY <1>8 DEF vars, vertices
    <2>2. TypeOK'
      BY <1>1, <2>1, TypesStay DEF TypeOK
    <2>3. ASSUME pc \in {"node", "relax", "select", "table", "messages"}
          PROVE  Dijkstra'
      <3>1. Dijkstra
        BY <2>3 DEF IInv
      <3>2. \A v \in Finishers : Finished(v)'
        BY <2>1, <3>1, TablesStay
      <3>3. Finishers' = Finishers
        BY <2>1 DEF Finishers
      <3>4. pc = "relax" => AtCurrNode'
        <4>1. pc = "relax" => AtCurrNode
          BY <3>1 DEF Dijkstra
        <4> QED
          BY <2>1, <4>1 DEF AtCurrNode, Table, Rows, NearestKnown, OverKnown, Relaxed,
               LowestOf, Via, OnShortestPath, Destinations, Lengths, lsVars
      <3>5. pc = "select" => Table(node, Destinations(node))'
        <4>1. pc = "select" => Table(node, Destinations(node))
          BY <3>1 DEF Dijkstra
        <4> QED
          BY <2>1, <4>1 DEF Table, Rows, NearestKnown, OverKnown, Relaxed,
               LowestOf, Via, OnShortestPath, Destinations, Lengths, lsVars
      <3> QED
        BY <2>1, <3>1, <3>2, <3>3, <3>4, <3>5 DEF Dijkstra, lsVars
    <2>4. ASSUME pc = "messages"
          PROVE  Printed'
      <3>1. /\ \A v : Destinations(v)' = Destinations(v)
            /\ \A v, d : LoopEnds(v, d)' = LoopEnds(v, d) /\ NextHop(v, d)' = NextHop(v, d)
            /\ \A v, d : Hops(v, d)' = Hops(v, d)
            /\ ls_cost' = ls_cost
        BY <2>1 DEF Destinations, LoopEnds, NextHop, Hops, StepsBack, WayBack, lsVars, Smallest
      <3>2. Printed
        BY <2>4 DEF IInv
      <3>3. \A v \in vertices' : \A d \in Destinations(v)' : LoopEnds(v, d)'
        BY <2>1, <3>1, <3>2 DEF Printed
      <3>4. table' = [v \in vertices' |->
                        [d \in Destinations(v)' |-> <<NextHop(v, d)', ls_cost'[v][d]>>]]
        BY <2>1, <3>1, <3>2 DEF Printed
      <3>5. \/ message' = NoMessage
            \/ \E u1, u2 \in vertices' :
                 \/ /\ u2 \in Destinations(u1)'
                    /\ message' = Message(u1, u2, ls_cost'[u1][u2], Hops(u1, u2)')
                 \/ message' = Message(u1, u2, INT_MAX, << >>)
        BY <2>1, <3>1, <3>2 DEF Printed
      <3> QED
        BY <3>3, <3>4, <3>5 DEF Printed, Message, NoMessage
    <2> QED
      BY <2>1, <2>2, <2>3, <2>4 DEF IInv
  <1> QED
    BY <1>2, <1>3, <1>4, <1>5, <1>6, <1>7, <1>8 DEF Next

(* Of link state routing: what djikstra knows of every vertex is right at every
   step, the finished tables stay, and what is printed follows from them. *)
THEOREM LsInvariant == Spec => []IInv
  BY IInvInit, IInvNext, PTL DEF Spec

------------------------------------------------------------------------------
(* The properties *)

(* djikstra selects a vertex only when its cost is that of a shortest path, and
   never changes it after: with every weight, zero also. *)
THEOREM LsKnownIsFinal == Spec => []KnownIsFinal
  <1>1. IInv => KnownIsFinal
    <2> SUFFICES ASSUME IInv PROVE KnownIsFinal
      OBVIOUS
    <2>1. TypeOK /\ NeighborsType
      BY DEF IInv, TypeOK
    <2>2. ASSUME pc \in {"relax", "select"}, NEW u \in vertices, ls_known[node][u]
          PROVE  ls_cost[node][u] = Distances(node)[u]
      <3>1. node \in vertices /\ Rows(node) /\ NearestKnown(node) /\ OverKnown(node)
        <4>1. Dijkstra
          BY <2>2 DEF IInv
        <4>2. node \in vertices
          BY <2>2, <4>1 DEF Dijkstra
        <4>3. CASE pc = "relax"
          BY <4>1, <4>2, <4>3 DEF Dijkstra, AtCurrNode, Table
        <4>4. CASE pc = "select"
          BY <4>1, <4>2, <4>4 DEF Dijkstra, Table
        <4> QED
          BY <2>2, <4>3, <4>4
      <3>2. u \in Destinations(node)
        BY <2>2 DEF Destinations
      <3> QED
        BY <2>1, <3>1, <3>2, KnownExact
    <2> QED
      BY <2>1, <2>2 DEF KnownIsFinal
  <1> QED
    BY <1>1, LsInvariant, PTL

(* The tables that linkState leaves hold the shortest paths of all vertices, to
   exactly the vertices that can be reached. *)
THEOREM LsShortestPaths == Spec => []ShortestPaths
  <1>1. IInv => ShortestPaths
    <2> SUFFICES ASSUME IInv, Computed PROVE
          \A v \in vertices : /\ ls_cost[v] = Distances(v)
                              /\ Destinations(v) = {u \in vertices : Distances(v)[u] < INT_MAX}
      BY DEF ShortestPaths
    <2>1. NeighborsType /\ \A v \in vertices : Finished(v)
      BY DEF IInv, Computed, TypeOK, Dijkstra, Finishers
    <2> QED
      BY <2>1, FinishedCosts
  <1> QED
    BY <1>1, LsInvariant, PTL

(* The tie breakers of djikstra leave, of all the last hops of shortest paths,
   the one of the lowest number. *)
THEOREM LsLowestPredecessor == Spec => []LowestPredecessor
  <1>1. IInv => LowestPredecessor
    <2> SUFFICES ASSUME IInv, Computed, NEW v \in vertices, NEW d \in Destinations(v) \ {v}
                 PROVE  ls_predecessor[v][d] = Smallest({u \in vertices : OnShortestPath(v, u, d)})
      BY DEF LowestPredecessor
    <2> DEFINE S == {u \in vertices : OnShortestPath(v, u, d)}
               p == ls_predecessor[v][d]
    <2>1. NeighborsType /\ Finished(v)
      BY DEF IInv, Computed, TypeOK, Dijkstra, Finishers
    <2>2. /\ \A u \in vertices : u \in Destinations(v) <=> ls_cost[v][u] < INT_MAX
          /\ Destinations(v) \subseteq vertices /\ vertices \subseteq Nat
      BY <2>1, FinishedCosts, VerticesFinite DEF Destinations
    <2>3. S = {u \in Destinations(v) : d \in DOMAIN neighbors[u]
                                       /\ ls_cost[v][u] + neighbors[u][d] = ls_cost[v][d]}
      BY <2>2 DEF OnShortestPath
    <2>4. /\ p \in Destinations(v) /\ d \in DOMAIN neighbors[p]
          /\ ls_cost[v][p] + neighbors[p][d] = ls_cost[v][d]
          /\ \A u \in Destinations(v) :
               d \in DOMAIN neighbors[u] /\ ls_cost[v][u] + neighbors[u][d] = ls_cost[v][d]
                 => p <= u
      BY <2>1, PredecessorKnown
    <2>5. p \in S /\ (\A u \in S : p <= u) /\ S \in SUBSET Nat
      BY <2>2, <2>3, <2>4
    <2> HIDE DEF S, p
    <2>6. Smallest(S) \in S /\ \A u \in S : Smallest(S) <= u
      BY <2>5, SmallestIsMember
    <2> DEFINE m == Smallest(S)
    <2> HIDE DEF m
    <2>7. /\ m \in Nat /\ p \in Nat /\ m <= p /\ p <= m
      BY <2>5, <2>6 DEF m
    <2>8. p = m
      BY <2>7
    <2> QED
      BY <2>8 DEF S, p, m
  <1> QED
    BY <1>1, LsInvariant, PTL

------------------------------------------------------------------------------
(* The paths of a vertex and of its next hop *)

(* The cost of a vertex is at most that of the edge to a neighbour and the cost
   from there. *)
LEMMA NeighborBound ==
  ASSUME NeighborsType, NEW v \in vertices, Finished(v),
         NEW h \in DOMAIN neighbors[v], Finished(h), NEW x \in vertices
  PROVE  ls_cost[v][x] <= neighbors[v][h] + ls_cost[h][x]
  <1> DEFINE c == Cardinality(vertices)
  <1>1. /\ h \in vertices /\ neighbors[v][h] \in Nat /\ c \in Nat
        /\ Graph(vertices, neighbors, INT_MAX)
    BY EdgeWeights, VerticesFinite, TopologyIsGraph
  <1>2. Rows(v) /\ Rows(h) /\ NearestKnown(h) /\ OverKnown(h)
    BY DEF Finished, Table
  <1>3. /\ ls_cost[v][x] \in Nat /\ ls_cost[v][x] <= INT_MAX /\ ls_cost[h][x] \in Nat
        /\ INT_MAX \in Nat
    BY <1>1, <1>2, RowTypes, CostsFit
  <1>4. CASE x \in Destinations(h)
    <2>1. c # 0 /\ c - 1 \in Nat /\ c - 1 < c /\ (c - 1) + 1 = c
          /\ c \in 0 .. c /\ c - 1 \in 0 .. c
      <3>1. c # 0
        BY <1>1, FS_EmptySet DEF Graph
      <3> HIDE DEF c
      <3> QED
        BY <1>1, <3>1
    <2>2. ls_cost[v][x] = Lengths(v)[c][x]
      BY FinishedCosts, TopologyIsGraph
    <2>3. Lengths(h)[c - 1][x] <= ls_cost[h][x]
      BY <1>1, <1>2, <1>4, KnownExact
    <2>4. Lengths(v)[(c - 1) + 1][x] <= neighbors[v][h] + Lengths(h)[c - 1][x]
      <3> DEFINE k == c - 1
      <3>1. k \in Nat /\ k < Cardinality(vertices)
        BY <2>1
      <3> HIDE DEF k
      <3>2. Lengths(v)[k + 1][x] <= neighbors[v][h] + Lengths(h)[k][x]
        BY <1>1, <3>1, OverNeighbor DEF Lengths
      <3> QED
        BY <3>2 DEF k
    <2>5. Lengths(h)[c - 1][x] \in 0 .. INT_MAX
      BY <1>1, <2>1, LengthsShrink
    <2> HIDE DEF c
    <2> QED
      BY <1>1, <1>3, <2>1, <2>2, <2>3, <2>4, <2>5
  <1>5. CASE x \notin Destinations(h)
    <2>1. ls_cost[h][x] = INT_MAX
      BY <1>5 DEF Finished
    <2> QED
      BY <1>1, <1>3, <2>1
  <1> QED
    BY <1>4, <1>5

(* What is finished and printed of all vertices. *)
AllFinished ==
  /\ \A v \in vertices : Finished(v)
  /\ \A v \in vertices : \A d \in Destinations(v) : LoopEnds(v, d)

(* On the way from v over its next hop h, all vertices are as near to h as the
   edge between v and h makes them nearer. *)
LEMMA NextHopCosts ==
  ASSUME NeighborsType, AllFinished, NEW v \in vertices, NEW d \in Destinations(v), d # v
  PROVE  LET at == WayBack(v, d)
             n == StepsBack(v, d)
             h == WayBack(v, d)[StepsBack(v, d) - 1]
         IN  /\ n \in Nat \ {0} /\ n \in 0 .. Cardinality(vertices)
             /\ h \in DOMAIN neighbors[v]
             /\ \A i \in 0 .. n - 1 :
                  /\ at[i] \in Destinations(h)
                  /\ ls_cost[h][at[i]] + neighbors[v][h] = ls_cost[v][at[i]]
  <1> DEFINE at == WayBack(v, d)
             n == StepsBack(v, d)
             h == at[n - 1]
             e == neighbors[v][h]
             P(i) == /\ at[i] \in Destinations(h)
                     /\ ls_cost[h][at[i]] + e = ls_cost[v][at[i]]
             W == {k \in Nat : k <= n - 1 => P(n - 1 - k)}
  <1>1. Finished(v) /\ LoopEnds(v, d)
    BY DEF AllFinished
  <1>2. /\ n \in 0 .. Cardinality(vertices) /\ n \in Nat /\ at[0] = d /\ at[n] = v
        /\ \A i \in 0 .. n : at[i] \in Destinations(v)
        /\ \A i \in 0 .. n - 1 :
             /\ at[i] \in DOMAIN neighbors[at[i + 1]]
             /\ ls_cost[v][at[i + 1]] + neighbors[at[i + 1]][at[i]] = ls_cost[v][at[i]]
    BY <1>1, WayBackEdges, VerticesFinite
  <1> HIDE DEF at, n
  <1>3. n # 0 /\ n - 1 \in 0 .. n - 1 /\ (n - 1) + 1 = n /\ n - 1 \in Nat
    BY <1>2
  <1>4. /\ h \in DOMAIN neighbors[v] /\ ls_cost[v][v] + e = ls_cost[v][h]
    BY <1>2, <1>3
  <1>5. /\ h \in vertices /\ e \in Nat /\ Finished(h)
    BY <1>4, EdgeWeights DEF AllFinished
  <1>6. /\ Rows(v) /\ Rows(h) /\ ls_cost[v][v] = 0 /\ ls_cost[h][h] = 0
        /\ h \in Destinations(h) /\ Relaxed(h, Destinations(h))
        /\ Destinations(v) \subseteq vertices
    BY <1>1, <1>5 DEF Finished, Table, NearestKnown, Destinations
  <1>7. \A x \in vertices : /\ ls_cost[v][x] \in Nat /\ ls_cost[h][x] \in Nat
                            /\ ls_cost[v][x] <= e + ls_cost[h][x]
    BY <1>1, <1>4, <1>5, <1>6, RowTypes, NeighborBound
  <1>8. \A x \in vertices : /\ x \in Destinations(v) <=> ls_cost[v][x] < INT_MAX
                            /\ x \in Destinations(h) <=> ls_cost[h][x] < INT_MAX
    BY <1>1, <1>5, FinishedCosts
  <1>9. h \in Destinations(v) /\ \A i \in 0 .. n : at[i] \in vertices
    BY <1>2, <1>3, <1>6
  <1>10. P(n - 1)
    BY <1>4, <1>5, <1>6, <1>7
  <1>11. 0 \in W
    <2>1. n - 1 - 0 = n - 1
      BY <1>3
    <2> QED
      BY <1>10, <2>1
  <1>12. ASSUME NEW k \in Nat, k \in W
         PROVE  k + 1 \in W
    <2> SUFFICES ASSUME k + 1 <= n - 1
                 PROVE  P(n - 1 - (k + 1))
      OBVIOUS
    <2> DEFINE i == n - 1 - (k + 1)
               u == at[i + 1]
               x == at[i]
               f == neighbors[u][x]
    <2>1. i \in 0 .. n - 1 /\ i + 1 = n - 1 - k /\ i + 1 \in 0 .. n /\ i \in 0 .. n /\ k <= n - 1
      BY <1>2, <1>3
    <2>2. P(i + 1)
      BY <1>12, <2>1
    <2> HIDE DEF i, h, e
    <2>3. /\ u \in Destinations(h) /\ ls_cost[h][u] + e = ls_cost[v][u]
      BY <2>2
    <2>4. /\ x \in DOMAIN neighbors[u] /\ ls_cost[v][u] + f = ls_cost[v][x]
          /\ u \in vertices /\ x \in vertices /\ x \in Destinations(v)
      BY <1>2, <1>9, <2>1
    <2> HIDE DEF u, x, f
    <2>5. f \in Nat
      BY <2>4, EdgeWeights DEF f
    <2>6. ls_cost[h][x] <= ls_cost[h][u] + f
      BY <1>6, <2>3, <2>4 DEF Relaxed, f
    <2>7. /\ ls_cost[v][x] \in Nat /\ ls_cost[h][x] \in Nat /\ ls_cost[v][u] \in Nat
          /\ ls_cost[h][u] \in Nat /\ ls_cost[v][x] <= e + ls_cost[h][x]
      BY <1>7, <2>4
    <2>8. ls_cost[h][x] + e = ls_cost[v][x] /\ ls_cost[h][x] <= ls_cost[v][x]
      BY <1>5, <2>3, <2>4, <2>5, <2>6, <2>7
    <2>9. ls_cost[h][x] < INT_MAX
      <3>1. ls_cost[v][x] < INT_MAX /\ INT_MAX \in Nat
        BY <1>8, <2>4, CostsFit
      <3> QED
        BY <2>7, <2>8, <3>1
    <2>10. x \in Destinations(h)
      BY <1>8, <2>4, <2>9
    <2> QED
      BY <2>8, <2>10 DEF i, x, h, e
  <1>13. Nat \subseteq W
    <2> HIDE DEF W
    <2> QED
      BY <1>11, <1>12, AllNumbers
  <1>14. ASSUME NEW i \in 0 .. n - 1
         PROVE  P(i)
    <2>1. n - 1 - i \in Nat /\ n - 1 - i <= n - 1 /\ n - 1 - (n - 1 - i) = i
      BY <1>3
    <2> HIDE DEF h, e
    <2> QED
      BY <1>13, <2>1
  <1> QED
    BY <1>2, <1>3, <1>4, <1>14 DEF at, n

(* On that way v and h also agree about the predecessors. *)
LEMMA NextHopPredecessors ==
  ASSUME NeighborsType, AllFinished, NEW v \in vertices, NEW d \in Destinations(v), d # v,
         NEW i \in 0 .. StepsBack(v, d) - 2
  PROVE  LET at == WayBack(v, d)
             h == WayBack(v, d)[StepsBack(v, d) - 1]
         IN  at[i] # h /\ ls_predecessor[h][at[i]] = at[i + 1]
  <1> DEFINE at == WayBack(v, d)
             n == StepsBack(v, d)
             h == at[n - 1]
             e == neighbors[v][h]
             x == at[i]
             p == at[i + 1]
             q == ls_predecessor[h][x]
  <1>1. Finished(v) /\ LoopEnds(v, d)
    BY DEF AllFinished
  <1>2. /\ n \in Nat /\ at[n] = v
        /\ \A k \in 0 .. n : at[k] \in Destinations(v)
        /\ \A k \in 0 .. n - 1 :
             /\ at[k] # v /\ at[k + 1] = ls_predecessor[v][at[k]]
             /\ at[k] \in DOMAIN neighbors[at[k + 1]]
             /\ ls_cost[v][at[k + 1]] + neighbors[at[k + 1]][at[k]] = ls_cost[v][at[k]]
    BY <1>1, WayBackEdges, VerticesFinite
  <1>3. /\ h \in DOMAIN neighbors[v]
        /\ \A k \in 0 .. n - 1 : /\ at[k] \in Destinations(h)
                                 /\ ls_cost[h][at[k]] + e = ls_cost[v][at[k]]
    BY NextHopCosts
  <1> HIDE DEF at, n
  <1>4. /\ i \in 0 .. n - 1 /\ i + 1 \in 0 .. n - 1 /\ n - 1 \in 0 .. n - 1 /\ i \in 0 .. n
        /\ (n - 1) + 1 = n
    BY <1>2 DEF n
  <1>5. x # h
    <2>1. ASSUME x = h
          PROVE  FALSE
      <3>1. p = ls_predecessor[v][x] /\ at[n] = ls_predecessor[v][h]
        BY <1>2, <1>4
      <3>2. p = v
        BY <1>2, <2>1, <3>1
      <3> QED
        BY <1>2, <1>4, <3>2
    <2> QED
      BY <2>1
  <1>6. h \in vertices /\ e \in Nat /\ Finished(h)
    BY <1>3, EdgeWeights DEF AllFinished
  <1>7. /\ x \in Destinations(h) /\ p \in Destinations(h)
        /\ ls_cost[h][x] + e = ls_cost[v][x] /\ ls_cost[h][p] + e = ls_cost[v][p]
        /\ x \in Destinations(v) /\ x # v /\ p = ls_predecessor[v][x]
        /\ x \in DOMAIN neighbors[p] /\ ls_cost[v][p] + neighbors[p][x] = ls_cost[v][x]
    BY <1>2, <1>3, <1>4
  <1> HIDE DEF h, e, x, p
  <1>8. /\ q \in Destinations(h) /\ x \in DOMAIN neighbors[q]
        /\ ls_cost[h][q] + neighbors[q][x] = ls_cost[h][x]
        /\ \A u \in Destinations(h) :
             x \in DOMAIN neighbors[u] /\ ls_cost[h][u] + neighbors[u][x] = ls_cost[h][x]
               => q <= u
    BY <1>5, <1>6, <1>7, PredecessorKnown
  <1> HIDE DEF q
  <1>9. /\ Rows(v) /\ Rows(h) /\ Relaxed(v, Destinations(v))
        /\ Destinations(h) \subseteq vertices /\ vertices \subseteq Nat
    BY <1>1, <1>6, VerticesFinite DEF Finished, Table, Destinations
  <1>10. p \in vertices /\ q \in vertices /\ x \in vertices
    BY <1>7, <1>8, <1>9
  <1>11. neighbors[p][x] \in Nat /\ neighbors[q][x] \in Nat
    BY <1>7, <1>8, <1>10, EdgeWeights
  <1>12. \A u \in vertices : /\ ls_cost[v][u] \in Nat /\ ls_cost[h][u] \in Nat
                             /\ ls_cost[v][u] <= e + ls_cost[h][u]
    BY <1>1, <1>3, <1>6, <1>9, RowTypes, NeighborBound DEF e
  <1>13. q <= p
    <2>1. ls_cost[h][p] + neighbors[p][x] = ls_cost[h][x]
      BY <1>6, <1>7, <1>10, <1>11, <1>12
    <2> QED
      BY <1>7, <1>8, <2>1
  <1>14. p <= q
    <2>1. ls_cost[v][q] + neighbors[q][x] <= ls_cost[v][x]
      BY <1>6, <1>7, <1>8, <1>10, <1>11, <1>12
    <2>2. \A u \in vertices : u \in Destinations(v) <=> ls_cost[v][u] < INT_MAX
      BY <1>1, FinishedCosts
    <2>3. q \in Destinations(v)
      <3>1. ls_cost[v][x] < INT_MAX /\ INT_MAX \in Nat
        BY <1>7, <1>10, <2>2, CostsFit
      <3>2. ls_cost[v][q] < INT_MAX
        BY <1>10, <1>11, <1>12, <2>1, <3>1
      <3> QED
        BY <1>10, <2>2, <3>2
    <2>4. ls_cost[v][x] <= ls_cost[v][q] + neighbors[q][x]
      BY <1>8, <1>9, <2>3 DEF Relaxed
    <2>5. ls_cost[v][q] + neighbors[q][x] = ls_cost[v][x]
      BY <1>10, <1>11, <1>12, <2>1, <2>4
    <2>6. \A u \in Destinations(v) :
            x \in DOMAIN neighbors[u] /\ ls_cost[v][u] + neighbors[u][x] = ls_cost[v][x]
              => ls_predecessor[v][x] <= u
      BY <1>1, <1>7, PredecessorKnown
    <2> QED
      BY <1>7, <1>8, <2>3, <2>5, <2>6
  <1>15. q = p
    BY <1>9, <1>10, <1>13, <1>14
  <1> QED
    BY <1>5, <1>15 DEF q, p, x, h, n, at

(* The way back to h is the way back to v, but for its last step. *)
LEMMA NextHopWay ==
  ASSUME NeighborsType, AllFinished, NEW v \in vertices, NEW d \in Destinations(v), d # v
  PROVE  LET h == WayBack(v, d)[StepsBack(v, d) - 1]
         IN  /\ StepsBack(h, d) = StepsBack(v, d) - 1
             /\ \A i \in 0 .. StepsBack(v, d) - 1 : WayBack(h, d)[i] = WayBack(v, d)[i]
  <1> DEFINE at == WayBack(v, d)
             n == StepsBack(v, d)
             c == Cardinality(vertices)
             h == at[n - 1]
             to == WayBack(h, d)
             W == {k \in Nat : k <= n - 1 => to[k] = at[k]}
  <1>1. /\ n \in Nat \ {0} /\ n \in 0 .. c /\ h \in DOMAIN neighbors[v]
        /\ \A i \in 0 .. n - 1 : at[i] \in Destinations(h)
    BY NextHopCosts
  <1>2. \A i \in 0 .. n - 2 : at[i] # h /\ ls_predecessor[h][at[i]] = at[i + 1]
    BY NextHopPredecessors
  <1>3. h \in vertices /\ Finished(h) /\ at[0] = d /\ to[0] = d /\ c \in Nat
    BY <1>1, EdgeWeights, VerticesFinite, WayBackIs DEF AllFinished
  <1>4. d \in Destinations(h)
    <2>1. 0 \in 0 .. n - 1
      BY <1>1
    <2> HIDE DEF at, n, h
    <2> QED
      BY <1>1, <1>3, <2>1
  <1>5. \A i \in 1 .. c : to[i] = IF to[i - 1] = h THEN h ELSE ls_predecessor[h][to[i - 1]]
    BY <1>3, <1>4, WayBackKnown
  <1> HIDE DEF at, n, c, h, to
  <1>6. 0 \in W
    BY <1>3
  <1>7. ASSUME NEW k \in Nat, k \in W
        PROVE  k + 1 \in W
    <2> SUFFICES ASSUME k + 1 <= n - 1
                 PROVE  to[k + 1] = at[k + 1]
      OBVIOUS
    <2>1. k + 1 \in 1 .. c /\ (k + 1) - 1 = k /\ k \in 0 .. n - 2 /\ k <= n - 1
      BY <1>1, <1>3
    <2>2. to[k] = at[k]
      BY <1>7, <2>1
    <2>3. at[k] # h /\ ls_predecessor[h][at[k]] = at[k + 1]
      BY <1>2, <2>1
    <2>4. to[k + 1] = IF to[k] = h THEN h ELSE ls_predecessor[h][to[k]]
      BY <1>5, <2>1
    <2> QED
      BY <2>2, <2>3, <2>4
  <1>8. Nat \subseteq W
    <2> HIDE DEF W
    <2> QED
      BY <1>6, <1>7, AllNumbers
  <1>9. \A i \in 0 .. n - 1 : to[i] = at[i]
    <2>1. \A i \in 0 .. n - 1 : i \in Nat /\ i <= n - 1
      BY <1>1
    <2> QED
      BY <1>8, <2>1
  <1>10. StepsBack(h, d) = n - 1
    <2>1. n - 1 \in 0 .. c /\ n - 1 \in 0 .. n - 1
      BY <1>1, <1>3
    <2>2. to[n - 1] = h
      BY <1>9, <2>1 DEF h
    <2>3. ASSUME NEW i \in 0 .. (n - 1) - 1
          PROVE  to[i] # h
      <3>1. i \in 0 .. n - 2 /\ i \in 0 .. n - 1
        BY <1>1
      <3> QED
        BY <1>2, <1>9, <3>1
    <2> DEFINE m == n - 1
    <2>4. m \in 0 .. c /\ to[m] = h /\ \A i \in 0 .. m - 1 : to[i] # h
      BY <2>1, <2>2, <2>3
    <2> HIDE DEF m
    <2>5. StepsBack(h, d) = m
      BY <2>4, StepsAre DEF c, to
    <2> QED
      BY <2>5 DEF m
  <1> QED
    BY <1>9, <1>10 DEF at, n, h, to

(* The path from v is v, and then the path from its next hop. *)
LEMMA NextHopPath ==
  ASSUME NeighborsType, AllFinished, NEW v \in vertices, NEW d \in Destinations(v), d # v
  PROVE  /\ NextHop(v, d) \in DOMAIN neighbors[v] /\ d \in Destinations(NextHop(v, d))
         /\ ls_cost[v][d] = neighbors[v][NextHop(v, d)] + ls_cost[NextHop(v, d)][d]
         /\ Hops(v, d) = <<v>> \o Hops(NextHop(v, d), d)
  <1> DEFINE at == WayBack(v, d)
             n == StepsBack(v, d)
             h == NextHop(v, d)
             to == WayBack(h, d)
             s == Hops(v, d)
             t == Hops(h, d)
  <1>1. h = at[n - 1]
    BY DEF NextHop
  <1>2. /\ n \in Nat \ {0} /\ h \in DOMAIN neighbors[v]
        /\ \A i \in 0 .. n - 1 : /\ at[i] \in Destinations(h)
                                 /\ ls_cost[h][at[i]] + neighbors[v][h] = ls_cost[v][at[i]]
    BY <1>1, NextHopCosts
  <1>3. StepsBack(h, d) = n - 1 /\ \A i \in 0 .. n - 1 : to[i] = at[i]
    BY <1>1, NextHopWay
  <1>4. /\ h \in vertices /\ Finished(h) /\ Finished(v) /\ LoopEnds(v, d)
    BY <1>2, EdgeWeights DEF AllFinished
  <1>5. at[0] = d /\ at[n] = v
    BY <1>4, WayBackEdges
  <1> HIDE DEF h, at, n, to
  <1>6. /\ 0 \in 0 .. n - 1 /\ d \in Destinations(h)
        /\ ls_cost[h][d] + neighbors[v][h] = ls_cost[v][d]
    <2>1. 0 \in 0 .. n - 1
      BY <1>2
    <2> QED
      BY <1>2, <1>5, <2>1
  <1>7. ls_cost[v][d] = neighbors[v][h] + ls_cost[h][d]
    <2>1. neighbors[v][h] \in Nat
      BY <1>2, EdgeWeights
    <2>2. ls_cost[h][d] \in Nat
      BY <1>4, <1>6, RowTypes DEF Finished, Table, Destinations
    <2> QED
      BY <1>6, <2>1, <2>2
  <1>8. LoopEnds(h, d)
    BY <1>4, <1>6 DEF AllFinished
  <1>9. /\ s \in Seq(vertices) /\ Len(s) = n /\ \A i \in 1 .. n : s[i] = at[n - i + 1]
    BY <1>4, PathIs DEF n, at
  <1>10. /\ t \in Seq(vertices) /\ Len(t) = n - 1
         /\ \A i \in 1 .. n - 1 : t[i] = to[(n - 1) - i + 1]
    BY <1>3, <1>4, <1>6, <1>8, PathIs DEF to
  <1> HIDE DEF s, t
  <1>11. s = <<v>> \o t
    <2> DEFINE u == <<v>>
    <2>1. u \in Seq(vertices) /\ Len(u) = 1 /\ u[1] = v
      BY SeqOfOne
    <2> HIDE DEF u
    <2>2. u \in Seq(vertices) /\ t \in Seq(vertices)
      BY <1>10, <2>1
    <2>3. /\ u \o t \in Seq(vertices) /\ Len(u \o t) = Len(u) + Len(t)
          /\ \A i \in 1 .. Len(u) : (u \o t)[i] = u[i]
          /\ \A i \in 1 .. Len(t) : (u \o t)[Len(u) + i] = t[i]
      BY <2>2, Joined
    <2>4. Len(u \o t) = n
      BY <1>2, <1>10, <2>1, <2>3
    <2>5. ASSUME NEW i \in 1 .. n
          PROVE  s[i] = (u \o t)[i]
      <3>1. CASE i = 1
        <4>1. (u \o t)[1] = v
          BY <2>1, <2>3
        <4>2. s[1] = v
          <5>1. n - 1 + 1 = n /\ 1 \in 1 .. n
            BY <1>2
          <5> QED
            BY <1>5, <1>9, <5>1
        <4> QED
          BY <3>1, <4>1, <4>2
      <3>2. CASE i # 1
        <4> DEFINE k == i - 1
        <4>1. /\ k \in 1 .. n - 1 /\ i = 1 + k /\ n - i + 1 = (n - 1) - k + 1
              /\ (n - 1) - k + 1 \in 0 .. n - 1
          BY <1>2, <3>2
        <4> HIDE DEF k
        <4>2. (u \o t)[i] = t[k]
          BY <1>10, <2>1, <2>3, <4>1
        <4>3. s[i] = at[(n - 1) - k + 1]
          BY <1>9, <4>1
        <4>4. t[k] = at[(n - 1) - k + 1]
          BY <1>3, <1>10, <4>1
        <4> QED
          BY <4>2, <4>3, <4>4
      <3> QED
        BY <3>1, <3>2
    <2> DEFINE r == u \o t
    <2>6. r \in Seq(vertices) /\ Len(r) = Len(s) /\ \A i \in 1 .. Len(s) : s[i] = r[i]
      BY <1>9, <2>3, <2>4, <2>5
    <2> HIDE DEF r
    <2>7. s = r
      BY <1>9, <2>6, SeqEqual
    <2> QED
      BY <2>7 DEF r, u
  <1> QED
    BY <1>2, <1>6, <1>7, <1>11 DEF h, s, t

(* Every vertex computes its paths by itself, and still the paths, tables and
   messages that are printed fit together: a next hop's own path is the rest of
   the path, and the hops of a message are edges that add up to its cost. *)
THEOREM LsMessagesFollowTables == Spec => []MessagesFollowTables
  <1>1. IInv => PathsAgree
    <2> SUFFICES ASSUME IInv, pc = "messages", NEW v \in vertices, NEW d \in DOMAIN table[v] \ {v}
                 PROVE  LET hop == table[v][d][1]
                        IN  /\ hop \in DOMAIN neighbors[v] /\ d \in DOMAIN table[hop]
                            /\ table[v][d][2] = neighbors[v][hop] + table[hop][d][2]
                            /\ Hops(v, d) = <<v>> \o Hops(hop, d)
      BY DEF PathsAgree
    <2>1. Dijkstra /\ Printed /\ NeighborsType
      BY DEF IInv, TypeOK
    <2>2. AllFinished
      BY <2>1 DEF Dijkstra, Printed, Finishers, AllFinished
    <2>3. \A x \in vertices : /\ DOMAIN table[x] = Destinations(x)
                              /\ \A y \in Destinations(x) :
                                   table[x][y][1] = NextHop(x, y) /\ table[x][y][2] = ls_cost[x][y]
      BY <2>1 DEF Printed
    <2> DEFINE h == NextHop(v, d)
    <2>4. d \in Destinations(v) /\ d # v /\ table[v][d][1] = h /\ table[v][d][2] = ls_cost[v][d]
      BY <2>3
    <2>5. /\ h \in DOMAIN neighbors[v] /\ d \in Destinations(h)
          /\ ls_cost[v][d] = neighbors[v][h] + ls_cost[h][d]
          /\ Hops(v, d) = <<v>> \o Hops(h, d)
      BY <2>1, <2>2, <2>4, NextHopPath
    <2>6. h \in vertices
      BY <2>1, <2>5, EdgeWeights
    <2> HIDE DEF h
    <2> QED
      BY <2>3, <2>4, <2>5, <2>6
  <1>2. IInv => MessageCosts
    <2> SUFFICES ASSUME IInv, message.cost < INT_MAX PROVE MessageCosts
      BY DEF MessageCosts
    <2>1. NeighborsType /\ INT_MAX \in Nat /\ ~(INT_MAX < INT_MAX)
      BY CostsFit DEF IInv, TypeOK
    <2>2. message # NoMessage
      BY <2>1 DEF NoMessage, Message
    <2>3. Dijkstra /\ Printed /\ pc = "messages"
      BY <2>2 DEF IInv
    <2>4. AllFinished
      BY <2>3 DEF Dijkstra, Printed, Finishers, AllFinished
    <2>5. PICK v \in vertices, d \in vertices :
            \/ d \in Destinations(v) /\ message = Message(v, d, ls_cost[v][d], Hops(v, d))
            \/ message = Message(v, d, INT_MAX, << >>)
      BY <2>2, <2>3 DEF Printed
    <2>6. d \in Destinations(v) /\ message = Message(v, d, ls_cost[v][d], Hops(v, d))
      BY <2>1, <2>5 DEF Message
    <2> DEFINE path == PathOf(v, d)
    <2>7. /\ message.hops = Hops(v, d) /\ message.to = d /\ message.from = v
          /\ message.cost = ls_cost[v][d]
      BY <2>6 DEF Message
    <2>8. Append(message.hops, message.to) = path
      BY <2>7 DEF PathOf
    <2>9. /\ path[1] = v
          /\ \A i \in 2 .. Len(path) : path[i] \in DOMAIN neighbors[path[i - 1]]
          /\ CostUpTo(neighbors, path)[Len(path)] = ls_cost[v][d]
      BY <2>1, <2>4, <2>6, HopsCost DEF AllFinished
    <2> HIDE DEF path
    <2>10. MessageCosts = (message.cost < INT_MAX =>
                            /\ path[1] = message.from
                            /\ \A i \in 2 .. Len(path) : path[i] \in DOMAIN neighbors[path[i - 1]]
                            /\ CostUpTo(neighbors, path)[Len(path)] = message.cost)
      BY <2>8 DEF MessageCosts, CostUpTo
    <2> QED
      BY <2>7, <2>9, <2>10
  <1> QED
    BY <1>1, <1>2, LsInvariant, PTL DEF MessagesFollowTables

------------------------------------------------------------------------------
(* Zero weights *)

(* On the way back the costs fall, if no edge has weight zero. *)
LEMMA CostsFall ==
  ASSUME NeighborsType, 0 \notin Weights, NEW v \in vertices, Finished(v),
         NEW d \in Destinations(v), ~LoopEnds(v, d),
         NEW a \in Nat, NEW b \in Nat, a < b, b <= Cardinality(vertices)
  PROVE  ls_cost[v][WayBack(v, d)[b]] < ls_cost[v][WayBack(v, d)[a]]
  <1> DEFINE at == WayBack(v, d)
             c == Cardinality(vertices)
             cost == ls_cost[v]
             W == {k \in Nat : a + k + 1 <= c => cost[at[a + k + 1]] < cost[at[a]]}
  <1>1. c \in Nat /\ DOMAIN at = 0 .. c
    BY VerticesFinite, WayBackIs
  <1>2. /\ \A i \in 0 .. c : at[i] \in Destinations(v)
        /\ \A i \in 1 .. c : at[i] = IF at[i - 1] = v THEN v ELSE ls_predecessor[v][at[i - 1]]
    BY WayBackKnown
  <1>3. \A i \in 0 .. c : at[i] # v
    BY <1>1 DEF LoopEnds
  <1>4. Rows(v) /\ Destinations(v) \subseteq vertices
    BY DEF Finished, Table, Destinations
  <1>5. ASSUME NEW i \in 0 .. c, i + 1 <= c
        PROVE  /\ cost[at[i + 1]] < cost[at[i]] /\ cost[at[i + 1]] \in Nat /\ cost[at[i]] \in Nat
    <2> DEFINE u == at[i]
               p == at[i + 1]
    <2>1. i + 1 \in 1 .. c /\ i + 1 \in 0 .. c /\ (i + 1) - 1 = i
      BY <1>1, <1>5
    <2>2. u \in Destinations(v) /\ p \in Destinations(v) /\ u # v /\ p = ls_predecessor[v][u]
      BY <1>2, <1>3, <2>1
    <2> HIDE DEF u, p
    <2>3. u \in DOMAIN neighbors[p] /\ cost[p] + neighbors[p][u] = cost[u]
      BY <2>2, PredecessorKnown
    <2>4. neighbors[p][u] \in Nat /\ neighbors[p][u] # 0
      BY <1>4, <2>2, <2>3, EdgeWeights DEF NeighborsType
    <2>5. cost[p] \in Nat /\ cost[u] \in Nat
      BY <1>4, <2>2, RowTypes
    <2>6. cost[p] < cost[u]
      BY <2>3, <2>4, <2>5
    <2> QED
      BY <2>5, <2>6 DEF u, p
  <1> HIDE DEF at, c, cost
  <1>6. 0 \in W
    <2> SUFFICES ASSUME a + 0 + 1 <= c PROVE cost[at[a + 0 + 1]] < cost[at[a]]
      OBVIOUS
    <2>1. a \in 0 .. c /\ a + 0 + 1 = a + 1 /\ a + 1 <= c
      BY <1>1
    <2> QED
      BY <1>5, <2>1
  <1>7. ASSUME NEW k \in Nat, k \in W
        PROVE  k + 1 \in W
    <2> SUFFICES ASSUME a + (k + 1) + 1 <= c
                 PROVE  cost[at[a + (k + 1) + 1]] < cost[at[a]]
      OBVIOUS
    <2> DEFINE i == a + k + 1
    <2>1. /\ i \in 0 .. c /\ i + 1 <= c /\ a + (k + 1) + 1 = i + 1 /\ i <= c
          /\ a \in 0 .. c /\ a + 1 <= c
      BY <1>1
    <2>2. cost[at[i]] < cost[at[a]]
      BY <1>7, <2>1
    <2> HIDE DEF i
    <2>3. /\ cost[at[i + 1]] < cost[at[i]] /\ cost[at[i + 1]] \in Nat /\ cost[at[i]] \in Nat
          /\ cost[at[a]] \in Nat
      BY <1>5, <2>1
    <2>4. cost[at[i + 1]] < cost[at[a]]
      BY <2>2, <2>3
    <2> QED
      BY <2>1, <2>4
  <1>8. Nat \subseteq W
    <2> HIDE DEF W
    <2> QED
      BY <1>6, <1>7, AllNumbers
  <1>9. b - a - 1 \in Nat /\ a + (b - a - 1) + 1 = b /\ b <= c
    BY DEF c
  <1>10. cost[at[b]] < cost[at[a]]
    BY <1>8, <1>9
  <1> QED
    BY <1>10 DEF cost, at

(* The start node is found (graph.cpp:142) if no edge has weight zero: only edges
   of weight zero can lead the loop over the predecessors in a circle. *)
THEOREM LsStartIsFound ==
  ASSUME 0 \notin Weights
  PROVE  Spec => []StartIsFound
  <1>1. ASSUME NeighborsType, NEW v \in vertices, Finished(v), NEW d \in Destinations(v)
        PROVE  LoopEnds(v, d)
    <2> SUFFICES ASSUME ~LoopEnds(v, d) PROVE FALSE
      OBVIOUS
    <2> DEFINE at == WayBack(v, d)
               c == Cardinality(vertices)
               f == [i \in 0 .. c |-> at[i]]
    <2>1. IsFiniteSet(vertices) /\ c \in Nat /\ Rows(v) /\ Destinations(v) \subseteq vertices
      BY <1>1, VerticesFinite DEF Finished, Table, Destinations
    <2>2. \A i \in 0 .. c : at[i] \in vertices /\ ls_cost[v][at[i]] \in Nat
      BY <1>1, <2>1, WayBackKnown, RowTypes
    <2>3. \A a, b \in 0 .. c : a < b => ls_cost[v][at[b]] < ls_cost[v][at[a]]
      <3> SUFFICES ASSUME NEW a \in 0 .. c, NEW b \in 0 .. c, a < b
                   PROVE  ls_cost[v][at[b]] < ls_cost[v][at[a]]
        OBVIOUS
      <3>1. a \in Nat /\ b \in Nat /\ b <= c
        BY <2>1
      <3> QED
        BY <1>1, <3>1, CostsFall
    <2> HIDE DEF at, c
    <2>4. \E a, b \in 0 .. c : a # b /\ at[a] = at[b]
      <3>1. f \in [0 .. c -> vertices]
        BY <2>2
      <3>2. IsFiniteSet(0 .. c) /\ Cardinality(0 .. c) = c + 1
        <4>1. 0 \in Int /\ c \in Int /\ ~(0 > c) /\ c - 0 + 1 = c + 1
          BY <2>1
        <4>2. IsFiniteSet(0 .. c) /\ Cardinality(0 .. c) = IF 0 > c THEN 0 ELSE c - 0 + 1
          BY <4>1, FS_Interval
        <4> QED
          BY <4>1, <4>2
      <3>3. Cardinality(vertices) < Cardinality(0 .. c)
        BY <2>1, <3>2 DEF c
      <3> HIDE DEF f
      <3>4. \E a, b \in 0 .. c : a # b /\ f[a] = f[b]
        BY <2>1, <3>1, <3>2, <3>3, FS_PigeonHole
      <3> QED
        BY <3>4 DEF f
    <2>5. PICK a \in 0 .. c, b \in 0 .. c : a # b /\ at[a] = at[b]
      BY <2>4
    <2>6. a < b \/ b < a
      BY <2>1, <2>5
    <2>7. ls_cost[v][at[a]] \in Nat /\ ls_cost[v][at[b]] = ls_cost[v][at[a]]
      BY <2>2, <2>5
    <2> QED
      BY <2>3, <2>6, <2>7
  <1>2. IInv => StartIsFound
    <2> SUFFICES ASSUME IInv, Computed
                 PROVE  \A v \in vertices : \A d \in Destinations(v) : LoopEnds(v, d)
      BY DEF StartIsFound
    <2>1. NeighborsType /\ \A v \in vertices : Finished(v)
      BY DEF IInv, Computed, TypeOK, Dijkstra, Finishers
    <2> QED
      BY <1>1, <2>1
  <1> QED
    BY <1>2, LsInvariant, PTL

==============================================================================
