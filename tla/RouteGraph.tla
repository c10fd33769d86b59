----------------------------- MODULE RouteGraph -----------------------------
(***************************************************************************)
(* The topology of mp3 (class Graph of graph.cpp): vertices, numbered by   *)
(* the input files, and weighted undirected edges.  Each line of the       *)
(* topology file or of the changes file adds two vertices, if they are     *)
(* new, and sets or removes the edge between them.                         *)
(***************************************************************************)
EXTENDS Integers, FiniteSets

CONSTANTS
  Numbers,  \* the vertex numbers that the files can name
  Weights,  \* the edge weights that the files can name, -999 excepted
  INT_MAX   \* numeric_limits<int>::max(), the cost of what is out of reach

ASSUME NumbersAssumption == Numbers \subseteq Nat /\ IsFiniteSet(Numbers)
ASSUME WeightsAssumption == Weights \subseteq Nat
ASSUME CostsFit ==
  /\ INT_MAX \in Nat \ {0}
  /\ \A w \in Weights : w * Cardinality(Numbers) < INT_MAX

VARIABLE neighbors  \* for every vertex, its neighbours' edge weights

vertices == DOMAIN neighbors

RemoveMark == -999

(* The lines of the files; an edge from a vertex to itself is left out. *)
Lines == {l \in Numbers \X Numbers \X (Weights \cup {RemoveMark}) : l[1] # l[2]}

(* Every edge has the same weight at both of its ends. *)
EdgesBothWays ==
  \A v \in vertices : \A u \in DOMAIN neighbors[v] :
    v \in DOMAIN neighbors[u] /\ neighbors[u][v] = neighbors[v][u]

NeighborsType ==
  /\ vertices \subseteq Numbers
  /\ \A v \in vertices :
       /\ DOMAIN neighbors[v] \subseteq vertices \ {v}
       /\ \A u \in DOMAIN neighbors[v] : neighbors[v][u] \in Weights
  /\ EdgesBothWays

(* map[key] = value *)
Put(map, key, value) ==
  [k \in DOMAIN map \cup {key} |-> IF k = key THEN value ELSE map[k]]

(* map.erase(key) *)
Drop(map, key) == [k \in DOMAIN map \ {key} |-> map[k]]

(* The neighbours of a vertex, of which a new one has none. *)
NeighborsOf(v) == IF v \in vertices THEN neighbors[v] ELSE <<>>

AddElements(line) ==
  LET v1 == line[1]  v2 == line[2]  weight == line[3]
      Other(v) == IF v = v1 THEN v2 ELSE v1
  IN  neighbors' = [v \in vertices \cup {v1, v2} |->
        CASE v \notin {v1, v2} -> NeighborsOf(v)
          [] v \in {v1, v2} /\ weight = RemoveMark -> Drop(NeighborsOf(v), Other(v))
          [] v \in {v1, v2} /\ weight # RemoveMark ->
               Put(NeighborsOf(v), Other(v), weight)]

------------------------------------------------------------------------------
(* Reference definitions, for the properties *)

Smallest(S) == CHOOSE n \in S : \A m \in S : n <= m

(* The length of a shortest path from start to every vertex, or INT_MAX:
   over[k] is about the paths of at most k edges. *)
Distances(start) ==
  LET over[k \in 0 .. Cardinality(vertices)] ==
        IF k = 0
        THEN [v \in vertices |-> IF v = start THEN 0 ELSE INT_MAX]
        ELSE LET shorter == over[k - 1]
                 Through(v) == {u \in vertices : /\ v \in DOMAIN neighbors[u]
                                                 /\ shorter[u] < INT_MAX}
             IN  [v \in vertices |->
                    Smallest({shorter[v]} \cup
                             {shorter[u] + neighbors[u][v] : u \in Through(v)})]
  IN  over[Cardinality(vertices)]
==============================================================================
