------------------------------ MODULE LinkState ------------------------------
(***************************************************************************)
(* Link state routing of mp3 (linkstate.cpp, Graph::linkState and          *)
(* djikstra of graph.cpp).  After the topology was read, and again after   *)
(* every change of it, Dijkstra's algorithm is run for every vertex; then  *)
(* the forwarding tables are printed and messages are sent along the       *)
(* paths that the predecessors give.                                       *)
(***************************************************************************)
EXTENDS RouteGraph, Sequences

VARIABLES
  pc,
  todo,            \* the vertices for which djikstra is still to be run
  node, currNode,  \* djikstra: its vertex, and the one it works at
  ls_known, ls_cost, ls_predecessor,  \* one table per vertex
  table,           \* the forwarding tables printed last
  message          \* the last line printed about a message

lsVars == <<ls_known, ls_cost, ls_predecessor>>
vars == <<neighbors, pc, todo, node, currNode, lsVars, table, message>>

None == -1

Message(from, to, cost, hops) ==
  [from |-> from, to |-> to, cost |-> cost, hops |-> hops]

NoMessage == Message(None, None, INT_MAX, <<>>)

TypeOK ==
  /\ NeighborsType
  /\ pc \in {"topology", "linkState", "node", "relax", "select", "table",
             "messages", "end"}
  /\ todo \subseteq vertices
  /\ node \in vertices \cup {None} /\ currNode \in vertices \cup {None}
  /\ \A v \in DOMAIN ls_cost :
       /\ ls_known[v] \in [DOMAIN ls_cost[v] -> BOOLEAN]
       /\ ls_cost[v] \in [DOMAIN ls_cost[v] -> 0 .. INT_MAX]
       /\ ls_predecessor[v] \in [DOMAIN ls_cost[v] -> Numbers \cup {None}]
  /\ DOMAIN table \subseteq vertices /\ message.hops \in Seq(Numbers)

Init ==
  /\ neighbors = <<>>
  /\ pc = "topology"
  /\ todo = {} /\ node = None /\ currNode = None
  /\ ls_known = <<>> /\ ls_cost = <<>> /\ ls_predecessor = <<>>
  /\ table = <<>> /\ message = NoMessage

------------------------------------------------------------------------------
(* main *)

ReadTopology(line) ==
  /\ pc = "topology"
  /\ AddElements(line)
  /\ UNCHANGED <<pc, todo, node, currNode, lsVars, table, message>>

EndOfTopology ==
  /\ pc = "topology"
  /\ pc' = "linkState"
  /\ UNCHANGED <<neighbors, todo, node, currNode, lsVars, table, message>>

ReadChange(line) ==
  /\ pc = "messages"
  /\ AddElements(line)
  /\ pc' = "linkState"
  /\ table' = <<>> /\ message' = NoMessage
  /\ UNCHANGED <<todo, node, currNode, lsVars>>

EndOfChanges ==
  /\ pc = "messages"
  /\ pc' = "end"
  /\ table' = <<>> /\ message' = NoMessage
  /\ UNCHANGED <<neighbors, todo, node, currNode, lsVars>>

------------------------------------------------------------------------------
(* linkState *)

ClearTables ==
  /\ pc = "linkState"
  /\ ls_known' = [v \in vertices |-> <<>>]
  /\ ls_cost' = [v \in vertices |-> <<>>]
  /\ ls_predecessor' = [v \in vertices |-> <<>>]
  /\ todo' = vertices
  /\ pc' = "node"
  /\ UNCHANGED <<neighbors, node, currNode, table, message>>

InitNode ==
  /\ pc = "node" /\ todo # {}
  /\ LET v == Smallest(todo)
     IN  /\ ls_known' = [ls_known EXCEPT ![v] = [u \in vertices |-> u = v]]
         /\ ls_cost' = [ls_cost EXCEPT ![v] =
                          [u \in vertices |-> IF u = v THEN 0 ELSE INT_MAX]]
         /\ ls_predecessor' = [ls_predecessor EXCEPT ![v] =
                                 [u \in vertices |-> None]]
         /\ node' = v /\ currNode' = v
         /\ todo' = todo \ {v}
  /\ pc' = "relax"
  /\ UNCHANGED <<neighbors, table, message>>

AllNodesDone ==
  /\ pc = "node" /\ todo = {}
  /\ pc' = "table"
  /\ node' = None /\ currNode' = None
  /\ UNCHANGED <<neighbors, todo, lsVars, table, message>>

------------------------------------------------------------------------------
(* djikstra *)

(* Variant for testing KnownIsFinal: only the edge to the vertex is counted, and not
   the way to where it begins. *)
CostOfEdge(u) == neighbors[currNode][u]

PotentialCost(u) == ls_cost[node][currNode] + neighbors[currNode][u]

IsBetter(u) ==
  /\ u \in DOMAIN neighbors[currNode]
  /\ PotentialCost(u) < ls_cost[node][u] /\ ~ls_known[node][u]

(* Variant for testing LowestPredecessor: the highest predecessor is kept. *)
IsTieHighest(u) ==
  /\ u \in DOMAIN neighbors[currNode]
  /\ PotentialCost(u) = ls_cost[node][u]
  /\ currNode > ls_predecessor[node][u]

(* Of several predecessors the lowest is kept, also if u is already known. *)
IsTie(u) ==
  /\ u \in DOMAIN neighbors[currNode]
  /\ PotentialCost(u) = ls_cost[node][u]
  /\ currNode < ls_predecessor[node][u]

Relax ==
  /\ pc = "relax"
  /\ ls_cost' = [ls_cost EXCEPT ![node] =
       [u \in vertices |-> IF IsBetter(u) THEN PotentialCost(u) ELSE @[u]]]
  /\ ls_predecessor' = [ls_predecessor EXCEPT ![node] =
       [u \in vertices |-> IF IsBetter(u) \/ IsTie(u) THEN currNode ELSE @[u]]]
  /\ pc' = "select"
  /\ UNCHANGED <<neighbors, todo, node, currNode, ls_known, table, message>>

(* Variant for testing TablesPrinted: a known vertex is selected again. *)
ReachedAgain == {u \in vertices : ls_cost[node][u] < INT_MAX}

Reached == {u \in vertices : ~ls_known[node][u] /\ ls_cost[node][u] < INT_MAX}

(* Variant for testing ShortestPaths: the lowest number is
   taken, whatever its cost. *)
NearestByNumber == Smallest(Reached)

(* The vertex of lowest cost, and of those the one of lowest number. *)
Nearest ==
  Smallest({u \in Reached :
              \A v \in Reached : ls_cost[node][u] <= ls_cost[node][v]})

Select ==
  /\ pc = "select" /\ Reached # {}
  /\ currNode' = Nearest
  /\ ls_known' = [ls_known EXCEPT ![node][Nearest] = TRUE]
  /\ pc' = "relax"
  /\ UNCHANGED <<neighbors, todo, node, ls_cost, ls_predecessor, table, message>>

NodeDone ==
  /\ pc = "select" /\ Reached = {}
  /\ pc' = "node"
  /\ UNCHANGED <<neighbors, todo, node, currNode, lsVars, table, message>>

------------------------------------------------------------------------------
(* printForwardingTableLS, sendMessagesLS *)

(***************************************************************************)
(* The vertices that the loops over the predecessors visit on their way    *)
(* back from dest.  A loop that does not get to start in as many steps as  *)
(* there are vertices never does.                                          *)
(***************************************************************************)
WayBack(start, dest) ==
  LET at[i \in 0 .. Cardinality(vertices)] ==
        IF i = 0 THEN dest
        ELSE IF at[i - 1] \in {start, None} THEN at[i - 1]
        ELSE ls_predecessor[start][at[i - 1]]
  IN  at

LoopEnds(start, dest) ==
  start \in {WayBack(start, dest)[i] : i \in DOMAIN WayBack(start, dest)}

StepsBack(start, dest) ==
  Smallest({i \in DOMAIN WayBack(start, dest) : WayBack(start, dest)[i] = start})

NextHop(start, dest) ==
  IF dest = start THEN dest
  ELSE WayBack(start, dest)[StepsBack(start, dest) - 1]

(* Variant for testing MessagesFollowTables: the hops are not reversed. *)
HopsNotReversed(start, dest) ==
  [i \in 1 .. StepsBack(start, dest) |-> WayBack(start, dest)[i]]

(* The vertices on the way from start to dest, dest excepted. *)
Hops(start, dest) ==
  [i \in 1 .. StepsBack(start, dest) |->
     WayBack(start, dest)[StepsBack(start, dest) - i + 1]]

Destinations(start) == {d \in vertices : ls_known[start][d]}

(* If the loop of one destination does not end, nothing more happens. *)
PrintTable ==
  /\ pc = "table"
  /\ \A start \in vertices : \A d \in Destinations(start) : LoopEnds(start, d)
  /\ table' = [start \in vertices |-> [d \in Destinations(start) |->
                 <<NextHop(start, d), ls_cost[start][d]>>]]
  /\ pc' = "messages"
  /\ UNCHANGED <<neighbors, todo, node, currNode, lsVars, message>>

SendMessage(v1, v2) ==
  /\ pc = "messages"
  /\ \/ /\ ls_known[v1][v2] /\ LoopEnds(v1, v2)
        /\ message' = Message(v1, v2, ls_cost[v1][v2], Hops(v1, v2))
     \/ /\ ~ls_known[v1][v2]
        /\ message' = Message(v1, v2, INT_MAX, <<>>)
  /\ UNCHANGED <<neighbors, pc, todo, node, currNode, lsVars, table>>

------------------------------------------------------------------------------
Compute ==
  \/ ClearTables \/ InitNode \/ AllNodesDone
  \/ Relax \/ Select \/ NodeDone
  \/ PrintTable

Next ==
  \/ \E line \in Lines : ReadTopology(line) \/ ReadChange(line)
  \/ EndOfTopology \/ EndOfChanges
  \/ Compute
  \/ \E v1, v2 \in vertices : SendMessage(v1, v2)

Spec == Init /\ [][Next]_vars

(* The computation itself never stops to wait for something. *)
FairSpec == Spec /\ WF_vars(Compute)

------------------------------------------------------------------------------
(* Properties *)

(* The tables have been computed, and stay the same until the next change. *)
Computed == pc = "table"

(* A vertex is selected only when its cost is that of a shortest path, and that
   cost stays; all of it in tables and over a topology that are well formed. *)
KnownIsFinal ==
  /\ TypeOK
  /\ pc \in {"relax", "select"} => \A u \in vertices :
       ls_known[node][u] => ls_cost[node][u] = Distances(node)[u]

(* In the end the costs of all vertices are those of shortest paths, and the
   known vertices are those that can be reached. *)
ShortestPaths ==
  Computed => \A v \in vertices : /\ ls_cost[v] = Distances(v)
                                  /\ Destinations(v) = {u \in vertices :
                                                          Distances(v)[u] < INT_MAX}

OnShortestPath(v, u, dest) ==
  /\ dest \in DOMAIN neighbors[u]
  /\ ls_cost[v][u] < INT_MAX
  /\ ls_cost[v][u] + neighbors[u][dest] = ls_cost[v][dest]

(* Of all the shortest paths to a vertex, the one is taken whose last hop has
   the lowest number, as the comments on the tie breakers ask for. *)
LowestPredecessor ==
  Computed => \A v \in vertices : \A dest \in Destinations(v) \ {v} :
    ls_predecessor[v][dest] =
      Smallest({u \in vertices : OnShortestPath(v, u, dest)})

(* "we need to loop until we find the start node" (graph.cpp:142): the start
   node is found. *)
StartIsFound ==
  Computed => \A v \in vertices : \A dest \in Destinations(v) : LoopEnds(v, dest)

(***************************************************************************)
(* The path that a vertex computes for a message is the one the message    *)
(* takes if every vertex on its way forwards it by its own table: the next *)
(* hop's own path to the destination is the rest of the path.              *)
(***************************************************************************)
PathsAgree ==
  pc = "messages" /\ message = NoMessage =>
   \A v \in vertices : \A dest \in DOMAIN table[v] \ {v} :
    LET hop == table[v][dest][1]
    IN  /\ hop \in DOMAIN neighbors[v] /\ dest \in DOMAIN table[hop]
        /\ table[v][dest][2] = neighbors[v][hop] + table[hop][dest][2]
        /\ Hops(v, dest) = <<v>> \o Hops(hop, dest)

(* The hops that are printed with a message are joined by edges, from the
   sender to the receiver, whose weights add up to the printed cost. *)
MessageCosts ==
  message.cost < INT_MAX =>
    LET path == Append(message.hops, message.to)
        upTo[i \in 1 .. Len(path)] ==
          IF i = 1 THEN 0 ELSE upTo[i - 1] + neighbors[path[i - 1]][path[i]]
    IN  /\ path[1] = message.from
        /\ \A i \in 2 .. Len(path) : path[i] \in DOMAIN neighbors[path[i - 1]]
        /\ upTo[Len(path)] = message.cost

(* Every vertex computes its paths by itself, and still all the paths, tables
   and messages that are printed fit together: forwarded hop by hop, a message
   takes the printed path at the printed cost. *)
MessagesFollowTables == PathsAgree /\ MessageCosts

(* Every computation ends with the tables printed. *)
TablesPrinted == pc = "linkState" ~> pc = "messages"
==============================================================================
