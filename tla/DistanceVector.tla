--------------------------- MODULE DistanceVector ---------------------------
(***************************************************************************)
(* Distance vector routing of mp3 (distvec.cpp, Graph::distanceVector of   *)
(* graph.cpp).  After the topology was read, and again after every change  *)
(* of it, every vertex starts with a table of its neighbours and sends it  *)
(* to them; whenever a table changes it is sent again.  A message of the   *)
(* queue names the sender and the receiver only: the receiver looks at the *)
(* sender's table as it is when the message is taken out.                  *)
(***************************************************************************)
EXTENDS RouteGraph, Sequences

VARIABLES
  pc,
  q,                     \* the queue of <<sender, receiver>>
  dv_cost, dv_next_hop,  \* one table per vertex
  message                \* the last line printed about a message

dvVars == <<dv_cost, dv_next_hop>>
vars == <<neighbors, pc, q, dvVars, message>>

Message(from, to, cost, hops) ==
  [from |-> from, to |-> to, cost |-> cost, hops |-> hops]

NoMessage == Message(-1, -1, INT_MAX, <<>>)

TypeOK ==
  /\ NeighborsType
  /\ pc \in {"topology", "distanceVector", "receive", "messages", "end"}
  /\ q \in Seq({e \in vertices \X vertices : e[2] \in DOMAIN neighbors[e[1]]})
  /\ DOMAIN dv_cost \subseteq vertices /\ DOMAIN dv_next_hop = DOMAIN dv_cost
  /\ \A v \in DOMAIN dv_cost :
       /\ DOMAIN dv_cost[v] \subseteq vertices
       /\ dv_cost[v] \in [DOMAIN dv_cost[v] -> 0 .. INT_MAX - 1]
       /\ dv_next_hop[v] \in [DOMAIN dv_cost[v] -> vertices]
  /\ message.hops \in Seq(vertices)

Init ==
  /\ neighbors = <<>>
  /\ pc = "topology"
  /\ q = <<>>
  /\ dv_cost = <<>> /\ dv_next_hop = <<>>
  /\ message = NoMessage

------------------------------------------------------------------------------
(* main *)

ReadTopology(line) ==
  /\ pc = "topology"
  /\ AddElements(line)
  /\ UNCHANGED <<pc, q, dvVars, message>>

EndOfTopology ==
  /\ pc = "topology"
  /\ pc' = "distanceVector"
  /\ UNCHANGED <<neighbors, q, dvVars, message>>

ReadChange(line) ==
  /\ pc = "messages"
  /\ AddElements(line)
  /\ pc' = "distanceVector"
  /\ message' = NoMessage
  /\ UNCHANGED <<q, dvVars>>

EndOfChanges ==
  /\ pc = "messages"
  /\ pc' = "end"
  /\ message' = NoMessage
  /\ UNCHANGED <<neighbors, q, dvVars>>

------------------------------------------------------------------------------
(* distanceVector *)

Before(a, b) == a[1] < b[1] \/ (a[1] = b[1] /\ a[2] < b[2])

(* The messages of some vertices to their neighbours, in the order of the loops
   over them. *)
MessagesOf(senders) ==
  LET messages == {e \in senders \X vertices : e[2] \in DOMAIN neighbors[e[1]]}
  IN  [i \in 1 .. Cardinality(messages) |->
         CHOOSE e \in messages :
           Cardinality({d \in messages : Before(d, e)}) = i - 1]

StartTables ==
  /\ pc = "distanceVector"
  /\ dv_cost' = [v \in vertices |-> Put(neighbors[v], v, 0)]
  /\ dv_next_hop' = [v \in vertices |-> [u \in DOMAIN neighbors[v] \cup {v} |-> u]]
  /\ q' = MessagesOf(vertices)
  /\ pc' = "receive"
  /\ UNCHANGED <<neighbors, message>>

(* Variant for testing CostsAreOfPaths: the weight of the edge is forgotten. *)
OfferNoEdge(sender, receiver, dst) == dv_cost[sender][dst]

Offer(sender, receiver, dst) == neighbors[sender][receiver] + dv_cost[sender][dst]

(* Variant for testing RoutesSettle: an equal cost is taken over too. *)
ImprovedOrEqual(sender, receiver) ==
  {dst \in DOMAIN dv_cost[sender] \ {receiver} :
     dst \in DOMAIN dv_cost[receiver] =>
       Offer(sender, receiver, dst) <= dv_cost[receiver][dst]}

(* Variant for testing ShortestPaths: a known destination is not improved. *)
ImprovedNewOnly(sender, receiver) ==
  {dst \in DOMAIN dv_cost[sender] \ {receiver} : dst \notin DOMAIN dv_cost[receiver]}

(* The destinations that the receiver does not know or at a higher cost. *)
Improved(sender, receiver) ==
  {dst \in DOMAIN dv_cost[sender] \ {receiver} :
     dst \in DOMAIN dv_cost[receiver] =>
       Offer(sender, receiver, dst) < dv_cost[receiver][dst]}

(* Variant for testing PendingUpdates: only news of new destinations is sent. *)
BroadcastIfNew(sender, receiver) ==
  IF Improved(sender, receiver) \subseteq DOMAIN dv_cost[receiver] THEN <<>>
  ELSE MessagesOf({receiver})

Broadcast(sender, receiver) ==
  IF Improved(sender, receiver) = {} THEN <<>> ELSE MessagesOf({receiver})

(* Variant for testing NextHopsLead: the next hop of a known destination is not
   updated. *)
ReceiveKeepsHop ==
  /\ pc = "receive" /\ q # <<>>
  /\ LET sender == Head(q)[1]
         receiver == Head(q)[2]
         new == Improved(sender, receiver)
     IN  /\ dv_cost' = [dv_cost EXCEPT ![receiver] =
              [dst \in DOMAIN @ \cup new |->
                 IF dst \in new THEN Offer(sender, receiver, dst) ELSE @[dst]]]
         /\ dv_next_hop' = [dv_next_hop EXCEPT ![receiver] =
              [dst \in DOMAIN @ \cup new |-> IF dst \in DOMAIN @ THEN @[dst] ELSE sender]]
         /\ q' = Tail(q) \o Broadcast(sender, receiver)
  /\ UNCHANGED <<neighbors, pc, message>>

Receive ==
  /\ pc = "receive" /\ q # <<>>
  /\ LET sender == Head(q)[1]
         receiver == Head(q)[2]
         new == Improved(sender, receiver)
     IN  /\ dv_cost' = [dv_cost EXCEPT ![receiver] =
              [dst \in DOMAIN @ \cup new |->
                 IF dst \in new THEN Offer(sender, receiver, dst) ELSE @[dst]]]
         /\ dv_next_hop' = [dv_next_hop EXCEPT ![receiver] =
              [dst \in DOMAIN @ \cup new |-> IF dst \in new THEN sender ELSE @[dst]]]
         /\ q' = Tail(q) \o Broadcast(sender, receiver)
  /\ UNCHANGED <<neighbors, pc, message>>

(* The queue is empty: printForwardingTableDV prints the tables as they are. *)
PrintTable ==
  /\ pc = "receive" /\ q = <<>>
  /\ pc' = "messages"
  /\ UNCHANGED <<neighbors, q, dvVars, message>>

------------------------------------------------------------------------------
(* sendMessagesDV *)

(***************************************************************************)
(* Where the loop over the next hops is after every turn.  If it does not  *)
(* get to its destination in as many turns as there are vertices it never  *)
(* does.                                                                   *)
(***************************************************************************)
Way(from, to) ==
  LET at[i \in 0 .. Cardinality(vertices)] ==
        IF i = 0 THEN from
        ELSE IF at[i - 1] = to THEN to
        ELSE dv_next_hop[at[i - 1]][to]
  IN  at

Arrives(from, to) == to \in {Way(from, to)[i] : i \in DOMAIN Way(from, to)}

(* The vertices on the way, the destination excepted. *)
Hops(from, to) ==
  LET turns == Smallest({i \in DOMAIN Way(from, to) : Way(from, to)[i] = to})
  IN  [i \in 1 .. turns |-> Way(from, to)[i - 1]]

SendMessage(v1, v2) ==
  /\ pc = "messages"
  /\ \/ /\ v2 \in DOMAIN dv_cost[v1] /\ Arrives(v1, v2)
        /\ message' = Message(v1, v2, dv_cost[v1][v2], Hops(v1, v2))
     \/ /\ v2 \notin DOMAIN dv_cost[v1]
        /\ message' = Message(v1, v2, INT_MAX, <<>>)
  /\ UNCHANGED <<neighbors, pc, q, dvVars>>

------------------------------------------------------------------------------
Compute == StartTables \/ Receive \/ PrintTable

Next ==
  \/ \E line \in Lines : ReadTopology(line) \/ ReadChange(line)
  \/ EndOfTopology \/ EndOfChanges
  \/ Compute
  \/ \E v1, v2 \in vertices : SendMessage(v1, v2)

Spec == Init /\ [][Next]_vars

(* The computation itself never stops to wait for something. *)
FairSpec == Spec /\ WF_vars(Compute)

------------------------------------------------------------------------------
(* Properties *)

Computing == pc = "receive"

(* The entries of the tables, by vertex and destination. *)
Entries == {e \in vertices \X vertices : e[2] \in DOMAIN dv_cost[e[1]]}

(* At no time does a table promise less than a shortest path costs, or a way to
   a vertex that cannot be reached. *)
CostsAreOfPaths ==
  Computing => \A v \in vertices :
    LET shortest == Distances(v)
    IN  \A u \in DOMAIN dv_cost[v] : shortest[u] <= dv_cost[v][u]

(* What a vertex has not yet told a neighbour who could use it is on its way: a
   message from the one to the other is in the queue. *)
PendingUpdates ==
  Computing => \A v \in vertices : \A u \in DOMAIN neighbors[v] :
    Improved(v, u) # {} => <<v, u>> \in {q[i] : i \in 1 .. Len(q)}

(* At any time the next hop of a table entry is a neighbour that knows the
   destination too, at a cost that the entry covers; and the tables and the
   queue hold vertices and neighbours of this topology only. *)
NextHopsLead ==
  /\ TypeOK
  /\ Computing => \A e \in Entries : e[1] # e[2] =>
       LET hop == dv_next_hop[e[1]][e[2]]
       IN  /\ hop \in DOMAIN neighbors[e[1]] /\ <<hop, e[2]>> \in Entries
           /\ neighbors[e[1]][hop] + dv_cost[hop][e[2]] <= dv_cost[e[1]][e[2]]

(* The next hops never form a loop, not even while the tables are out of date,
   and not even over edges of weight 0. *)
NoRoutingLoops ==
  Computing => \A e \in Entries : Arrives(e[1], e[2])

(* The hops that are printed with a message are joined by edges, from the
   sender to the receiver, whose weights add up to the printed cost. *)
MessageCosts ==
  message.cost < INT_MAX =>
    LET path == Append(message.hops, message.to)
        upTo[i \in 1 .. Len(path)] ==
          IF i = 1 THEN 0 ELSE upTo[i - 1] + neighbors[path[i - 1]][path[i]]
    IN  /\ path[1] = message.from
        /\ \A i \in 2 .. Len(path) : path[i] \in DOMAIN neighbors[path[i - 1]]
        /\ upTo[Len(path)] = message.cost

(* When the queue is empty every vertex knows exactly the vertices that it can
   reach, at the cost of a shortest path; and the messages take such paths. *)
ShortestPaths ==
  /\ Computing /\ q = <<>> =>
       \A v \in vertices :
         LET shortest == Distances(v)
         IN  \A u \in vertices : IF <<v, u>> \in Entries
                                  THEN dv_cost[v][u] = shortest[u]
                                  ELSE shortest[u] = INT_MAX
  /\ MessageCosts

(* The queue becomes empty: after every change the routes settle. *)
RoutesSettle == pc = "distanceVector" ~> pc = "messages"
==============================================================================
