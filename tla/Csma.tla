-------------------------------- MODULE Csma --------------------------------
(***************************************************************************)
(* The CSMA simulation of mp4 (csma.py).  In every tick the nodes look at  *)
(* their counters: if none is 0 all count down, if one is 0 that node      *)
(* transmits for L ticks, and if several are 0 they collide and draw new   *)
(* counters from a wider range.                                            *)
(*                                                                         *)
(* idleTicks and streak are history variables: the program does not have   *)
(* them, the properties speak of them.                                     *)
(***************************************************************************)
EXTENDS Integers, Sequences, FiniteSetsExt

CONSTANTS
  N,  \* the number of nodes
  L,  \* the ticks that a transmission takes
  R,  \* the ranges of the counters; the program's R[0] is R[1] here
  M,  \* after M - 1 collisions in a row the range is the first one again
  T   \* the number of ticks

ASSUME NodesAssumption == N \in Nat /\ L \in Nat \ {0} /\ T \in Nat
ASSUME RangesAssumption == R \in Seq(Nat) /\ Len(R) > 0
ASSUME RangesSuffice == M \in Nat /\ M >= 2 /\ Len(R) >= M - 1

Nodes == 0 .. N - 1

VARIABLES
  tick,
  channelBusy, transmissionTime,
  counter, backoffIdx, collisions, successes,  \* the fields of the nodes
  out_channelUtil, out_collisions,
  idleTicks,  \* the ticks so far in which no node transmitted
  streak      \* for every node, its collisions since its last success

nodeVars == <<counter, backoffIdx, collisions, successes, streak>>
outVars == <<out_channelUtil, out_collisions, idleTicks>>
vars == <<tick, channelBusy, transmissionTime, nodeVars, outVars>>

TypeOK ==
  /\ tick \in 0 .. T
  /\ channelBusy \in BOOLEAN /\ transmissionTime \in 0 .. L - 1
  /\ counter \in [Nodes -> Nat]
  /\ backoffIdx \in [Nodes -> 0 .. Len(R) - 1]
  /\ collisions \in [Nodes -> Nat] /\ successes \in [Nodes -> Nat]
  /\ out_channelUtil \in Nat /\ out_collisions \in Nat /\ idleTicks \in Nat
  /\ streak \in [Nodes -> Nat]

(* What random.randint(0, params["R"][index]) may return. *)
Draw(index) == 0 .. R[index + 1]

Init ==
  /\ tick = 0
  /\ channelBusy = FALSE /\ transmissionTime = 0
  /\ counter \in [Nodes -> Draw(0)]
  /\ backoffIdx = [i \in Nodes |-> 0]
  /\ collisions = [i \in Nodes |-> 0] /\ successes = [i \in Nodes |-> 0]
  /\ out_channelUtil = 0 /\ out_collisions = 0 /\ idleTicks = 0
  /\ streak = [i \in Nodes |-> 0]

(* collisionsIdx of the program *)
Transmitters == {i \in Nodes : counter[i] = 0}

------------------------------------------------------------------------------
Tick ==
  /\ tick < T
  /\ tick' = tick + 1

(* Variant for testing TicksAddUp: transmissionTime is not reset. *)
BusyTickNoReset ==
  /\ Tick /\ channelBusy
  /\ out_channelUtil' = out_channelUtil + 1
  /\ transmissionTime' = transmissionTime + 1
  /\ channelBusy' = (transmissionTime + 1 # L)
  /\ UNCHANGED <<nodeVars, out_collisions, idleTicks>>

BusyTick ==
  /\ Tick /\ channelBusy
  /\ out_channelUtil' = out_channelUtil + 1
  /\ IF transmissionTime + 1 = L
     THEN transmissionTime' = 0 /\ channelBusy' = FALSE
     ELSE transmissionTime' = transmissionTime + 1 /\ UNCHANGED channelBusy
  /\ UNCHANGED <<nodeVars, out_collisions, idleTicks>>

IdleTick ==
  /\ Tick /\ ~channelBusy
  /\ Transmitters = {}
  /\ counter' = [i \in Nodes |-> counter[i] - 1]
  /\ idleTicks' = idleTicks + 1
  /\ UNCHANGED <<channelBusy, transmissionTime, backoffIdx, collisions, successes,
                 streak, out_channelUtil, out_collisions>>

(* Variant for testing BackoffFollowsStreak: the index is not reset. *)
SuccessKeepsIndex(i) ==
  /\ Tick /\ ~channelBusy
  /\ Transmitters = {i}
  /\ channelBusy' = TRUE
  /\ \E drawn \in Draw(0) : counter' = [counter EXCEPT ![i] = drawn]
  /\ successes' = [successes EXCEPT ![i] = @ + 1]
  /\ streak' = [streak EXCEPT ![i] = 0]
  /\ UNCHANGED <<transmissionTime, backoffIdx, collisions, outVars>>

Success(i) ==
  /\ Tick /\ ~channelBusy
  /\ Transmitters = {i}
  /\ channelBusy' = TRUE
  /\ backoffIdx' = [backoffIdx EXCEPT ![i] = 0]
  /\ \E drawn \in Draw(0) : counter' = [counter EXCEPT ![i] = drawn]
  /\ successes' = [successes EXCEPT ![i] = @ + 1]
  /\ streak' = [streak EXCEPT ![i] = 0]
  /\ UNCHANGED <<transmissionTime, collisions, outVars>>

(* The index of a node after a collision. *)
NextIndex(i) == IF backoffIdx[i] + 1 = M - 1 THEN 0 ELSE backoffIdx[i] + 1

(* Variant for testing CountersInRange: the range of the old index is used. *)
NewCountersOldRange ==
  {drawn \in [Transmitters -> UNION {Draw(backoffIdx[i]) : i \in Transmitters}] :
     \A i \in Transmitters : drawn[i] \in Draw(backoffIdx[i])}

(* What the colliding nodes may draw. *)
NewCounters ==
  {drawn \in [Transmitters -> UNION {Draw(NextIndex(i)) : i \in Transmitters}] :
     \A i \in Transmitters : drawn[i] \in Draw(NextIndex(i))}

Collision ==
  /\ Tick /\ ~channelBusy
  /\ Cardinality(Transmitters) > 1
  /\ \E drawn \in NewCounters :
       counter' = [i \in Nodes |->
         IF i \in Transmitters THEN drawn[i] ELSE counter[i] - 1]
  /\ backoffIdx' = [i \in Nodes |->
       IF i \in Transmitters THEN NextIndex(i) ELSE backoffIdx[i]]
  /\ collisions' = [i \in Nodes |->
       IF i \in Transmitters THEN collisions[i] + 1 ELSE collisions[i]]
  /\ streak' = [i \in Nodes |->
       IF i \in Transmitters THEN streak[i] + 1 ELSE streak[i]]
  /\ out_collisions' = out_collisions + 1
  /\ UNCHANGED <<channelBusy, transmissionTime, successes, out_channelUtil, idleTicks>>

------------------------------------------------------------------------------
Next == BusyTick \/ IdleTick \/ (\E i \in Nodes : Success(i)) \/ Collision

Spec == Init /\ [][Next]_vars

------------------------------------------------------------------------------
(* Properties *)

(* A counter is never negative and never beyond the range of the node's present
   backoff index, whatever collisions, resets and successes came before; the
   index stays in the list R. *)
CountersInRange == TypeOK /\ \A i \in Nodes : counter[i] \in Draw(backoffIdx[i])

(* The backoff index counts the collisions since the last success, and starts
   again after every M - 1 of them. *)
BackoffFollowsStreak == \A i \in Nodes : backoffIdx[i] = streak[i] % (M - 1)

Sum(f) == MapThenSumSet(LAMBDA i : f[i], Nodes)

(* The ticks add up, whenever the simulation stops: the utilisation is L ticks
   for every success, less what the transmission of this moment has not used
   yet, and every tick is counted once: as idle, as a collision, as used, or as
   the tick in which a transmission was decided. *)
TicksAddUp ==
  /\ out_channelUtil =
       L * Sum(successes) - (IF channelBusy THEN L - transmissionTime ELSE 0)
  /\ tick = idleTicks + out_collisions + out_channelUtil + Sum(successes)
==============================================================================
