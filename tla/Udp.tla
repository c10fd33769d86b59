--------------------------------- MODULE Udp ---------------------------------
(***************************************************************************)
(* The datagram service between the senders and receivers of mp_tcp and    *)
(* mp2, and the fields of their packet header that are used.  The code     *)
(* reaches it through UDP::send and UDP::recv (sendto and recvfrom).       *)
(*                                                                         *)
(* Each direction is the set of all datagrams ever sent.  Receiving one    *)
(* leaves it there, and nothing forces its reception: a datagram may be    *)
(* received late, out of order, several times or, when it is lost, never.  *)
(***************************************************************************)
EXTENDS Integers, Sequences

CONSTANT INT_MAX  \* the largest int (2^31 - 1)

ASSUME IntMaxAssumption == INT_MAX \in Nat

VARIABLES
  dataNet,  \* datagrams sent to the receiver
  ackNet    \* datagrams sent to the sender

netVars == <<dataNet, ackNet>>

(***************************************************************************)
(* Conversions of a uint64_t to the 4-byte header fields and to an int.    *)
(***************************************************************************)
WORD == 2 * (INT_MAX + 1)

UInt32(n) == n % WORD

AsInt(n) == IF UInt32(n) <= INT_MAX THEN UInt32(n) ELSE UInt32(n) - WORD

(***************************************************************************)
(* The flags field as the set of the bits that are on.                     *)
(***************************************************************************)
FLAG_ACK == "ACK"
FLAG_FIN == "FIN"

DataPacket(seq, data) == [flags |-> {}, seq |-> UInt32(seq), data |-> data]
FinPacket    == [flags |-> {FLAG_FIN}, seq |-> 0, data |-> <<>>]
AckPacket(n) == [flags |-> {FLAG_ACK}, ack |-> n]
FinAckPacket == [flags |-> {FLAG_FIN, FLAG_ACK}, ack |-> 0]

NetInit == dataNet = {} /\ ackNet = {}

SendToReceiver(m) == dataNet' = dataNet \cup {m} /\ UNCHANGED ackNet

SendToSender(m) == ackNet' = ackNet \cup {m} /\ UNCHANGED dataNet

NetType ==
  /\ dataNet \subseteq [flags: SUBSET {FLAG_FIN}, seq: Nat, data: Seq(Nat)]
  /\ ackNet \subseteq [flags: SUBSET {FLAG_FIN, FLAG_ACK}, ack: Nat]
==============================================================================
