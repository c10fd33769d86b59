--------------------------- MODULE WindowTransfer ---------------------------
(***************************************************************************)
(* The transfer of mp2 with a window (tcp.h, sender.cpp, receiver.cpp).    *)
(* The sender is one thread: it fills a window, sends all of it again and  *)
(* again until every packet is acknowledged, and fills the next one.       *)
(* packets_sent maps every number to the same buffer, to_send, so that     *)
(* all packets of a window carry the bytes that were read last.            *)
(*                                                                         *)
(* The receiver has the two threads of that of mp_tcp (Receiver), but      *)
(* sends its FINACK once, which the network may repeat.                    *)
(***************************************************************************)
EXTENDS Receiver, FiniteSetsExt

CONSTANTS
  File,        \* the bytes of the file to send
  bytesAsked,  \* the last argument of the sender
  DATASIZE,    \* payload bytes of a full packet (1460)
  HEADERSIZE   \* bytes of a header (12)

ASSUME WtFileAssumption == File \in Seq(Nat)
ASSUME WtAskedAssumption == bytesAsked \in Nat
ASSUME WtSizeAssumption == DATASIZE \in Nat \ {0} /\ HEADERSIZE \in Nat
(* Every byte of the file has a number of its own in the 4-byte header. *)
ASSUME NumbersSuffice == Len(File) < WORD

VARIABLES
  sndPc,         \* where the sender is
  seqNum,        \* header.seqNum, the number of the next packet
  totSentSoFar,  \* an unsigned int; counts headers and repetitions too
  filePos,       \* the position of the sender in the file
  to_send,       \* the pkt_length bytes of the buffer
  packets_sent,  \* the numbers in the map
  unsent,        \* those that the loop over the map has not reached yet
  sendBase, cwnd,
  resendPackets, stopSending,
  overwritten    \* history: was the buffer read into for a second packet?

senderVars == <<sndPc, seqNum, totSentSoFar, filePos, to_send, packets_sent,
                unsent, sendBase, cwnd, resendPackets, stopSending, overwritten>>
vars == <<senderVars, receiverVars, netVars>>

Smaller(a, b) == IF a <= b THEN a ELSE b

bytesToTransfer == Smaller(bytesAsked, Len(File))

SenderType ==
  /\ sndPc \in {"loop", "read", "send", "select", "fin", "finselect", "end"}
  /\ seqNum \in Nat /\ totSentSoFar \in 0 .. WORD - 1
  /\ filePos \in 0 .. Len(File)
  /\ to_send \in Seq(Nat) /\ Len(to_send) <= DATASIZE
  /\ packets_sent \subseteq Nat /\ unsent \subseteq packets_sent
  /\ sendBase \in Nat /\ cwnd \in Nat
  /\ resendPackets \in BOOLEAN /\ stopSending \in BOOLEAN
  /\ overwritten \in BOOLEAN

TypeOK == NetType /\ ReceiverType /\ SenderType

Init ==
  /\ NetInit /\ ReceiverInit
  /\ sndPc = "loop"
  /\ seqNum = 0 /\ totSentSoFar = 0 /\ filePos = 0
  /\ to_send = <<>> /\ packets_sent = {} /\ unsent = {}
  /\ sendBase = 0 /\ cwnd = DATASIZE
  /\ resendPackets = FALSE /\ stopSending = FALSE
  /\ overwritten = FALSE

------------------------------------------------------------------------------
(* senderSendData: the outer loop and the filling of the window *)

Round ==
  /\ sndPc = "loop"
  /\ sndPc' = IF totSentSoFar < bytesToTransfer THEN "read" ELSE "fin"
  /\ UNCHANGED <<seqNum, totSentSoFar, filePos, to_send, packets_sent, unsent,
                 sendBase, cwnd, resendPackets, stopSending, overwritten, netVars>>

WindowOpen ==
  /\ seqNum >= sendBase /\ seqNum < UInt32(sendBase + cwnd)
  /\ ~resendPackets /\ ~stopSending

(* What fread(to_send.packet, DATASIZE) gets: nothing at the end of the file,
   where the window stays open for ever. *)
NextPart ==
  SubSeq(File, filePos + 1, Smaller(filePos + DATASIZE, Len(File)))

ReadPart ==
  /\ sndPc = "read" /\ WindowOpen
  /\ LET left == bytesToTransfer - totSentSoFar
         size == Smaller(Len(NextPart), left)
     IN  /\ to_send' = SubSeq(NextPart, 1, size)
         /\ stopSending' = (Len(NextPart) > left)
         /\ seqNum' = UInt32(seqNum + size)
  /\ filePos' = filePos + Len(NextPart)
  /\ packets_sent' = packets_sent \cup {seqNum}
  /\ overwritten' = (overwritten \/ packets_sent # {})
  /\ UNCHANGED <<sndPc, totSentSoFar, unsent, sendBase, cwnd, resendPackets, netVars>>

(* The head of the loop that sends the window until it is empty. *)
SendAll(packets) ==
  /\ packets_sent' = packets /\ unsent' = packets
  /\ sndPc' = IF packets = {} THEN "loop" ELSE "send"

WindowFilled ==
  /\ sndPc = "read" /\ ~WindowOpen
  /\ SendAll(packets_sent)
  /\ UNCHANGED <<seqNum, totSentSoFar, filePos, to_send,
                 sendBase, cwnd, resendPackets, stopSending, overwritten, netVars>>

------------------------------------------------------------------------------
(* senderSendData: sending the window *)

(* The map is unordered, so its packets go out in any order. *)
SendPacket(s) ==
  /\ sndPc = "send" /\ s \in unsent
  /\ SendToReceiver(DataPacket(s, to_send))
  /\ totSentSoFar' = UInt32(totSentSoFar + HEADERSIZE + Len(to_send))
  /\ unsent' = unsent \ {s}
  /\ sndPc' = IF unsent' = {} THEN "select" ELSE "send"
  /\ UNCHANGED <<seqNum, filePos, to_send, packets_sent,
                 sendBase, cwnd, resendPackets, stopSending, overwritten>>

(* Variant for testing AckedIsAccepted: the packet that the ACK asks for is
   erased too. *)
AckedOneMore(ack) == {s \in packets_sent : s <= ack}

(* The packets that the loop over min_elem erases. *)
Acked(ack) == {s \in packets_sent : s + Len(to_send) <= ack}

(* Variant for testing ClosedWithAll: the first useful ACK ends the round. *)
GotAckOfWindow(m) ==
  /\ sndPc = "select" /\ m \in ackNet
  /\ LET acked == Acked(m.ack)
     IN  /\ SendAll(IF acked # {} THEN {} ELSE packets_sent)
         /\ sendBase' = sendBase + Cardinality(acked) * Len(to_send)
         /\ cwnd' = IF acked # {} THEN cwnd + DATASIZE ELSE cwnd
         /\ resendPackets' = (resendPackets /\ m.ack < Min(packets_sent))
  /\ UNCHANGED <<seqNum, totSentSoFar, filePos, to_send, stopSending, overwritten, netVars>>

GotAck(m) ==
  /\ sndPc = "select" /\ m \in ackNet
  /\ LET acked == Acked(m.ack)
     IN  /\ SendAll(packets_sent \ acked)
         /\ sendBase' = sendBase + Cardinality(acked) * Len(to_send)
         /\ cwnd' = IF acked # {} THEN cwnd + DATASIZE ELSE cwnd
         /\ resendPackets' = (resendPackets /\ m.ack < Min(packets_sent))
  /\ UNCHANGED <<seqNum, totSentSoFar, filePos, to_send, stopSending, overwritten, netVars>>

(* Variant for testing WindowsAcked: nothing is sent again. *)
NoAckWaits ==
  /\ sndPc = "select"
  /\ UNCHANGED vars

(* The window shrinks, but what it holds stays and is sent again. *)
NoAck ==
  /\ sndPc = "select"
  /\ SendAll(packets_sent)
  /\ resendPackets' = TRUE
  /\ cwnd' = DATASIZE
  /\ UNCHANGED <<seqNum, totSentSoFar, filePos, to_send, sendBase,
                 stopSending, overwritten, netVars>>

------------------------------------------------------------------------------
(* senderCloseConnection *)

Closing(from, to) ==
  /\ sndPc = from /\ sndPc' = to
  /\ UNCHANGED <<seqNum, totSentSoFar, filePos, to_send, packets_sent, unsent,
                 sendBase, cwnd, resendPackets, stopSending, overwritten>>

SendFin == Closing("fin", "finselect") /\ SendToReceiver(FinPacket)

(* flags & (FLAG_FIN | FLAG_ACK): any late ACK passes for the FINACK. *)
GotFinAck(m) ==
  /\ m \in ackNet /\ m.flags \cap {FLAG_FIN, FLAG_ACK} # {}
  /\ Closing("finselect", "end") /\ UNCHANGED netVars

NoFinAck == Closing("finselect", "fin") /\ UNCHANGED netVars

SenderStep ==
  \/ Round \/ ReadPart \/ WindowFilled
  \/ \E s \in packets_sent : SendPacket(s)
  \/ \E m \in ackNet : GotAck(m) \/ GotFinAck(m)
  \/ NoAck \/ SendFin \/ NoFinAck

------------------------------------------------------------------------------
(* The receiver *)

receiverReceiveData == ReceiveData
receiverSendACK == SendACK

Sending(A) == A /\ UNCHANGED receiverVars
Receiving(A) == A /\ UNCHANGED senderVars

Next == Sending(SenderStep) \/ Receiving(receiverReceiveData \/ receiverSendACK)

Spec == Init /\ [][Next]_vars

------------------------------------------------------------------------------
(* Properties *)

(* Every byte in the output is the one that belongs there or, once a window of
   several packets was filled, one from further on in the file: however
   packets are repeated and delayed, none of an earlier window is written in
   the place of a later one. *)
NothingFromBefore ==
  \A i \in 1 .. Len(outfile) : \E place \in i .. Len(File) :
    /\ outfile[i] = File[place]
    /\ ~overwritten => place = i

(* The sender counts as acknowledged only what the receiver has accepted, and
   leaves the loop, however many bytes it counted as sent, only when the
   receiver has everything that was numbered. *)
AckedIsAccepted ==
  /\ TypeOK
  /\ sendBase <= bytesRcvdSoFar
  /\ sndPc \in {"fin", "finselect", "end"} => bytesRcvdSoFar >= seqNum

(* The receiver closes its file with exactly the bytes that the sender
   numbered, all of them written. *)
ClosedWithAll == rx.pc \in {"fin", "close", "exit"} => Len(outfile) = seqNum

------------------------------------------------------------------------------
(* Progress *)

First == IF packets_sent = {} THEN seqNum ELSE Min(packets_sent)

SendFirst == Sending(SendPacket(First))
RxFirst == Receiving(\E m \in dataNet : m.seq = First /\ RxData(m))
SaSendLatest == Receiving(SaSend /\ sa.rcvdSoFar = bytesRcvdSoFar)
GotLatest == Sending(\E m \in ackNet : m.ack = bytesRcvdSoFar /\ GotAck(m))

(***************************************************************************)
(* All threads run.  A packet that is sent again and again arrives again   *)
(* and again, and so does an ACK as long as the sender keeps listening.    *)
(* (Packets are erased finitely often, so if the first one of the window   *)
(* is sent for ever, that is one packet in the end; and so with ACKs.)     *)
(***************************************************************************)
FairSpec ==
  /\ Spec
  /\ WF_vars(Sending(SenderStep))
  /\ WF_vars(Receiving(RxPush \/ RxWrite))
  /\ WF_vars(Receiving(receiverSendACK))
  /\ []<><<SendFirst>>_vars => []<><<RxFirst>>_vars
  /\ []<><<SaSendLatest>>_vars => []<><<GotLatest>>_vars \/ <>[](sndPc # "select")

(* Every window whose last packet is full is acknowledged in the end, whatever
   is lost, although all its packets share one length. *)
WindowsAcked ==
  sndPc = "select" /\ Len(to_send) = DATASIZE ~> packets_sent = {}
==============================================================================
