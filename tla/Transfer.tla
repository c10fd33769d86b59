------------------------------ MODULE Transfer ------------------------------
(***************************************************************************)
(* A file transfer of mp_tcp: the sending and the receiving process over   *)
(* datagrams that can be lost, duplicated and reordered.                   *)
(***************************************************************************)
EXTENDS Sender, Receiver

vars == <<senderVars, receiverVars, netVars>>

Init == NetInit /\ SenderInit /\ ReceiverInit

SendingProcess == SenderStep /\ UNCHANGED receiverVars

ReceivingProcess == ReceiverStep /\ UNCHANGED senderVars

Next == SendingProcess \/ ReceivingProcess

Spec == Init /\ [][Next]_vars

TypeOK == NetType /\ SenderType /\ ReceiverType

------------------------------------------------------------------------------
(* Safety of the transfer *)

(* The output file, at any moment, is a prefix of the input file. *)
InOrder ==
  /\ Len(outfile) <= Len(File)
  /\ outfile = SubSeq(File, 1, Len(outfile))

(* Whatever is lost, repeated or reordered, and however the three sender
   threads interleave with timeouts, the receiver writes a prefix of the file,
   unless a timeout has released cc_mtx while another thread held it. *)
OutfilePrefix == ~stolen => InOrder

(* The sender erases a packet only when the receiver is past it: as long as
   loaded data is missing at the receiver, the packet it waits for is still in
   cwnd (unless the mutex was stolen), so that a timeout can send it again. *)
MissingPacketKept ==
  ~stolen /\ bytesRcvdSoFar < readSoFar => bytesRcvdSoFar \in DOMAIN cwnd

(* sendBase can overshoot the acknowledged position, which it reaches in whole
   packets, but never by a whole packet. *)
BaseNotPastReceiver == sendBase < bytesRcvdSoFar + DATASIZE

(* A transfer that gets as far as INT_MAX stops there, because updateWindow
   counts in an int; so no number that goes into a 4-byte header field, and no
   nextSeqNum that is converted to an int, has lost bits. *)
NumbersFit ==
  ~stolen => /\ \A s \in DOMAIN cwnd : s <= INT_MAX /\ cwnd[s].seq = s
             /\ nextSeqNum <= INT_MAX + DATASIZE
             /\ bytesRcvdSoFar <= INT_MAX + DATASIZE

(* The acknowledgements in the queue, in sendACK, on the network and in recvACK
   never exceed what the receiver has accepted, and so isDone means that the
   receiver has accepted all the bytes that were to be transferred. *)
DoneMeansAccepted ==
  isDone => /\ bytesRcvdSoFar >= totalSize
            /\ ~stolen => readSoFar >= totalSize

(* At most one thread works on the shared object while cc_mtx was never
   released by a thread that did not hold it (the timeout's own writes,
   which take no lock, excepted). *)
Holders ==
  Cardinality({t \in {"sd", "ra", "uw"} :
                 \/ t = "sd" /\ sd.pc \in {"find", "send", "advance"}
                 \/ t = "ra" /\ ra.pc = "erase"
                 \/ t = "uw" /\ uw.pc = "loop"})

MutualExclusion == ~stolen => Holders = IF mtx THEN 1 ELSE 0

(* The detailed transfer implements the abstract one: it completes only with
   everything accepted and closes only with everything written. *)
Promise ==
  INSTANCE Delivery WITH
    accepted <- bytesRcvdSoFar,
    written  <- Len(outfile),
    complete <- isDone,
    closed   <- rx.pc \in {"fin", "close", "exit"}

ImplementsDelivery == Promise!Spec

------------------------------------------------------------------------------
(* Progress *)

Sending(A) == A /\ UNCHANGED receiverVars
Receiving(A) == A /\ UNCHANGED senderVars

RaLock == RaDone \/ RaDuplicate \/ RaNewAck

SdSendAt(s) == SdSend /\ nextSeqNum = s
RxDataAt(s) == \E m \in dataNet : m.seq = s /\ RxData(m)
SaSendOf(n) == SaSend /\ sa.rcvdSoFar = n
RaRecvOf(n) == RaRecv(AckPacket(n))

PacketNumbers == {s \in 0 .. Len(File) : s < Len(File) /\ s % DATASIZE = 0}
AckNumbers == (PacketNumbers \ {0}) \cup {Len(File)}  \* 0 acknowledges nothing

(***************************************************************************)
(* Every thread keeps running, as far as it is not blocked in recv(), and  *)
(* one that waits for cc_mtx gets it if it is free again and again: the    *)
(* others sleep between two critical sections.                             *)
(***************************************************************************)
Running ==
  /\ WF_vars(Sending(SendData)) /\ SF_vars(Sending(SdLock \/ SdExit))
  /\ WF_vars(Sending(UpdateWindow)) /\ SF_vars(Sending(UwLock))
  /\ WF_vars(Sending(RecvACK)) /\ SF_vars(Sending(RaLock))
  /\ WF_vars(Sending(Main))
  /\ WF_vars(Receiving(RxPush \/ RxWrite \/ RxFinAck \/ RxExit))
  /\ WF_vars(Receiving(SendACK))

(***************************************************************************)
(* A datagram that is sent again and again is received again and again     *)
(* (recvACK excepted once it has ended), and one that is sent finitely     *)
(* often is duplicated finitely often.                                     *)
(***************************************************************************)
FairNetwork ==
  /\ \A s \in PacketNumbers :
       []<><<Sending(SdSendAt(s))>>_vars => []<><<Receiving(RxDataAt(s))>>_vars
  /\ \A n \in AckNumbers :
       []<><<Receiving(SaSendOf(n))>>_vars
         => []<>isDone \/ []<><<Sending(RaRecvOf(n))>>_vars
  /\ []<><<Sending(\E m \in ackNet : RaRecv(m))>>_vars
       => []<><<Receiving(SaSend)>>_vars
  /\ []<><<Receiving(\E m \in dataNet : RxData(m))>>_vars
       => []<><<Sending(SdSend)>>_vars

FairSpec == Spec /\ Running /\ FairNetwork

SenderEnded == main.pc \in {"gotFinAck", "exit"}

(* A transfer of a file whose last packet is not full ends, with every byte of
   the file written, in spite of any number of losses, unless a timeout steals
   the mutex: the receiver may then wait for a FIN for ever, but for no data. *)
TransferEnds == <>(stolen \/ (SenderEnded /\ outfile = File))
==============================================================================
