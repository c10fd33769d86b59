----------------------------- MODULE StopAndWait -----------------------------
(***************************************************************************)
(* The file transfer of mp2 (sender_main.c, receiver_main.c): one packet   *)
(* at a time.  The sender repeats a packet when no ACK comes in 50 ms or   *)
(* when the ACK that comes is not the one it waits for; when all packets   *)
(* are acknowledged it repeats a FIN until a FINACK comes.  The receiver   *)
(* answers every packet with the number it expects next, and a FIN with    *)
(* one FINACK, after which it ends.                                        *)
(*                                                                         *)
(* The packet format is that of mp_tcp, and so is the network (Udp).       *)
(***************************************************************************)
EXTENDS Udp

CONSTANTS
  File,        \* the bytes of the file to send
  bytesAsked,  \* the last argument of the sender, below 2^63
  FILEBUFSIZE  \* payload bytes of a full packet (1460)

ASSUME SwFileAssumption == File \in Seq(Nat)
ASSUME BytesAskedAssumption == bytesAsked \in Nat
ASSUME BufferAssumption == FILEBUFSIZE \in Nat \ {0}

VARIABLES
  sndPc,         \* where the sender is
  sentSoFar,     \* an unsigned int
  fileBuffer,    \* the toSendThisRound bytes of this round
  filePos,       \* the position of the sender in the file
  rcvPc,         \* where the receiver is
  currentSeqNum, \* an unsigned int
  outfile        \* the bytes written

sndVars == <<sndPc, sentSoFar, fileBuffer, filePos>>
rcvVars == <<rcvPc, currentSeqNum, outfile>>
vars == <<sndVars, rcvVars, netVars>>

Smaller(a, b) == IF a <= b THEN a ELSE b

(* ftell() is converted to an int; if it becomes negative, it is compared as a
   huge unsigned long long. *)
fileSize == AsInt(Len(File))

bytesToTransfer ==
  IF fileSize >= 0 /\ bytesAsked > fileSize THEN fileSize ELSE bytesAsked

(* The bytes transferred are counted in unsigned ints: the transfers considered
   are those whose last byte has a number below 2^32. *)
ASSUME CountersSuffice == Smaller(bytesToTransfer, Len(File)) < WORD

TypeOK ==
  /\ NetType
  /\ sndPc \in {"read", "send", "select", "drain", "fin", "finselect", "end"}
  /\ sentSoFar \in 0 .. WORD - 1
  /\ fileBuffer \in Seq(Nat) /\ Len(fileBuffer) <= FILEBUFSIZE
  /\ filePos \in 0 .. Len(File)
  /\ rcvPc \in {"recv", "ack", "finack", "end"}
  /\ currentSeqNum \in 0 .. WORD - 1
  /\ outfile \in Seq(Nat)

Init ==
  /\ NetInit
  /\ sndPc = "read" /\ sentSoFar = 0 /\ fileBuffer = <<>> /\ filePos = 0
  /\ rcvPc = "recv" /\ currentSeqNum = 0 /\ outfile = <<>>

------------------------------------------------------------------------------
(* The sender *)

(* What fread(fileBuffer, FILEBUFSIZE) gets. *)
NextPart ==
  SubSeq(File, filePos + 1, Smaller(filePos + FILEBUFSIZE, Len(File)))

(* Variant for testing Exact: the last part is not cut off. *)
ReadRoundWhole ==
  /\ sndPc = "read" /\ sentSoFar < bytesToTransfer
  /\ fileBuffer' = NextPart
  /\ filePos' = filePos + Len(NextPart)
  /\ sndPc' = "send"
  /\ UNCHANGED <<sentSoFar, rcvVars, netVars>>

ReadRound ==
  /\ sndPc = "read" /\ sentSoFar < bytesToTransfer
  /\ fileBuffer' = SubSeq(NextPart, 1,
                          Smaller(Len(NextPart), bytesToTransfer - sentSoFar))
  /\ filePos' = filePos + Len(NextPart)
  /\ sndPc' = "send"
  /\ UNCHANGED <<sentSoFar, rcvVars, netVars>>

(* Variant for testing ImplementsDelivery: the last packet is not awaited. *)
AllSentButOne ==
  /\ sndPc = "read" /\ sentSoFar + FILEBUFSIZE >= bytesToTransfer
  /\ sndPc' = "drain"
  /\ UNCHANGED <<sentSoFar, fileBuffer, filePos, rcvVars, netVars>>

AllSent ==
  /\ sndPc = "read" /\ sentSoFar >= bytesToTransfer
  /\ sndPc' = "drain"
  /\ UNCHANGED <<sentSoFar, fileBuffer, filePos, rcvVars, netVars>>

SendPacket ==
  /\ sndPc = "send"
  /\ SendToReceiver(DataPacket(sentSoFar, fileBuffer))
  /\ sndPc' = "select"
  /\ UNCHANGED <<sentSoFar, fileBuffer, filePos, rcvVars>>

EndOfRound == UInt32(sentSoFar + Len(fileBuffer))

(* Variant for testing InStep: any ACK ends the round. *)
AnyAck(m) ==
  /\ sndPc = "select" /\ m \in ackNet
  /\ sentSoFar' = EndOfRound /\ sndPc' = "read"
  /\ UNCHANGED <<fileBuffer, filePos, rcvVars, netVars>>

(* The ACK that is waited for ends the round; any other one repeats it. *)
GotAck(m) ==
  /\ sndPc = "select" /\ m \in ackNet
  /\ \/ m.ack = EndOfRound /\ sentSoFar' = EndOfRound /\ sndPc' = "read"
     \/ m.ack # EndOfRound /\ sndPc' = "send" /\ UNCHANGED sentSoFar
  /\ UNCHANGED <<fileBuffer, filePos, rcvVars, netVars>>

(* Variant for testing ReceiverEnds: nothing is sent again. *)
NoAckWaits ==
  /\ sndPc = "select"
  /\ UNCHANGED vars

NoAck ==
  /\ sndPc = "select"
  /\ sndPc' = "send"
  /\ UNCHANGED <<sentSoFar, fileBuffer, filePos, rcvVars, netVars>>

(* The datagrams that have arrived by then are dropped.  Others may arrive
   later, so the set of those that can be received stays the same. *)
Drain ==
  /\ sndPc = "drain"
  /\ sndPc' = "fin"
  /\ UNCHANGED <<sentSoFar, fileBuffer, filePos, rcvVars, netVars>>

SendFin ==
  /\ sndPc = "fin"
  /\ SendToReceiver(FinPacket)
  /\ sndPc' = "finselect"
  /\ UNCHANGED <<sentSoFar, fileBuffer, filePos, rcvVars>>

(* Variant for testing EndAfterReceiver: anything will do. *)
GotAnyAck(m) ==
  /\ sndPc = "finselect" /\ m \in ackNet
  /\ sndPc' = "end"
  /\ UNCHANGED <<sentSoFar, fileBuffer, filePos, rcvVars, netVars>>

(* flags & (FLAG_FIN | FLAG_ACK): an ACK of data has neither bit here. *)
GotFinAck(m) ==
  /\ sndPc = "finselect" /\ m \in ackNet
  /\ sndPc' = IF m.flags \cap {FLAG_FIN, FLAG_ACK} # {} THEN "end" ELSE "fin"
  /\ UNCHANGED <<sentSoFar, fileBuffer, filePos, rcvVars, netVars>>

NoFinAck ==
  /\ sndPc = "finselect"
  /\ sndPc' = "fin"
  /\ UNCHANGED <<sentSoFar, fileBuffer, filePos, rcvVars, netVars>>

SenderStep ==
  \/ ReadRound \/ AllSent \/ SendPacket \/ NoAck
  \/ \E m \in ackNet : GotAck(m) \/ GotFinAck(m)
  \/ Drain \/ SendFin \/ NoFinAck

------------------------------------------------------------------------------
(* The receiver *)

(* Variant for testing OutfilePrefix: a repeated packet is written again. *)
RcvDataAgain(m) ==
  /\ rcvPc = "recv" /\ m \in dataNet /\ FLAG_FIN \notin m.flags
  /\ IF m.seq <= currentSeqNum
     THEN /\ outfile' = outfile \o m.data
          /\ currentSeqNum' = UInt32(currentSeqNum + Len(m.data))
     ELSE UNCHANGED <<outfile, currentSeqNum>>
  /\ rcvPc' = "ack"
  /\ UNCHANGED <<sndVars, netVars>>

RcvData(m) ==
  /\ rcvPc = "recv" /\ m \in dataNet /\ FLAG_FIN \notin m.flags
  /\ IF m.seq = currentSeqNum
     THEN /\ outfile' = outfile \o m.data
          /\ currentSeqNum' = UInt32(currentSeqNum + Len(m.data))
     ELSE UNCHANGED <<outfile, currentSeqNum>>
  /\ rcvPc' = "ack"
  /\ UNCHANGED <<sndVars, netVars>>

(* The header of a data ACK has no flags. *)
DataAck == [flags |-> {}, ack |-> currentSeqNum]

RcvAck ==
  /\ rcvPc = "ack"
  /\ SendToSender(DataAck)
  /\ rcvPc' = "recv"
  /\ UNCHANGED <<currentSeqNum, outfile, sndVars>>

RcvFin(m) ==
  /\ rcvPc = "recv" /\ m \in dataNet /\ FLAG_FIN \in m.flags
  /\ rcvPc' = "finack"
  /\ UNCHANGED <<currentSeqNum, outfile, sndVars, netVars>>

RcvFinAck ==
  /\ rcvPc = "finack"
  /\ SendToSender(FinAckPacket)
  /\ rcvPc' = "end"
  /\ UNCHANGED <<currentSeqNum, outfile, sndVars>>

ReceiverStep ==
  \/ \E m \in dataNet : RcvData(m) \/ RcvFin(m)
  \/ RcvAck \/ RcvFinAck

------------------------------------------------------------------------------
Next == SenderStep \/ ReceiverStep

Spec == Init /\ [][Next]_vars

Done == sndPc \in {"drain", "fin", "finselect", "end"}

(* Whatever is lost, repeated or reordered, the output is a prefix of the
   file. *)
OutfilePrefix ==
  /\ Len(outfile) <= Len(File)
  /\ outfile = SubSeq(File, 1, Len(outfile))

(* The two programs are never more than one packet apart: the receiver has what
   the sender believes it has, and at most the packet of this round beyond; and
   the numbers of both, and the buffer, stay in their types. *)
InStep ==
  /\ TypeOK
  /\ currentSeqNum = Len(outfile)
  /\ sentSoFar <= currentSeqNum
  /\ currentSeqNum <= sentSoFar + Len(fileBuffer)

(* Exactly the bytes that were asked for, and that exist, are transferred. *)
Exact ==
  /\ Len(outfile) <= bytesToTransfer
  /\ Done => Len(outfile) = bytesToTransfer

(* A FINACK, unlike in mp_tcp, is never confused with the ACK of a packet, and
   so the sender ends only after the receiver. *)
EndAfterReceiver == sndPc = "end" => rcvPc = "end"

(* The transfer keeps the same promise as that of mp_tcp. *)
Promise ==
  INSTANCE Delivery WITH
    totalSize <- bytesToTransfer,
    accepted  <- Len(outfile),
    written   <- Len(outfile),
    complete  <- Done,
    closed    <- rcvPc \in {"finack", "end"}

ImplementsDelivery == Promise!Spec

------------------------------------------------------------------------------
(* Progress *)

RcvThisRound == \E m \in dataNet : m.seq = sentSoFar /\ RcvData(m)
AckThisRound == RcvAck /\ currentSeqNum = EndOfRound
GotThisRound == \E m \in ackNet : m.ack = EndOfRound /\ GotAck(m)

(***************************************************************************)
(* Both programs keep running.  A packet that is sent again and again is   *)
(* received again and again, and so is its ACK until the round is over;    *)
(* a FIN that is sent again and again is received.  (There are finitely    *)
(* many rounds: if packets are sent for ever, one round lasts for ever.)   *)
(* The FINACK is sent once, so nothing is assumed of it.                   *)
(***************************************************************************)
FairSpec ==
  /\ Spec
  /\ WF_vars(SenderStep)
  /\ WF_vars(RcvAck \/ RcvFinAck)
  /\ []<><<SendPacket>>_vars => []<><<RcvThisRound>>_vars
  /\ []<><<AckThisRound>>_vars => []<><<GotThisRound>>_vars \/ <>Done
  /\ []<><<SendFin>>_vars => <>(rcvPc \in {"finack", "end"})

(* The receiver ends with the whole transfer written, in spite of any number of
   losses. *)
ReceiverEnds == <>(rcvPc = "end" /\ Len(outfile) = bytesToTransfer)

==============================================================================
