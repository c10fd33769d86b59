------------------------------- MODULE Sender -------------------------------
(***************************************************************************)
(* The sending process of mp_tcp (sender.cpp, namespace Sender of          *)
(* tcp.cpp): main() starts three threads that share one CongestionControl  *)
(* object, waits for them and closes the connection.                       *)
(*                                                                         *)
(*   sendData      sends the loaded packets that fit in the window;        *)
(*   recvACK       handles ACKs and timeouts;                              *)
(*   updateWindow  reads the file and loads packets into the window.       *)
(*                                                                         *)
(* The threads guard the shared object by cc_mtx, except that recvACK      *)
(* handles a timeout without locking it and then unlocks it, whoever holds *)
(* it: glibc's default mutex then simply becomes free.  So critical        *)
(* sections can overlap, and they are broken into the steps between which  *)
(* another thread can be seen to run.  `stolen' is a history variable: it  *)
(* remembers that a timeout released a mutex that another thread held.     *)
(***************************************************************************)
EXTENDS CongestionControl, Udp, FiniteSets

CONSTANTS
  File,       \* the bytes of the file to send
  totalSize   \* bytes_to_xfer, not necessarily the size of the file

ASSUME FileAssumption == File \in Seq(Nat)
ASSUME PacketFitsInt == DATASIZE <= INT_MAX
ASSUME TotalSizeAssumption == totalSize \in Nat

VARIABLES
  sendBase, nextSeqNum, cwnd, isDone,  \* struct CongestionControl, with win
  mtx,        \* is cc_mtx locked?
  sd,         \* sendData: pc, lastPacketSize (0 while it is not in use)
  ra,         \* recvACK: pc, header.ackNum, packetsAcked (0 if not in use)
  uw,         \* updateWindow: pc, seqNum (0 if not in use)
  readSoFar,  \* updateWindow's count, which is also the position in the file
  main,       \* reliablyTransfer: pc, number of FINs sent
  stolen      \* history variable

ccVars == <<win, sendBase, nextSeqNum, cwnd, isDone>>
senderVars == <<ccVars, mtx, sd, ra, uw, readSoFar, main, stolen>>

Packets == [seq: Nat, data: Seq(Nat)]

(* Packet(), whose header and size are 0. *)
DefaultPacket == [seq |-> 0, data |-> <<>>]

SenderType ==
  /\ win \in WinType
  /\ sendBase \in Nat /\ nextSeqNum \in Nat
  /\ DOMAIN cwnd \subseteq Nat
  /\ \A s \in DOMAIN cwnd : cwnd[s] \in Packets
  /\ isDone \in BOOLEAN /\ mtx \in BOOLEAN /\ stolen \in BOOLEAN
  /\ sd \in [pc: {"lock", "find", "send", "advance", "done"}, last: Nat]
  /\ ra \in [pc: {"recv", "reset", "unlock", "lock", "erase", "done"},
             ack: Nat, acked: Nat]
  /\ uw \in [pc: {"lock", "loop", "done"}, seqNum: Int]
  /\ readSoFar \in 0 .. Len(File)
  /\ main \in [pc: {"join", "fin", "wait", "gotFinAck", "exit"}, fins: Nat]

sdAt(pc) == [pc |-> pc, last |-> 0]
raAt(pc) == [pc |-> pc, ack |-> 0, acked |-> 0]
uwAt(pc) == [pc |-> pc, seqNum |-> 0]

SenderInit ==
  /\ WinInit
  /\ sendBase = 0 /\ nextSeqNum = 0
  /\ cwnd = <<>>
  /\ isDone = FALSE
  /\ mtx = FALSE
  /\ sd = sdAt("lock") /\ ra = raAt("recv") /\ uw = uwAt("lock")
  /\ readSoFar = 0
  /\ main = [pc |-> "join", fins |-> 0]
  /\ stolen = FALSE

lock == ~mtx /\ mtx' = TRUE
unlock == mtx' = FALSE

(* cc->cwnd[seqNum] = packet *)
Insert(seqNum, packet) ==
  cwnd' = [s \in DOMAIN cwnd \cup {seqNum} |->
             IF s = seqNum THEN packet ELSE cwnd[s]]

(* cc->cwnd.erase(seqNum) *)
Erase(seqNum) == cwnd' = [s \in DOMAIN cwnd \ {seqNum} |-> cwnd[s]]

(***************************************************************************)
(* recvACK assigns v to nextSeqNum.  If sendData is just adding to it, the *)
(* addition may already have read the old value: then it overwrites this   *)
(* assignment, which is as if the assignment had not been made.            *)
(***************************************************************************)
SetNext(v) ==
  nextSeqNum' \in {v} \cup (IF sd.pc = "advance" THEN {nextSeqNum} ELSE {})

------------------------------------------------------------------------------
(* sendData *)

SdLock ==
  /\ sd.pc = "lock" /\ ~isDone
  /\ lock
  /\ sd' = sdAt("find")
  /\ UNCHANGED <<ccVars, ra, uw, readSoFar, main, stolen, netVars>>

SdExit ==
  /\ sd.pc = "lock" /\ isDone
  /\ ~mtx /\ unlock
  /\ sd' = sdAt("done")
  /\ UNCHANGED <<ccVars, ra, uw, readSoFar, main, stolen, netVars>>

Sendable == nextSeqNum < sendBase + win.size /\ nextSeqNum \in DOMAIN cwnd

SdFind ==
  /\ sd.pc = "find" /\ Sendable
  /\ sd' = sdAt("send")
  /\ UNCHANGED <<ccVars, mtx, ra, uw, readSoFar, main, stolen, netVars>>

SdUnlock ==
  /\ sd.pc = "find" /\ ~Sendable
  /\ sd' = sdAt("lock")
  /\ unlock
  /\ UNCHANGED <<ccVars, ra, uw, readSoFar, main, stolen, netVars>>

(***************************************************************************)
(* operator[] inserts a default packet if the one just found was erased by *)
(* recvACK in the meantime.                                                *)
(***************************************************************************)
SdSend ==
  /\ sd.pc = "send"
  /\ LET packet == IF nextSeqNum \in DOMAIN cwnd THEN cwnd[nextSeqNum]
                                                 ELSE DefaultPacket
     IN  /\ Insert(nextSeqNum, packet)
         /\ SendToReceiver(DataPacket(packet.seq, packet.data))
         /\ sd' = [pc |-> "advance", last |-> Len(packet.data)]
  /\ UNCHANGED <<win, sendBase, nextSeqNum, isDone,
                 mtx, ra, uw, readSoFar, main, stolen>>

SdAdvance ==
  /\ sd.pc = "advance"
  /\ nextSeqNum' = nextSeqNum + sd.last
  /\ sd' = sdAt("find")
  /\ UNCHANGED <<win, sendBase, cwnd, isDone,
                 mtx, ra, uw, readSoFar, main, stolen, netVars>>

SendData == SdLock \/ SdExit \/ SdFind \/ SdUnlock \/ SdSend \/ SdAdvance

------------------------------------------------------------------------------
(* recvACK *)

(* A datagram arrives before the 15 ms of SO_RCVTIMEO are over. *)
RaRecv(m) ==
  /\ ra.pc = "recv"
  /\ m \in ackNet
  /\ ra' = [pc |-> "lock", ack |-> m.ack, acked |-> 0]
  /\ UNCHANGED <<ccVars, mtx, sd, uw, readSoFar, main, stolen, netVars>>

(* None does: the timeout is handled without the mutex.  The window shrinks
   first, which another thread can see, ... *)
RaTimeout ==
  /\ ra.pc = "recv"
  /\ WinTimeout
  /\ ra' = raAt("reset")
  /\ UNCHANGED <<sendBase, nextSeqNum, cwnd, isDone,
                 mtx, sd, uw, readSoFar, main, stolen, netVars>>

(* Variant for testing TransferEnds: nothing is sent again. *)
RaResetNot ==
  /\ ra.pc = "reset"
  /\ ra' = raAt("unlock")
  /\ UNCHANGED <<ccVars, mtx, sd, uw, readSoFar, main, stolen, netVars>>

(* ... then everything is to be sent again, ... *)
RaReset ==
  /\ ra.pc = "reset"
  /\ SetNext(sendBase)
  /\ ra' = raAt("unlock")
  /\ UNCHANGED <<win, sendBase, cwnd, isDone,
                 mtx, sd, uw, readSoFar, main, stolen, netVars>>

(* ... and the mutex is unlocked nevertheless. *)
RaUnlock ==
  /\ ra.pc = "unlock"
  /\ unlock
  /\ stolen' = (stolen \/ mtx)
  /\ ra' = raAt("recv")
  /\ UNCHANGED <<ccVars, sd, uw, readSoFar, main, netVars>>

(* Variant for testing DoneMeansAccepted: the last packet is not awaited. *)
RaDoneEarly ==
  /\ ra.pc = "lock" /\ ra.ack + DATASIZE >= totalSize
  /\ ~mtx /\ unlock
  /\ isDone' = TRUE
  /\ ra' = raAt("done")
  /\ UNCHANGED <<win, sendBase, nextSeqNum, cwnd,
                 sd, uw, readSoFar, main, stolen, netVars>>

RaDone ==
  /\ ra.pc = "lock" /\ ra.ack >= totalSize
  /\ ~mtx /\ unlock
  /\ isDone' = TRUE
  /\ ra' = raAt("done")
  /\ UNCHANGED <<win, sendBase, nextSeqNum, cwnd,
                 sd, uw, readSoFar, main, stolen, netVars>>

RaDuplicate ==
  /\ ra.pc = "lock" /\ ra.ack < totalSize /\ ra.ack < sendBase
  /\ ~mtx /\ unlock
  /\ WinDuplicate
  /\ IF EntersFastRec THEN SetNext(sendBase) ELSE UNCHANGED nextSeqNum
  /\ ra' = raAt("recv")
  /\ UNCHANGED <<sendBase, cwnd, isDone,
                 sd, uw, readSoFar, main, stolen, netVars>>

RaNewAck ==
  /\ ra.pc = "lock" /\ ra.ack < totalSize /\ ra.ack >= sendBase
  /\ lock
  /\ ra' = [ra EXCEPT !.pc = "erase"]
  /\ UNCHANGED <<ccVars, sd, uw, readSoFar, main, stolen, netVars>>

(* Variant for testing MissingPacketKept and BaseNotPastReceiver: the packet
   that the ACK asks for is erased too. *)
RaEraseOneMore ==
  /\ ra.pc = "erase" /\ sendBase <= ra.ack
  /\ Erase(sendBase)
  /\ sendBase' = sendBase + DATASIZE
  /\ ra' = [ra EXCEPT !.acked = @ + 1]
  /\ UNCHANGED <<win, nextSeqNum, isDone,
                 mtx, sd, uw, readSoFar, main, stolen, netVars>>

RaErase ==
  /\ ra.pc = "erase" /\ sendBase < ra.ack
  /\ Erase(sendBase)
  /\ sendBase' = sendBase + DATASIZE
  /\ ra' = [ra EXCEPT !.acked = @ + 1]
  /\ UNCHANGED <<win, nextSeqNum, isDone,
                 mtx, sd, uw, readSoFar, main, stolen, netVars>>

RaSlide ==
  /\ ra.pc = "erase" /\ sendBase >= ra.ack
  /\ IF nextSeqNum < sendBase THEN SetNext(sendBase) ELSE UNCHANGED nextSeqNum
  /\ WinNewAck(ra.acked)
  /\ unlock
  /\ ra' = raAt("recv")
  /\ UNCHANGED <<sendBase, cwnd, isDone,
                 sd, uw, readSoFar, main, stolen, netVars>>

RecvACK ==
  \/ \E m \in ackNet : RaRecv(m)
  \/ RaTimeout \/ RaReset \/ RaUnlock
  \/ RaDone \/ RaDuplicate \/ RaNewAck \/ RaErase \/ RaSlide

------------------------------------------------------------------------------
(* updateWindow *)

(* Variant for testing MutualExclusion: the mutex is not waited for. *)
UwLockAlways ==
  /\ uw.pc = "lock" /\ readSoFar < totalSize
  /\ mtx' = TRUE
  /\ uw' = [pc |-> "loop", seqNum |-> AsInt(nextSeqNum)]
  /\ UNCHANGED <<ccVars, sd, ra, readSoFar, main, stolen, netVars>>

UwLock ==
  /\ uw.pc = "lock" /\ readSoFar < totalSize
  /\ lock
  /\ uw' = [pc |-> "loop", seqNum |-> AsInt(nextSeqNum)]
  /\ UNCHANGED <<ccVars, sd, ra, readSoFar, main, stolen, netVars>>

UwExit ==
  /\ uw.pc = "lock" /\ readSoFar >= totalSize
  /\ uw' = uwAt("done")
  /\ UNCHANGED <<ccVars, mtx, sd, ra, readSoFar, main, stolen, netVars>>

(* A negative int is compared as a huge uint64_t. *)
InWindow == uw.seqNum \in 0 .. sendBase + win.size - 1

(* Variant for testing NumbersFit: a counter that is wider than an int. *)
NextSeqWide == [uw EXCEPT !.seqNum = @ + DATASIZE]

NextSeq == [uw EXCEPT !.seqNum = AsInt(@ + DATASIZE)]

UwSkip ==
  /\ uw.pc = "loop" /\ InWindow
  /\ uw.seqNum \in DOMAIN cwnd
  /\ uw' = NextSeq
  /\ UNCHANGED <<ccVars, mtx, sd, ra, readSoFar, main, stolen, netVars>>

(* What read(packet.data, DATASIZE) gets at a position of the file. *)
Chunk(pos) ==
  SubSeq(File, pos + 1,
         IF pos + DATASIZE <= Len(File) THEN pos + DATASIZE ELSE Len(File))

(* Variant for testing IInv: the bytes asked for are counted, not those
   read. *)
UwLoadCountsAsked ==
  /\ uw.pc = "loop" /\ InWindow
  /\ uw.seqNum \notin DOMAIN cwnd
  /\ Insert(uw.seqNum, [seq |-> uw.seqNum, data |-> Chunk(readSoFar)])
  /\ readSoFar' = readSoFar + DATASIZE
  /\ uw' = NextSeq
  /\ UNCHANGED <<win, sendBase, nextSeqNum, isDone,
                 mtx, sd, ra, main, stolen, netVars>>

UwLoad ==
  /\ uw.pc = "loop" /\ InWindow
  /\ uw.seqNum \notin DOMAIN cwnd
  /\ Insert(uw.seqNum, [seq |-> uw.seqNum, data |-> Chunk(readSoFar)])
  /\ readSoFar' = readSoFar + Len(Chunk(readSoFar))
  /\ uw' = NextSeq
  /\ UNCHANGED <<win, sendBase, nextSeqNum, isDone,
                 mtx, sd, ra, main, stolen, netVars>>

UwUnlock ==
  /\ uw.pc = "loop" /\ ~InWindow
  /\ unlock
  /\ uw' = uwAt("lock")
  /\ UNCHANGED <<ccVars, sd, ra, readSoFar, main, stolen, netVars>>

UpdateWindow == UwLock \/ UwExit \/ UwSkip \/ UwLoad \/ UwUnlock

------------------------------------------------------------------------------
(* reliablyTransfer after it started the threads: join, closeConnection *)

Joined == sd.pc = "done" /\ ra.pc = "done" /\ uw.pc = "done"

(* Variant for testing ImplementsDelivery: the threads are not joined. *)
JoinNone ==
  /\ main.pc = "join"
  /\ main' = [main EXCEPT !.pc = "fin"]
  /\ UNCHANGED <<ccVars, mtx, sd, ra, uw, readSoFar, stolen, netVars>>

Join ==
  /\ main.pc = "join" /\ Joined
  /\ main' = [main EXCEPT !.pc = "fin"]
  /\ UNCHANGED <<ccVars, mtx, sd, ra, uw, readSoFar, stolen, netVars>>

SendFin ==
  /\ main.pc = "fin"
  /\ SendToReceiver(FinPacket)
  /\ main' = [pc |-> "wait", fins |-> main.fins + 1]
  /\ UNCHANGED <<ccVars, mtx, sd, ra, uw, readSoFar, stolen>>

NoFinAck == IF main.fins < 3 THEN "fin" ELSE "exit"

(* flags & (FLAG_FIN | FLAG_ACK): either bit will do. *)
RecvFinAck(m) ==
  /\ main.pc = "wait"
  /\ m \in ackNet
  /\ main' = [main EXCEPT !.pc = IF m.flags \cap {FLAG_FIN, FLAG_ACK} # {}
                                 THEN "gotFinAck" ELSE NoFinAck]
  /\ UNCHANGED <<ccVars, mtx, sd, ra, uw, readSoFar, stolen, netVars>>

FinTimeout ==
  /\ main.pc = "wait"
  /\ main' = [main EXCEPT !.pc = NoFinAck]
  /\ UNCHANGED <<ccVars, mtx, sd, ra, uw, readSoFar, stolen, netVars>>

Main ==
  \/ Join \/ SendFin \/ FinTimeout
  \/ \E m \in ackNet : RecvFinAck(m)

SenderStep == SendData \/ RecvACK \/ UpdateWindow \/ Main
==============================================================================
