-------------------------- MODULE TransferInvariant --------------------------
(***************************************************************************)
(* The inductive invariant of a transfer, in named parts.  The first group *)
(* holds whatever happens; the second as long as no timeout has stolen     *)
(* cc_mtx.                                                                 *)
(***************************************************************************)
EXTENDS Transfer

Aligned(n) == \E k \in 0 .. n : n = k * DATASIZE

SdIn == sd.pc \in {"find", "send", "advance"}
RaIn == ra.pc = "erase"
UwIn == uw.pc = "loop"

------------------------------------------------------------------------------
(* Packets are small and carry numbers that fit in an int. *)
PacketsSmall ==
  /\ \A s \in DOMAIN cwnd : cwnd[s].seq <= INT_MAX /\ Len(cwnd[s].data) <= DATASIZE
  /\ \A m \in dataNet : m.seq <= INT_MAX /\ Len(m.data) <= DATASIZE
  /\ uw.seqNum <= INT_MAX

(* Every accepted byte is written or about to be written. *)
Written ==
  /\ bytesRcvdSoFar = Len(outfile) + Len(rx.data)
  /\ rx.pc \notin {"push", "write"} => rx.data = <<>>

(* No acknowledgement is ahead of what was accepted. *)
AcksAccepted ==
  /\ \A i \in DOMAIN rcvrACK_q : rcvrACK_q[i] <= bytesRcvdSoFar
  /\ sa.rcvdSoFar <= bytesRcvdSoFar
  /\ \A m \in ackNet : m.ack <= bytesRcvdSoFar
  /\ ra.ack <= bytesRcvdSoFar

(* The end of the transfer is reached step by step. *)
EndInOrder ==
  /\ isDone => bytesRcvdSoFar >= totalSize
  /\ ra.pc = "done" <=> isDone
  /\ main.pc # "join" => isDone
  /\ \A m \in dataNet : FLAG_FIN \in m.flags => isDone /\ m.data = <<>>
  /\ rx.pc \in {"fin", "close", "exit"} => isDone

AlwaysInv ==
  /\ PacketsSmall
  /\ Written
  /\ AcksAccepted
  /\ EndInOrder
  /\ BaseNotPastReceiver

------------------------------------------------------------------------------
Exclusive ==
  /\ mtx <=> SdIn \/ RaIn \/ UwIn
  /\ ~(SdIn /\ RaIn) /\ ~(SdIn /\ UwIn) /\ ~(RaIn /\ UwIn)

(* Only whole packets are read until the end of the file is reached. *)
ReadWhole == readSoFar = Len(File) \/ Aligned(readSoFar)

(* A packet number that stands for data of the file that has been read. *)
DataAt(s) == Aligned(s) /\ s < readSoFar

(* A loaded packet holds the bytes its number stands for, or none if there are
   none; and a packet without bytes appears only at the end of the file. *)
CwndContent ==
  \A s \in DOMAIN cwnd :
    /\ cwnd[s].seq = s /\ s <= INT_MAX
    /\ DataAt(s) => cwnd[s].data = Chunk(s)
    /\ ~DataAt(s) => cwnd[s].data = <<>> /\ readSoFar = Len(File)

(* Everything that was read and not acknowledged is loaded. *)
CwndComplete == \A s \in sendBase .. readSoFar : DataAt(s) => s \in DOMAIN cwnd

NetContent ==
  \A m \in dataNet :
    m.data # <<>> => DataAt(m.seq) /\ m.data = Chunk(m.seq)

ReceivedWhole ==
  /\ bytesRcvdSoFar <= readSoFar
  /\ bytesRcvdSoFar = Len(File) \/ Aligned(bytesRcvdSoFar)
  /\ \E s \in 0 .. INT_MAX : Aligned(s) /\ bytesRcvdSoFar <= s + DATASIZE

BaseInv ==
  /\ Aligned(sendBase)
  /\ sendBase <= INT_MAX + DATASIZE
  /\ readSoFar < Len(File) => sendBase <= readSoFar

(* What sendData is about to send exists, and goes on doing so when a timeout
   moves nextSeqNum back to sendBase. *)
NextInv ==
  /\ nextSeqNum <= INT_MAX + DATASIZE
  /\ ~RaIn => nextSeqNum >= sendBase
  /\ nextSeqNum <= readSoFar \/ nextSeqNum <= sendBase
  /\ readSoFar < Len(File) => Aligned(nextSeqNum)

SendDataInv ==
  /\ sd.pc = "send" => nextSeqNum \in DOMAIN cwnd
  /\ sd.pc = "advance" =>
       /\ nextSeqNum <= INT_MAX
       /\ sd.last <= DATASIZE
       /\ sd.last # 0 => nextSeqNum + sd.last <= readSoFar
       /\ readSoFar < Len(File) => sd.last = DATASIZE

UpdateWindowInv ==
  UwIn /\ uw.seqNum >= 0 =>
    /\ uw.seqNum >= sendBase
    /\ readSoFar < Len(File) => Aligned(uw.seqNum) /\ uw.seqNum <= readSoFar

Prefix == outfile \o rx.data = SubSeq(File, 1, bytesRcvdSoFar)

OwnedInv ==
  /\ Exclusive
  /\ ReadWhole
  /\ CwndContent /\ CwndComplete /\ NetContent
  /\ ReceivedWhole
  /\ BaseInv /\ NextInv
  /\ SendDataInv /\ UpdateWindowInv
  /\ Prefix

IInv ==
  /\ TypeOK
  /\ WindowInv
  /\ AlwaysInv
  /\ ~stolen => OwnedInv
==============================================================================
