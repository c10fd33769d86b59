------------------------------ MODULE Receiver ------------------------------
(***************************************************************************)
(* The receiving process of mp_tcp (receiver.cpp, namespace Receiver of    *)
(* tcp.cpp).  Two threads share the queue rcvrACK_q:                       *)
(*                                                                         *)
(*   receiveData  accepts the datagram that continues the file, queues an  *)
(*                acknowledgement for every datagram and only then writes; *)
(*                a FIN makes it answer and end the process;               *)
(*   sendACK      every 7 ms empties the queue and sends the largest       *)
(*                acknowledgement it found.                                *)
(*                                                                         *)
(* The critical sections of rcvrACK_mtx are single steps.                  *)
(***************************************************************************)
EXTENDS Udp

CONSTANT MaxQueue  \* bound on rcvrACK_q, which is unbounded in the code

ASSUME MaxQueueAssumption == MaxQueue \in Nat

VARIABLES
  bytesRcvdSoFar,  \* a uint32_t
  rcvrACK_q,
  rx,              \* receiveData: pc, the data still to be written
  sa,              \* sendACK: pc, rcvdSoFar
  outfile          \* the bytes written to the output file

receiverVars == <<bytesRcvdSoFar, rcvrACK_q, rx, sa, outfile>>

ReceiverType ==
  /\ bytesRcvdSoFar \in Nat
  /\ rcvrACK_q \in Seq(Nat)
  /\ rx \in [pc: {"recv", "push", "write", "fin", "close", "exit"},
             data: Seq(Nat)]
  /\ sa \in [pc: {"drain", "send"}, rcvdSoFar: Nat]
  /\ outfile \in Seq(Nat)

ReceiverInit ==
  /\ bytesRcvdSoFar = 0
  /\ rcvrACK_q = <<>>
  /\ rx = [pc |-> "recv", data |-> <<>>]
  /\ sa = [pc |-> "drain", rcvdSoFar |-> 0]
  /\ outfile = <<>>

------------------------------------------------------------------------------
(* receiveData *)

(* Variant for testing OutfilePrefix: what was accepted is accepted again. *)
RxDataAgain(m) ==
  /\ rx.pc = "recv"
  /\ m \in dataNet /\ FLAG_FIN \notin m.flags
  /\ IF m.seq <= bytesRcvdSoFar
     THEN /\ bytesRcvdSoFar' = UInt32(bytesRcvdSoFar + Len(m.data))
          /\ rx' = [pc |-> "push", data |-> m.data]
     ELSE /\ rx' = [pc |-> "push", data |-> <<>>]
          /\ UNCHANGED bytesRcvdSoFar
  /\ UNCHANGED <<rcvrACK_q, sa, outfile, netVars>>

RxData(m) ==
  /\ rx.pc = "recv"
  /\ m \in dataNet /\ FLAG_FIN \notin m.flags
  /\ IF m.seq = bytesRcvdSoFar
     THEN /\ bytesRcvdSoFar' = UInt32(bytesRcvdSoFar + Len(m.data))
          /\ rx' = [pc |-> "push", data |-> m.data]
     ELSE /\ rx' = [pc |-> "push", data |-> <<>>]
          /\ UNCHANGED bytesRcvdSoFar
  /\ UNCHANGED <<rcvrACK_q, sa, outfile, netVars>>

(* The acknowledgement is queued before the data is written. *)
RxPush ==
  /\ rx.pc = "push"
  /\ Len(rcvrACK_q) < MaxQueue
  /\ rcvrACK_q' = Append(rcvrACK_q, bytesRcvdSoFar)
  /\ rx' = [rx EXCEPT !.pc = "write"]
  /\ UNCHANGED <<bytesRcvdSoFar, sa, outfile, netVars>>

RxWrite ==
  /\ rx.pc = "write"
  /\ outfile' = outfile \o rx.data
  /\ rx' = [pc |-> "recv", data |-> <<>>]
  /\ UNCHANGED <<bytesRcvdSoFar, rcvrACK_q, sa, netVars>>

RxFin(m) ==
  /\ rx.pc = "recv"
  /\ m \in dataNet /\ FLAG_FIN \in m.flags
  /\ rx' = [rx EXCEPT !.pc = "fin"]
  /\ UNCHANGED <<bytesRcvdSoFar, rcvrACK_q, sa, outfile, netVars>>

(* The FINACK goes out three times: one member of the set stands for all. *)
RxFinAck ==
  /\ rx.pc = "fin"
  /\ SendToSender(FinAckPacket)
  /\ rx' = [rx EXCEPT !.pc = "close"]
  /\ UNCHANGED <<bytesRcvdSoFar, rcvrACK_q, sa, outfile>>

(* exit() ends the sendACK thread too. *)
RxExit ==
  /\ rx.pc = "close"
  /\ rx' = [rx EXCEPT !.pc = "exit"]
  /\ UNCHANGED <<bytesRcvdSoFar, rcvrACK_q, sa, outfile, netVars>>

ReceiveData ==
  \/ \E m \in dataNet : RxData(m) \/ RxFin(m)
  \/ RxPush \/ RxWrite \/ RxFinAck \/ RxExit

------------------------------------------------------------------------------
(* sendACK *)

Largest(q) == {n \in {q[i] : i \in DOMAIN q} : \A i \in DOMAIN q : q[i] <= n}

SaDrain ==
  /\ rx.pc # "exit"
  /\ sa.pc = "drain" /\ rcvrACK_q # <<>>
  /\ \E n \in Largest(rcvrACK_q) : sa' = [pc |-> "send", rcvdSoFar |-> n]
  /\ rcvrACK_q' = <<>>
  /\ UNCHANGED <<bytesRcvdSoFar, rx, outfile, netVars>>

SaSend ==
  /\ rx.pc # "exit"
  /\ sa.pc = "send"
  /\ SendToSender(AckPacket(sa.rcvdSoFar))
  /\ sa' = [sa EXCEPT !.pc = "drain"]
  /\ UNCHANGED <<bytesRcvdSoFar, rcvrACK_q, rx, outfile>>

SendACK == SaDrain \/ SaSend

ReceiverStep == ReceiveData \/ SendACK
==============================================================================
