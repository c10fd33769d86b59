--------------------------- MODULE TransferClaims ---------------------------
(***************************************************************************)
(* What comments and messages in the code say about a transfer, and the    *)
(* code does not keep.                                                     *)
(***************************************************************************)
EXTENDS Transfer

(* "packet is in correct sequence" (tcp.cpp:656): the bytes that are accepted
   continue the file. *)
PacketInCorrectSequence == InOrder

(* "Got FINACK!" (tcp.cpp:551): the receiver has answered a FIN. *)
FinAckAnswersFin ==
  main.pc = "gotFinAck" => rx.pc \in {"fin", "close", "exit"}

(***************************************************************************)
(* "sendData is done!" (tcp.cpp:281): under fair threads and a fair        *)
(* network the thread ends, unless a timeout steals the mutex.  It does    *)
(* not if the last packet is full: updateWindow then loads a packet        *)
(* without data at the end of the file, by whose size sendData advances    *)
(* for ever, with the mutex that recvACK waits for.                        *)
(***************************************************************************)
SendDataIsDone == <>(stolen \/ sd.pc = "done")
==============================================================================
