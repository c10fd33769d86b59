------------------------------ MODULE Delivery ------------------------------
(***************************************************************************)
(* What a file transfer promises, whatever protocol carries it out.  Bytes *)
(* are accepted, and written some time later; the sender may take the      *)
(* transfer for complete only when all the bytes it was asked to transfer  *)
(* have been accepted; and the receiver may close its file only after      *)
(* that, with every accepted byte written.                                 *)
(***************************************************************************)
EXTENDS Naturals

CONSTANT totalSize

VARIABLES
  accepted,  \* number of bytes accepted by the receiver
  written,   \* number of bytes in the output file
  complete,  \* does the sender take the transfer for complete?
  closed     \* has the receiver closed the output file?

vars == <<accepted, written, complete, closed>>

Init ==
  /\ accepted = 0 /\ written = 0
  /\ complete = FALSE /\ closed = FALSE

(* No byte is accepted while accepted ones are still to be written. *)
Accept ==
  /\ ~closed /\ written = accepted
  /\ accepted' \in Nat /\ accepted' > accepted
  /\ UNCHANGED <<written, complete, closed>>

(* A receiver that writes what it accepts before it does anything else. *)
AcceptAndWrite ==
  /\ ~closed /\ written = accepted
  /\ accepted' \in Nat /\ accepted' > accepted
  /\ written' = accepted'
  /\ UNCHANGED <<complete, closed>>

Write ==
  /\ ~closed
  /\ written' = accepted
  /\ UNCHANGED <<accepted, complete, closed>>

Complete ==
  /\ accepted >= totalSize
  /\ complete' = TRUE
  /\ UNCHANGED <<accepted, written, closed>>

Close ==
  /\ complete /\ written = accepted
  /\ closed' = TRUE
  /\ UNCHANGED <<accepted, written, complete>>

Next == Accept \/ AcceptAndWrite \/ Write \/ Complete \/ Close

Spec == Init /\ [][Next]_vars
==============================================================================
