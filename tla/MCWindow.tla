------------------------------ MODULE MCWindow ------------------------------
(***************************************************************************)
(* The file for the instance of WindowTransfer; all its bytes differ.      *)
(***************************************************************************)
EXTENDS WindowTransfer

File13 == [i \in 1 .. 13 |-> 11 * i]
==============================================================================
