---------------------------- MODULE MCStopAndWait ----------------------------
(***************************************************************************)
(* Files for the instances of StopAndWait.  All bytes differ.              *)
(***************************************************************************)
EXTENDS StopAndWait

File21 == [i \in 1 .. 21 |-> 10 + i]
==============================================================================
