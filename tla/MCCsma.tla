------------------------------- MODULE MCCsma -------------------------------
(***************************************************************************)
(* The ranges for the instances of Csma.                                   *)
(***************************************************************************)
EXTENDS Csma

Ranges123 == <<1, 2, 3>>
==============================================================================
