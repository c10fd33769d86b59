----------------------------- MODULE MCTransfer -----------------------------
(***************************************************************************)
(* Files for the instances.  All bytes differ, so that a byte in the wrong *)
(* place shows.                                                            *)
(***************************************************************************)
EXTENDS TransferInvariant, TransferClaims

File2 == <<11, 22>>
File3 == <<11, 22, 33>>
File4 == <<11, 22, 33, 44>>

(* Bounds of the instance with four packets: behaviours are followed up to the
   first theft of the mutex, which the instance with two packets goes beyond,
   and as long as the window is not larger than the file. *)
NotStolen == ~stolen
WindowWithinFile == win.size <= Len(File)
==============================================================================
