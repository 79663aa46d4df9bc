-------------------------------- MODULE MCAreg --------------------------------
(***************************************************************************)
(* Instances of AregSystem for TLC.  w1, w2 and w3 are model values;       *)
(* Processes says in each configuration which components share a process.  *)
(***************************************************************************)
EXTENDS AregSystem, TLC
=============================================================================
