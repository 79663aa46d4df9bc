-------------------------------- MODULE MCGrpc --------------------------------
(***************************************************************************)
(* Instances of GrpcSystem for TLC; the workers are model values that the  *)
(* configurations give.                                                    *)
(***************************************************************************)
EXTENDS GrpcSystem
=============================================================================
