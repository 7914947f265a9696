--------------------------- MODULE MCCudaMiner -----------------------------
(* Instances of CudaMiner for TLC. *)
EXTENDS CudaMiner
=============================================================================
