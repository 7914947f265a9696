---------------------------- MODULE MCCpuMiner -----------------------------
(* Instances of CpuMiner for TLC. *)
EXTENDS CpuMiner
=============================================================================
