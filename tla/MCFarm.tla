------------------------------- MODULE MCFarm -------------------------------
(* Instances of Farm for TLC. *)
EXTENDS Farm
=============================================================================
