------------------------------- MODULE MCPmu -------------------------------
(* Instances of Pmu for TLC. *)
EXTENDS Pmu
=============================================================================
