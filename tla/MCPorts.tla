-------------------------------- MODULE MCPorts --------------------------------
(* Two targets of two ports each; no step prefers a target. *)
EXTENDS Ports, TLC

Symmetry == Permutations(Targets)
================================================================================
