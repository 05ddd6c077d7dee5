--------------------------------- MODULE MCNav ---------------------------------
(* Two Clusters, of which no step prefers one, two pods and a node. *)
EXTENDS Nav, TLC

Symmetry == Permutations(Clusters)
================================================================================
