------------------------------- MODULE MCConnect -------------------------------
(* A small window for Connect: two Routes over the same two servers, of      *)
(* which no step prefers one.                                                *)
EXTENDS Connect, TLC

Symmetry == Permutations(Routes) \cup Permutations(Servers)
================================================================================
