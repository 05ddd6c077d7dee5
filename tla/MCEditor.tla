-------------------------------- MODULE MCEditor --------------------------------
(* A small object for Editor: two templates and two settings, of which no    *)
(* step prefers one.                                                         *)
EXTENDS Editor, TLC

Symmetry == Permutations(Templates) \cup Permutations(Knobs)
================================================================================
