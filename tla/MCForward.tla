------------------------------ MODULE MCForward ------------------------------
(* Small instances of Forward for TLC. *)
EXTENDS Forward, TLC

(* Locals and links are interchangeable; used by the safety runs only. *)
Symmetry == Permutations(Locals) \cup Permutations(Links)

=============================================================================
