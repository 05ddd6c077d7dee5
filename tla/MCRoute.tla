------------------------------- MODULE MCRoute -------------------------------
(***************************************************************************)
(* Small instances of Route for TLC.  The safety run has three scenes, one *)
(* per behaviour, each without what the others are about:                  *)
(*   chain   a chain of SSH servers with its host keys and link checks     *)
(*   calls   calls that overlap, with nobody to answer a host key          *)
(*   window  a window that loads anew and answers host keys                *)
(***************************************************************************)
EXTENDS Route, TLC

VARIABLE scene

(* Callers, checkers and answers are interchangeable; used by the safety run only. *)
Symmetry == Permutations(Callers) \cup Permutations(Checkers) \cup Permutations(Answers)

SceneInit ==
    /\ Init
    /\ scene \in {"chain", "calls", "window"}
    /\ scene # "chain" => 2..Hops \subseteq known

OneCallAtATime == Cardinality({k \in Callers : call[k] # "idle"}) <= 1

SceneNext ==
    /\ Next
    /\ scene' = scene
    /\ scene # "calls" => OneCallAtATime'
    /\ scene # "chain" => UNCHANGED check
    /\ scene = "calls" => UNCHANGED answer
    /\ scene # "window" => UNCHANGED <<loads, snap>>

SceneSpec == SceneInit /\ [][SceneNext]_<<vars, scene>>

(* The liveness run has no scenes: everything is there at once. *)
LiveInit == Init /\ scene = "all"

LiveNext == Next /\ scene' = scene

LiveSpec == LiveInit /\ [][LiveNext]_<<vars, scene>> /\ Fairness

=============================================================================
