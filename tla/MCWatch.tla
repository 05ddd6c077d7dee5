------------------------------- MODULE MCWatch -------------------------------
(***************************************************************************)
(* Small instances of Watch for TLC.  The safety run has two scenes, one   *)
(* per behaviour:                                                          *)
(*   lists  without the check of reachability, which no step of theirs     *)
(*          looks at                                                       *)
(*   reach  a Cluster of its own, that keepAlive watches over, with that   *)
(*          check, one informer at a time and no change of the lists       *)
(***************************************************************************)
EXTENDS Watch, FiniteSets, TLC

VARIABLE scene

(* Informers are interchangeable; used by the safety run only. *)
Symmetry == Permutations(Informers)

OneInformer == Cardinality({i \in Informers : ~Free(i)}) <= 1

SceneInit ==
    /\ Init
    /\ scene \in {"lists", "reach"}
    /\ scene = "reach" => direct /\ readOnly = {}

SceneNext ==
    /\ Next
    /\ scene' = scene
    /\ scene = "lists" => UNCHANGED reachVars
    /\ scene = "reach" => OneInformer' /\ \A q \in Keys : version'[q] = 1

SceneSpec == SceneInit /\ [][SceneNext]_<<vars, scene>>

(* The liveness run has the lists of a Cluster of its own. *)
LiveInit == Init /\ direct /\ scene = "lists"

LiveNext == Next /\ scene' = scene /\ UNCHANGED reachVars

LiveSpec == LiveInit /\ [][LiveNext]_<<vars, scene>> /\ Fairness

=============================================================================
