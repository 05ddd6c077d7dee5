-------------------------------- MODULE Guarded --------------------------------
(***************************************************************************)
(* What Kubereach promises about one object of a Cluster that others write *)
(* too.  A write goes out only for a confirmation of its own.  The writes  *)
(* that replace what somebody may have changed (the YAML editor's Apply    *)
(* and a rollback) happen only while the object is still the edition they  *)
(* were based on; the others touch one field, or remove the object.  Only  *)
(* an Apply whose text no longer carries the resourceVersion it was loaded *)
(* with (an override) replaces whatever is there.                          *)
(***************************************************************************)
EXTENDS Naturals

CONSTANTS Templates, Knobs,  \* the two fields of an object, as far as writes tell them apart
          Gone               \* the object is not there

VARIABLES spec,     \* what the object says, status aside, or Gone
          edition,  \* counts the changes of it
          basis,    \* per guarded writer, the edition its write replaces
          waiting,  \* the writers with a confirmed write that has not happened
          outside   \* counts the changes others made

vars == <<spec, edition, basis, waiting, outside>>

Guards == {"editor", "rollback"}
Writers == Guards \cup {"override", "patch"}
Specs == [tmpl : Templates, knob : Knobs]

Init == /\ spec \in Specs
        /\ edition = 1
        /\ basis = [w \in Guards |-> 0]
        /\ waiting = {}
        /\ outside = 0

(* Somebody else changes, creates or removes the object. *)
Outside == /\ outside' = outside + 1
           /\ edition' = edition + 1
           /\ spec' \in Specs \cup {Gone}
           /\ UNCHANGED <<basis, waiting>>

(* A writer takes an edition the object has, or had, as its basis. *)
Read(w) == /\ basis' \in {[basis EXCEPT ![w] = n] : n \in 0 .. edition}
           /\ UNCHANGED <<spec, edition, waiting, outside>>

Confirm(w) == /\ w \notin waiting
              /\ waiting' = waiting \cup {w}
              /\ UNCHANGED <<spec, edition, outside>>
              /\ basis' \in {basis} \cup {[b \in Guards |-> IF b = w THEN n ELSE basis[b]] : n \in 0 .. edition}

(* A confirmed write is refused, or changes nothing. *)
Drop(w) == /\ w \in waiting
           /\ waiting' = waiting \ {w}
           /\ UNCHANGED <<spec, edition, outside, basis>>

(* A guarded write replaces the edition it was based on, and no other. *)
Write(w) == /\ w \in waiting
            /\ basis[w] = edition
            /\ spec # Gone
            /\ spec' \in Specs
            /\ edition' = edition + 1
            /\ waiting' = waiting \ {w}
            /\ UNCHANGED <<basis, outside>>

(* An override replaces whatever edition is there. *)
Override == /\ "override" \in waiting
            /\ spec # Gone
            /\ spec' \in Specs
            /\ edition' = edition + 1
            /\ waiting' = waiting \ {"override"}
            /\ UNCHANGED <<basis, outside>>

(* Any other write sets one field of whatever edition is there, or removes the object. *)
Patch == /\ "patch" \in waiting
         /\ spec # Gone
         /\ \/ \E t \in Templates : spec' = [spec EXCEPT !.tmpl = t]
            \/ \E k \in Knobs : spec' = [spec EXCEPT !.knob = k]
            \/ spec' = Gone
         /\ edition' = edition + 1
         /\ waiting' = waiting \ {"patch"}
         /\ UNCHANGED <<basis, outside>>

Next == \/ Outside
        \/ \E w \in Guards : Read(w) \/ Write(w)
        \/ \E w \in Writers : Confirm(w) \/ Drop(w)
        \/ Override \/ Patch

Spec == Init /\ [][Next]_vars
================================================================================
