----------------------------- MODULE EditorProofs -----------------------------
(***************************************************************************)
(* The safety of Editor for every set of templates and settings.  That no  *)
(* write replaces what its writer did not see (NeverOverwrites, the        *)
(* refinement of Guarded) rests on a resourceVersion naming one edition:   *)
(* whoever holds the object's own resourceVersion holds its last edition   *)
(* (Old, ApplyHolds, RollbackHolds); an Apply whose text lost the          *)
(* resourceVersion it was loaded with is Guarded's Override.  That the user's own write is shown   *)
(* rests on the query in flight having read it too (FetchIsNew).           *)
(***************************************************************************)
EXTENDS Editor, TLAPS

(* What a text was loaded from: an edition the object has, or had. *)
Old(t) == t.ed <= obj.ed /\ t.rv <= obj.rv /\ (t.rv = obj.rv => t.ed = obj.ed)
TextsAreOld == obj.rv > 0 /\ Old(editor.original) /\ Old(load.original) /\ Old(apply.original)

(* An Apply that holds the object's resourceVersion, because the text keeps  *)
(* the one it was loaded with, was made of the object's edition.             *)
ApplyHolds ==
  apply.stage = "got" => /\ apply.draft \in Specs
                         /\ Keeps(apply) => /\ apply.rv \in 1 .. obj.rv
                                            /\ apply.rv = obj.rv => apply.original.ed = obj.ed

RollbackHolds ==
  /\ act.base <= obj.ed
  /\ act.stage = "idle" => act.base = 0
  /\ act.stage = "got" => /\ act.verb = "RollBack"
                          /\ act.tmpl \in Templates
                          /\ act.rv \in 1 .. obj.rv
                          /\ act.rv = obj.rv => act.base = obj.ed

(* An action in flight has what its request needs. *)
ActIsMeant ==
  /\ act.verb # "RollBack" => act.base = 0
  /\ act.stage = "sent" /\ act.verb \in {"Scale", "Toggle"} => act.arg \in Knobs
  /\ ask.verb = "Scale" => ask.knob \in Knobs

(* There is nothing to review or apply before the first text is there. *)
TextFirst ==
  /\ ~editor.on => editor.draft = NoText
  /\ editor.draft = NoText => review.stage = "idle" /\ editor.diff = NoDiff
  /\ load.stage = "answered" /\ load.result = "ok" => load.original.spec \in Specs

(* What was read for the detail is at least as new as the last answered      *)
(* write, unless it is a first read that an invalidation joined too late.    *)
FetchIsNew ==
  /\ detail.wrote <= obj.ed
  /\ apply.stage = "answered" /\ apply.result = "ok" => apply.rv <= obj.ed
  /\ act.stage = "answered" /\ act.result = "ok" => act.ed <= obj.ed
  /\ detail.open /\ ~fetch.missed /\ fetch.stage = "answered" => fetch.got.ed >= detail.wrote

IndInv == TypeOK /\ TextsAreOld /\ ApplyHolds /\ RollbackHolds /\ ActIsMeant /\ TextFirst /\ FetchIsNew /\ OwnWriteShown

-----------------------------------------------------------------------------
(* What the records of the model start from is of their types. *)
LEMMA BlankTypes ==
  /\ NoOriginal \in Originals /\ NoDiff \in Diffs /\ NoCall \in Calls /\ Sent \in Calls
  /\ ClosedEditor \in Editors /\ NoAct \in Actions /\ NoAsk \in Asks
  /\ NoCall.stage = "idle"
<1>. USE EditorAssumption
<1>1. NoOriginal \in Originals /\ NoDiff \in Diffs
  BY DEF NoOriginal, NoDiff, Originals, Diffs
<1>2. NoCall \in Calls /\ NoCall.stage = "idle"
  BY <1>1 DEF NoCall, Calls, Stages, Errors
<1>3. Sent \in Calls
  BY <1>2 DEF Sent, Calls, Stages
<1>4. ClosedEditor \in Editors
  BY <1>1 DEF ClosedEditor, Editors, Errors
<1>5. NoAct \in Actions
  BY DEF NoAct, Actions, Stages, Errors
<1>6. NoAsk \in Asks
  BY DEF NoAsk, Asks, Errors
<1>. QED BY <1>1, <1>2, <1>3, <1>4, <1>5, <1>6

(* The query as a read begins, and as one ends. *)
LEMMA QueryTypes ==
  ASSUME TypeOK
  PROVE  /\ Begun \in Fetches /\ Begun.stage = "sent" /\ Begun.missed = FALSE
         /\ \A b \in BOOLEAN : /\ Landed(b) \in Fetches /\ Landed(b).stage = "idle"
                               /\ Landed(b).missed = fetch.missed
<1>. USE DEF Fetches
<1>1. NoData \in [spec : Specs \cup {Gone, NoText}, ed : Nat, rv : Nat, rev : Nat]
  BY DEF NoData
<1>2. fetch.loaded \in BOOLEAN /\ fetch.missed \in BOOLEAN
  BY DEF TypeOK
<1>3. Begun = [stage |-> "sent", got |-> NoData, loaded |-> fetch.loaded, missed |-> FALSE]
  BY DEF TypeOK, Begun
<1>4. ASSUME NEW b \in BOOLEAN
      PROVE  Landed(b) = [stage |-> "idle", got |-> NoData, loaded |-> fetch.loaded \/ b, missed |-> fetch.missed]
  BY DEF TypeOK, Landed
<1>. QED BY <1>1, <1>2, <1>3, <1>4

(* An invalidation begins a read, joins the first one, or finds the detail closed. *)
LEMMA Invalidated ==
  ASSUME TypeOK, Invalidate
  PROVE  /\ fetch' \in Fetches
         /\ fetch'.stage = "answered" => fetch'.got.spec # NoText
         /\ detail.open => fetch'.stage = "sent" \/ (fetch'.stage = "answered" /\ fetch'.missed)
<1>. USE QueryTypes
<1>1. CASE ~detail.open
  BY <1>1 DEF TypeOK, Invalidate
<1>2. CASE detail.open /\ (fetch.loaded \/ fetch.stage = "idle")
  BY <1>2 DEF TypeOK, Invalidate
<1>3. CASE detail.open /\ ~(fetch.loaded \/ fetch.stage = "idle")
  BY <1>3 DEF TypeOK, Invalidate, Fetches
<1>. QED BY <1>1, <1>2, <1>3

(* A write leaves an object of its type. *)
LEMMA WrittenType ==
  ASSUME TypeOK, NEW s \in Specs \cup {Gone}
  PROVE  Written(s) \in Objects
<1>1. CASE s = obj.spec
  BY <1>1 DEF TypeOK, Written
<1>2. CASE s # obj.spec
  <2>1. Written(s) = [spec |-> s, ed |-> obj.ed + 1, rv |-> obj.rv + 1, rev |-> obj.rev]
    BY <1>2 DEF TypeOK, Written, Objects
  <2>2. obj.ed + 1 \in Nat /\ obj.rv + 1 \in Nat /\ obj.rev \in Nat
    BY DEF TypeOK, Objects
  <2>. QED BY <2>1, <2>2 DEF Objects
<1>. QED BY <1>1, <1>2

(* One field of what the object says can be another. *)
LEMMA FieldTypes ==
  ASSUME TypeOK, obj.spec # Gone
  PROVE  /\ \A t \in Templates : [obj.spec EXCEPT !.tmpl = t] \in Specs
         /\ \A k \in Knobs : [obj.spec EXCEPT !.knob = k] \in Specs
BY DEF TypeOK, Objects, Specs

(* A text is sent with what it was loaded from. *)
LEMMA SentEditType ==
  ASSUME TypeOK
  PROVE  SentEdit \in Calls /\ SentEdit.draft = editor.draft /\ SentEdit.original = editor.original
         /\ SentEdit.line = editor.line
BY BlankTypes DEF TypeOK, SentEdit, NoCall, Calls, Editors, Stages, Errors

(* Decoding a text and reading the live object leaves a call of its type. *)
LEMMA EditedType ==
  ASSUME TypeOK, NEW c \in Calls, c.draft # NoText
  PROVE  /\ EditedObject(c) \in Calls
         /\ EditedObject(c).draft = c.draft /\ EditedObject(c).original = c.original
         /\ EditedObject(c).line = c.line
         /\ EditedObject(c).stage \in {"answered", "got"}
BY DEF TypeOK, EditedObject, Calls, Stages, Errors, Objects, Originals

(* The server's word is a result a call can have. *)
LEMMA VerdictType == ASSUME NEW c PROVE Verdict(c) \in {"ok", "conflict", "failed"}
BY DEF Verdict

(* Every step keeps the types. *)
LEMMA TypeStep ==
  ASSUME TypeOK, ApplyHolds, RollbackHolds, ActIsMeant, TextFirst, [Next]_vars
  PROVE  TypeOK'
<1>. USE EditorAssumption, BlankTypes
<1>1. ASSUME OthersWrite
      PROVE  TypeOK'
  <2>1. obj' \in Objects
    <3>1. PICK s \in Specs \cup {Gone} : obj' = [Written(s) EXCEPT !.rev = IF obj.spec = Gone THEN 0 ELSE @]
      BY <1>1 DEF OthersWrite
    <3>. QED BY <3>1, WrittenType DEF Objects
  <2>2. revs' \in [Templates -> Nat]
    BY <1>1 DEF OthersWrite, TypeOK, Objects, Specs
  <2>3. acts' \in Nat
    BY <1>1 DEF OthersWrite, TypeOK, Act
  <2>. QED BY <1>1, <2>1, <2>2, <2>3 DEF OthersWrite, TypeOK, Act
<1>2. ASSUME StatusMoves
      PROVE  TypeOK'
  <2>1. obj' \in Objects
    BY <1>2 DEF StatusMoves, TypeOK, Objects
  <2>2. acts' \in Nat
    BY <1>2 DEF StatusMoves, TypeOK, Act
  <2>. QED BY <1>2, <2>1, <2>2 DEF StatusMoves, TypeOK, Act
<1>3. ASSUME Rolls
      PROVE  TypeOK'
  <2>1. obj' \in Objects
    <3>1. obj' = [spec |-> obj.spec, ed |-> obj.ed + 1, rv |-> obj.rv + 1, rev |-> obj.rev + 1]
      BY <1>3 DEF Rolls, TypeOK, Objects
    <3>. QED BY <3>1 DEF TypeOK, Objects
  <2>2. revs' \in [Templates -> Nat]
    BY <1>3 DEF Rolls, TypeOK, Objects, Specs
  <2>3. acts' \in Nat
    BY <1>3 DEF Rolls, TypeOK, Act
  <2>. QED BY <1>3, <2>1, <2>2, <2>3 DEF Rolls, TypeOK, Act
<1>4. ASSUME Refresh
      PROVE  TypeOK'
  <2>1. fetch' \in Fetches /\ (fetch.stage' = "answered" => fetch.got.spec' # NoText)
    BY <1>4, Invalidated DEF Refresh
  <2>2. acts' \in Nat
    BY <1>4 DEF Refresh, TypeOK, Act
  <2>. QED BY <1>4, <2>1, <2>2 DEF Refresh, TypeOK, Act
<1>5. ASSUME FetchReads
      PROVE  TypeOK'
  <2>1. fetch' \in Fetches /\ (fetch.stage' = "answered" => fetch.got.spec' # NoText)
    BY <1>5 DEF FetchReads, TypeOK, Fetches, Objects
  <2>. QED BY <1>5, <2>1 DEF FetchReads, TypeOK
<1>6. ASSUME FetchAnswered
      PROVE  TypeOK'
  <2>1. detail' \in Details
    BY <1>6 DEF FetchAnswered, TypeOK, Details, Showing, Fetches
  <2>2. fetch' \in Fetches /\ (fetch.stage' = "answered" => fetch.got.spec' # NoText)
    BY <1>6, QueryTypes DEF FetchAnswered
  <2>. QED BY <1>6, <2>1, <2>2 DEF FetchAnswered, TypeOK
<1>7. ASSUME FetchLost
      PROVE  TypeOK'
  <2>1. detail' \in Details
    BY <1>7 DEF FetchLost, TypeOK, Details
  <2>2. fetch' \in Fetches /\ (fetch.stage' = "answered" => fetch.got.spec' # NoText)
    BY <1>7, QueryTypes DEF FetchLost
  <2>3. acts' \in Nat
    BY <1>7 DEF FetchLost, TypeOK, Act
  <2>. QED BY <1>7, <2>1, <2>2, <2>3 DEF FetchLost, TypeOK, Act
<1>8. ASSUME UserEdits
      PROVE  TypeOK'
  <2>1. editor' \in Editors
    BY <1>8 DEF UserEdits, TypeOK, Editors, ClosedEditor
  <2>2. load' \in Calls
    BY <1>8 DEF UserEdits, TypeOK, Calls, Stages, Errors
  <2>3. acts' \in Nat
    BY <1>8 DEF UserEdits, TypeOK, Act
  <2>. QED BY <1>8, <2>1, <2>2, <2>3 DEF UserEdits, TypeOK, Act
<1>9. ASSUME UserReloads
      PROVE  TypeOK'
  <2>1. editor' \in Editors
    BY <1>9 DEF UserReloads, TypeOK, Editors, Errors
  <2>2. load' \in Calls
    BY <1>9 DEF UserReloads, TypeOK, Calls, Stages, Errors
  <2>3. acts' \in Nat
    BY <1>9 DEF UserReloads, TypeOK, Act
  <2>. QED BY <1>9, <2>1, <2>2, <2>3 DEF UserReloads, TypeOK, Act
<1>10. ASSUME LoadReads
      PROVE  TypeOK'
  <2>1. load' \in Calls
    BY <1>10 DEF LoadReads, TypeOK, Calls, Stages, Errors, Objects, Originals
  <2>. QED BY <1>10, <2>1 DEF LoadReads, TypeOK
<1>11. ASSUME LoadAnswered
      PROVE  TypeOK'
  <2>1. editor' \in Editors
    <3>1. CASE load.result = "ok"
      <4>1. load.original \in Originals /\ load.original.spec \in Texts \cup {NoText} /\ load.original.rv \in Nat
        BY DEF TypeOK, Calls, Originals, Texts
      <4>. QED BY <1>11, <3>1, <4>1 DEF LoadAnswered, TypeOK, Editors, ClosedEditor
    <3>2. CASE load.result # "ok"
      BY <1>11, <3>2 DEF LoadAnswered, TypeOK, Editors, Errors
    <3>. QED BY <3>1, <3>2
  <2>2. load' \in Calls
    BY <1>11 DEF LoadAnswered, TypeOK, Calls, Stages, Errors
  <2>3. review' \in Calls /\ (review.stage' \in {"sent", "got"} => review.draft' # NoText)
    BY <1>11 DEF LoadAnswered, TypeOK, Calls, Stages, Errors
  <2>4. apply' \in Calls /\ (apply.stage' \in {"sent", "got"} => apply.draft' # NoText)
    BY <1>11 DEF LoadAnswered, TypeOK, Calls, Stages, Errors
  <2>. QED BY <1>11, <2>1, <2>2, <2>3, <2>4 DEF LoadAnswered, TypeOK
<1>12. ASSUME UserCancels
      PROVE  TypeOK'
  <2>1. editor' \in Editors
    BY <1>12 DEF UserCancels, TypeOK, Editors
  <2>2. load' \in Calls
    BY <1>12 DEF UserCancels, TypeOK, Calls, Stages, Errors
  <2>3. review' \in Calls /\ (review.stage' \in {"sent", "got"} => review.draft' # NoText)
    BY <1>12 DEF UserCancels, TypeOK, Calls, Stages, Errors
  <2>4. apply' \in Calls /\ (apply.stage' \in {"sent", "got"} => apply.draft' # NoText)
    BY <1>12 DEF UserCancels, TypeOK, Calls, Stages, Errors
  <2>5. acts' \in Nat
    BY <1>12 DEF UserCancels, TypeOK, Act
  <2>. QED BY <1>12, <2>1, <2>2, <2>3, <2>4, <2>5 DEF UserCancels, TypeOK, Act
<1>13. ASSUME UserTypes
      PROVE  TypeOK'
  <2>1. editor' \in Editors
    <3>1. PICK text \in Texts, line \in {editor.original.rv, 0, obj.rv} :
               /\ text # editor.draft \/ line # editor.line
               /\ editor' = [editor EXCEPT !.draft = text, !.line = line, !.diff = NoDiff]
      BY <1>13 DEF UserTypes
    <3>2. line \in Nat
      BY <3>1 DEF TypeOK, Editors, Originals, Objects
    <3>. QED BY <3>1, <3>2 DEF TypeOK, Editors
  <2>2. acts' \in Nat
    BY <1>13 DEF UserTypes, TypeOK, Act
  <2>. QED BY <1>13, <2>1, <2>2 DEF UserTypes, TypeOK, Act
<1>14. ASSUME UserReviews
      PROVE  TypeOK'
  <2>1. editor' \in Editors
    BY <1>14 DEF UserReviews, TypeOK, Editors, Errors
  <2>2. review' \in Calls /\ (review.stage' \in {"sent", "got"} => review.draft' # NoText)
    BY <1>14, SentEditType DEF UserReviews, TypeOK, Calls, Stages, Errors
  <2>3. acts' \in Nat
    BY <1>14 DEF UserReviews, TypeOK, Act
  <2>. QED BY <1>14, <2>1, <2>2, <2>3 DEF UserReviews, TypeOK, Act
<1>15. ASSUME ReviewReads
      PROVE  TypeOK'
  <2>1. review' \in Calls /\ (review.stage' \in {"sent", "got"} => review.draft' # NoText)
    BY <1>15, EditedType DEF ReviewReads, TypeOK, Calls, Stages, Errors
  <2>. QED BY <1>15, <2>1 DEF ReviewReads, TypeOK
<1>16. ASSUME ReviewDryRuns
      PROVE  TypeOK'
  <2>1. review' \in Calls /\ (review.stage' \in {"sent", "got"} => review.draft' # NoText)
    BY <1>16, VerdictType DEF ReviewDryRuns, TypeOK, Calls, Stages, Errors
  <2>. QED BY <1>16, <2>1 DEF ReviewDryRuns, TypeOK
<1>17. ASSUME ReviewAnswered
      PROVE  TypeOK'
  <2>1. editor' \in Editors
    BY <1>17 DEF ReviewAnswered, TypeOK, Editors, Calls, Errors, Diffs
  <2>2. review' \in Calls /\ (review.stage' \in {"sent", "got"} => review.draft' # NoText)
    BY <1>17 DEF ReviewAnswered, TypeOK, Calls, Stages, Errors
  <2>. QED BY <1>17, <2>1, <2>2 DEF ReviewAnswered, TypeOK
<1>18. ASSUME UserDismisses
      PROVE  TypeOK'
  <2>1. editor' \in Editors
    BY <1>18 DEF UserDismisses, TypeOK, Editors
  <2>2. acts' \in Nat
    BY <1>18 DEF UserDismisses, TypeOK, Act
  <2>. QED BY <1>18, <2>1, <2>2 DEF UserDismisses, TypeOK, Act
<1>19. ASSUME UserApplies
      PROVE  TypeOK'
  <2>1. editor' \in Editors
    BY <1>19 DEF UserApplies, TypeOK, Editors, Errors
  <2>2. apply' \in Calls /\ (apply.stage' \in {"sent", "got"} => apply.draft' # NoText)
    <3>1. editor.draft # NoText
      BY <1>19 DEF UserApplies, DialogOpen, TextFirst
    <3>. QED BY <1>19, <3>1, SentEditType DEF UserApplies
  <2>3. acts' \in Nat
    BY <1>19 DEF UserApplies, TypeOK, Act
  <2>. QED BY <1>19, <2>1, <2>2, <2>3 DEF UserApplies, TypeOK, Act
<1>20. ASSUME ApplyReads
      PROVE  TypeOK'
  <2>1. apply' \in Calls /\ (apply.stage' \in {"sent", "got"} => apply.draft' # NoText)
    BY <1>20, EditedType DEF ApplyReads, TypeOK, Calls, Stages, Errors
  <2>. QED BY <1>20, <2>1 DEF ApplyReads, TypeOK
<1>21. ASSUME ApplyUpdates
      PROVE  TypeOK'
  <2>1. obj' \in Objects
    BY <1>21, WrittenType DEF ApplyUpdates, TypeOK, Objects, ApplyHolds
  <2>2. apply' \in Calls /\ (apply.stage' \in {"sent", "got"} => apply.draft' # NoText)
    BY <1>21, <2>1, VerdictType, ZenonT(40) DEF ApplyUpdates, TypeOK, Calls, Stages, Errors, Objects
  <2>. QED BY <1>21, <2>1, <2>2 DEF ApplyUpdates, TypeOK
<1>22. ASSUME ApplyAnswered
      PROVE  TypeOK'
  <2>1. editor' \in Editors
    BY <1>22, ZenonT(40) DEF ApplyAnswered, TypeOK, Editors, Calls, Errors
  <2>2. detail' \in Details
    BY <1>22 DEF ApplyAnswered, TypeOK, Details, Calls
  <2>3. fetch' \in Fetches /\ (fetch.stage' = "answered" => fetch.got.spec' # NoText)
    BY <1>22, Invalidated DEF ApplyAnswered, TypeOK
  <2>4. load' \in Calls
    BY <1>22 DEF ApplyAnswered, TypeOK, Calls, Stages, Errors
  <2>5. review' \in Calls /\ (review.stage' \in {"sent", "got"} => review.draft' # NoText)
    BY <1>22 DEF ApplyAnswered, TypeOK, Calls, Stages, Errors
  <2>6. apply' \in Calls /\ (apply.stage' \in {"sent", "got"} => apply.draft' # NoText)
    BY <1>22 DEF ApplyAnswered, TypeOK, Calls, Stages, Errors
  <2>. QED BY <1>22, <2>1, <2>2, <2>3, <2>4, <2>5, <2>6 DEF ApplyAnswered, TypeOK
<1>23. ASSUME NEW v \in Verbs, UserAsks(v)
      PROVE  TypeOK'
  <2>1. ask' \in Asks
    BY <1>23 DEF UserAsks, TypeOK, Asks, Details, Specs, Errors
  <2>2. acts' \in Nat
    BY <1>23 DEF UserAsks, TypeOK, Act
  <2>. QED BY <1>23, <2>1, <2>2 DEF UserAsks, TypeOK, Act
<1>24. ASSUME UserSets
      PROVE  TypeOK'
  <2>1. ask' \in Asks
    BY <1>24 DEF UserSets, TypeOK, Asks
  <2>2. acts' \in Nat
    BY <1>24 DEF UserSets, TypeOK, Act
  <2>. QED BY <1>24, <2>1, <2>2 DEF UserSets, TypeOK, Act
<1>25. ASSUME UserThinksBetter
      PROVE  TypeOK'
  <2>1. ask' \in Asks
    BY <1>25 DEF UserThinksBetter, TypeOK, Asks
  <2>2. acts' \in Nat
    BY <1>25 DEF UserThinksBetter, TypeOK, Act
  <2>. QED BY <1>25, <2>1, <2>2 DEF UserThinksBetter, TypeOK, Act
<1>26. ASSUME UserConfirms
      PROVE  TypeOK'
  <2>1. ask' \in Asks
    BY <1>26 DEF UserConfirms, TypeOK, Asks, Errors
  <2>2. act' \in Actions
    <3>1. PICK k \in Settings : act' = [NoAct EXCEPT !.stage = "sent", !.verb = ask.verb, !.arg = k]
      BY <1>26 DEF UserConfirms
    <3>2. k \in Knobs \cup {NoText} /\ ask.verb \in Verbs \cup {"none"}
      BY DEF Settings, TypeOK, Asks
    <3>. QED BY <3>1, <3>2 DEF TypeOK, Actions, Stages, NoAct
  <2>3. acts' \in Nat
    BY <1>26 DEF UserConfirms, TypeOK, Act
  <2>. QED BY <1>26, <2>1, <2>2, <2>3 DEF UserConfirms, TypeOK, Act
<1>27. ASSUME ActRuns
      PROVE  TypeOK'
  <2>1. obj' \in Objects
    <3>1. CASE obj' = obj
      BY <3>1 DEF TypeOK
    <3>2. CASE obj.spec # Gone /\ \E t \in Templates : obj' = Written([obj.spec EXCEPT !.tmpl = t])
      BY <3>2, WrittenType, FieldTypes
    <3>3. CASE obj.spec # Gone /\ act.arg \in Knobs /\ obj' = Written([obj.spec EXCEPT !.knob = act.arg])
      BY <3>3, WrittenType, FieldTypes
    <3>4. CASE obj' = Written(Gone)
      BY <3>4, WrittenType
    <3>. QED BY <1>27, <3>1, <3>2, <3>3, <3>4 DEF ActRuns, Patches, ActIsMeant
  <2>2. act' \in Actions
    BY <1>27, <2>1, ZenonT(40) DEF ActRuns, TypeOK, Actions, Stages, Errors, Done, Objects
  <2>. QED BY <1>27, <2>1, <2>2 DEF ActRuns, TypeOK
<1>28. ASSUME RollbackReads
      PROVE  TypeOK'
  <2>1. act' \in Actions
    BY <1>28 DEF RollbackReads, TypeOK, Actions, Stages, Errors, Previous, Owned, Objects
  <2>. QED BY <1>28, <2>1 DEF RollbackReads, TypeOK
<1>29. ASSUME RollbackPatches
      PROVE  TypeOK'
  <2>1. obj' \in Objects
    <3>1. CASE obj.spec # Gone /\ obj' = Written([obj.spec EXCEPT !.tmpl = act.tmpl])
      BY <1>29, <3>1, WrittenType, FieldTypes DEF RollbackPatches, RollbackHolds
    <3>2. CASE obj' = obj
      BY <3>2 DEF TypeOK
    <3>. QED BY <1>29, <3>1, <3>2 DEF RollbackPatches, Verdict
  <2>2. act' \in Actions
    BY <1>29, <2>1, VerdictType, ZenonT(40) DEF RollbackPatches, TypeOK, Actions, Stages, Errors, Done, Objects
  <2>. QED BY <1>29, <2>1, <2>2 DEF RollbackPatches, TypeOK
<1>30. ASSUME ActAnswered
      PROVE  TypeOK'
  <2>1. ask' \in Asks
    BY <1>30 DEF ActAnswered, TypeOK, Asks, Actions, Errors
  <2>2. detail' \in Details
    BY <1>30 DEF ActAnswered, TypeOK, Details, Actions
  <2>3. fetch' \in Fetches /\ (fetch.stage' = "answered" => fetch.got.spec' # NoText)
    BY <1>30, Invalidated DEF ActAnswered, TypeOK
  <2>4. act' \in Actions
    BY <1>30 DEF ActAnswered, TypeOK, Actions, Stages, Errors
  <2>5. editor' \in Editors
    BY <1>30 DEF ActAnswered, TypeOK, Editors
  <2>6. load' \in Calls
    BY <1>30 DEF ActAnswered, TypeOK, Calls, Stages, Errors
  <2>7. review' \in Calls /\ (review.stage' \in {"sent", "got"} => review.draft' # NoText)
    BY <1>30 DEF ActAnswered, TypeOK, Calls, Stages, Errors
  <2>8. apply' \in Calls /\ (apply.stage' \in {"sent", "got"} => apply.draft' # NoText)
    BY <1>30 DEF ActAnswered, TypeOK, Calls, Stages, Errors
  <2>. QED BY <1>30, <2>1, <2>2, <2>3, <2>4, <2>5, <2>6, <2>7, <2>8 DEF ActAnswered, TypeOK
<1>31. ASSUME Lost
      PROVE  TypeOK'
  <2>1. load' \in Calls
    BY <1>31 DEF Lost, TypeOK, Calls, Stages, Errors, Fails
  <2>2. review' \in Calls /\ (review.stage' \in {"sent", "got"} => review.draft' # NoText)
    BY <1>31 DEF Lost, TypeOK, Calls, Stages, Errors, Fails
  <2>3. apply' \in Calls /\ (apply.stage' \in {"sent", "got"} => apply.draft' # NoText)
    BY <1>31 DEF Lost, TypeOK, Calls, Stages, Errors, Fails
  <2>4. act' \in Actions
    BY <1>31 DEF Lost, TypeOK, Actions, Stages, Errors, Fails
  <2>5. acts' \in Nat
    BY <1>31 DEF Lost, TypeOK, Act
  <2>. QED BY <1>31, <2>1, <2>2, <2>3, <2>4, <2>5 DEF Lost, TypeOK, Act
<1>32. ASSUME UNCHANGED vars
      PROVE  TypeOK'
  BY <1>32 DEF vars, TypeOK
<1>. QED BY <1>1, <1>2, <1>3, <1>4, <1>5, <1>6, <1>7, <1>8, <1>9, <1>10, <1>11, <1>12, <1>13, <1>14, <1>15, <1>16, <1>17, <1>18, <1>19, <1>20, <1>21, <1>22, <1>23, <1>24, <1>25, <1>26, <1>27, <1>28, <1>29, <1>30, <1>31, <1>32 DEF Next, Others, Query, Loading, Reviewing, Applying, Acting

-----------------------------------------------------------------------------
(* A write of the object that changes it moves it to another edition and     *)
(* another resourceVersion.                                                  *)
LEMMA WrittenMoves ==
  ASSUME TypeOK, NEW s
  PROVE  /\ Written(s) = obj \/ (Written(s).ed = obj.ed + 1 /\ Written(s).rv = obj.rv + 1)
         /\ Written(s).spec = s
BY DEF TypeOK, Objects, Written

(* The object never goes back, and no change of it keeps its resourceVersion. *)
LEMMA ObjStep ==
  ASSUME TypeOK, ApplyHolds, RollbackHolds, ActIsMeant, TextFirst, [Next]_vars
  PROVE  obj' = obj \/ (obj'.ed >= obj.ed /\ obj'.rv > obj.rv)
<1>1. CASE UNCHANGED obj
  BY <1>1 DEF TypeOK
<1>2. ASSUME OthersWrite
      PROVE  obj' = obj \/ (obj'.ed >= obj.ed /\ obj'.rv > obj.rv)
  <2>1. PICK s \in Specs \cup {Gone} : s # obj.spec /\ obj' = [Written(s) EXCEPT !.rev = IF obj.spec = Gone THEN 0 ELSE @]
    BY <1>2 DEF OthersWrite
  <2>2. Written(s).ed = obj.ed + 1 /\ Written(s).rv = obj.rv + 1 /\ Written(s) \in Objects
    <3>1. s # obj.spec
      BY <2>1
    <3>2. Written(s) # obj
      BY <3>1, WrittenMoves
    <3>. QED BY <3>2, WrittenMoves, WrittenType
  <2>. QED BY <2>1, <2>2 DEF TypeOK, Objects
<1>3. ASSUME StatusMoves
      PROVE  obj' = obj \/ (obj'.ed >= obj.ed /\ obj'.rv > obj.rv)
  BY <1>3 DEF StatusMoves, TypeOK, Objects
<1>4. ASSUME Rolls
      PROVE  obj' = obj \/ (obj'.ed >= obj.ed /\ obj'.rv > obj.rv)
  BY <1>4 DEF Rolls, TypeOK, Objects
<1>5. ASSUME ApplyUpdates
      PROVE  obj' = obj \/ (obj'.ed >= obj.ed /\ obj'.rv > obj.rv)
  BY <1>5, WrittenMoves DEF ApplyUpdates, TypeOK, Objects
<1>6. ASSUME ActRuns
      PROVE  obj' = obj \/ (obj'.ed >= obj.ed /\ obj'.rv > obj.rv)
  <2>1. CASE obj' = obj
    BY <2>1
  <2>2. CASE \E t \in Templates : obj' = Written([obj.spec EXCEPT !.tmpl = t])
    BY <2>2, WrittenMoves DEF TypeOK, Objects
  <2>3. CASE obj' = Written([obj.spec EXCEPT !.knob = act.arg])
    BY <2>3, WrittenMoves DEF TypeOK, Objects
  <2>4. CASE obj' = Written(Gone)
    BY <2>4, WrittenMoves DEF TypeOK, Objects
  <2>. QED BY <1>6, <2>1, <2>2, <2>3, <2>4 DEF ActRuns, Patches
<1>7. ASSUME RollbackPatches
      PROVE  obj' = obj \/ (obj'.ed >= obj.ed /\ obj'.rv > obj.rv)
  BY <1>7, WrittenMoves DEF RollbackPatches, TypeOK, Objects
<1>8. ASSUME UNCHANGED vars \/ (Next /\ ~OthersWrite /\ ~StatusMoves /\ ~Rolls /\ ~ApplyUpdates /\ ~ActRuns /\ ~RollbackPatches)
      PROVE  UNCHANGED obj
  BY <1>8 DEF vars, Next, Others, Query, Loading, Reviewing, Applying, Acting, Refresh, FetchReads, FetchAnswered, FetchLost, UserEdits, UserReloads, LoadReads, LoadAnswered, UserCancels, UserTypes, UserReviews, ReviewReads, ReviewDryRuns, ReviewAnswered, UserDismisses, UserApplies, ApplyReads, ApplyAnswered, UserAsks, UserSets, UserThinksBetter, UserConfirms, RollbackReads, ActAnswered, Lost
<1>. QED BY <1>1, <1>2, <1>3, <1>4, <1>5, <1>6, <1>7, <1>8

(* What was loaded from an edition the object had stays so. *)
LEMMA OldStays ==
  ASSUME TypeOK, obj.rv > 0, obj' = obj \/ (obj'.ed >= obj.ed /\ obj'.rv > obj.rv), obj' \in Objects,
         NEW t \in Originals, Old(t)
  PROVE  t.ed <= obj'.ed /\ t.rv <= obj'.rv /\ (t.rv = obj'.rv => t.ed = obj'.ed) /\ obj'.rv > 0
BY DEF TypeOK, Objects, Originals, Old

(* A blank text is as old as can be. *)
LEMMA BlankIsOld == ASSUME TypeOK, obj.rv > 0 PROVE Old(NoOriginal) /\ NoOriginal.ed = 0 /\ NoOriginal.rv = 0
BY DEF TypeOK, Objects, Old, NoOriginal

(* The records the model starts from, field by field. *)
LEMMA BlankFields ==
  /\ NoCall.original = NoOriginal /\ NoCall.stage = "idle" /\ Sent.original = NoOriginal /\ Sent.stage = "sent"
  /\ ClosedEditor.original = NoOriginal /\ ClosedEditor.draft = NoText /\ ClosedEditor.diff = NoDiff
  /\ SentEdit.stage = "sent" /\ SentEdit.original = editor.original
  /\ NoAct.stage = "idle" /\ NoAct.base = 0 /\ NoAct.verb = "none"
  /\ NoAsk.verb = "none"
BY DEF NoCall, Sent, ClosedEditor, SentEdit, NoAct, NoAsk

(* What the texts were loaded from are editions the object has, or had. *)
LEMMA TextsStep ==
  ASSUME IndInv, [Next]_vars, TypeOK'
  PROVE  TextsAreOld'
<1>. USE BlankIsOld DEF IndInv
<1>0. obj' = obj \/ (obj'.ed >= obj.ed /\ obj'.rv > obj.rv)
  BY ObjStep
<1>1. CASE UNCHANGED <<editor, load, apply, obj>>
  BY <1>1 DEF IndInv, TextsAreOld, Old
<1>2. ASSUME OthersWrite
      PROVE  TextsAreOld'
  BY <1>2, <1>0, OldStays DEF OthersWrite, TextsAreOld, Old, TypeOK, Editors, Calls
<1>3. ASSUME StatusMoves
      PROVE  TextsAreOld'
  BY <1>3, <1>0, OldStays DEF StatusMoves, TextsAreOld, Old, TypeOK, Editors, Calls
<1>4. ASSUME Rolls
      PROVE  TextsAreOld'
  BY <1>4, <1>0, OldStays DEF Rolls, TextsAreOld, Old, TypeOK, Editors, Calls
<1>5. ASSUME UserEdits
      PROVE  TextsAreOld'
  BY <1>5, BlankFields DEF UserEdits, TextsAreOld, Old, TypeOK, Editors, Calls, Objects, Originals
<1>6. ASSUME UserReloads
      PROVE  TextsAreOld'
  BY <1>6, BlankFields DEF UserReloads, TextsAreOld, Old, TypeOK, Editors, Calls, Objects, Originals
<1>7. ASSUME LoadReads
      PROVE  TextsAreOld'
  BY <1>7 DEF LoadReads, TextsAreOld, Old, TypeOK, Calls, Objects, Originals
<1>8. ASSUME LoadAnswered
      PROVE  TextsAreOld'
  <2>1. obj' = obj /\ load'.original = NoOriginal /\ apply'.original = apply.original
    BY <1>8, BlankFields DEF LoadAnswered, TypeOK, Calls
  <2>2. editor'.original \in {load.original, editor.original}
    BY <1>8 DEF LoadAnswered, TypeOK, Editors
  <2>. QED BY <2>1, <2>2 DEF TextsAreOld, Old
<1>9. ASSUME UserCancels
      PROVE  TextsAreOld'
  BY <1>9, BlankFields DEF UserCancels, TextsAreOld, Old, TypeOK, Editors, Calls, Objects, Originals
<1>10. ASSUME UserTypes
      PROVE  TextsAreOld'
  BY <1>10, BlankFields DEF UserTypes, TextsAreOld, Old, TypeOK, Editors, Calls, Objects, Originals
<1>11. ASSUME UserReviews
      PROVE  TextsAreOld'
  BY <1>11, BlankFields DEF UserReviews, TextsAreOld, Old, TypeOK, Editors, Calls, Objects, Originals
<1>12. ASSUME ReviewAnswered
      PROVE  TextsAreOld'
  BY <1>12, BlankFields DEF ReviewAnswered, TextsAreOld, Old, TypeOK, Editors, Calls, Objects, Originals
<1>13. ASSUME UserDismisses
      PROVE  TextsAreOld'
  BY <1>13, BlankFields DEF UserDismisses, TextsAreOld, Old, TypeOK, Editors, Calls, Objects, Originals
<1>14. ASSUME UserApplies
      PROVE  TextsAreOld'
  BY <1>14, BlankFields DEF UserApplies, TextsAreOld, Old, TypeOK, Editors, Calls, Objects, Originals
<1>15. ASSUME ApplyReads
      PROVE  TextsAreOld'
  BY <1>15 DEF ApplyReads, TextsAreOld, Old, TypeOK, Calls, Objects, Originals, EditedObject
<1>16. ASSUME ApplyUpdates
      PROVE  TextsAreOld'
  BY <1>16, <1>0, OldStays DEF ApplyUpdates, TextsAreOld, Old, TypeOK, Editors, Calls, Objects, Originals
<1>17. ASSUME ApplyAnswered
      PROVE  TextsAreOld'
  <2>1. obj' = obj /\ apply'.original = NoOriginal /\ load'.original \in {load.original, NoOriginal}
    BY <1>17, BlankFields DEF ApplyAnswered
  <2>2. editor'.original \in {NoOriginal, editor.original}
    BY <1>17, BlankFields DEF ApplyAnswered, TypeOK, Editors
  <2>. QED BY <2>1, <2>2 DEF TextsAreOld, Old
<1>18. ASSUME ActRuns
      PROVE  TextsAreOld'
  BY <1>18, <1>0, OldStays DEF ActRuns, TextsAreOld, Old, TypeOK, Editors, Calls
<1>19. ASSUME RollbackPatches
      PROVE  TextsAreOld'
  BY <1>19, <1>0, OldStays DEF RollbackPatches, TextsAreOld, Old, TypeOK, Editors, Calls
<1>20. ASSUME ActAnswered
      PROVE  TextsAreOld'
  BY <1>20, BlankFields DEF ActAnswered, TextsAreOld, Old, TypeOK, Editors, Calls, Objects, Originals
<1>21. ASSUME Lost
      PROVE  TextsAreOld'
  BY <1>21 DEF Lost, TextsAreOld, Old, TypeOK, Calls, Objects, Originals, Fails
<1>22. ASSUME UNCHANGED vars \/ (Next /\ ~OthersWrite /\ ~StatusMoves /\ ~Rolls /\ ~UserEdits /\ ~UserReloads /\ ~LoadReads /\ ~LoadAnswered /\ ~UserCancels /\ ~UserTypes /\ ~UserReviews /\ ~ReviewAnswered /\ ~UserDismisses /\ ~UserApplies /\ ~ApplyReads /\ ~ApplyUpdates /\ ~ApplyAnswered /\ ~ActRuns /\ ~RollbackPatches /\ ~ActAnswered /\ ~Lost)
      PROVE  UNCHANGED <<editor, load, apply, obj>>
  BY <1>22 DEF vars, Next, Others, Query, Loading, Reviewing, Applying, Acting, Refresh, FetchReads, FetchAnswered, FetchLost, ReviewReads, ReviewDryRuns, UserAsks, UserSets, UserThinksBetter, UserConfirms, RollbackReads
<1>. QED BY <1>1, <1>2, <1>3, <1>4, <1>5, <1>6, <1>7, <1>8, <1>9, <1>10, <1>11, <1>12, <1>13, <1>14, <1>15, <1>16, <1>17, <1>18, <1>19, <1>20, <1>21, <1>22

(* An Apply that holds the resourceVersion of the object was made of its edition. *)
LEMMA ApplyStep ==
  ASSUME IndInv, [Next]_vars, TypeOK'
  PROVE  ApplyHolds'
<1>. USE DEF IndInv
<1>0. obj' = obj \/ (obj'.ed >= obj.ed /\ obj'.rv > obj.rv)
  BY ObjStep
<1>1. CASE UNCHANGED <<apply, obj>>
  BY <1>1 DEF ApplyHolds
<1>2. ASSUME OthersWrite
      PROVE  ApplyHolds'
  BY <1>2, <1>0 DEF OthersWrite, ApplyHolds, TypeOK, Calls, Objects, Originals
<1>3. ASSUME StatusMoves
      PROVE  ApplyHolds'
  BY <1>3, <1>0 DEF StatusMoves, ApplyHolds, TypeOK, Calls, Objects, Originals
<1>4. ASSUME Rolls
      PROVE  ApplyHolds'
  BY <1>4, <1>0 DEF Rolls, ApplyHolds, TypeOK, Calls, Objects, Originals
<1>5. ASSUME LoadAnswered
      PROVE  ApplyHolds'
  BY <1>5 DEF LoadAnswered, ApplyHolds, Keeps, TypeOK, Calls
<1>6. ASSUME UserCancels
      PROVE  ApplyHolds'
  BY <1>6 DEF UserCancels, ApplyHolds, Keeps, TypeOK, Calls
<1>7. ASSUME UserApplies
      PROVE  ApplyHolds'
  BY <1>7, BlankFields DEF UserApplies, ApplyHolds
<1>8. ASSUME ApplyReads
      PROVE  ApplyHolds'
  <2>1. obj' = obj /\ apply' = EditedObject(apply) /\ apply.stage = "sent"
    BY <1>8 DEF ApplyReads
  <2>2. CASE apply.draft = Invalid \/ obj.spec = Gone
    BY <2>1, <2>2 DEF EditedObject, ApplyHolds, TypeOK, Calls
  <2>3. CASE ~(apply.draft = Invalid \/ obj.spec = Gone)
    <3>1. apply'.draft = apply.draft /\ apply'.original = apply.original /\ apply'.line = apply.line
          /\ apply'.rv = (IF obj.ed = apply.original.ed THEN obj.rv ELSE apply.line)
      BY <2>1, <2>3 DEF EditedObject, TypeOK, Calls
    <3>2. apply'.draft \in Specs
      BY <2>1, <2>3, <3>1 DEF TypeOK, Calls, Texts
    <3>3. ASSUME Keeps(apply')
          PROVE  apply'.rv \in 1 .. obj.rv /\ (apply'.rv = obj.rv => apply'.original.ed = obj.ed)
      BY <3>1, <3>3 DEF Keeps, TextsAreOld, Old, TypeOK, Calls, Objects, Originals
    <3>. QED BY <2>1, <3>2, <3>3 DEF ApplyHolds, Keeps
  <2>. QED BY <2>2, <2>3
<1>9. ASSUME ApplyUpdates
      PROVE  ApplyHolds'
  BY <1>9, <1>0 DEF ApplyUpdates, ApplyHolds, Keeps, TypeOK, Calls, Objects, Originals
<1>10. ASSUME ApplyAnswered
      PROVE  ApplyHolds'
  BY <1>10, BlankFields DEF ApplyAnswered, ApplyHolds
<1>11. ASSUME ActRuns
      PROVE  ApplyHolds'
  BY <1>11, <1>0 DEF ActRuns, ApplyHolds, TypeOK, Calls, Objects, Originals
<1>12. ASSUME RollbackPatches
      PROVE  ApplyHolds'
  BY <1>12, <1>0 DEF RollbackPatches, ApplyHolds, TypeOK, Calls, Objects, Originals
<1>13. ASSUME ActAnswered
      PROVE  ApplyHolds'
  BY <1>13 DEF ActAnswered, ApplyHolds, Keeps, TypeOK, Calls
<1>14. ASSUME Lost
      PROVE  ApplyHolds'
  BY <1>14 DEF Lost, ApplyHolds, Keeps, Fails, TypeOK, Calls
<1>15. ASSUME UNCHANGED vars \/ (Next /\ ~OthersWrite /\ ~StatusMoves /\ ~Rolls /\ ~LoadAnswered /\ ~UserCancels /\ ~UserApplies /\ ~ApplyReads /\ ~ApplyUpdates /\ ~ApplyAnswered /\ ~ActRuns /\ ~RollbackPatches /\ ~ActAnswered /\ ~Lost)
      PROVE  UNCHANGED <<apply, obj>>
  BY <1>15 DEF vars, Next, Others, Query, Loading, Reviewing, Applying, Acting, Refresh, FetchReads, FetchAnswered, FetchLost, UserEdits, UserReloads, LoadReads, UserTypes, UserReviews, ReviewReads, ReviewDryRuns, ReviewAnswered, UserDismisses, UserAsks, UserSets, UserThinksBetter, UserConfirms, RollbackReads
<1>. QED BY <1>1, <1>2, <1>3, <1>4, <1>5, <1>6, <1>7, <1>8, <1>9, <1>10, <1>11, <1>12, <1>13, <1>14, <1>15

(* A rollback that holds the resourceVersion of the object was looked up for its edition. *)
LEMMA RollbackStep ==
  ASSUME IndInv, [Next]_vars, TypeOK'
  PROVE  RollbackHolds'
<1>. USE DEF IndInv
<1>0. obj' = obj \/ (obj'.ed >= obj.ed /\ obj'.rv > obj.rv)
  BY ObjStep
<1>1. CASE UNCHANGED <<act, obj>>
  BY <1>1 DEF RollbackHolds
<1>2. ASSUME OthersWrite
      PROVE  RollbackHolds'
  BY <1>2, <1>0 DEF OthersWrite, RollbackHolds, TypeOK, Actions, Objects
<1>3. ASSUME StatusMoves
      PROVE  RollbackHolds'
  BY <1>3, <1>0 DEF StatusMoves, RollbackHolds, TypeOK, Actions, Objects
<1>4. ASSUME Rolls
      PROVE  RollbackHolds'
  BY <1>4, <1>0 DEF Rolls, RollbackHolds, TypeOK, Actions, Objects
<1>5. ASSUME ApplyUpdates
      PROVE  RollbackHolds'
  BY <1>5, <1>0 DEF ApplyUpdates, RollbackHolds, TypeOK, Actions, Objects
<1>6. ASSUME UserConfirms
      PROVE  RollbackHolds'
  BY <1>6 DEF UserConfirms, RollbackHolds, NoAct, TypeOK, Objects
<1>7. ASSUME ActRuns
      PROVE  RollbackHolds'
  <2>1. act'.base = act.base /\ act'.stage = "answered"
    BY <1>7 DEF ActRuns, Done, TypeOK, Actions
  <2>. QED BY <2>1, <1>0 DEF RollbackHolds, TypeOK, Actions, Objects
<1>8. ASSUME RollbackReads
      PROVE  RollbackHolds'
  <2>1. obj' = obj
    BY <1>8 DEF RollbackReads
  <2>2. CASE act' = [act EXCEPT !.stage = "answered", !.result = "failed"]
    BY <2>1, <2>2 DEF RollbackHolds, TypeOK, Actions
  <2>3. CASE \E t \in Templates :
               act' = [act EXCEPT !.stage = "got", !.base = obj.ed, !.rv = obj.rv, !.tmpl = t]
    <3>1. PICK t \in Templates :
            act' = [act EXCEPT !.stage = "got", !.base = obj.ed, !.rv = obj.rv, !.tmpl = t]
      BY <2>3
    <3>2. act'.verb = "RollBack" /\ act'.tmpl = t /\ act'.base = obj.ed /\ act'.rv = obj.rv
      BY <1>8, <3>1 DEF RollbackReads, TypeOK, Actions
    <3>3. act'.stage = "got"
      BY <3>1 DEF TypeOK, Actions
    <3>. QED BY <2>1, <3>2, <3>3 DEF RollbackHolds, TextsAreOld, TypeOK, Objects
  <2>. QED BY <1>8, <2>2, <2>3 DEF RollbackReads, Previous, Owned
<1>9. ASSUME RollbackPatches
      PROVE  RollbackHolds'
  BY <1>9, <1>0 DEF RollbackPatches, RollbackHolds, TypeOK, Actions, Objects, Done
<1>10. ASSUME ActAnswered
      PROVE  RollbackHolds'
  BY <1>10 DEF ActAnswered, RollbackHolds, NoAct, TypeOK, Objects
<1>11. ASSUME Lost
      PROVE  RollbackHolds'
  BY <1>11 DEF Lost, RollbackHolds, Fails, TypeOK, Actions
<1>12. ASSUME UNCHANGED vars \/ (Next /\ ~OthersWrite /\ ~StatusMoves /\ ~Rolls /\ ~ApplyUpdates /\ ~UserConfirms /\ ~ActRuns /\ ~RollbackReads /\ ~RollbackPatches /\ ~ActAnswered /\ ~Lost)
      PROVE  UNCHANGED <<act, obj>>
  BY <1>12 DEF vars, Next, Others, Query, Loading, Reviewing, Applying, Acting, Refresh, FetchReads, FetchAnswered, FetchLost, UserEdits, UserReloads, LoadReads, LoadAnswered, UserCancels, UserTypes, UserReviews, ReviewReads, ReviewDryRuns, ReviewAnswered, UserDismisses, UserApplies, ApplyReads, ApplyAnswered, UserAsks, UserSets, UserThinksBetter
<1>. QED BY <1>1, <1>2, <1>3, <1>4, <1>5, <1>6, <1>7, <1>8, <1>9, <1>10, <1>11, <1>12

(* A confirmed action has what its request needs. *)
LEMMA MeantStep ==
  ASSUME IndInv, [Next]_vars, TypeOK'
  PROVE  ActIsMeant'
<1>. USE DEF IndInv
<1>1. CASE UNCHANGED <<act, ask>>
  BY <1>1 DEF ActIsMeant
<1>2. ASSUME NEW v \in Verbs, UserAsks(v)
      PROVE  ActIsMeant'
  BY <1>2 DEF UserAsks, ActIsMeant, TypeOK, Details, Specs
<1>3. ASSUME UserSets
      PROVE  ActIsMeant'
  BY <1>3 DEF UserSets, ActIsMeant, TypeOK, Asks
<1>4. ASSUME UserThinksBetter
      PROVE  ActIsMeant'
  BY <1>4, BlankFields DEF UserThinksBetter, ActIsMeant
<1>5. ASSUME UserConfirms
      PROVE  ActIsMeant'
  BY <1>5 DEF UserConfirms, ActIsMeant, NoAct, Settings, TypeOK, Asks, Details, Specs
<1>6. ASSUME ActRuns
      PROVE  ActIsMeant'
  BY <1>6 DEF ActRuns, ActIsMeant, Done, TypeOK, Actions
<1>7. ASSUME RollbackReads
      PROVE  ActIsMeant'
  BY <1>7 DEF RollbackReads, ActIsMeant, TypeOK, Actions
<1>8. ASSUME RollbackPatches
      PROVE  ActIsMeant'
  BY <1>8 DEF RollbackPatches, ActIsMeant, RollbackHolds, Done, TypeOK, Actions
<1>9. ASSUME ActAnswered
      PROVE  ActIsMeant'
  BY <1>9 DEF ActAnswered, ActIsMeant, NoAct, NoAsk, TypeOK, Asks
<1>10. ASSUME Lost
      PROVE  ActIsMeant'
  BY <1>10 DEF Lost, ActIsMeant, Fails, TypeOK, Actions
<1>11. ASSUME UNCHANGED vars \/ (Next /\ ~(\E v \in Verbs : UserAsks(v)) /\ ~UserSets /\ ~UserThinksBetter /\ ~UserConfirms /\ ~ActRuns /\ ~RollbackReads /\ ~RollbackPatches /\ ~ActAnswered /\ ~Lost)
      PROVE  UNCHANGED <<act, ask>>
  BY <1>11 DEF vars, Next, Others, Query, Loading, Reviewing, Applying, Acting, OthersWrite, StatusMoves, Rolls, Refresh, FetchReads, FetchAnswered, FetchLost, UserEdits, UserReloads, LoadReads, LoadAnswered, UserCancels, UserTypes, UserReviews, ReviewReads, ReviewDryRuns, ReviewAnswered, UserDismisses, UserApplies, ApplyReads, ApplyUpdates, ApplyAnswered
<1>. QED BY <1>1, <1>2, <1>3, <1>4, <1>5, <1>6, <1>7, <1>8, <1>9, <1>10, <1>11

(* There is nothing to review before the first text. *)
LEMMA TextFirstStep ==
  ASSUME IndInv, [Next]_vars, TypeOK'
  PROVE  TextFirst'
<1>. USE DEF IndInv
<1>1. CASE UNCHANGED <<editor, load, review>>
  BY <1>1 DEF TextFirst
<1>2. ASSUME UserEdits
      PROVE  TextFirst'
  BY <1>2, BlankFields DEF UserEdits, TextFirst, ClosedEditor, Sent, TypeOK, Calls
<1>3. ASSUME UserReloads
      PROVE  TextFirst'
  BY <1>3, EditorAssumption, BlankFields DEF UserReloads, TextFirst, TypeOK, Editors, Calls
<1>4. ASSUME LoadReads
      PROVE  TextFirst'
  BY <1>4 DEF LoadReads, TextFirst, TypeOK, Calls, Objects
<1>5. ASSUME LoadAnswered
      PROVE  TextFirst'
  <2>1. load'.stage = "idle" /\ review'.stage = review.stage
    BY <1>5, BlankFields DEF LoadAnswered, TypeOK, Calls
  <2>2. CASE load.result = "ok"
    <3>1. editor'.on /\ editor'.draft = load.original.spec
      BY <1>5, <2>2 DEF LoadAnswered, ClosedEditor
    <3>2. editor'.draft # NoText
      BY <1>5, <2>2, <3>1, EditorAssumption DEF LoadAnswered, TextFirst
    <3>. QED BY <2>1, <3>1, <3>2 DEF TextFirst
  <2>3. CASE load.result # "ok"
    BY <1>5, <2>1, <2>3 DEF LoadAnswered, TextFirst, TypeOK, Editors
  <2>. QED BY <2>2, <2>3
<1>6. ASSUME UserCancels
      PROVE  TextFirst'
  BY <1>6, EditorAssumption, BlankFields DEF UserCancels, TextFirst, TypeOK, Editors, Calls
<1>7. ASSUME UserTypes
      PROVE  TextFirst'
  <2>1. PICK text \in Texts, line \in {editor.original.rv, 0, obj.rv} :
               /\ text # editor.draft \/ line # editor.line
               /\ editor' = [editor EXCEPT !.draft = text, !.line = line, !.diff = NoDiff]
    BY <1>7 DEF UserTypes
  <2>2. text # NoText
    BY EditorAssumption DEF Texts
  <2>. QED BY <1>7, <2>1, <2>2 DEF UserTypes, TextFirst, TypeOK, Editors
<1>8. ASSUME UserReviews
      PROVE  TextFirst'
  BY <1>8, EditorAssumption, BlankFields DEF UserReviews, TextFirst, TypeOK, Editors, Calls
<1>9. ASSUME ReviewReads
      PROVE  TextFirst'
  BY <1>9, EditedType DEF ReviewReads, TextFirst, TypeOK, Calls
<1>10. ASSUME ReviewDryRuns
      PROVE  TextFirst'
  BY <1>10, EditorAssumption, BlankFields DEF ReviewDryRuns, TextFirst, TypeOK, Editors, Calls
<1>11. ASSUME ReviewAnswered
      PROVE  TextFirst'
  BY <1>11, BlankFields DEF ReviewAnswered, TextFirst, TypeOK, Editors, Calls
<1>12. ASSUME UserDismisses
      PROVE  TextFirst'
  BY <1>12, EditorAssumption, BlankFields DEF UserDismisses, TextFirst, TypeOK, Editors, Calls
<1>13. ASSUME UserApplies
      PROVE  TextFirst'
  BY <1>13, EditorAssumption, BlankFields DEF UserApplies, TextFirst, TypeOK, Editors, Calls
<1>14. ASSUME ApplyAnswered
      PROVE  TextFirst'
  BY <1>14, EditorAssumption, BlankFields, ZenonT(40) DEF ApplyAnswered, TextFirst, TypeOK, Editors, Calls
<1>15. ASSUME ActAnswered
      PROVE  TextFirst'
  BY <1>15, EditorAssumption, BlankFields DEF ActAnswered, TextFirst, TypeOK, Editors, Calls
<1>16. ASSUME Lost
      PROVE  TextFirst'
  BY <1>16 DEF Lost, TextFirst, Fails, TypeOK, Calls
<1>17. ASSUME UNCHANGED vars \/ (Next /\ ~UserEdits /\ ~UserReloads /\ ~LoadReads /\ ~LoadAnswered /\ ~UserCancels /\ ~UserTypes /\ ~UserReviews /\ ~ReviewReads /\ ~ReviewDryRuns /\ ~ReviewAnswered /\ ~UserDismisses /\ ~UserApplies /\ ~ApplyAnswered /\ ~ActAnswered /\ ~Lost)
      PROVE  UNCHANGED <<editor, load, review>>
  BY <1>17 DEF vars, Next, Others, Query, Loading, Reviewing, Applying, Acting, OthersWrite, StatusMoves, Rolls, Refresh, FetchReads, FetchAnswered, FetchLost, ApplyReads, ApplyUpdates, UserAsks, UserSets, UserThinksBetter, UserConfirms, ActRuns, RollbackReads, RollbackPatches
<1>. QED BY <1>1, <1>2, <1>3, <1>4, <1>5, <1>6, <1>7, <1>8, <1>9, <1>10, <1>11, <1>12, <1>13, <1>14, <1>15, <1>16, <1>17

(* What is read for the detail is as new as the last answered write. *)
LEMMA FetchStep ==
  ASSUME IndInv, [Next]_vars, TypeOK'
  PROVE  FetchIsNew'
<1>. USE DEF IndInv
<1>0. obj' = obj \/ (obj'.ed >= obj.ed /\ obj'.rv > obj.rv)
  BY ObjStep
<1>1. CASE UNCHANGED <<detail, fetch, apply, act, obj>>
  BY <1>1 DEF FetchIsNew
<1>2. ASSUME OthersWrite
      PROVE  FetchIsNew'
  BY <1>2, <1>0 DEF OthersWrite, FetchIsNew, TypeOK, Details, Fetches, Calls, Actions, Objects
<1>3. ASSUME StatusMoves
      PROVE  FetchIsNew'
  BY <1>3, <1>0 DEF StatusMoves, FetchIsNew, TypeOK, Details, Fetches, Calls, Actions, Objects
<1>4. ASSUME Rolls
      PROVE  FetchIsNew'
  BY <1>4, <1>0 DEF Rolls, FetchIsNew, TypeOK, Details, Fetches, Calls, Actions, Objects
<1>5. ASSUME Refresh
      PROVE  FetchIsNew'
  BY <1>5, Invalidated DEF Refresh, FetchIsNew
<1>6. ASSUME FetchReads
      PROVE  FetchIsNew'
  BY <1>6 DEF FetchReads, FetchIsNew, TypeOK, Fetches
<1>7. ASSUME FetchAnswered
      PROVE  FetchIsNew'
  BY <1>7, QueryTypes DEF FetchAnswered, FetchIsNew, Showing, TypeOK, Details
<1>8. ASSUME FetchLost
      PROVE  FetchIsNew'
  BY <1>8, QueryTypes DEF FetchLost, FetchIsNew, TypeOK, Details
<1>9. ASSUME LoadAnswered
      PROVE  FetchIsNew'
  BY <1>9 DEF LoadAnswered, FetchIsNew, TypeOK, Calls
<1>10. ASSUME UserCancels
      PROVE  FetchIsNew'
  BY <1>10 DEF UserCancels, FetchIsNew, TypeOK, Calls
<1>11. ASSUME UserApplies
      PROVE  FetchIsNew'
  BY <1>11, BlankFields DEF UserApplies, FetchIsNew
<1>12. ASSUME ApplyReads
      PROVE  FetchIsNew'
  BY <1>12 DEF ApplyReads, FetchIsNew, EditedObject, TypeOK, Calls
<1>13. ASSUME ApplyUpdates
      PROVE  FetchIsNew'
  BY <1>13, <1>0 DEF ApplyUpdates, FetchIsNew, TypeOK, Details, Fetches, Calls, Actions, Objects
<1>14. ASSUME ApplyAnswered
      PROVE  FetchIsNew'
  <2>1. apply'.stage = "idle" /\ obj' = obj /\ act' = act
    BY <1>14, BlankFields DEF ApplyAnswered
  <2>2. CASE apply.result = "ok"
    <3>1. detail'.wrote = apply.rv /\ apply.rv <= obj.ed /\ detail'.open = detail.open
      BY <1>14, <2>2 DEF ApplyAnswered, TypeOK, Details, FetchIsNew
    <3>. QED BY <1>14, <2>1, <2>2, <3>1, Invalidated DEF ApplyAnswered, FetchIsNew
  <2>3. CASE apply.result # "ok"
    BY <1>14, <2>1, <2>3 DEF ApplyAnswered, FetchIsNew
  <2>. QED BY <2>2, <2>3
<1>15. ASSUME UserConfirms
      PROVE  FetchIsNew'
  BY <1>15 DEF UserConfirms, FetchIsNew, NoAct
<1>16. ASSUME ActRuns
      PROVE  FetchIsNew'
  <2>1. act'.stage = "answered" /\ act'.ed = obj'.ed
    BY <1>16 DEF ActRuns, Done, TypeOK, Actions
  <2>2. UNCHANGED <<detail, fetch, apply>>
    BY <1>16 DEF ActRuns
  <2>. QED BY <2>1, <2>2, <1>0 DEF FetchIsNew, TypeOK, Details, Calls, Objects
<1>17. ASSUME RollbackReads
      PROVE  FetchIsNew'
  BY <1>17 DEF RollbackReads, FetchIsNew, TypeOK, Actions
<1>18. ASSUME RollbackPatches
      PROVE  FetchIsNew'
  BY <1>18, <1>0 DEF RollbackPatches, FetchIsNew, Done, TypeOK, Details, Fetches, Calls, Actions, Objects
<1>19. ASSUME ActAnswered
      PROVE  FetchIsNew'
  <2>1. act'.stage = "idle" /\ obj' = obj /\ apply'.stage = apply.stage /\ apply'.rv = apply.rv
        /\ apply'.result = apply.result
    BY <1>19, BlankFields DEF ActAnswered, TypeOK, Calls
  <2>2. CASE act.result = "ok"
    <3>1. detail'.wrote = act.ed /\ act.ed <= obj.ed
      BY <1>19, <2>2 DEF ActAnswered, TypeOK, Details, FetchIsNew
    <3>2. detail'.open => detail.open
      BY <1>19, <2>2 DEF ActAnswered, TypeOK, Details
    <3>. QED BY <1>19, <2>1, <2>2, <3>1, <3>2, Invalidated DEF ActAnswered, FetchIsNew
  <2>3. CASE act.result # "ok"
    BY <1>19, <2>1, <2>3 DEF ActAnswered, FetchIsNew
  <2>. QED BY <2>2, <2>3
<1>20. ASSUME Lost
      PROVE  FetchIsNew'
  BY <1>20 DEF Lost, FetchIsNew, Fails, TypeOK, Calls, Actions
<1>21. ASSUME UNCHANGED vars \/ (Next /\ ~OthersWrite /\ ~StatusMoves /\ ~Rolls /\ ~Refresh /\ ~FetchReads /\ ~FetchAnswered /\ ~FetchLost /\ ~LoadAnswered /\ ~UserCancels /\ ~UserApplies /\ ~ApplyReads /\ ~ApplyUpdates /\ ~ApplyAnswered /\ ~UserConfirms /\ ~ActRuns /\ ~RollbackReads /\ ~RollbackPatches /\ ~ActAnswered /\ ~Lost)
      PROVE  UNCHANGED <<detail, fetch, apply, act, obj>>
  BY <1>21 DEF vars, Next, Others, Query, Loading, Reviewing, Applying, Acting, UserEdits, UserReloads, LoadReads, UserTypes, UserReviews, ReviewReads, ReviewDryRuns, ReviewAnswered, UserDismisses, UserAsks, UserSets, UserThinksBetter
<1>. QED BY <1>1, <1>2, <1>3, <1>4, <1>5, <1>6, <1>7, <1>8, <1>9, <1>10, <1>11, <1>12, <1>13, <1>14, <1>15, <1>16, <1>17, <1>18, <1>19, <1>20, <1>21

(* The user's own write stays shown. *)
LEMMA OwnStep ==
  ASSUME IndInv, [Next]_vars, TypeOK'
  PROVE  OwnWriteShown'
<1>. USE DEF IndInv
<1>1. CASE UNCHANGED <<detail, fetch>>
  BY <1>1 DEF OwnWriteShown
<1>2. ASSUME Refresh
      PROVE  OwnWriteShown'
  BY <1>2, Invalidated DEF Refresh, OwnWriteShown
<1>3. ASSUME FetchReads
      PROVE  OwnWriteShown'
  BY <1>3 DEF FetchReads, OwnWriteShown, TypeOK, Fetches
<1>4. ASSUME FetchAnswered
      PROVE  OwnWriteShown'
  BY <1>4, QueryTypes DEF FetchAnswered, OwnWriteShown, FetchIsNew, Showing, TypeOK, Details
<1>5. ASSUME FetchLost
      PROVE  OwnWriteShown'
  BY <1>5 DEF FetchLost, OwnWriteShown, TypeOK, Details
<1>6. ASSUME ApplyAnswered
      PROVE  OwnWriteShown'
  <2>1. CASE apply.result = "ok"
    <3>1. detail'.open => fetch'.stage # "idle"
      BY <1>6, <2>1, Invalidated DEF ApplyAnswered, TypeOK, Details
    <3>. QED BY <3>1 DEF OwnWriteShown
  <2>2. CASE apply.result # "ok"
    BY <1>6, <2>2 DEF ApplyAnswered, OwnWriteShown
  <2>. QED BY <2>1, <2>2
<1>7. ASSUME ActAnswered
      PROVE  OwnWriteShown'
  <2>1. CASE act.result = "ok"
    <3>1. detail'.open => fetch'.stage # "idle"
      BY <1>7, <2>1, Invalidated DEF ActAnswered, TypeOK, Details
    <3>. QED BY <3>1 DEF OwnWriteShown
  <2>2. CASE act.result # "ok"
    BY <1>7, <2>2 DEF ActAnswered, OwnWriteShown
  <2>. QED BY <2>1, <2>2
<1>8. ASSUME UNCHANGED vars \/ (Next /\ ~Refresh /\ ~FetchReads /\ ~FetchAnswered /\ ~FetchLost /\ ~ApplyAnswered /\ ~ActAnswered)
      PROVE  UNCHANGED <<detail, fetch>>
  BY <1>8 DEF vars, Next, Others, Query, Loading, Reviewing, Applying, Acting, OthersWrite, StatusMoves, Rolls, UserEdits, UserReloads, LoadReads, LoadAnswered, UserCancels, UserTypes, UserReviews, ReviewReads, ReviewDryRuns, ReviewAnswered, UserDismisses, UserApplies, ApplyReads, ApplyUpdates, UserAsks, UserSets, UserThinksBetter, UserConfirms, ActRuns, RollbackReads, RollbackPatches, Lost
<1>. QED BY <1>1, <1>2, <1>3, <1>4, <1>5, <1>6, <1>7, <1>8

-----------------------------------------------------------------------------
LEMMA InitInv == Init => IndInv
<1>. SUFFICES ASSUME Init
              PROVE  IndInv
  OBVIOUS
<1>. USE EditorAssumption, BlankTypes, BlankFields DEF Init
<1>1. PICK s \in Specs : obj = [spec |-> s, ed |-> 1, rv |-> 1, rev |-> 1]
  OBVIOUS
<1>2. obj \in Objects /\ detail \in Details /\ revs \in [Templates -> Nat]
  BY <1>1 DEF Objects, Details
<1>21. fetch \in Fetches
  BY DEF Fetches, NoData
<1>3. TypeOK
  BY <1>2, <1>21 DEF TypeOK
<1>4. TextsAreOld
  BY <1>1, BlankIsOld, <1>3 DEF TextsAreOld
<1>5. ApplyHolds /\ RollbackHolds /\ ActIsMeant
  BY <1>1 DEF ApplyHolds, RollbackHolds, ActIsMeant
<1>6. TextFirst /\ FetchIsNew /\ OwnWriteShown
  BY <1>1 DEF TextFirst, FetchIsNew, OwnWriteShown
<1>. QED BY <1>3, <1>4, <1>5, <1>6 DEF IndInv

LEMMA InvStep == IndInv /\ [Next]_vars => IndInv'
<1>. SUFFICES ASSUME IndInv, [Next]_vars
              PROVE  IndInv'
  OBVIOUS
<1>1. TypeOK'
  BY TypeStep DEF IndInv
<1>2. TextsAreOld' /\ ApplyHolds' /\ RollbackHolds' /\ ActIsMeant'
  BY <1>1, TextsStep, ApplyStep, RollbackStep, MeantStep
<1>3. TextFirst' /\ FetchIsNew' /\ OwnWriteShown'
  BY <1>1, TextFirstStep, FetchStep, OwnStep
<1>. QED BY <1>1, <1>2, <1>3 DEF IndInv

LEMMA Invariance == Spec => []IndInv
BY InitInv, InvStep, PTL DEF Spec

(* Every variable keeps its type. *)
THEOREM TypeCorrect == Spec => []TypeOK
<1>1. IndInv => TypeOK
  BY DEF IndInv
<1>. QED BY <1>1, Invariance, PTL

(* The detail never falls behind the user's own last answered write: what was *)
(* being read when a write was answered is read again (actions.tsx:66), but   *)
(* for a first read that was past the Cluster by then.                        *)
THEOREM OwnWriteIsShown == Spec => []OwnWriteShown
<1>1. IndInv => OwnWriteShown
  BY DEF IndInv
<1>. QED BY <1>1, Invariance, PTL

-----------------------------------------------------------------------------
(* The refinement of Guarded.  Whatever leaves the object and the calls of   *)
(* its writers alone only gives the editor another text to start from.       *)
LEMMA EditorReads ==
  ASSUME IndInv, IndInv', UNCHANGED <<obj, act, outside>>,
         apply'.stage = apply.stage, apply'.original = apply.original, apply'.line = apply.line
  PROVE  G!Read("editor")
<1>1. waiting' = waiting
  BY DEF waiting, InFlight, Part, Hand, Keeps
<1>2. basis' = [basis EXCEPT !["editor"] = basis'["editor"]]
  BY DEF basis
<1>3. basis'["editor"] \in 0 .. obj.ed
  BY DEF basis, IndInv, TypeOK, TextsAreOld, Old, Objects, Editors, Calls, Originals
<1>. QED BY <1>1, <1>2, <1>3 DEF G!Read

(* The same of the rollback's. *)
LEMMA RollbackIsRead ==
  ASSUME IndInv, IndInv', UNCHANGED <<obj, editor, apply, outside>>,
         InFlight(act') <=> InFlight(act), act'.verb = act.verb \/ ~InFlight(act)
  PROVE  G!Read("rollback")
<1>1. waiting' = waiting
  BY DEF waiting, InFlight, Part, Hand, Keeps
<1>2. basis' = [basis EXCEPT !["rollback"] = basis'["rollback"]]
  BY DEF basis
<1>3. basis'["rollback"] \in 0 .. obj.ed
  BY DEF basis, IndInv, TypeOK, RollbackHolds, Objects, Actions
<1>. QED BY <1>1, <1>2, <1>3 DEF G!Read

(* An Apply that ends without a change of the object. *)
LEMMA ApplyDropped ==
  ASSUME UNCHANGED <<obj, act, outside, editor>>, InFlight(apply), apply'.stage = "answered",
         apply'.original = apply.original, apply'.line = apply.line
  PROVE  G!Drop(Hand)
<1>1. Hand \in waiting /\ waiting' = waiting \ {Hand}
  BY DEF waiting, InFlight, Part, Hand, Keeps
<1>2. basis' = basis
  BY DEF basis, InFlight
<1>. QED BY <1>1, <1>2 DEF G!Drop

(* A write action in flight is waited for, and once it is answered it is not. *)
LEMMA ActWaits ==
  ASSUME UNCHANGED apply, InFlight(act), act'.stage = "answered", act'.verb = act.verb
  PROVE  Part \in waiting /\ waiting' = waiting \ {Part}
BY DEF waiting, InFlight, Part, Hand, Keeps

LEMMA ActDropped ==
  ASSUME UNCHANGED <<obj, apply, outside, editor>>, InFlight(act), act'.stage = "answered",
         act'.verb = act.verb, act'.base = act.base
  PROVE  G!Drop(Part)
<1>1. basis' = basis
  BY DEF basis
<1>. QED BY <1>1, ActWaits DEF G!Drop

LEMMA InitRefines == Init => G!Init
<1>. SUFFICES ASSUME Init
              PROVE  G!Init
  OBVIOUS
<1>1. obj.spec \in Specs /\ obj.ed = 1 /\ outside = 0
  BY DEF Init
<1>2. basis = [w \in {"editor", "rollback"} |-> 0]
  BY DEF Init, basis, NoCall, NoAct, ClosedEditor, NoOriginal
<1>3. waiting = {}
  BY DEF Init, waiting, InFlight, NoCall, NoAct
<1>. QED BY <1>1, <1>2, <1>3 DEF G!Init, G!Specs, Specs, G!Guards, G!Writers

(* A change others make of the object is one of Guarded's Outside. *)
LEMMA OthersRefine ==
  ASSUME IndInv, UNCHANGED <<editor, apply, act>>, outside' = outside + 1,
         obj'.ed = obj.ed + 1, obj'.spec \in Specs \cup {Gone}
  PROVE  G!Outside
<1>1. waiting' = waiting /\ basis' = basis
  BY DEF waiting, basis, InFlight, Part, Hand, Keeps
<1>. QED BY <1>1 DEF G!Outside, G!Specs, Specs

(* An Apply that changes the object replaces the edition its text was loaded *)
(* from, unless the text carries another resourceVersion, or none.           *)
LEMMA ApplyWrites ==
  ASSUME IndInv, apply.stage = "got", Keeps(apply) => apply.original.ed = obj.ed, obj.spec # Gone,
         UNCHANGED <<act, editor, outside>>, apply'.stage = "answered", apply'.original = apply.original,
         apply'.line = apply.line, obj'.ed = obj.ed + 1, obj'.spec \in Specs
  PROVE  (Hand = "editor" /\ G!Write("editor")) \/ (Hand = "override" /\ G!Override)
<1>1. Hand \in waiting /\ waiting' = waiting \ {Hand}
  BY DEF waiting, InFlight, Part, Hand, Keeps
<1>2. basis' = basis
  BY DEF basis
<1>3. CASE Keeps(apply)
  <2>1. basis["editor"] = obj.ed
    BY <1>3 DEF basis
  <2>2. Hand = "editor"
    BY <1>3 DEF Hand
  <2>. QED BY <1>1, <1>2, <2>1, <2>2 DEF G!Write, G!Specs, Specs
<1>4. CASE ~Keeps(apply)
  <2>1. Hand = "override"
    BY <1>4 DEF Hand
  <2>. QED BY <1>1, <1>2, <2>1 DEF G!Override, G!Specs, Specs
<1>. QED BY <1>3, <1>4

(* A rollback that changes the object replaces the edition it looked up. *)
LEMMA RollbackWrites ==
  ASSUME IndInv, act.stage = "got", act.base = obj.ed, obj.spec # Gone,
         UNCHANGED <<apply, editor, outside>>, act'.stage = "answered", act'.base = act.base,
         act'.verb = act.verb, obj'.ed = obj.ed + 1, obj'.spec \in Specs
  PROVE  G!Write("rollback")
<1>0. Part = "rollback"
  BY DEF Part, IndInv, RollbackHolds
<1>1. "rollback" \in waiting /\ waiting' = waiting \ {"rollback"}
  BY <1>0, ActWaits DEF InFlight
<1>2. basis' = basis /\ basis["rollback"] = obj.ed
  BY DEF basis
<1>. QED BY <1>1, <1>2 DEF G!Write, G!Specs, Specs

(* Any other action touches one field, or removes the object. *)
LEMMA PatchWrites ==
  ASSUME act.verb # "RollBack", InFlight(act), obj.spec # Gone,
         UNCHANGED <<apply, editor, outside>>, act'.stage = "answered", act'.base = act.base,
         act'.verb = act.verb, obj'.ed = obj.ed + 1,
         \/ \E t \in Templates : obj'.spec = [obj.spec EXCEPT !.tmpl = t]
         \/ \E k \in Knobs : obj'.spec = [obj.spec EXCEPT !.knob = k]
         \/ obj'.spec = Gone
  PROVE  G!Patch
<1>0. Part = "patch"
  BY DEF Part
<1>1. "patch" \in waiting /\ waiting' = waiting \ {"patch"}
  BY <1>0, ActWaits
<1>2. basis' = basis
  BY DEF basis
<1>. QED BY <1>1, <1>2 DEF G!Patch

LEMMA StepRefines ==
  ASSUME IndInv, IndInv', [Next]_vars
  PROVE  G!Next \/ UNCHANGED G!vars
<1>. USE DEF IndInv
<1>1. ASSUME OthersWrite
      PROVE  G!Outside
  <2>1. PICK x \in (Specs \cup {Gone}) \ {obj.spec} : obj' = [Written(x) EXCEPT !.rev = IF obj.spec = Gone THEN 0 ELSE @]
    BY <1>1 DEF OthersWrite
  <2>2. x # obj.spec
    BY <2>1
  <2>3. Written(x) # obj /\ Written(x).spec = x
    BY <2>2, WrittenMoves
  <2>4. Written(x).ed = obj.ed + 1 /\ Written(x) \in Objects
    BY <2>3, WrittenMoves, WrittenType
  <2>5. obj'.ed = obj.ed + 1 /\ obj'.spec = x
    BY <2>1, <2>3, <2>4 DEF Objects
  <2>. QED BY <1>1, <2>5, OthersRefine DEF OthersWrite
<1>2. ASSUME Rolls
      PROVE  G!Outside
  <2>1. obj'.ed = obj.ed + 1 /\ obj'.spec = obj.spec
    BY <1>2 DEF Rolls, TypeOK, Objects
  <2>2. obj.spec \in Specs
    BY <1>2 DEF Rolls, TypeOK, Objects
  <2>. QED BY <1>2, <2>1, <2>2, OthersRefine DEF Rolls
<1>3. ASSUME StatusMoves
      PROVE  UNCHANGED G!vars
  <2>1. obj'.ed = obj.ed /\ obj'.spec = obj.spec
    BY <1>3 DEF StatusMoves, TypeOK, Objects
  <2>. QED BY <1>3, <2>1 DEF StatusMoves, G!vars, waiting, basis, InFlight, Part, Hand, Keeps
<1>4. ASSUME Query
      PROVE  UNCHANGED G!vars
  BY <1>4 DEF Query, Refresh, FetchReads, FetchAnswered, FetchLost, G!vars, waiting, basis, InFlight, Part, Hand, Keeps
<1>5. ASSUME Loading
      PROVE  G!Read("editor")
  <2>1. UNCHANGED <<obj, act, outside>> /\ apply'.stage = apply.stage /\ apply'.original = apply.original
        /\ apply'.line = apply.line
    BY <1>5 DEF Loading, UserEdits, UserReloads, LoadReads, LoadAnswered, UserCancels, TypeOK, Calls
  <2>. QED BY <2>1, EditorReads
<1>6. ASSUME Reviewing
      PROVE  G!Read("editor")
  <2>1. UNCHANGED <<obj, act, outside, apply>>
    BY <1>6 DEF Reviewing, UserTypes, UserReviews, ReviewReads, ReviewDryRuns, ReviewAnswered, UserDismisses
  <2>. QED BY <2>1, EditorReads
<1>7. ASSUME UserApplies
      PROVE  G!Confirm("editor") \/ G!Confirm("override")
  <2>1. Hand' \notin waiting /\ waiting' = waiting \cup {Hand'}
    BY <1>7, BlankFields DEF UserApplies, waiting, InFlight, Part, Hand, Keeps
  <2>2. editor'.original = editor.original
    BY <1>7 DEF UserApplies, TypeOK, Editors
  <2>3. basis' = basis
    BY <1>7, <2>2, BlankFields DEF UserApplies, basis
  <2>. QED BY <1>7, <2>1, <2>3 DEF UserApplies, G!Confirm, Hand
<1>8. ASSUME ApplyReads
      PROVE  G!Drop(Hand) \/ UNCHANGED G!vars
  <2>1. UNCHANGED <<obj, act, outside, editor>> /\ InFlight(apply) /\ apply'.original = apply.original
        /\ apply'.line = apply.line /\ apply'.stage \in {"answered", "got"}
    BY <1>8, EditedType DEF ApplyReads, InFlight, TypeOK
  <2>2. CASE apply'.stage = "answered"
    BY <2>1, <2>2, ApplyDropped
  <2>3. CASE apply'.stage = "got"
    BY <2>1, <2>3 DEF G!vars, waiting, basis, InFlight, Part, Hand, Keeps
  <2>. QED BY <2>1, <2>2, <2>3
<1>9. ASSUME ApplyUpdates
      PROVE  G!Write("editor") \/ G!Override \/ G!Drop(Hand)
  <2>1. UNCHANGED <<act, outside, editor>> /\ apply.stage = "got"
    BY <1>9 DEF ApplyUpdates
  <2>2. apply'.stage = "answered" /\ apply'.original = apply.original /\ apply'.line = apply.line
    BY <1>9 DEF ApplyUpdates, TypeOK, Calls
  <2>3. CASE obj' = obj
    BY <2>1, <2>2, <2>3, ApplyDropped DEF InFlight
  <2>4. CASE obj' # obj
    <3>1. obj.spec # Gone /\ apply.rv \in {0, obj.rv} /\ obj' = Written(apply.draft) /\ apply.draft \in Specs
      BY <1>9, <2>4 DEF ApplyUpdates, Verdict, ApplyHolds
    <3>2. obj'.ed = obj.ed + 1 /\ obj'.spec \in Specs /\ (Keeps(apply) => apply.original.ed = obj.ed)
      BY <2>1, <2>4, <3>1, WrittenMoves DEF ApplyHolds
    <3>. QED BY <2>1, <2>2, <3>1, <3>2, ApplyWrites
  <2>. QED BY <2>3, <2>4
<1>10. ASSUME ApplyAnswered
       PROVE  G!Read("editor")
  <2>1. UNCHANGED <<obj, act, outside>> /\ apply.stage = "answered" /\ apply'.stage = "idle"
    BY <1>10, BlankFields DEF ApplyAnswered
  <2>2. waiting' = waiting
    BY <2>1 DEF waiting, InFlight, Part, Hand, Keeps
  <2>3. basis' = [basis EXCEPT !["editor"] = basis'["editor"]]
    BY <2>1 DEF basis
  <2>4. basis'["editor"] \in 0 .. obj.ed
    BY <2>1 DEF basis, TypeOK, TextsAreOld, Old, Objects, Editors, Originals
  <2>. QED BY <2>1, <2>2, <2>3, <2>4 DEF G!Read
<1>11. ASSUME NEW v \in Verbs, UserAsks(v) \/ UserSets \/ UserThinksBetter
       PROVE  UNCHANGED G!vars
  BY <1>11 DEF UserAsks, UserSets, UserThinksBetter, G!vars, waiting, basis, InFlight, Part, Hand, Keeps
<1>12. ASSUME UserConfirms
       PROVE  G!Confirm("rollback") \/ G!Confirm("patch")
  <2>1. UNCHANGED <<obj, apply, editor, outside>> /\ act.stage = "idle" /\ act'.stage = "sent" /\ act'.base = 0
    BY <1>12 DEF UserConfirms, NoAct
  <2>2. basis' = basis
    BY <2>1 DEF basis, RollbackHolds
  <2>3. Part' \notin waiting /\ waiting' = waiting \cup {Part'}
    BY <2>1 DEF waiting, InFlight, Part, Hand, Keeps
  <2>. QED BY <2>1, <2>2, <2>3 DEF G!Confirm, Part
<1>13. ASSUME ActRuns
       PROVE  G!Patch \/ G!Drop(Part)
  <2>1. UNCHANGED <<apply, editor, outside>> /\ act.stage = "sent" /\ act.verb # "RollBack"
    BY <1>13 DEF ActRuns
  <2>2. act'.stage = "answered" /\ act'.verb = act.verb /\ act'.base = act.base
    BY <1>13 DEF ActRuns, Done, TypeOK, Actions
  <2>3. CASE obj' = obj
    BY <2>1, <2>2, <2>3, ActDropped DEF InFlight
  <2>4. CASE obj' # obj
    <3>1. obj.spec # Gone /\ Patches
      BY <1>13, <2>4 DEF ActRuns
    <3>2. CASE \E t \in Templates : obj' = Written([obj.spec EXCEPT !.tmpl = t])
      <4>1. PICK t \in Templates : obj' = Written([obj.spec EXCEPT !.tmpl = t])
        BY <3>2
      <4>2. obj'.ed = obj.ed + 1 /\ obj'.spec = [obj.spec EXCEPT !.tmpl = t]
        BY <2>4, <4>1, WrittenMoves
      <4>. QED BY <2>1, <2>2, <3>1, <4>2, PatchWrites DEF InFlight
    <3>3. CASE act.arg \in Knobs /\ obj' = Written([obj.spec EXCEPT !.knob = act.arg])
      <4>1. obj'.ed = obj.ed + 1 /\ obj'.spec = [obj.spec EXCEPT !.knob = act.arg]
        BY <2>4, <3>3, WrittenMoves
      <4>. QED BY <2>1, <2>2, <3>1, <3>3, <4>1, PatchWrites DEF InFlight
    <3>4. CASE obj' = Written(Gone)
      <4>1. obj'.ed = obj.ed + 1 /\ obj'.spec = Gone
        BY <2>4, <3>4, WrittenMoves
      <4>. QED BY <2>1, <2>2, <3>1, <4>1, PatchWrites DEF InFlight
    <3>. QED BY <2>1, <2>4, <3>1, <3>2, <3>3, <3>4 DEF Patches, ActIsMeant
  <2>. QED BY <2>3, <2>4
<1>14. ASSUME RollbackReads
       PROVE  G!Read("rollback") \/ G!Drop("rollback")
  <2>1. UNCHANGED <<obj, apply, editor, outside>> /\ act.stage = "sent" /\ act.verb = "RollBack"
    BY <1>14 DEF RollbackReads
  <2>2. CASE act' = [act EXCEPT !.stage = "answered", !.result = "failed"]
    <3>1. act'.stage = "answered" /\ act'.verb = act.verb /\ act'.base = act.base
      BY <2>2 DEF TypeOK, Actions
    <3>. QED BY <2>1, <3>1, ActDropped DEF InFlight, Part
  <2>3. CASE \E t \in Templates :
               act' = [act EXCEPT !.stage = "got", !.base = obj.ed, !.rv = obj.rv, !.tmpl = t]
    <3>1. act'.stage = "got" /\ act'.verb = act.verb
      BY <2>3 DEF TypeOK, Actions
    <3>. QED BY <2>1, <3>1, RollbackIsRead DEF InFlight
  <2>. QED BY <1>14, <2>2, <2>3 DEF RollbackReads, Previous, Owned
<1>15. ASSUME RollbackPatches
       PROVE  G!Write("rollback") \/ G!Drop("rollback")
  <2>1. UNCHANGED <<apply, editor, outside>> /\ act.stage = "got" /\ act.verb = "RollBack"
    BY <1>15 DEF RollbackPatches, RollbackHolds
  <2>2. act'.stage = "answered" /\ act'.verb = act.verb /\ act'.base = act.base
    BY <1>15 DEF RollbackPatches, Done, TypeOK, Actions
  <2>3. CASE obj' = obj
    BY <2>1, <2>2, <2>3, ActDropped DEF InFlight, Part
  <2>4. CASE obj' # obj
    <3>1. obj.spec # Gone /\ act.rv = obj.rv /\ obj' = Written([obj.spec EXCEPT !.tmpl = act.tmpl])
      BY <1>15, <2>1, <2>4 DEF RollbackPatches, RollbackHolds, Verdict, TypeOK, Objects
    <3>2. obj'.ed = obj.ed + 1 /\ obj'.spec = [obj.spec EXCEPT !.tmpl = act.tmpl]
      BY <2>4, <3>1, WrittenMoves
    <3>3. obj'.spec \in Specs /\ act.base = obj.ed
      BY <2>1, <3>1, <3>2, FieldTypes DEF RollbackHolds
    <3>. QED BY <2>1, <2>2, <3>1, <3>2, <3>3, RollbackWrites
  <2>. QED BY <2>3, <2>4
<1>16. ASSUME ActAnswered
       PROVE  G!Read("editor") \/ G!Read("rollback")
  <2>1. UNCHANGED <<obj, outside>> /\ act.stage = "answered" /\ act'.stage = "idle" /\ act'.base = 0
        /\ apply'.stage = apply.stage /\ apply'.original = apply.original /\ apply'.line = apply.line
    BY <1>16, BlankFields DEF ActAnswered, TypeOK, Calls
  <2>2. CASE act.verb = "Delete"
    <3>1. basis' = [basis EXCEPT !["editor"] = basis'["editor"]]
      BY <2>1, <2>2 DEF basis, ActIsMeant
    <3>2. basis'["editor"] \in 0 .. obj.ed
      BY <2>1 DEF basis, TypeOK, TextsAreOld, Old, Objects, Editors, Calls, Originals
    <3>3. waiting' = waiting
      BY <2>1 DEF waiting, InFlight, Part, Hand, Keeps
    <3>. QED BY <2>1, <3>1, <3>2, <3>3 DEF G!Read
  <2>3. CASE act.verb # "Delete"
    <3>1. UNCHANGED <<editor, apply>>
      BY <1>16, <2>3 DEF ActAnswered
    <3>. QED BY <2>1, <3>1, RollbackIsRead DEF InFlight
  <2>. QED BY <2>2, <2>3
<1>17. ASSUME Lost
       PROVE  G!Drop(Hand) \/ G!Drop(Part) \/ UNCHANGED G!vars
  <2>1. UNCHANGED <<obj, outside, editor>>
    BY <1>17 DEF Lost
  <2>2. CASE UNCHANGED <<apply, act>>
    BY <2>1, <2>2 DEF G!vars, waiting, basis, InFlight, Part, Hand, Keeps
  <2>3. CASE apply.stage # "idle" /\ apply' = Fails(apply) /\ UNCHANGED act
    <3>1. apply'.stage = "answered" /\ apply'.original = apply.original /\ apply'.line = apply.line
      BY <2>3 DEF Fails, TypeOK, Calls
    <3>2. CASE InFlight(apply)
      BY <2>1, <2>3, <3>1, <3>2, ApplyDropped
    <3>3. CASE ~InFlight(apply)
      BY <2>1, <2>3, <3>1, <3>3 DEF G!vars, waiting, basis, InFlight, Part, Hand, Keeps
    <3>. QED BY <3>2, <3>3
  <2>4. CASE act.stage # "idle" /\ act' = Fails(act) /\ UNCHANGED apply
    <3>1. act'.stage = "answered" /\ act'.verb = act.verb /\ act'.base = act.base
      BY <2>4 DEF Fails, TypeOK, Actions
    <3>2. CASE InFlight(act)
      BY <2>1, <2>4, <3>1, <3>2, ActDropped
    <3>3. CASE ~InFlight(act)
      BY <2>1, <2>4, <3>1, <3>3 DEF G!vars, waiting, basis, InFlight, Part, Hand, Keeps
    <3>. QED BY <3>2, <3>3
  <2>. QED BY <1>17, <2>2, <2>3, <2>4 DEF Lost
<1>18. ASSUME UNCHANGED vars
       PROVE  UNCHANGED G!vars
  BY <1>18 DEF vars, G!vars, waiting, basis, InFlight, Part, Hand, Keeps
<1>19. Part \in {"rollback", "patch"} /\ Hand \in {"editor", "override"}
  BY DEF Part, Hand
<1>20. G!Outside \/ G!Read("editor") \/ G!Read("rollback") \/ G!Write("editor") \/ G!Write("rollback")
       \/ G!Confirm("editor") \/ G!Confirm("rollback") \/ G!Confirm("patch") \/ G!Confirm("override")
       \/ G!Drop("editor") \/ G!Drop("override") \/ G!Override \/ G!Drop("rollback") \/ G!Drop("patch") \/ G!Patch => G!Next
  BY DEF G!Next, G!Guards, G!Writers
<1>21. G!Drop(Part) \/ G!Drop(Hand) => G!Next
  BY <1>19, <1>20
<1>22. CASE Others
  BY <1>1, <1>2, <1>3, <1>20, <1>22 DEF Others
<1>23. CASE Query \/ Loading \/ Reviewing
  BY <1>4, <1>5, <1>6, <1>20, <1>23
<1>24. CASE Applying
  BY <1>7, <1>8, <1>9, <1>10, <1>20, <1>21, <1>24 DEF Applying
<1>25. CASE Acting
  <2>1. CASE (\E v \in Verbs : UserAsks(v)) \/ UserSets \/ UserThinksBetter
    <3>1. "Delete" \in Verbs
      BY DEF Verbs
    <3>. QED BY <1>11, <2>1, <3>1
  <2>2. CASE UserConfirms \/ ActRuns \/ RollbackReads \/ RollbackPatches \/ ActAnswered
    BY <1>12, <1>13, <1>14, <1>15, <1>16, <1>20, <1>21, <2>2
  <2>. QED BY <1>25, <2>1, <2>2 DEF Acting
<1>26. CASE Lost
  BY <1>17, <1>20, <1>21, <1>26
<1>. QED BY <1>18, <1>22, <1>23, <1>24, <1>25, <1>26 DEF Next

(* The program implements Guarded: a write needs a confirmation of its own,   *)
(* and neither a rollback nor the Apply of a text that carries the            *)
(* resourceVersion it was loaded with replaces an edition of the object that  *)
(* its writer did not start from (yaml.go:78, actions.go:188).                *)
THEOREM EditorImplementsGuarded == Spec => NeverOverwrites
<1>1. IndInv /\ IndInv' /\ [Next]_vars => [G!Next]_G!vars
  BY StepRefines
<1>. QED BY <1>1, InitRefines, Invariance, PTL DEF Spec, G!Spec, NeverOverwrites
===============================================================================
