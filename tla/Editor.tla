--------------------------------- MODULE Editor ---------------------------------
(***************************************************************************)
(* One object of a Cluster, open in its detail: the detail's query, the    *)
(* YAML editor with its calls (EditYAML, DiffYAML, ApplyYAML), and the     *)
(* write actions behind a confirmation (restart, scale, roll back, run     *)
(* now, suspend, cordon, delete), while controllers and other people       *)
(* change the object and answers are lost.                                 *)
(*                                                                         *)
(* A call is a record that goes idle -> sent -> got -> answered -> idle:   *)
(* "got" is after the first request of a handler that makes two.           *)
(***************************************************************************)
EXTENDS Naturals

CONSTANTS Templates, Knobs,      \* the fields of an object: its pod template; replicas, suspend or unschedulable
          Gone, Invalid, NoText, \* no object; a text that is not the object's YAML; no text
          MaxActs                \* bound: what the user, the others and the network do

Specs == [tmpl : Templates, knob : Knobs]

ASSUME EditorAssumption ==
  /\ Templates # {} /\ Knobs # {}
  /\ Gone \notin Specs /\ Invalid \notin Specs /\ NoText \notin Specs
  /\ NoText # Invalid /\ Gone # Invalid /\ Gone # NoText
  /\ MaxActs \in Nat

VARIABLES
  kind,    \* of the object: a Deployment, a CronJob, a Node, or one with no verb but Delete, as a pod
  obj,     \* in the Cluster: what it says, the edition of that, the resourceVersion, the rollout revision
  revs,    \* per template, the revision its ReplicaSet of the Deployment notes; 0 without one
  detail,  \* what the detail shows of the object
  fetch,   \* the detail's query: its read in flight, whether it has data (loaded), and whether that read was
           \* past the Cluster when an invalidation joined it (missed)
  editor,  \* the YAML editor
  load, review, apply,  \* its calls
  ask,     \* the confirmation that is open
  act,     \* its call
  acts,    \* what the user, the others and the network did so far
  outside  \* how many changes others made

vars == <<kind, obj, revs, detail, fetch, editor, load, review, apply, ask, act, acts, outside>>

Kinds == {"deploy", "cron", "node", "pod"}
WorkloadVerbs == {"Restart", "Scale", "RollBack"}
CronJobVerbs == {"RunNow", "Toggle"}
NodeVerbs == {"Toggle"}
VerbsOf(k) == CASE k = "deploy" -> WorkloadVerbs \cup {"Delete"}
                [] k = "cron"   -> CronJobVerbs \cup {"Delete"}
                [] k = "node"   -> NodeVerbs
                [] k = "pod"    -> {"Delete"}
Verbs == WorkloadVerbs \cup CronJobVerbs \cup NodeVerbs \cup {"Delete"}
Texts == Specs \cup {Invalid}
Errors == {"none", "conflict", "failed"}
Stages == {"idle", "sent", "got", "answered"}

(* What a text was loaded from.  The text itself is the fields it says, a    *)
(* draft, and its resourceVersion line: a number, or 0 when it has none.     *)
NoOriginal == [spec |-> NoText, ed |-> 0, rv |-> 0]
NoCall == [stage |-> "idle", original |-> NoOriginal, draft |-> NoText, line |-> 0, from |-> NoText,
           rv |-> 0, result |-> "none", tracked |-> TRUE]
NoDiff == [from |-> NoText, to |-> NoText]
ClosedEditor == [on |-> FALSE, original |-> NoOriginal, draft |-> NoText, line |-> 0, diff |-> NoDiff,
                 loadError |-> "none", reviewError |-> "none", applyError |-> "none"]
NoAct == [stage |-> "idle", verb |-> "none", arg |-> NoText, base |-> 0, rv |-> 0, tmpl |-> NoText,
          ed |-> 0, result |-> "none"]
NoAsk == [verb |-> "none", knob |-> NoText, error |-> "none"]
NoData == [spec |-> NoText, ed |-> 0, rv |-> 0, rev |-> 0]

Init ==
  /\ kind \in Kinds
  /\ obj \in {[spec |-> s, ed |-> 1, rv |-> 1, rev |-> 1] : s \in Specs}
  /\ revs = [t \in Templates |-> IF t = obj.spec.tmpl THEN 1 ELSE 0]
  /\ detail = [open |-> TRUE, spec |-> obj.spec, ed |-> 1, rev |-> 1, error |-> FALSE, wrote |-> 0]
  /\ fetch = [stage |-> "sent", got |-> NoData, loaded |-> FALSE, missed |-> FALSE]
  /\ editor = ClosedEditor
  /\ load = NoCall /\ review = NoCall /\ apply = NoCall
  /\ ask = NoAsk /\ act = NoAct
  /\ acts = 0 /\ outside = 0

Act == acts < MaxActs /\ acts' = acts + 1

--------------------------------------------------------------------------------
(* The object in the Cluster.  A write that changes nothing leaves the       *)
(* resourceVersion alone; one of the status moves it and nothing else.       *)

Written(s) == IF s = obj.spec THEN obj ELSE [obj EXCEPT !.spec = s, !.ed = @ + 1, !.rv = @ + 1]

(* What is created anew has no revision yet, and owns no ReplicaSet. *)
OthersWrite ==
  /\ Act
  /\ \E s \in (Specs \cup {Gone}) \ {obj.spec} :
       obj' = [Written(s) EXCEPT !.rev = IF obj.spec = Gone THEN 0 ELSE @]
  /\ revs' = IF obj.spec = Gone THEN [t \in Templates |-> 0] ELSE revs
  /\ outside' = outside + 1
  /\ UNCHANGED <<kind, detail, fetch, editor, load, review, apply, ask, act>>

StatusMoves ==
  /\ Act
  /\ obj.spec # Gone
  /\ obj' = [obj EXCEPT !.rv = @ + 1]
  /\ UNCHANGED <<kind, revs, detail, fetch, editor, load, review, apply, ask, act, outside>>

(* The Deployment controller gives the template a ReplicaSet of the next     *)
(* revision, or the revision to the one it has, and notes it on the object.  *)
Rolls ==
  /\ Act
  /\ kind = "deploy" /\ obj.spec # Gone
  /\ revs[obj.spec.tmpl] # obj.rev \/ obj.rev = 0
  /\ revs' = [revs EXCEPT ![obj.spec.tmpl] = obj.rev + 1]
  /\ obj' = [obj EXCEPT !.rev = @ + 1, !.ed = @ + 1, !.rv = @ + 1]
  /\ outside' = outside + 1
  /\ UNCHANGED <<kind, detail, fetch, editor, load, review, apply, ask, act>>

--------------------------------------------------------------------------------
(* The detail and its query.  It opens on the row it was picked in, while    *)
(* its first read is under way.  A refresh, by the user or by a watch event, *)
(* and the invalidation after a write start the query over; but a read in    *)
(* flight is only given up when the query has data already.  A first read is *)
(* joined: what it brings ends the invalidation too.                         *)

Begun == [stage |-> "sent", got |-> NoData, loaded |-> fetch.loaded, missed |-> FALSE]
Landed(data) == [stage |-> "idle", got |-> NoData, loaded |-> fetch.loaded \/ data, missed |-> fetch.missed]

(* Mutant of Invalidate: a query in flight is good enough. *)
InvalidateIdle == fetch' = IF detail.open /\ fetch.stage = "idle" THEN Begun ELSE fetch

Invalidate == fetch' = IF ~detail.open THEN fetch
                       ELSE IF fetch.loaded \/ fetch.stage = "idle" THEN Begun
                       ELSE [fetch EXCEPT !.missed = @ \/ fetch.stage = "answered"]

Refresh ==
  /\ Act
  /\ detail.open
  /\ Invalidate
  /\ UNCHANGED <<kind, obj, revs, detail, editor, load, review, apply, ask, act, outside>>

FetchReads ==
  /\ fetch.stage = "sent"
  /\ fetch' = [fetch EXCEPT !.stage = "answered", !.got = obj]
  /\ UNCHANGED <<kind, obj, revs, detail, editor, load, review, apply, ask, act, acts, outside>>

(* A query that failed keeps the last data and shows its error. *)
Showing(got) == IF got.spec = Gone THEN [detail EXCEPT !.error = TRUE]
                ELSE [detail EXCEPT !.spec = got.spec, !.ed = got.ed, !.rev = got.rev, !.error = FALSE]

FetchAnswered ==
  /\ fetch.stage = "answered"
  /\ fetch' = Landed(fetch.got.spec # Gone)
  /\ detail' = Showing(fetch.got)
  /\ UNCHANGED <<kind, obj, revs, editor, load, review, apply, ask, act, acts, outside>>

FetchLost ==
  /\ Act
  /\ fetch.stage # "idle"
  /\ fetch' = Landed(FALSE)
  /\ detail' = [detail EXCEPT !.error = TRUE]
  /\ UNCHANGED <<kind, obj, revs, editor, load, review, apply, ask, act, outside>>

--------------------------------------------------------------------------------
(* The editor.  A dialog is modal: what is behind it cannot be reached. *)

DialogOpen == editor.diff # NoDiff /\ editor.diff.from # editor.diff.to
Behind == detail.open /\ ~DialogOpen /\ ask.verb = "none"

(* The one failure shown, and whether Reload is offered beside it. *)
Failure == IF editor.loadError # "none" THEN editor.loadError
           ELSE IF editor.reviewError # "none" THEN editor.reviewError
           ELSE IF editor.applyError = "conflict" THEN "conflict" ELSE "none"
ReloadOffered == editor.draft # NoText /\ Failure = "conflict" /\ load.stage = "idle"

Sent == [NoCall EXCEPT !.stage = "sent"]
SentEdit == [NoCall EXCEPT !.stage = "sent", !.original = editor.original, !.draft = editor.draft,
                             !.line = editor.line]

UserEdits ==
  /\ Act
  /\ Behind /\ ~editor.on /\ load.stage = "idle"
  /\ editor' = [ClosedEditor EXCEPT !.on = TRUE]
  /\ load' = Sent
  /\ UNCHANGED <<kind, obj, revs, detail, fetch, review, apply, ask, act, outside>>

UserReloads ==
  /\ Act
  /\ Behind /\ editor.on /\ ReloadOffered
  /\ editor' = [editor EXCEPT !.loadError = "none"]
  /\ load' = Sent
  /\ UNCHANGED <<kind, obj, revs, detail, fetch, review, apply, ask, act, outside>>

LoadReads ==
  /\ load.stage = "sent"
  /\ load' = IF obj.spec = Gone THEN [load EXCEPT !.stage = "answered", !.result = "failed"]
             ELSE [load EXCEPT !.stage = "answered", !.result = "ok",
                               !.original = [spec |-> obj.spec, ed |-> obj.ed, rv |-> obj.rv]]
  /\ UNCHANGED <<kind, obj, revs, detail, fetch, editor, review, apply, ask, act, acts, outside>>

(* The new text starts everything over; the calls in flight are not tracked  *)
(* any more, but their success is still handled.                             *)
LoadAnswered ==
  /\ load.stage = "answered"
  /\ load' = NoCall
  /\ IF load.result = "ok"
     THEN /\ editor' = [ClosedEditor EXCEPT !.on = TRUE, !.original = load.original,
                                            !.draft = load.original.spec, !.line = load.original.rv]
          /\ review' = [review EXCEPT !.tracked = FALSE]
          /\ apply' = [apply EXCEPT !.tracked = FALSE]
     ELSE /\ editor' = [editor EXCEPT !.loadError = "failed"]
          /\ UNCHANGED <<review, apply>>
  /\ UNCHANGED <<kind, obj, revs, detail, fetch, ask, act, acts, outside>>

(* The resourceVersion is a line of the text like any other: it can be kept  *)
(* or put back, removed, or become the one the object has by now.            *)
UserTypes ==
  /\ Act
  /\ Behind /\ editor.on /\ editor.draft # NoText
  /\ \E text \in Texts, line \in {editor.original.rv, 0, obj.rv} :
       /\ text # editor.draft \/ line # editor.line
       /\ editor' = [editor EXCEPT !.draft = text, !.line = line, !.diff = NoDiff]
  /\ UNCHANGED <<kind, obj, revs, detail, fetch, load, review, apply, ask, act, outside>>

(* Mutant of UserReviews: the button and its key are enabled from the start. *)
UserReviewsEarly ==
  /\ Act
  /\ Behind /\ editor.on
  /\ review.stage = "idle"
  /\ review' = SentEdit
  /\ editor' = [editor EXCEPT !.reviewError = "none", !.applyError = "none"]
  /\ UNCHANGED <<kind, obj, revs, detail, fetch, load, apply, ask, act, outside>>

UserReviews ==
  /\ Act
  /\ Behind /\ editor.on /\ editor.draft # NoText
  /\ review.stage = "idle"
  /\ review' = SentEdit
  /\ editor' = [editor EXCEPT !.reviewError = "none", !.applyError = "none"]
  /\ UNCHANGED <<kind, obj, revs, detail, fetch, load, apply, ask, act, outside>>

(* Mutant of EditedObject: the live resourceVersion is always taken. *)
EditedLive(c) ==
  IF c.draft = Invalid \/ obj.spec = Gone
  THEN [c EXCEPT !.stage = "answered", !.result = "failed"]
  ELSE [c EXCEPT !.stage = "got", !.from = obj.spec, !.rv = obj.rv]

(* editedObject: the text is decoded, and goes with the resourceVersion it   *)
(* says, or the live one when the live object is still what was loaded.      *)
EditedObject(c) ==
  IF c.draft = Invalid \/ obj.spec = Gone
  THEN [c EXCEPT !.stage = "answered", !.result = "failed"]
  ELSE [c EXCEPT !.stage = "got", !.from = obj.spec,
                 !.rv = IF obj.ed = c.original.ed THEN obj.rv ELSE c.line]

ReviewReads ==
  /\ review.stage = "sent"
  /\ review' = EditedObject(review)
  /\ UNCHANGED <<kind, obj, revs, detail, fetch, editor, load, apply, ask, act, acts, outside>>

(* The API server refuses an update whose resourceVersion is not the         *)
(* object's; one without any is unconditional.                               *)
Verdict(c) == IF obj.spec = Gone THEN "failed" ELSE IF c.rv \in {0, obj.rv} THEN "ok" ELSE "conflict"

ReviewDryRuns ==
  /\ review.stage = "got"
  /\ review' = [review EXCEPT !.stage = "answered", !.result = Verdict(review)]
  /\ UNCHANGED <<kind, obj, revs, detail, fetch, editor, load, apply, ask, act, acts, outside>>

ReviewAnswered ==
  /\ review.stage = "answered"
  /\ review' = NoCall
  /\ editor' = IF ~editor.on THEN editor
               ELSE IF review.result = "ok"
                    THEN [editor EXCEPT !.diff = [from |-> review.from, to |-> review.draft]]
                    ELSE [editor EXCEPT !.reviewError = IF review.tracked THEN review.result ELSE @]
  /\ UNCHANGED <<kind, obj, revs, detail, fetch, load, apply, ask, act, acts, outside>>

UserDismisses ==
  /\ Act
  /\ DialogOpen /\ (apply.stage = "idle" \/ ~apply.tracked)
  /\ editor' = [editor EXCEPT !.diff = NoDiff]
  /\ UNCHANGED <<kind, obj, revs, detail, fetch, load, review, apply, ask, act, outside>>

UserApplies ==
  /\ Act
  /\ DialogOpen /\ apply.stage = "idle"
  /\ apply' = SentEdit
  /\ editor' = [editor EXCEPT !.applyError = "none"]
  /\ UNCHANGED <<kind, obj, revs, detail, fetch, load, review, ask, act, outside>>

ApplyReads ==
  /\ apply.stage = "sent"
  /\ apply' = EditedObject(apply)
  /\ UNCHANGED <<kind, obj, revs, detail, fetch, editor, load, review, ask, act, acts, outside>>

ApplyUpdates ==
  /\ apply.stage = "got"
  /\ obj' = IF Verdict(apply) = "ok" THEN Written(apply.draft) ELSE obj
  /\ apply' = [apply EXCEPT !.stage = "answered", !.result = Verdict(apply), !.rv = obj'.ed]
  /\ UNCHANGED <<kind, revs, detail, fetch, editor, load, review, ask, act, acts, outside>>

(* Success leaves the editor, whichever text it holds by then; a conflict    *)
(* leaves the dialog for it.                                                 *)
ApplyAnswered ==
  /\ apply.stage = "answered"
  /\ apply' = NoCall
  /\ IF apply.result = "ok"
     THEN /\ editor' = ClosedEditor
          /\ detail' = [detail EXCEPT !.wrote = apply.rv]
          /\ Invalidate
     ELSE /\ editor' = [editor EXCEPT !.diff = IF apply.result = "conflict" THEN NoDiff ELSE @,
                                      !.applyError = IF apply.tracked THEN apply.result ELSE @]
          /\ UNCHANGED <<detail, fetch>>
  /\ load' = IF apply.result = "ok" THEN NoCall ELSE load
  /\ review' = IF apply.result = "ok" THEN NoCall ELSE review
  /\ UNCHANGED <<kind, obj, revs, ask, act, acts, outside>>

(* What a closed editor asked for comes to nothing; an Apply goes on. *)
UserCancels ==
  /\ Act
  /\ Behind /\ editor.on
  /\ editor' = ClosedEditor
  /\ load' = NoCall /\ review' = NoCall
  /\ apply' = [apply EXCEPT !.tracked = FALSE]
  /\ UNCHANGED <<kind, obj, revs, detail, fetch, ask, act, outside>>

--------------------------------------------------------------------------------
(* The write actions. *)

UserAsks(v) ==
  /\ Act
  /\ Behind /\ ask.verb = "none"
  /\ v \in VerbsOf(kind)
  /\ v = "RollBack" => detail.rev > 1
  /\ ask' = [verb |-> v, knob |-> detail.spec.knob, error |-> "none"]
  /\ UNCHANGED <<kind, obj, revs, detail, fetch, editor, load, review, apply, act, outside>>

UserSets ==
  /\ Act
  /\ ask.verb = "Scale" /\ act.stage = "idle"
  /\ \E k \in Knobs \ {ask.knob} : ask' = [ask EXCEPT !.knob = k]
  /\ UNCHANGED <<kind, obj, revs, detail, fetch, editor, load, review, apply, act, outside>>

UserThinksBetter ==
  /\ Act
  /\ ask.verb # "none" /\ act.stage = "idle"
  /\ ask' = NoAsk
  /\ UNCHANGED <<kind, obj, revs, detail, fetch, editor, load, review, apply, act, outside>>

(* What the dialog would do as the detail stands: the number the user set,   *)
(* which must be another, or the other state of a switch.                    *)
Settings == IF ask.verb = "Scale" THEN {ask.knob} \ {detail.spec.knob}
            ELSE IF ask.verb = "Toggle" THEN Knobs \ {detail.spec.knob} ELSE {NoText}

UserConfirms ==
  /\ Act
  /\ ask.verb # "none" /\ act.stage = "idle"
  /\ \E k \in Settings : act' = [NoAct EXCEPT !.stage = "sent", !.verb = ask.verb, !.arg = k]
  /\ ask' = [ask EXCEPT !.error = "none"]
  /\ UNCHANGED <<kind, obj, revs, detail, fetch, editor, load, review, apply, outside>>

Done(r) == [act EXCEPT !.stage = "answered", !.result = r, !.ed = obj'.ed]

(* What one request makes of an object that is there. *)
Patches ==
  \/ act.verb = "Restart" /\ \E t \in Templates \ {obj.spec.tmpl} : obj' = Written([obj.spec EXCEPT !.tmpl = t])
  \/ act.verb \in {"Scale", "Toggle"} /\ obj' = Written([obj.spec EXCEPT !.knob = act.arg])
  \/ act.verb = "Delete" /\ obj' = Written(Gone)
  \/ act.verb = "RunNow" /\ obj' = obj

ActRuns ==
  /\ act.stage = "sent" /\ act.verb # "RollBack"
  /\ \/ obj.spec = Gone /\ obj' = obj /\ act' = Done("failed")
     \/ obj.spec # Gone /\ Patches /\ act' = Done("ok")
  /\ UNCHANGED <<kind, revs, detail, fetch, editor, load, review, apply, ask, acts, outside>>

(* The previous revision is the second highest of the ReplicaSets. *)
Owned == {t \in Templates : revs[t] # 0}
Previous == {t \in Owned : \E u \in Owned : \A w \in Owned : revs[w] > revs[t] <=> w = u}

RollbackReads ==
  /\ act.stage = "sent" /\ act.verb = "RollBack"
  /\ \/ /\ obj.spec = Gone \/ Previous = {}
        /\ act' = [act EXCEPT !.stage = "answered", !.result = "failed"]
     \/ /\ obj.spec # Gone
        /\ \E t \in Previous :
             act' = [act EXCEPT !.stage = "got", !.base = obj.ed, !.rv = obj.rv, !.tmpl = t]
  /\ UNCHANGED <<kind, obj, revs, detail, fetch, editor, load, review, apply, ask, acts, outside>>

(* Mutant of RollbackPatches: the patch carries no resourceVersion. *)
RollbackForces ==
  /\ act.stage = "got"
  /\ obj' = IF obj.spec # Gone THEN Written([obj.spec EXCEPT !.tmpl = act.tmpl]) ELSE obj
  /\ act' = Done("ok")
  /\ UNCHANGED <<kind, revs, detail, fetch, editor, load, review, apply, ask, acts, outside>>

RollbackPatches ==
  /\ act.stage = "got"
  /\ obj' = IF Verdict(act) = "ok" THEN Written([obj.spec EXCEPT !.tmpl = act.tmpl]) ELSE obj
  /\ act' = Done(Verdict(act))
  /\ UNCHANGED <<kind, revs, detail, fetch, editor, load, review, apply, ask, acts, outside>>

(* Success closes the dialog and reads everything of the Cluster again; what *)
(* deleted the object closes the detail with all it holds.                   *)
ActAnswered ==
  /\ act.stage = "answered"
  /\ act' = NoAct
  /\ IF act.result = "ok"
     THEN /\ ask' = NoAsk
          /\ detail' = [detail EXCEPT !.open = @ /\ act.verb # "Delete", !.wrote = act.ed]
          /\ Invalidate
     ELSE /\ ask' = [ask EXCEPT !.error = act.result]
          /\ UNCHANGED <<detail, fetch>>
  /\ IF act.result = "ok" /\ act.verb = "Delete"
     THEN editor' = ClosedEditor /\ load' = NoCall /\ review' = NoCall /\ apply' = [apply EXCEPT !.tracked = FALSE]
     ELSE UNCHANGED <<editor, load, review, apply>>
  /\ UNCHANGED <<kind, obj, revs, acts, outside>>

(* The network: a request fails, before it is served or after. *)
Fails(c) == [c EXCEPT !.stage = "answered", !.result = "failed"]
Lost ==
  /\ Act
  /\ \/ load.stage # "idle" /\ load' = Fails(load) /\ UNCHANGED <<review, apply, act>>
     \/ review.stage # "idle" /\ review' = Fails(review) /\ UNCHANGED <<load, apply, act>>
     \/ apply.stage # "idle" /\ apply' = Fails(apply) /\ UNCHANGED <<load, review, act>>
     \/ act.stage # "idle" /\ act' = Fails(act) /\ UNCHANGED <<load, review, apply>>
  /\ UNCHANGED <<kind, obj, revs, detail, fetch, editor, ask, outside>>

--------------------------------------------------------------------------------
Others == OthersWrite \/ StatusMoves \/ Rolls
Query == Refresh \/ FetchReads \/ FetchAnswered \/ FetchLost
Loading == UserEdits \/ UserReloads \/ LoadReads \/ LoadAnswered \/ UserCancels
Reviewing == UserTypes \/ UserReviews \/ ReviewReads \/ ReviewDryRuns \/ ReviewAnswered \/ UserDismisses
Applying == UserApplies \/ ApplyReads \/ ApplyUpdates \/ ApplyAnswered
Acting == \/ \E v \in Verbs : UserAsks(v)
          \/ UserSets \/ UserThinksBetter \/ UserConfirms
          \/ ActRuns \/ RollbackReads \/ RollbackPatches \/ ActAnswered

Next == Others \/ Query \/ Loading \/ Reviewing \/ Applying \/ Acting \/ Lost

Spec == Init /\ [][Next]_vars

--------------------------------------------------------------------------------
Objects == [spec : Specs \cup {Gone}, ed : Nat, rv : Nat, rev : Nat]
Details == [open : BOOLEAN, spec : Specs, ed : Nat, rev : Nat, error : BOOLEAN, wrote : Nat]
Fetches == [stage : {"idle", "sent", "answered"},
            got : [spec : Specs \cup {Gone, NoText}, ed : Nat, rv : Nat, rev : Nat],
            loaded : BOOLEAN, missed : BOOLEAN]
Originals == [spec : Specs \cup {NoText}, ed : Nat, rv : Nat]
Diffs == [from : Specs \cup {NoText}, to : Texts \cup {NoText}]
Editors == [on : BOOLEAN, original : Originals, draft : Texts \cup {NoText}, line : Nat, diff : Diffs,
            loadError : Errors, reviewError : Errors, applyError : Errors]
Calls == [stage : Stages, original : Originals, draft : Texts \cup {NoText}, line : Nat,
          from : Specs \cup {NoText}, rv : Nat, result : Errors \cup {"ok"}, tracked : BOOLEAN]
Asks == [verb : Verbs \cup {"none"}, knob : Knobs \cup {NoText}, error : Errors]
Actions == [stage : Stages, verb : Verbs \cup {"none"}, arg : Knobs \cup {NoText}, base : Nat, rv : Nat,
            tmpl : Templates \cup {NoText}, ed : Nat, result : Errors \cup {"ok"}]

(* Every variable has the type its declaration says, and a call in flight is *)
(* one the user sent: an Apply carries a text, a review too.                 *)
TypeOK ==
  /\ kind \in Kinds
  /\ obj \in Objects
  /\ revs \in [Templates -> Nat]
  /\ detail \in Details
  /\ fetch \in Fetches /\ (fetch.stage = "answered" => fetch.got.spec # NoText)
  /\ editor \in Editors
  /\ load \in Calls /\ review \in Calls /\ apply \in Calls
  /\ ask \in Asks
  /\ act \in Actions
  /\ acts \in Nat /\ outside \in Nat
  /\ review.stage \in {"sent", "got"} => review.draft # NoText
  /\ apply.stage \in {"sent", "got"} => apply.draft # NoText

(* When no read is under way, the detail shows the object at least as new as *)
(* the user's own last write that was answered (actions.tsx:66): a read that *)
(* was in flight when the write was made does not bring the old object back. *)
(* The exception is the detail's first read: past the Cluster when the write *)
(* was announced, it is joined and brings the object from before the write.  *)
OwnWriteShown ==
  detail.open /\ fetch.stage = "idle" /\ ~fetch.missed /\ ~detail.error => detail.ed >= detail.wrote

(* Without the exception: the invalidation that follows every write          *)
(* (actions.tsx:66, yaml-view.tsx:159) has the object read again in every    *)
(* case.  Not kept: see the README.                                          *)
WriteShown == detail.open /\ fetch.stage = "idle" /\ ~detail.error => detail.ed >= detail.wrote

(* The promise of Guarded: nothing goes out without a confirmation of its    *)
(* own, and neither a rollback nor the Apply of a text that carries the      *)
(* resourceVersion it was loaded with overwrites a change somebody made      *)
(* since (yaml.go:78, actions.go:188).                                       *)
InFlight(c) == c.stage \in {"sent", "got"}
Keeps(c) == c.line # 0 /\ c.line = c.original.rv
Hand == IF Keeps(apply) THEN "editor" ELSE "override"
Part == IF act.verb = "RollBack" THEN "rollback" ELSE "patch"
waiting == {w \in {"editor", "override", "rollback", "patch"} :
              (w = Hand /\ InFlight(apply)) \/ (w = Part /\ InFlight(act))}
basis == [w \in {"editor", "rollback"} |->
            IF w = "rollback" THEN act.base
            ELSE IF apply.stage = "idle" THEN editor.original.ed ELSE apply.original.ed]
G == INSTANCE Guarded WITH spec <- obj.spec, edition <- obj.ed
NeverOverwrites == G!Spec

(* "A change made in the Cluster meanwhile is a conflict, never overwritten" *)
(* (yaml-view.tsx:126), whatever the text says: an Apply that changes the    *)
(* object replaces the edition its text was loaded from.  Not kept: see the  *)
(* README.                                                                   *)
NeverOverwritten == [][ApplyUpdates /\ obj' # obj => apply.original.ed = obj.ed]_vars

(* What is applied from the dialog is what the diff in it was made of        *)
(* (yaml-view.tsx:124).                                                      *)
AppliedAsReviewed == InFlight(apply) /\ apply.tracked /\ DialogOpen => apply.draft = editor.diff.to
================================================================================
