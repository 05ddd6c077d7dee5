-------------------------------- MODULE Ports --------------------------------
(***************************************************************************)
(* The Forwards of one Cluster as its tab shows and changes them           *)
(* (forwards.tsx over SaveForward, SetForwardEnabled and DeleteForward of  *)
(* forward.go): calls in flight that the service serves in any order, one  *)
(* at a time under s.mu; the interface's copy of the config, read again    *)
(* after a change; and the dialog that adds a target's ports one by one.   *)
(*                                                                         *)
(* A mutation whose callback returns the refetch's promise is pending      *)
(* until the refetch has landed; a refetch asked for again starts over,    *)
(* and whoever awaited the first awaits the second.  What a bound port     *)
(* carries is in Forward; here a port is bound, failed to bind, or not.    *)
(***************************************************************************)
EXTENDS Naturals, Sequences, FiniteSets, FiniteSetsExt

CONSTANTS
  Ids,          \* bound: the forwards ever made, 1..n in the order they are made
  Targets,      \* services and pods
  NoTarget,
  Remotes,      \* the ports each target declares, a set of numbers
  MaxLocal,     \* the local ports are 1..MaxLocal, of which SaveForward hands out the lowest
  Typed,        \* bound: the local ports the user types, 0 for an emptied field
  MaxActs       \* bound: acts of the user, except opening and closing a dialog, and of other programs

ASSUME PortsAssumption ==
  /\ IsFiniteSet(Ids) /\ Ids = 1..Cardinality(Ids) /\ Ids # {}
  /\ IsFiniteSet(Remotes) /\ Remotes \subseteq Nat \ {0} /\ Remotes # {}
  /\ NoTarget \notin Targets /\ MaxLocal \in Nat \ {0} /\ Typed \subseteq 0..MaxLocal /\ MaxActs \in Nat

Locals == 1..MaxLocal
Forwards == [target : Targets, remote : Remotes, local : Locals, on : BOOLEAN]
Gone == [target |-> NoTarget, remote |-> 0, local |-> 0, on |-> FALSE]
Fine == [why |-> "ok", port |-> 0, free |-> 0]
Failed == [Fine EXCEPT !.why = "other"]
Shut == [open |-> FALSE, target |-> NoTarget, unticked |-> {}, typed |-> [r \in Remotes |-> 0],
         error |-> Fine, added |-> {}]

VARIABLES
  saved,     \* [Ids -> a Saved Forward or Gone]: the config
  minted,    \* how many ids were given out
  bound,     \* [Ids -> {"no", "bound", "failed"}]: s.forwards, and what its status tells the interface
  taken,     \* the local ports other programs listen on
  rows,      \* the config as the interface has it
  fetch,     \* its read: "idle", "asked" or "read"
  answer,    \* what was read, for "read"
  calls,     \* the mutations running; equal ones merge (bound)
  editing,   \* the rows whose local port is being changed
  errors,    \* [Ids -> [enable, save]]: the last failure of each mutation of a row
  deleting,  \* the row whose ConfirmDialog is open, or 0
  dialog,    \* AddForward, with the ports it has saved so far
  acts

vars == <<saved, minted, bound, taken, rows, fetch, answer, calls, editing, errors, deleting, dialog, acts>>
server == <<saved, minted, bound, taken>>
config == <<rows, fetch, answer>>
screen == <<editing, errors, deleting, dialog>>

SameTarget(f, g) == f.target = g.target /\ f.remote = g.remote

-----------------------------------------------------------------------------
(* The service, under s.mu.  A bound port is the one in the config: every change of it is applied at once. *)

PortFree(p) == p \notin taken /\ \A i \in Ids : bound[i] = "bound" => saved[i].local # p
Held == {saved[i].local : i \in {j \in Ids : saved[j] # Gone}}
Available == {p \in Locals \ Held : PortFree(p)}

(* Mutant of NextFreePort: the port after the last one. *)
NextPort == IF Available = {} THEN MaxLocal + 1 ELSE Min(Available)
NextFreePort == IF Available = {} THEN 0 ELSE Min(Available)

\* checkLocalPort names the busy port and any that is free, held by a forward that is off or not.
Busy(p) == IF \E q \in Locals : PortFree(q)
           THEN {[why |-> "busy", port |-> p, free |-> q] : q \in {q \in Locals : PortFree(q)}}
           ELSE {Failed}

\* Nothing listens at p but the forward itself, whose port is given back first.
CanBind(i, p) == p \notin taken /\ \A j \in Ids \ {i} : bound[j] = "bound" => saved[j].local # p
ApplyForward(i, f) ==
  bound' = [bound EXCEPT ![i] = IF ~f.on THEN "no"
                                ELSE IF bound[i] = "bound" /\ saved[i] = f THEN "bound"
                                ELSE IF CanBind(i, f.local) THEN "bound" ELSE "failed"]

Becomes(c, d) == calls' = (calls \ {c}) \cup {d}
Result(c, r) == Becomes(c, [c EXCEPT !.at = "served", !.result = r])
Refused(c, r) == Result(c, r) /\ UNCHANGED server

(* Mutant of Twin: only a new forward is compared with the saved ones. *)
TwinOfNew(id, f) == id = 0 /\ \E j \in Ids : SameTarget(saved[j], f)
Twin(id, f) == \E j \in Ids \ {id} : SameTarget(saved[j], f)

LocalPort(id, f) == IF f.local = 0 THEN NextFreePort ELSE f.local
OwnPort(id, p) == id # 0 /\ saved[id].local = p
Usable(id, f) == f.local # 0 => (OwnPort(id, f.local) \/ PortFree(f.local))

\* The id is 0 for a new forward.  A forward that is gone from the config is appended again.
SaveForward(c, id, f) ==
  LET p == LocalPort(id, f)
      i == IF id = 0 THEN minted + 1 ELSE id
      g == [f EXCEPT !.local = p]
  IN \/ Twin(id, f) /\ Refused(c, Failed)
     \/ ~Twin(id, f) /\ p = 0 /\ Refused(c, Failed)
     \/ /\ ~Twin(id, f) /\ ~Usable(id, f)
        /\ \E r \in Busy(p) : Refused(c, r)
     \/ /\ ~Twin(id, f) /\ p # 0 /\ Usable(id, f)
        /\ i \in Ids
        /\ saved' = [saved EXCEPT ![i] = g]
        /\ ApplyForward(i, g)
        /\ minted' = IF id = 0 THEN i ELSE minted
        /\ UNCHANGED taken /\ Result(c, Fine)

SetForwardEnabled(c, id, on) ==
  \/ saved[id] = Gone /\ Refused(c, Failed)
  \/ /\ saved[id] # Gone /\ on /\ bound[id] # "bound" /\ ~PortFree(saved[id].local)
     /\ \E r \in Busy(saved[id].local) : Refused(c, r)
  \/ /\ saved[id] # Gone /\ (on /\ bound[id] # "bound" => PortFree(saved[id].local))
     /\ saved' = [saved EXCEPT ![id].on = on]
     /\ ApplyForward(id, [saved[id] EXCEPT !.on = on])
     /\ UNCHANGED <<minted, taken>> /\ Result(c, Fine)

DeleteForward(c, id) ==
  \/ saved[id] = Gone /\ Refused(c, Failed)
  \/ /\ saved[id] # Gone
     /\ saved' = [saved EXCEPT ![id] = Gone] /\ bound' = [bound EXCEPT ![id] = "no"]
     /\ UNCHANGED <<minted, taken>> /\ Result(c, Fine)

-----------------------------------------------------------------------------
(* Mutations.  "seen" is whether the row or the dialog that made the call is still there to be told. *)

Call(op, id, queue) == [op |-> op, id |-> id, queue |-> queue, at |-> "sent", result |-> Fine, seen |-> TRUE]
Pending(op, id) == \E c \in calls : c.op = op /\ c.id = id /\ c.seen
Acts == acts < MaxActs /\ acts' = acts + 1

Served(c) ==
  /\ c.at = "sent"
  /\ \/ c.op \in {"add", "save"} /\ SaveForward(c, c.id, Head(c.queue))
     \/ c.op = "enable" /\ SetForwardEnabled(c, c.id, Head(c.queue).on)
     \/ c.op = "remove" /\ DeleteForward(c, c.id)
  /\ UNCHANGED <<config, screen, acts>>

\* The config is read again; a read in progress is given up.
Invalidates == fetch' = "asked" /\ answer' = [i \in Ids |-> Gone] /\ UNCHANGED rows
Settling(c) == [c EXCEPT !.at = "settling"]

Told(c, field) == IF c.seen THEN [errors EXCEPT ![c.id][field] = c.result] ELSE errors

Switched(c) ==
  /\ c.op = "enable"
  /\ \/ c.result = Fine /\ Becomes(c, Settling(c)) /\ Invalidates /\ UNCHANGED errors
     \/ c.result # Fine /\ calls' = calls \ {c} /\ errors' = Told(c, "enable") /\ UNCHANGED config
  /\ UNCHANGED <<editing, deleting, dialog>>

(* Mutant of PortSaved: the config is not read again. *)
PortSavedQuietly(c) ==
  /\ c.op = "save" /\ calls' = calls \ {c} /\ errors' = Told(c, "save")
  /\ editing' = IF c.result = Fine THEN editing \ {c.id} ELSE editing
  /\ UNCHANGED <<config, deleting, dialog>>

\* setEnabled.reset() lets go of a switch that is still on its way: the row shows neither it nor its failure.
LetGo(S) == {[x EXCEPT !.seen = FALSE] : x \in S}
PortSaved(c) ==
  LET switches == {x \in calls : x.op = "enable" /\ x.id = c.id /\ c.seen}
  IN /\ c.op = "save"
     /\ \/ /\ c.result = Fine /\ Invalidates
           /\ calls' = ((calls \ {c}) \ switches) \cup LetGo(switches)
           /\ editing' = IF c.seen THEN editing \ {c.id} ELSE editing
           /\ errors' = IF c.seen THEN [errors EXCEPT ![c.id].enable = Fine] ELSE errors
        \/ c.result # Fine /\ calls' = calls \ {c} /\ errors' = Told(c, "save") /\ UNCHANGED <<config, editing>>
     /\ UNCHANGED <<deleting, dialog>>

Removed(c) ==
  /\ c.op = "remove"
  /\ \/ c.result = Fine /\ Becomes(c, Settling(c)) /\ Invalidates
     \/ c.result # Fine /\ calls' = calls \ {c} /\ UNCHANGED config
  /\ UNCHANGED screen

(* Mutant of AddFailed: the config is read again after a success only. *)
AddFailedAtOnce(c) ==
  /\ calls' = calls \ {c} /\ UNCHANGED config
  /\ dialog' = IF c.seen THEN [dialog EXCEPT !.error = c.result] ELSE dialog

AddFailed(c) == Becomes(c, Settling(c)) /\ Invalidates /\ UNCHANGED dialog

\* The last port saved closes the dialog that is open, be it a later one.
PortAdded(c) ==
  LET added == IF c.seen THEN dialog.added \cup {[Head(c.queue) EXCEPT !.local = 0]} ELSE dialog.added
  IN \/ /\ Tail(c.queue) # <<>>
        /\ Becomes(c, [c EXCEPT !.at = "sent", !.queue = Tail(@), !.result = Fine])
        /\ dialog' = [dialog EXCEPT !.added = added] /\ UNCHANGED config
     \/ /\ Tail(c.queue) = <<>> /\ Invalidates
        /\ LET later == {x \in calls \ {c} : x.op = "add"} IN calls' = ((calls \ {c}) \ later) \cup LetGo(later)
        /\ dialog' = Shut

Added(c) ==
  /\ c.op = "add"
  /\ \/ c.result = Fine /\ PortAdded(c)
     \/ c.result # Fine /\ AddFailed(c)
  /\ UNCHANGED <<editing, errors, deleting>>

Answered(c) ==
  /\ c.at = "served"
  /\ Switched(c) \/ PortSaved(c) \/ Removed(c) \/ Added(c)
  /\ UNCHANGED <<server, acts>>

ConfigReads ==
  /\ fetch = "asked"
  /\ fetch' = "read" /\ answer' = saved
  /\ UNCHANGED <<server, rows, calls, screen, acts>>

\* What awaited the read ends; a row that is gone takes its dialog, its form and its errors with it.
ConfigLands ==
  LET left == {i \in Ids : answer[i] = Gone}
      awaiting == {c \in calls : c.at = "settling"}
      lost == {c \in calls \ awaiting : c.op # "add" /\ c.id \in left}
  IN /\ fetch = "read"
     /\ rows' = answer /\ fetch' = "idle" /\ answer' = [i \in Ids |-> Gone]
     /\ calls' = ((calls \ awaiting) \ lost) \cup LetGo(lost)
     /\ editing' = editing \ left
     /\ errors' = [i \in Ids |-> IF i \in left THEN [enable |-> Fine, save |-> Fine] ELSE errors[i]]
     /\ deleting' = IF deleting \in left THEN 0 ELSE deleting
     /\ \/ \E c \in awaiting : c.op = "add" /\ c.seen /\ dialog' = [dialog EXCEPT !.error = c.result]
        \/ (\A c \in awaiting : c.op = "add" => ~c.seen) /\ UNCHANGED dialog
     /\ UNCHANGED <<server, acts>>

OtherProgram(p) ==
  /\ Acts
  /\ \/ p \in taken /\ taken' = taken \ {p}
     \/ PortFree(p) /\ taken' = taken \cup {p}
  /\ UNCHANGED <<saved, minted, bound, config, calls, screen>>

-----------------------------------------------------------------------------
(* The user.  A row's copy may be older than the config; an open dialog covers the rows. *)

RowsFree == deleting = 0 /\ ~dialog.open
Sends(c) == c \notin calls /\ calls' = calls \cup {c} /\ Acts /\ UNCHANGED <<server, config>>
Stays == UNCHANGED <<server, config, calls, acts>>

UserSwitches(i) ==
  /\ RowsFree /\ rows[i] # Gone /\ ~Pending("enable", i)
  /\ Sends(Call("enable", i, <<[rows[i] EXCEPT !.on = ~@]>>))
  /\ errors' = [errors EXCEPT ![i].enable = Fine]
  /\ UNCHANGED <<editing, deleting, dialog>>

UserEdits(i) ==
  /\ Acts /\ RowsFree /\ rows[i] # Gone
  /\ editing' = IF i \in editing THEN editing \ {i} ELSE editing \cup {i}
  /\ UNCHANGED <<server, config, calls, errors, deleting, dialog>>

\* Saving sends the whole row as it was drawn, with what is changed of it.
Saves(i, f) ==
  /\ RowsFree /\ rows[i] # Gone /\ ~Pending("save", i)
  /\ Sends(Call("save", i, <<f>>))
  /\ errors' = [errors EXCEPT ![i].save = Fine]
  /\ UNCHANGED <<editing, deleting, dialog>>

\* An emptied field is sent as 0.
UserSavesPort(i, p) == i \in editing /\ Saves(i, [rows[i] EXCEPT !.local = p])

RowError(i) == IF errors[i].enable # Fine THEN errors[i].enable ELSE errors[i].save
UserTakesFree(i) ==
  /\ RowError(i).why = "busy"
  /\ Saves(i, [rows[i] EXCEPT !.local = RowError(i).free, !.on = TRUE])

UserOpensDelete(i) ==
  /\ RowsFree /\ rows[i] # Gone
  /\ deleting' = i
  /\ Stays /\ UNCHANGED <<editing, errors, dialog>>

UserDeletes ==
  /\ deleting # 0 /\ ~Pending("remove", deleting)
  /\ Sends(Call("remove", deleting, <<rows[deleting]>>))
  /\ UNCHANGED screen

UserKeeps ==
  /\ deleting # 0 /\ ~Pending("remove", deleting)
  /\ deleting' = 0
  /\ Stays /\ UNCHANGED <<editing, errors, dialog>>

\* The dialog, opened empty here or from the Overview with a target.
UserOpensAdd(t) ==
  /\ RowsFree
  /\ dialog' = [Shut EXCEPT !.open = TRUE, !.target = t]
  /\ Stays /\ UNCHANGED <<editing, errors, deleting>>

ChangesDialog(d) ==
  /\ Acts /\ dialog.open /\ dialog' = d
  /\ UNCHANGED <<server, config, calls, editing, errors, deleting>>

UserPicksTarget(t) ==
  /\ t # dialog.target
  /\ ChangesDialog([dialog EXCEPT !.target = t, !.unticked = {}, !.typed = Shut.typed])

Existing(r) == \E i \in Ids : rows[i].target = dialog.target /\ rows[i].remote = r
Ticked == IF dialog.target = NoTarget THEN {} ELSE {r \in Remotes \ dialog.unticked : ~Existing(r)}

UserTicks(r) ==
  /\ dialog.target # NoTarget /\ ~Existing(r)
  /\ ChangesDialog([dialog EXCEPT !.unticked = IF r \in @ THEN @ \ {r} ELSE @ \cup {r}])

UserTypes(r, p) ==
  /\ r \in Ticked /\ p # dialog.typed[r]
  /\ ChangesDialog([dialog EXCEPT !.typed[r] = p])

\* "Use n instead": where the busy port was typed first, the free one is.
Clashing == {r \in Ticked : dialog.typed[r] = dialog.error.port}
UserTakesOther(r) ==
  /\ ~Pending("add", 0) /\ dialog.error.why = "busy"
  /\ r \in Clashing /\ \A x \in Clashing : r <= x
  /\ ChangesDialog([dialog EXCEPT !.error = Fine, !.typed[r] = dialog.error.free])

PortAt(r) == [target |-> dialog.target, remote |-> r, local |-> dialog.typed[r], on |-> TRUE]
Ascending(S) == {q \in [1..Cardinality(S) -> S] : \A j, k \in DOMAIN q : j < k => q[j] < q[k]}

UserAdds ==
  /\ dialog.open /\ Ticked # {} /\ ~Pending("add", 0)
  /\ \E q \in Ascending(Ticked) : Sends(Call("add", 0, [k \in DOMAIN q |-> PortAt(q[k])]))
  /\ dialog' = [dialog EXCEPT !.error = Fine]
  /\ UNCHANGED <<editing, errors, deleting>>

\* Cancel and Escape close it, also while it adds, which goes on.
UserClosesAdd ==
  /\ dialog.open /\ dialog' = Shut
  /\ LET adds == {c \in calls : c.op = "add"} IN calls' = (calls \ adds) \cup LetGo(adds)
  /\ UNCHANGED <<server, config, acts, editing, errors, deleting>>

-----------------------------------------------------------------------------

Init ==
  /\ \E t \in Targets, on \in BOOLEAN :
       /\ saved = [i \in Ids |-> IF i = 1 THEN [target |-> t, remote |-> Min(Remotes), local |-> 1, on |-> on] ELSE Gone]
       /\ bound = [i \in Ids |-> IF i = 1 /\ on THEN "bound" ELSE "no"]
  /\ minted = 1 /\ taken = {}
  /\ rows = saved /\ fetch = "idle" /\ answer = [i \in Ids |-> Gone]
  /\ calls = {} /\ editing = {} /\ deleting = 0 /\ dialog = Shut
  /\ errors = [i \in Ids |-> [enable |-> Fine, save |-> Fine]]
  /\ acts = 0

RowStep(i) ==
  \/ UserSwitches(i) \/ UserEdits(i) \/ UserTakesFree(i) \/ UserOpensDelete(i)
  \/ \E p \in Typed : UserSavesPort(i, p)
DialogStep ==
  \/ UserDeletes \/ UserKeeps \/ UserAdds \/ UserClosesAdd
  \/ \E t \in Targets \cup {NoTarget} : UserOpensAdd(t)
  \/ \E t \in Targets : UserPicksTarget(t)
  \/ \E r \in Remotes : UserTicks(r) \/ UserTakesOther(r) \/ \E p \in Typed : UserTypes(r, p)

Next ==
  \/ \E c \in calls : Served(c) \/ Answered(c)
  \/ ConfigReads \/ ConfigLands
  \/ \E p \in Locals : OtherProgram(p)
  \/ \E i \in Ids : RowStep(i)
  \/ DialogStep

Spec == Init /\ [][Next]_vars

-----------------------------------------------------------------------------
(* Properties. *)

Results == [why : {"ok", "busy", "other"}, port : Locals \cup {0}, free : Locals \cup {0}]
Sent == [target : Targets, remote : Remotes, local : Locals \cup {0}, on : BOOLEAN]

TypeOK ==
  /\ saved \in [Ids -> Forwards \cup {Gone}] /\ minted \in Ids /\ taken \subseteq Locals
  /\ bound \in [Ids -> {"no", "bound", "failed"}]
  /\ rows \in [Ids -> Forwards \cup {Gone}] /\ answer \in [Ids -> Forwards \cup {Gone}]
  /\ fetch \in {"idle", "asked", "read"}
  /\ \A c \in calls : /\ c.op \in {"enable", "save", "remove", "add"} /\ c.id \in Ids \cup {0}
                      /\ c.queue \in Seq(Sent) /\ c.at \in {"sent", "served", "settling"}
                      /\ c.result \in Results /\ c.seen \in BOOLEAN
  /\ editing \subseteq Ids /\ deleting \in Ids \cup {0}
  /\ errors \in [Ids -> [enable : Results, save : Results]]
  /\ dialog.open \in BOOLEAN /\ dialog.target \in Targets \cup {NoTarget} /\ dialog.error \in Results
  /\ dialog.unticked \subseteq Remotes /\ dialog.typed \in [Remotes -> Locals \cup {0}]

\* A target's port is forwarded once at most (SaveForward's ForwardExistsError), whatever dialogs, rows and late
\* calls add it: also when a call in flight brings a deleted forward back.
OneForwardEach ==
  \A i, j \in Ids : i # j /\ saved[i] # Gone => ~SameTarget(saved[i], saved[j])

\* Once no mutation runs and the config was read, every row is as it is saved, and is off exactly where
\* no port is held or wanted (one that could not be taken leaves its forward on): after failures half way, and rows and
\* dialogs that are gone before the answer.
RowsAreSaved ==
  calls = {} /\ fetch = "idle"
  => rows = saved /\ \A i \in Ids : rows[i].on = (bound[i] # "no")

\* A retry adds only the rest (forwards.tsx:338): the dialog never sends a port again that it has saved.
Sending == {c \in calls : c.op = "add" /\ c.seen}
SendsTheRest ==
  Sending = {} => \A c \in Sending', f \in dialog.added : \A k \in DOMAIN c.queue : ~SameTarget(f, c.queue[k])
RetryAddsRest == [][SendsTheRest]_vars
=============================================================================
