------------------------------- MODULE Screen -------------------------------
(***************************************************************************)
(* The input and output of one Shell or Terminal (terminal.tsx over        *)
(* shell.go): what it writes, kept as its tail and emitted chunk by chunk; *)
(* the xterm it is drawn into, drawn again after the window was reloaded;  *)
(* and the keys typed, sent by calls that can overtake each other.         *)
(*                                                                         *)
(* Events reach the window that is loaded, in the order they were emitted; *)
(* what is emitted while a window loads is lost.  Dock has the sessions    *)
(* and their tabs; here there is one, already started.                     *)
(***************************************************************************)
EXTENDS Naturals, Sequences, FiniteSets

CONSTANTS
  MaxChunks,   \* bound: chunks of output, within the 256 KiB the tail keeps
  MaxKeys,     \* bound: keys typed in one window
  MaxWindows   \* bound: the first window and its reloads

ASSUME ScreenAssumption == MaxChunks \in Nat /\ MaxKeys \in Nat /\ MaxWindows \in Nat \ {0}

Windows == 1..MaxWindows
Chunks == 1..MaxChunks
NoChunk == 0

VARIABLES
  run,         \* "running", "leaving" (forgotten, its end not yet told) or "ended"
  registered,  \* it is in s.shells
  tail,        \* the chunks kept
  emitting,    \* the chunk kept and not yet emitted, or NoChunk
  received,    \* the keys the shell got: records [window, n]
  writes,      \* calls of WriteShell: [window, keys, at]
  stopping,    \* StopShell was called and not yet served
  events,      \* emitted and not yet handled: records [chunk, state], of which one says something
  window,      \* the windows there have been
  loaded,      \* its handlers are registered
  shown,       \* the session in the store: "none", "live" or "ended"
  closed,      \* the user closed it in this window
  screen,      \* the chunks drawn
  statuses,    \* the call of Statuses() at load: "idle", "asked", "absent" or "present"
  tailCall,    \* the call of Tail(): "idle", "asked", "failed" or "read"
  tailRead,    \* the answer, for "read"
  restoring,   \* output waits for it
  queuedOut,   \* the output that waits
  typed,       \* keys typed in this window
  sending,     \* a write of this window is in flight
  queuedIn     \* the keys that follow it

vars == <<run, registered, tail, emitting, received, writes, stopping, events, window, loaded, shown, closed,
          screen, statuses, tailCall, tailRead, restoring, queuedOut, typed, sending, queuedIn>>
service == <<run, registered, tail, emitting>>
store == <<shown, closed, screen>>
calls == <<statuses, tailCall, tailRead>>
output == <<restoring, queuedOut>>
input == <<received, writes, typed, sending, queuedIn>>
page == <<window, loaded>>

Produced == Len(tail)
Output(c) == [chunk |-> c, state |-> "none"]
Status(st) == [chunk |-> NoChunk, state |-> st]

-----------------------------------------------------------------------------
(* The service. *)

\* What no window hears is gone.
Emit(e) == events' = IF loaded THEN events \o e ELSE events

\* The first chunk tells that a shell started.
Keeps ==
  /\ run = "running" /\ emitting = NoChunk /\ Produced < MaxChunks
  /\ tail' = Append(tail, Produced + 1) /\ emitting' = Produced + 1
  /\ Emit(IF tail = <<>> THEN <<Status("live")>> ELSE <<>>)
  /\ UNCHANGED <<run, registered, stopping, page, store, calls, output, input>>

EmitsChunk ==
  /\ emitting # NoChunk
  /\ Emit(<<Output(emitting)>>) /\ emitting' = NoChunk
  /\ UNCHANGED <<run, registered, tail, stopping, page, store, calls, output, input>>

\* The shell exits, or StopShell has cancelled it.
Exits ==
  /\ run = "running" /\ emitting = NoChunk
  /\ run' = "leaving" /\ registered' = FALSE
  /\ UNCHANGED <<tail, emitting, stopping, events, page, store, calls, output, input>>

TellsEnd ==
  /\ run = "leaving"
  /\ run' = "ended" /\ Emit(<<Status("ended")>>)
  /\ UNCHANGED <<registered, tail, emitting, stopping, page, store, calls, output, input>>

StopShell ==
  /\ stopping /\ stopping' = FALSE /\ registered' = FALSE
  /\ UNCHANGED <<run, tail, emitting, events, page, store, calls, output, input>>

\* A write to a shell that is gone fails; one that is registered reads what was written.
WriteShell(w) ==
  /\ w.at = "sent"
  /\ writes' = (writes \ {w}) \cup {[w EXCEPT !.at = "served"]}
  /\ received' = IF registered THEN received \o w.keys ELSE received
  /\ UNCHANGED <<service, stopping, events, page, store, calls, output, typed, sending, queuedIn>>

ShellStatuses ==
  /\ statuses = "asked"
  /\ statuses' = IF registered THEN "present" ELSE "absent"
  /\ UNCHANGED <<service, stopping, events, page, store, tailCall, tailRead, output, input>>

ShellTail ==
  /\ tailCall = "asked"
  /\ tailCall' = IF registered THEN "read" ELSE "failed"
  /\ tailRead' = IF registered THEN tail ELSE <<>>
  /\ UNCHANGED <<service, stopping, events, page, store, statuses, output, input>>

-----------------------------------------------------------------------------
(* The window's handlers. *)

IsOpen == shown # "none"

(* Mutant of Drawn: output for a session that is not open makes its terminal again. *)
DrawnAlways(out) == screen \o out
Drawn(out) == IF IsOpen THEN screen \o out ELSE screen

(* Mutant of WriteSessionOutput: live output does not wait for the tail. *)
WriteAtOnce(c) == screen' = Drawn(<<c>>) /\ UNCHANGED queuedOut

WriteSessionOutput(c) ==
  \/ restoring /\ queuedOut' = Append(queuedOut, c) /\ UNCHANGED screen
  \/ ~restoring /\ screen' = Drawn(<<c>>) /\ UNCHANGED queuedOut

SetStatus(st) == shown' = IF closed THEN shown ELSE st

HandlesEvent ==
  /\ events # <<>> /\ events' = Tail(events)
  /\ \/ Head(events).chunk # NoChunk /\ WriteSessionOutput(Head(events).chunk) /\ UNCHANGED shown
     \/ Head(events).chunk = NoChunk /\ SetStatus(Head(events).state) /\ UNCHANGED <<screen, queuedOut>>
  /\ UNCHANGED <<service, stopping, page, closed, calls, restoring, input>>

\* A session the service still has is shown, and its tail is asked for.
HandlesStatuses ==
  /\ statuses \in {"absent", "present"} /\ statuses' = "idle"
  /\ \/ statuses = "absent" /\ UNCHANGED <<shown, tailCall, output>>
     \/ /\ statuses = "present" /\ SetStatus("live")
        /\ restoring' = TRUE /\ queuedOut' = <<>> /\ tailCall' = "asked"
  /\ UNCHANGED <<service, stopping, events, page, closed, screen, tailRead, input>>

(* Mutant of RestoreSession: the output that waited is forgotten. *)
RestoreTail ==
  /\ tailCall \in {"failed", "read"} /\ tailCall' = "idle" /\ tailRead' = <<>>
  /\ restoring' = FALSE /\ queuedOut' = <<>>
  /\ screen' = Drawn(tailRead)
  /\ UNCHANGED <<service, stopping, events, page, shown, closed, statuses, input>>

RestoreSession ==
  /\ tailCall \in {"failed", "read"} /\ tailCall' = "idle" /\ tailRead' = <<>>
  /\ restoring' = FALSE /\ queuedOut' = <<>>
  /\ screen' = Drawn(tailRead \o queuedOut)
  /\ UNCHANGED <<service, stopping, events, page, shown, closed, statuses, input>>

-----------------------------------------------------------------------------
(* The user. *)

\* What a reloaded window had is gone; its calls in flight are not.
Reload ==
  /\ window < MaxWindows
  /\ window' = window + 1 /\ loaded' = FALSE /\ events' = <<>>
  /\ shown' = "none" /\ closed' = FALSE /\ screen' = <<>>
  /\ statuses' = "idle" /\ tailCall' = "idle" /\ tailRead' = <<>>
  /\ restoring' = FALSE /\ queuedOut' = <<>>
  /\ typed' = 0 /\ sending' = FALSE /\ queuedIn' = <<>>
  /\ UNCHANGED <<service, stopping, received, writes>>

Loads ==
  /\ ~loaded /\ loaded' = TRUE /\ statuses' = "asked"
  /\ UNCHANGED <<service, stopping, events, window, store, tailCall, tailRead, output, input>>

\* closeShell, whose terminal goes with it.
UserCloses ==
  /\ IsOpen
  /\ shown' = "none" /\ closed' = TRUE /\ screen' = <<>> /\ stopping' = TRUE
  /\ UNCHANGED <<service, events, page, calls, output, input>>

Write(keys) == [window |-> window, keys |-> keys, at |-> "sent"]

(* Mutant of SendInput: every key is sent at once. *)
SendAtOnce(keys) == writes' = writes \cup {Write(keys)} /\ sending' = TRUE /\ UNCHANGED queuedIn

SendInput(keys) ==
  \/ sending /\ queuedIn' = queuedIn \o keys /\ UNCHANGED <<writes, sending>>
  \/ ~sending /\ sending' = TRUE /\ writes' = writes \cup {Write(keys)} /\ UNCHANGED queuedIn

UserTypes ==
  /\ shown = "live" /\ typed < MaxKeys
  /\ typed' = typed + 1 /\ SendInput(<<[window |-> window, n |-> typed + 1]>>)
  /\ UNCHANGED <<service, stopping, events, page, store, calls, output, received>>

\* The answer to a write of this window sends what was typed meanwhile.
WriteEnds(w) ==
  /\ w.at = "served"
  /\ \/ w.window # window /\ writes' = writes \ {w} /\ UNCHANGED <<sending, queuedIn>>
     \/ w.window = window /\ queuedIn = <<>> /\ writes' = writes \ {w} /\ sending' = FALSE /\ UNCHANGED queuedIn
     \/ /\ w.window = window /\ queuedIn # <<>>
        /\ writes' = (writes \ {w}) \cup {Write(queuedIn)} /\ queuedIn' = <<>> /\ UNCHANGED sending
  /\ UNCHANGED <<service, stopping, events, page, store, calls, output, received, typed>>

-----------------------------------------------------------------------------

Init ==
  /\ run = "running" /\ registered = TRUE /\ tail = <<>> /\ emitting = NoChunk
  /\ received = <<>> /\ writes = {} /\ stopping = FALSE /\ events = <<>>
  /\ window = 1 /\ loaded = TRUE /\ shown = "live" /\ closed = FALSE /\ screen = <<>>
  /\ statuses = "idle" /\ tailCall = "idle" /\ tailRead = <<>>
  /\ restoring = FALSE /\ queuedOut = <<>>
  /\ typed = 0 /\ sending = FALSE /\ queuedIn = <<>>

Next ==
  \/ Keeps \/ EmitsChunk \/ Exits \/ TellsEnd \/ StopShell \/ ShellStatuses \/ ShellTail
  \/ HandlesEvent \/ HandlesStatuses \/ RestoreSession
  \/ Reload \/ Loads \/ UserCloses \/ UserTypes
  \/ \E w \in writes : WriteShell(w) \/ WriteEnds(w)

Spec == Init /\ [][Next]_vars

-----------------------------------------------------------------------------
(* Properties. *)

\* What is drawn skips no chunk, except that of a session that ended while its tail was asked for the first are
\* missing; and none is drawn more than twice: only in a window that was reloaded, where live output and the tail
\* overlap (terminal.tsx:198).
Times(c) == Cardinality({i \in DOMAIN screen : screen[i] = c})
OutputInOrder ==
  /\ screen # <<>> => screen[1] = 1 \/ ~registered
  /\ \A i \in 2..Len(screen) : screen[i] <= screen[i - 1] + 1
  /\ \A c \in Chunks : Times(c) <= (IF window = 1 THEN 1 ELSE 2)

\* Once a loaded window has handled what reached it, a session that runs is drawn to its last chunk, whatever was
\* emitted while the window loaded, before it knew of the session, or while its tail was read.
OutputIsWhole ==
  /\ loaded /\ registered /\ emitting = NoChunk /\ events = <<>>
  /\ shown = "live" /\ statuses = "idle" /\ tailCall = "idle"
  => {screen[i] : i \in DOMAIN screen} = 1..Produced

\* A session that is not in the store has no terminal: no late chunk or tail makes one again, which nothing would
\* dispose of.
TerminalGoes == shown = "none" => screen = <<>>

\* Keys typed in one window reach the shell in the order they were typed, though calls overtake each other.
KeysInOrder ==
  \A i, j \in DOMAIN received : i < j /\ received[i].window = received[j].window => received[i].n < received[j].n
=============================================================================
