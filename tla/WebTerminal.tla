---------------------------- MODULE WebTerminal ----------------------------
(***************************************************************************)
(* The terminal of a project in the browser: the socket                    *)
(* (openProjectTerminalSocket in src/web/src/api.ts), the state of the     *)
(* drawer (use-project-terminal-session.ts) and the surface that draws the *)
(* output (components/LiveTerminalSurface.tsx).  Of the server there is    *)
(* what the browser meets: the shell of a project, which is started anew   *)
(* by a connection when it has exited, its frames, and a connection that   *)
(* replays, says ready and goes on.                                        *)
(*                                                                         *)
(* A frame is <<project, shell, number>>; the last frame of a shell that   *)
(* is over is its exit.  Every update is rendered before the next one.     *)
(***************************************************************************)
EXTENDS Naturals, Sequences, FiniteSets, SequencesExt

CONSTANTS
  Projects,
  MaxFrames,      (* bound on the frames of a shell                         *)
  MaxTyped,       (* bound on what is typed                                 *)
  MaxOps          (* bound on what the user and the network do              *)

VARIABLES
  shells,     (* the server: [n, gen, over] of each project's shell         *)
  heard,      (* the server: what the shells have read                      *)
  project,    (* the project that is shown                                  *)
  enabled,    (* the drawer is open and the user logged in                  *)
  status,     (* what the drawer says                                       *)
  terminal,   (* the snapshot: "none", "running" or "exited"                *)
  output,     (* the output, a sequence of frames                           *)
  cursor,     (* the last frame that was received                           *)
  socket,     (* the socket in use                                          *)
  failing,    (* sockets closed before they were open; they report an error *)
  surface,    (* what the surface has drawn                                 *)
  typed,      (* how much was typed                                         *)
  base,       (* ghost: the output begins after this frame                  *)
  same,       (* ghost: nothing was skipped by the server                   *)
  ops

vars == <<shells, heard, project, enabled, status, terminal, output, cursor, socket, failing,
          surface, typed, base, same, ops>>
server == <<shells, heard>>
drawn == <<terminal, output, enabled>>

Op == ops < MaxOps /\ ops' = ops + 1

NoSocket == [phase |-> "none", project |-> "", gen |-> 0, ready |-> FALSE, upto |-> 0,
             sent |-> 0, queue |-> <<>>]

NewSocket(p, after) == [NoSocket EXCEPT !.phase = "connecting", !.project = p, !.sent = after]

NoSurface == [mounted |-> FALSE, loaded |-> FALSE, fresh |-> FALSE, written |-> 0,
              screen |-> <<>>]

-----------------------------------------------------------------------------
(* The surface is there while the drawer shows a shell; the terminal it    *)
(* draws in is loaded later, and draws only what changes from then on.     *)

ShowsShell(open, state, snapshot) ==
  /\ open /\ state # "error"
  /\ snapshot # "none" \/ state \in {"connecting", "live", "closed"}

(* Less output than was written means that it was cleared.                 *)
Written(s, out) ==
  LET t == IF Len(out) < s.written THEN [s EXCEPT !.screen = <<>>, !.written = 0] ELSE s
  IN [t EXCEPT !.screen = @ \o SubSeq(out, t.written + 1, Len(out)), !.written = Len(out),
               !.fresh = TRUE]

Drawn(s, shows, before, out) ==
  IF ~shows THEN NoSurface
  ELSE IF s.loaded /\ out # before THEN Written(s, out)
  ELSE [s EXCEPT !.mounted = TRUE]

Render == surface' = Drawn(surface, ShowsShell(enabled', status', terminal'), output, output')

(* The module of the terminal has been loaded.                             *)
Load ==
  /\ surface.mounted /\ ~surface.loaded
  /\ surface' = [surface EXCEPT !.loaded = TRUE]
  /\ UNCHANGED <<server, project, enabled, status, terminal, output, cursor, socket, failing,
                 typed, base, same, ops>>

-----------------------------------------------------------------------------
(* The effects of the hook: the socket is closed and opened when what it   *)
(* depends on changes.                                                     *)

Closing == failing' = IF socket.phase = "connecting" THEN failing + 1 ELSE failing

(* Mutation: the cursor is the one of the project before.                  *)
LastCursor(p) == cursor

NextCursor(p) == 0

Open ==
  /\ Op
  /\ enabled' = ~enabled
  /\ Closing
  /\ IF enabled THEN socket' = NoSocket /\ UNCHANGED status
     ELSE socket' = NewSocket(project, cursor) /\ status' = "connecting"
  /\ UNCHANGED <<server, project, terminal, output, cursor, typed, base, same>>
  /\ Render

SwitchProject(p) ==
  /\ p # project /\ Op
  /\ project' = p
  /\ cursor' = NextCursor(p)
  /\ base' = 0
  /\ terminal' = "none"
  /\ output' = <<>>
  /\ Closing
  /\ socket' = IF enabled THEN NewSocket(p, cursor') ELSE NoSocket
  /\ status' = IF enabled THEN "connecting" ELSE "idle"
  /\ UNCHANGED <<server, enabled, typed, same>>
  /\ Render

(* The button that is shown for an error.                                  *)
Reconnect ==
  /\ enabled /\ status = "error" /\ Op
  /\ Closing
  /\ socket' = NewSocket(project, cursor)
  /\ status' = "connecting"
  /\ UNCHANGED <<server, project, drawn, cursor, typed, base, same>>
  /\ Render

Clear ==
  /\ enabled /\ output # <<>> /\ Op
  /\ output' = <<>>
  /\ base' = cursor
  /\ UNCHANGED <<server, project, enabled, status, terminal, cursor, socket, failing, typed, same>>
  /\ Render

(* A socket that was closed before it was open fails; its handler says so, *)
(* whatever socket is in use by then.                                      *)
OldSocketFails ==
  /\ failing > 0
  /\ failing' = failing - 1
  /\ status' = "error"
  /\ UNCHANGED <<server, project, drawn, cursor, socket, typed, base, same, ops>>
  /\ Render

SocketFails ==
  /\ socket.phase \in {"connecting", "open"} /\ Op
  /\ socket' = [socket EXCEPT !.phase = "closed", !.queue = <<>>]
  /\ status' = "error"
  /\ UNCHANGED <<server, project, drawn, cursor, failing, typed, base, same>>
  /\ Render

(* The server closes the connection, as it does for one that is too slow.  *)
SocketCloses ==
  /\ socket.phase = "open" /\ Op
  /\ socket' = [socket EXCEPT !.phase = "closed"]
  /\ status' = IF status = "error" THEN "error" ELSE "closed"
  /\ UNCHANGED <<server, project, drawn, cursor, failing, typed, base, same>>
  /\ Render

-----------------------------------------------------------------------------
(* The server.                                                             *)

(* Mutation: the newest first.                                             *)
FlushedBackwards(queue) == Reverse(queue)

(* Output that was typed while the socket was connecting is sent when it   *)
(* opens.                                                                  *)
Flushed(queue) == queue

Connected ==
  LET p == socket.project
      s == shells[p]
      fresh == s.gen = 0 \/ s.over
      shell == IF fresh THEN [gen |-> s.gen + 1, n |-> 0, over |-> FALSE] ELSE s
  IN /\ socket.phase = "connecting"
     /\ shells' = [shells EXCEPT ![p] = shell]
     /\ socket' = [socket EXCEPT !.phase = "open", !.gen = shell.gen, !.upto = shell.n,
                                 !.queue = <<>>]
     /\ heard' = heard \o Flushed(socket.queue)
     /\ same' = (same /\ (fresh => socket.sent = 0)
                      /\ \A k \in DOMAIN output : output[k][2] = shell.gen)
     /\ UNCHANGED <<project, drawn, status, cursor, failing, surface, typed, base, ops>>

Emit(p) ==
  /\ shells[p].gen > 0 /\ ~shells[p].over /\ shells[p].n < MaxFrames
  /\ \E over \in BOOLEAN :
       shells' = [shells EXCEPT ![p].n = @ + 1, ![p].over = over]
  /\ UNCHANGED <<heard, project, drawn, status, cursor, socket, failing, surface, typed, base,
                 same, ops>>

Max2(a, b) == IF a > b THEN a ELSE b

IsExit(p, gen, k) == shells[p].gen = gen /\ shells[p].over /\ shells[p].n = k

(* onFrame: during the replay, or of what comes after it was subscribed to.*)
Frame ==
  LET p == socket.project
      k == socket.sent + 1
  IN /\ socket.phase = "open"
     /\ k <= IF socket.ready THEN shells[p].n ELSE socket.upto
     /\ shells[p].gen = socket.gen
     /\ socket' = [socket EXCEPT !.sent = k]
     /\ cursor' = Max2(cursor, k)
     /\ IF IsExit(p, socket.gen, k)
        THEN /\ status' = "closed"
             /\ terminal' = IF terminal = "none" THEN "none" ELSE "exited"
             /\ output' = output
        ELSE /\ status' = "live"
             /\ terminal' = terminal
             /\ output' = Append(output, <<p, socket.gen, k>>)
     /\ UNCHANGED <<server, project, enabled, failing, typed, base, same, ops>>
     /\ Render

(* terminal.ready: frames that came since the replay are passed over.      *)
Ready ==
  LET s == shells[socket.project]
  IN /\ socket.phase = "open" /\ ~socket.ready
     /\ socket.sent >= socket.upto
     /\ s.gen = socket.gen
     /\ socket' = [socket EXCEPT !.ready = TRUE, !.sent = Max2(@, s.n)]
     /\ cursor' = Max2(cursor, s.n)
     /\ terminal' = IF s.over THEN "exited" ELSE "running"
     /\ status' = IF s.over THEN "closed" ELSE "live"
     /\ same' = (same /\ s.n = socket.sent)
     /\ UNCHANGED <<server, project, enabled, output, failing, typed, base, ops>>
     /\ Render

(* sendInput, interrupt and resize.                                        *)
SendInput ==
  LET message == <<project, typed + 1>>
  IN /\ surface.loaded
     /\ typed < MaxTyped
     /\ typed' = typed + 1
     /\ heard' = IF socket.phase = "open" THEN Append(heard, message) ELSE heard
     /\ socket' = IF socket.phase = "connecting"
                  THEN [socket EXCEPT !.queue = Append(@, message)] ELSE socket
     /\ UNCHANGED <<shells, project, drawn, status, cursor, failing, surface, base, same, ops>>

-----------------------------------------------------------------------------

Init ==
  /\ shells = [p \in Projects |-> [gen |-> 0, n |-> 0, over |-> FALSE]]
  /\ heard = <<>>
  /\ project \in Projects
  /\ enabled = FALSE
  /\ status = "idle"
  /\ terminal = "none"
  /\ output = <<>>
  /\ cursor = 0
  /\ socket = NoSocket
  /\ failing = 0
  /\ surface = NoSurface
  /\ typed = 0
  /\ base = 0
  /\ same = TRUE
  /\ ops = 0

Next ==
  \/ Load
  \/ Open
  \/ \E p \in Projects : SwitchProject(p) \/ Emit(p)
  \/ Reconnect
  \/ Clear
  \/ OldSocketFails
  \/ SocketFails
  \/ SocketCloses
  \/ Connected
  \/ Frame
  \/ Ready
  \/ SendInput

Spec == Init /\ [][Next]_vars

-----------------------------------------------------------------------------
(* Properties.                                                             *)

TypeOK ==
  /\ status \in {"idle", "connecting", "live", "closed", "error"}
  /\ terminal \in {"none", "running", "exited"}
  /\ socket.phase \in {"none", "connecting", "open", "closed"}
  /\ cursor \in 0..MaxFrames
  /\ base \in 0..cursor
  /\ surface.written \in 0..MaxFrames
  /\ typed \in 0..MaxTyped

(* The output is the frames of the shell of the project that is shown, from*)
(* the last time it was cleared up to the cursor, each once and in order,  *)
(* through reconnections and changes of the project.  The server may pass  *)
(* frames over (before ready, or when it counts a new shell's frames from  *)
(* one again while the browser asks for those after the old cursor).       *)
OutputFaithful ==
  same =>
    LET s == shells[project]
        last == IF cursor > 0 /\ IsExit(project, s.gen, cursor) THEN cursor - 1 ELSE cursor
        n == IF last > base THEN last - base ELSE 0
    IN output = [k \in 1..n |-> <<project, s.gen, base + k>>]

(* The surface shows the output that is kept, however often it was cleared *)
(* or the project changed, as soon as output has come since it was loaded; *)
(* before that it shows nothing.                                           *)
ScreenFaithful == surface.screen = IF surface.fresh THEN output ELSE <<>>

(* What is typed reaches the shells in the order it was typed, each at most*)
(* once, whether it was sent at once or waited for the connection.         *)
InputOrdered == \A j, k \in DOMAIN heard : j < k => heard[j][2] < heard[k][2]
=============================================================================
