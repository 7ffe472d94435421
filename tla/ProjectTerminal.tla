--------------------------- MODULE ProjectTerminal ---------------------------
(***************************************************************************)
(* The terminal of a project on the server                                 *)
(* (src/server/internal/api/project_terminal.go): a shell, started by the  *)
(* first connection that finds none running; its frames, appended by the   *)
(* goroutine that reads its output and the one that waits for its exit; and*)
(* the handlers of connections, each of which replays the frames, says     *)
(* ready, subscribes and goes on with what comes.                          *)
(*                                                                         *)
(* A shell is its number, in the order the processes were started; a frame *)
(* is its number among those of its shell.  What happens under the lock of *)
(* a session, or of the server, is one step.  A client keeps the number of *)
(* its last frame and connects again with it; what its handler writes it   *)
(* receives at once, for neither can tell.                                 *)
(***************************************************************************)
EXTENDS Naturals, Sequences

CONSTANTS
  Clients,
  FrameBacklog,   (* projectTerminalFrameBacklog                            *)
  SubBuffer,      (* projectTerminalSubBuffer                               *)
  MaxFrames,      (* bound on the output frames of a shell                  *)
  MaxOps          (* bound on connections made and left by clients          *)

VARIABLES
  term,       (* projectTerms: the shell of the project, 0 for none         *)
  shells,     (* the processes started so far, with their sessions          *)
  handlers,   (* the handlers of connections                                *)
  clients,    (* each client: its connection, 0 for none, and cursor        *)
  got,        (* ghost: the frames each client received, as <<shell, frame>>*)
  missed,     (* ghost: the clients that a frame was passed over for        *)
  ops         (* operations so far                                          *)

vars == <<term, shells, handlers, clients, got, missed, ops>>
server == <<term, shells>>
received == <<clients, got, ops>>

Larger(a, b) == IF a > b THEN a ELSE b

(* What a goroutine that appends frames still has to send: a frame, to the *)
(* subscribers there were when it was appended.                            *)
Idle == [seq |-> 0, to |-> {}]

NewShell == [at |-> "started", n |-> 0, exit |-> 0, reader |-> Idle, waiter |-> Idle, subs |-> {}]

(* A handler that was just called, for the frames after those the client   *)
(* has.                                                                    *)
NewHandler(id, c, after) ==
  [id |-> id, client |-> c, at |-> "ensure", gen |-> 0, last |-> after, upto |-> 0,
   queue |-> <<>>]

Becomes(h, new) == handlers' = (handlers \ {h}) \cup {new}

Runs(g) == g # 0 /\ shells[g].at = "running"

-----------------------------------------------------------------------------
(* ensureProjectTerminal: the process is started outside the lock, so that *)
(* another connection may have installed one when it is there.             *)

EnsureProjectTerminal(h) ==
  /\ h.at = "ensure"
  /\ Becomes(h, IF Runs(term) THEN [h EXCEPT !.at = "upgrade", !.gen = term]
                ELSE [h EXCEPT !.at = "start"])
  /\ UNCHANGED <<server, received, missed>>

StartTerminal(h) ==
  /\ h.at = "start"
  /\ shells' = Append(shells, NewShell)
  /\ Becomes(h, [h EXCEPT !.at = "install", !.gen = Len(shells) + 1])
  /\ UNCHANGED <<term, received, missed>>

StartFails(h) ==
  /\ h.at = "start"
  /\ handlers' = handlers \ {h}
  /\ UNCHANGED <<server, received, missed>>

InstallTerminal(h) ==
  /\ h.at = "install"
  /\ IF Runs(term)
     THEN /\ shells' = [shells EXCEPT ![h.gen].at = "discarded"]
          /\ Becomes(h, [h EXCEPT !.at = "upgrade", !.gen = term])
          /\ UNCHANGED term
     ELSE /\ shells' = [shells EXCEPT ![h.gen].at = "running"]
          /\ Becomes(h, [h EXCEPT !.at = "upgrade"])
          /\ term' = h.gen
  /\ UNCHANGED <<received, missed>>

-----------------------------------------------------------------------------
(* The frames of a shell: appendFrame, in two parts.                       *)

Sending(g) ==
  IF shells[g].subs = {} THEN Idle ELSE [seq |-> shells[g].n + 1, to |-> shells[g].subs]

(* A handler that has read the frames, and is not told of new ones yet,    *)
(* misses the one that is appended.                                        *)
Missing(g) ==
  missed' = missed \cup
    {h.client : h \in {i \in handlers : i.gen = g /\ i.at \in {"replaying", "ready", "subscribe"}}}

(* pipeProjectTerminalOutput; what the shell wrote may be read after it has*)
(* exited.                                                                 *)
ReadOutput(g) ==
  /\ shells[g].at \in {"running", "exited"}
  /\ shells[g].reader = Idle
  /\ shells[g].n < MaxFrames
  /\ shells' = [shells EXCEPT ![g].n = @ + 1, ![g].reader = Sending(g)]
  /\ Missing(g)
  /\ UNCHANGED <<term, handlers, received>>

(* waitProjectTerminal.                                                    *)
Exits(g) ==
  /\ shells[g].at = "running"
  /\ shells' = [shells EXCEPT ![g].at = "exited"]
  /\ UNCHANGED <<term, handlers, received, missed>>

AppendExit(g) ==
  /\ shells[g].at = "exited" /\ shells[g].exit = 0
  /\ shells' = [shells EXCEPT ![g].n = @ + 1, ![g].exit = shells[g].n + 1,
                              ![g].waiter = Sending(g)]
  /\ Missing(g)
  /\ UNCHANGED <<term, handlers, received>>

Appenders == {"reader", "waiter"}

Sent(appender, id) ==
  IF appender.to = {id} THEN Idle ELSE [appender EXCEPT !.to = @ \ {id}]

(* To a subscriber whose buffer is full the frame is not sent; its channel *)
(* is closed.  A frame that the other goroutine has still to send will come*)
(* too late when it is an earlier one.                                     *)
Send(g, who, h) ==
  LET appender == shells[g][who]
      overtakes == \E other \in Appenders :
                     h.id \in shells[g][other].to /\ shells[g][other].seq < appender.seq
  IN /\ h.gen = g /\ h.id \in appender.to \cap shells[g].subs
     /\ IF Len(h.queue) < SubBuffer
        THEN /\ Becomes(h, [h EXCEPT !.queue = Append(@, appender.seq)])
             /\ shells' = [shells EXCEPT ![g][who] = Sent(@, h.id)]
             /\ missed' = IF overtakes THEN missed \cup {h.client} ELSE missed
        ELSE /\ shells' = [shells EXCEPT ![g][who] = Sent(@, h.id), ![g].subs = @ \ {h.id}]
             /\ UNCHANGED <<handlers, missed>>
     /\ UNCHANGED <<term, received>>

(* To send to a channel that was closed meanwhile panics, and the server is*)
(* gone; the shells end with it.                                           *)
Panic(g, who) ==
  /\ shells[g][who].to \ shells[g].subs # {}
  /\ term' = 0
  /\ shells' = [k \in DOMAIN shells |->
                  [shells[k] EXCEPT !.at = "discarded", !.reader = Idle, !.waiter = Idle,
                                    !.subs = {}]]
  /\ handlers' = {}
  /\ UNCHANGED <<received, missed>>

-----------------------------------------------------------------------------
(* handleProjectTerminalWS.                                                *)

(* The connection stands, unless its client has left.  One that asks for   *)
(* the frames after those of a shell that is over gets those of another.   *)
Upgrade(h) ==
  /\ h.at = "upgrade"
  /\ Becomes(h, [h EXCEPT !.at = "replay"])
  /\ missed' = IF h.last # 0 /\ clients[h.client].gen # h.gen THEN missed \cup {h.client}
               ELSE missed
  /\ clients' = IF clients[h.client].conn = h.id THEN [clients EXCEPT ![h.client].gen = h.gen]
                ELSE clients
  /\ UNCHANGED <<server, got, ops>>

(* Frames that are not kept any more are not replayed.                     *)
Replay(h) ==
  LET n == shells[h.gen].n
      dropped == IF n > FrameBacklog THEN n - FrameBacklog ELSE 0
  IN /\ h.at = "replay"
     /\ Becomes(h, [h EXCEPT !.at = "replaying", !.upto = n, !.last = Larger(@, dropped)])
     /\ missed' = IF h.last < dropped THEN missed \cup {h.client} ELSE missed
     /\ UNCHANGED <<server, received>>

(* The client is told of frame k.                                          *)
Told(h, k) ==
  IF clients[h.client].conn = h.id
  THEN /\ clients' = [clients EXCEPT ![h.client].cursor = Larger(@, k)]
       /\ got' = [got EXCEPT ![h.client] = Append(@, <<h.gen, k>>)]
  ELSE UNCHANGED <<clients, got>>

ReplayFrame(h) ==
  /\ h.at = "replaying" /\ h.last < h.upto
  /\ Becomes(h, [h EXCEPT !.last = @ + 1])
  /\ Told(h, h.last + 1)
  /\ UNCHANGED <<server, missed, ops>>

(* The first snapshot: frames that came since the replay count as sent.    *)
Replayed(h) ==
  /\ h.at = "replaying" /\ h.last >= h.upto
  /\ Becomes(h, [h EXCEPT !.at = "ready", !.last = Larger(@, shells[h.gen].n)])
  /\ UNCHANGED <<server, received, missed>>

(* terminal.ready, with the cursor of the second snapshot.                 *)
Ready(h) ==
  /\ h.at = "ready"
  /\ Becomes(h, [h EXCEPT !.at = "subscribe"])
  /\ clients' = IF clients[h.client].conn = h.id
                THEN [clients EXCEPT ![h.client].cursor = Larger(@, shells[h.gen].n)]
                ELSE clients
  /\ UNCHANGED <<server, got, missed, ops>>

Subscribe(h) ==
  /\ h.at = "subscribe"
  /\ Becomes(h, [h EXCEPT !.at = "stream"])
  /\ shells' = [shells EXCEPT ![h.gen].subs = @ \cup {h.id}]
  /\ UNCHANGED <<term, received, missed>>

(* Mutation: frames that were replayed are sent again.                     *)
StreamEveryFrame(h) ==
  /\ h.at = "stream" /\ h.queue # <<>>
  /\ Becomes(h, [h EXCEPT !.last = Head(h.queue), !.queue = Tail(@)])
  /\ Told(h, Head(h.queue))
  /\ UNCHANGED <<server, missed, ops>>

StreamFrame(h) ==
  /\ h.at = "stream" /\ h.queue # <<>>
  /\ IF Head(h.queue) > h.last
     THEN Becomes(h, [h EXCEPT !.last = Head(h.queue), !.queue = Tail(@)]) /\ Told(h, Head(h.queue))
     ELSE Becomes(h, [h EXCEPT !.queue = Tail(@)]) /\ UNCHANGED <<clients, got>>
  /\ UNCHANGED <<server, missed, ops>>

(* The handler returns, and unsubscribes: its channel was closed, or the   *)
(* client is gone.                                                         *)
Return(h) ==
  /\ \/ h.at = "stream" /\ h.queue = <<>> /\ h.id \notin shells[h.gen].subs
     \/ h.at \notin {"ensure", "start", "install"} /\ clients[h.client].conn # h.id
  /\ handlers' = handlers \ {h}
  /\ shells' = [shells EXCEPT ![h.gen].subs = @ \ {h.id}]
  /\ UNCHANGED <<term, received, missed>>

-----------------------------------------------------------------------------
(* The clients.                                                            *)

Op == ops < MaxOps /\ ops' = ops + 1

Connect(c) ==
  /\ clients[c].conn = 0 /\ Op
  /\ clients' = [clients EXCEPT ![c].conn = ops + 1]
  /\ handlers' = handlers \cup {NewHandler(ops + 1, c, clients[c].cursor)}
  /\ UNCHANGED <<server, got, missed>>

Leave(c) ==
  /\ clients[c].conn # 0
  /\ IF \E h \in handlers : h.id = clients[c].conn THEN Op ELSE UNCHANGED ops
  /\ clients' = [clients EXCEPT ![c].conn = 0]
  /\ UNCHANGED <<server, handlers, got, missed>>

-----------------------------------------------------------------------------

Init ==
  /\ term = 0
  /\ shells = <<>>
  /\ handlers = {}
  /\ clients = [c \in Clients |-> [conn |-> 0, cursor |-> 0, gen |-> 0]]
  /\ got = [c \in Clients |-> <<>>]
  /\ missed = {}
  /\ ops = 0

Ensure(h) ==
  EnsureProjectTerminal(h) \/ StartTerminal(h) \/ StartFails(h) \/ InstallTerminal(h)

Serve(h) ==
  \/ Upgrade(h) \/ Replay(h) \/ ReplayFrame(h) \/ Replayed(h) \/ Ready(h)
  \/ Subscribe(h) \/ StreamFrame(h) \/ Return(h)

ShellNext(g) ==
  \/ ReadOutput(g) \/ Exits(g) \/ AppendExit(g)
  \/ \E who \in Appenders : Panic(g, who) \/ \E h \in handlers : Send(g, who, h)

Next ==
  \/ \E h \in handlers : Ensure(h) \/ Serve(h)
  \/ \E g \in DOMAIN shells : ShellNext(g)
  \/ \E c \in Clients : Connect(c) \/ Leave(c)

Spec == Init /\ [][Next]_vars

-----------------------------------------------------------------------------
(* Properties.                                                             *)

ShellAt == {"started", "running", "exited", "discarded"}

TypeOK ==
  /\ term \in 0..Len(shells)
  /\ \A g \in DOMAIN shells : /\ shells[g].at \in ShellAt
                              /\ shells[g].exit \in 0..shells[g].n
                              /\ shells[g].n <= MaxFrames + 1
  /\ \A h \in handlers : h.id \in 1..ops /\ Len(h.queue) <= SubBuffer
  /\ \A h, i \in handlers : h.id = i.id => h = i

(* A shell that runs is the one that connections are given, however many   *)
(* start one at a time: none is left running unseen.                       *)
OneShell == \A g \in DOMAIN shells : Runs(g) => term = g

(* A client never receives a frame twice, nor one after a later one,       *)
(* through any number of connections; and it receives all up to its cursor *)
(* unless one was passed over for it, which happens in four ways: a frame  *)
(* is appended between the replay and the subscription; it is overtaken by *)
(* a later one of the other goroutine; it is not kept any more; or the     *)
(* shell is a new one, whose frames count from one again.                  *)
FramesFaithful ==
  \A c \in Clients :
    /\ \A j, k \in DOMAIN got[c] : j < k => got[c][j][2] < got[c][k][2]
    /\ c \notin missed => got[c] = [k \in 1..clients[c].cursor |-> <<clients[c].gen, k>>]
=============================================================================
