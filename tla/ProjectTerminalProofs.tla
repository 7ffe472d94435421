----------------------- MODULE ProjectTerminalProofs ------------------------
(***************************************************************************)
(* Proofs about ProjectTerminal for every set of clients, every size of the*)
(* backlog and of buffers and any number of frames and connections.        *)
(***************************************************************************)
EXTENDS ProjectTerminal, SequenceTheorems, TLAPS

-----------------------------------------------------------------------------
(* The invariant.                                                          *)

Appender == [seq : Nat, to : SUBSET Nat]

Session ==
  [at : ShellAt, n : Nat, exit : Nat, reader : Appender, waiter : Appender, subs : SUBSET Nat]

(* A handler; only its number is of account here.                          *)
IsHandler(h) ==
  /\ DOMAIN h = {"id", "client", "at", "gen", "last", "upto", "queue"}
  /\ h.id \in Nat

Typed ==
  /\ ops \in Nat
  /\ shells \in Seq(Session)
  /\ \A h \in handlers : IsHandler(h)

TerminalInv == Typed /\ OneShell

-----------------------------------------------------------------------------

LEMMA AtChanged ==
  ASSUME NEW s \in Session, NEW at \in ShellAt
  PROVE  [s EXCEPT !.at = at] \in Session /\ [s EXCEPT !.at = at].at = at
  BY DEF Session

(* Shells are changed in place.                                            *)
LEMMA ChangedInPlace ==
  ASSUME shells \in Seq(Session), NEW g, NEW s,
         g \in DOMAIN shells => s \in Session,
         shells' = [shells EXCEPT ![g] = s]
  PROVE  shells' \in Seq(Session) /\ DOMAIN shells' = DOMAIN shells
<1>1. CASE g \in DOMAIN shells
  BY <1>1, ExceptSeq
<1>2. CASE g \notin DOMAIN shells
  <2>1. PICK n \in Nat : shells \in [1..n -> Session]
    BY SeqDef
  <2>2. shells' \in [1..n -> Session]
    BY <1>2, <2>1
  <2>3. shells' \in Seq(Session)
    BY <2>2, SeqDef
  <2> QED
    BY <2>1, <2>2, <2>3
<1> QED
  BY <1>1, <1>2

(* A step that starts no shell.                                            *)
LEMMA NoneStarted ==
  ASSUME TerminalInv, term' = term, shells' \in Seq(Session), DOMAIN shells' = DOMAIN shells,
         \A g \in DOMAIN shells : shells'[g].at = "running" => shells[g].at = "running",
         ops' \in Nat, \A h \in handlers' : IsHandler(h)
  PROVE  TerminalInv'
  BY DEF TerminalInv, Typed, OneShell, Runs

(* An update of one session.                                               *)
LEMMA SessionUpdated ==
  ASSUME TerminalInv, NEW g, NEW s, shells' = [shells EXCEPT ![g] = s], term' = term,
         g \in DOMAIN shells => s \in Session,
         g \in DOMAIN shells => (s.at = "running" => shells[g].at = "running"),
         ops' \in Nat, \A h \in handlers' : IsHandler(h)
  PROVE  TerminalInv'
<1>1. shells \in Seq(Session)
  BY DEF TerminalInv, Typed
<1>2. shells' \in Seq(Session) /\ DOMAIN shells' = DOMAIN shells
  BY <1>1, ChangedInPlace
<1>3. \A k \in DOMAIN shells : shells'[k].at = "running" => shells[k].at = "running"
  BY <1>1
<1> QED
  BY <1>2, <1>3, NoneStarted

LEMMA BecomesHandler ==
  ASSUME TerminalInv, NEW h, NEW new, IsHandler(new), Becomes(h, new)
  PROVE  \A i \in handlers' : IsHandler(i)
  BY DEF TerminalInv, Typed, Becomes

-----------------------------------------------------------------------------
(* ensureProjectTerminal.                                                  *)

LEMMA EnsureStep ==
  ASSUME TerminalInv, NEW h \in handlers, Ensure(h)
  PROVE  TerminalInv'
<1>1. IsHandler(h) /\ ops \in Nat /\ shells \in Seq(Session)
  BY DEF TerminalInv, Typed
<1>2. CASE EnsureProjectTerminal(h)
  <2>1. \A i \in handlers' : IsHandler(i)
    BY <1>1, <1>2 DEF EnsureProjectTerminal, Becomes, IsHandler, TerminalInv, Typed
  <2> QED
    BY <1>2, <2>1 DEF EnsureProjectTerminal, server, received, TerminalInv, Typed, OneShell, Runs
<1>3. CASE StartTerminal(h)
  <2>1. \A i \in handlers' : IsHandler(i)
    BY <1>1, <1>3 DEF StartTerminal, Becomes, IsHandler, TerminalInv, Typed
  <2>2. NewShell \in Session /\ NewShell.at = "started"
    BY DEF NewShell, Idle, Session, Appender, ShellAt
  <2>3. shells' \in Seq(Session) /\ DOMAIN shells' = DOMAIN shells \cup {Len(shells) + 1}
        /\ (\A g \in DOMAIN shells : shells'[g] = shells[g])
        /\ shells'[Len(shells) + 1].at = "started"
    BY <1>1, <1>3, <2>2 DEF StartTerminal
  <2>4. OneShell'
    BY <1>3, <2>3 DEF StartTerminal, TerminalInv, OneShell, Runs
  <2> QED
    BY <1>1, <1>3, <2>1, <2>3, <2>4 DEF StartTerminal, received, TerminalInv, Typed
<1>4. CASE StartFails(h)
  BY <1>4 DEF StartFails, server, received, TerminalInv, Typed, OneShell, Runs
<1>5. CASE InstallTerminal(h)
  <2>1. \A i \in handlers' : IsHandler(i)
    BY <1>1, <1>5, ZenonT(60) DEF InstallTerminal, Becomes, IsHandler, TerminalInv, Typed
  <2>2. ops' \in Nat
    BY <1>1, <1>5 DEF InstallTerminal, received
  <2>3. CASE Runs(term)
    <3>1. shells' = [shells EXCEPT ![h.gen].at = "discarded"] /\ term' = term
      BY <1>5, <2>3 DEF InstallTerminal
    <3>2. shells' \in Seq(Session) /\ DOMAIN shells' = DOMAIN shells
      <4> DEFINE s == [shells[h.gen] EXCEPT !.at = "discarded"]
      <4>1. h.gen \in DOMAIN shells => shells[h.gen] \in Session
        BY <1>1
      <4>2. "discarded" \in ShellAt
        BY DEF ShellAt
      <4>3. h.gen \in DOMAIN shells => s \in Session
        BY <4>1, <4>2, AtChanged
      <4>4. shells' = [shells EXCEPT ![h.gen] = s]
        BY <3>1
      <4> HIDE DEF s
      <4> QED
        BY <1>1, <4>3, <4>4, ChangedInPlace
    <3>3. \A g \in DOMAIN shells : shells'[g].at = "running" => shells[g].at = "running"
      BY <1>1, <3>1 DEF Session
    <3> QED
      BY <2>1, <2>2, <3>1, <3>2, <3>3, NoneStarted
  <2>4. CASE ~Runs(term)
    <3>1. shells' = [shells EXCEPT ![h.gen].at = "running"] /\ term' = h.gen
      BY <1>5, <2>4 DEF InstallTerminal
    <3>2. shells' \in Seq(Session) /\ DOMAIN shells' = DOMAIN shells
      <4> DEFINE s == [shells[h.gen] EXCEPT !.at = "running"]
      <4>1. h.gen \in DOMAIN shells => shells[h.gen] \in Session
        BY <1>1
      <4>2. "running" \in ShellAt
        BY DEF ShellAt
      <4>3. h.gen \in DOMAIN shells => s \in Session
        BY <4>1, <4>2, AtChanged
      <4>4. shells' = [shells EXCEPT ![h.gen] = s]
        BY <3>1
      <4> HIDE DEF s
      <4> QED
        BY <1>1, <4>3, <4>4, ChangedInPlace
    <3>3. \A g \in DOMAIN shells : ~Runs(g)
      BY <2>4 DEF TerminalInv, OneShell
    <3>4. \A g \in DOMAIN shells : g # h.gen => shells'[g].at # "running"
      BY <1>1, <3>1, <3>3 DEF Runs, Session
    <3>5. OneShell'
      BY <3>1, <3>2, <3>4 DEF OneShell, Runs
    <3> QED
      BY <2>1, <2>2, <3>2, <3>5 DEF TerminalInv, Typed
  <2> QED
    BY <2>3, <2>4
<1> QED
  BY <1>2, <1>3, <1>4, <1>5 DEF Ensure

-----------------------------------------------------------------------------
(* The rest of a connection.                                               *)

LEMMA FrameAppended ==
  ASSUME NEW s \in Session, NEW n \in Nat, NEW a \in Appender
  PROVE  /\ [s EXCEPT !.n = n, !.reader = a] \in Session
         /\ [s EXCEPT !.n = n, !.reader = a].at = s.at
  BY DEF Session

LEMMA ExitAppended ==
  ASSUME NEW s \in Session, NEW n \in Nat, NEW a \in Appender
  PROVE  /\ [s EXCEPT !.n = n, !.exit = n, !.waiter = a] \in Session
         /\ [s EXCEPT !.n = n, !.exit = n, !.waiter = a].at = s.at
  BY DEF Session

LEMMA SubscribersChanged ==
  ASSUME NEW s \in Session, NEW subs \in SUBSET Nat
  PROVE  /\ [s EXCEPT !.subs = subs] \in Session
         /\ [s EXCEPT !.subs = subs].at = s.at
  BY DEF Session

LEMMA ServeStep ==
  ASSUME TerminalInv, NEW h \in handlers, Serve(h)
  PROVE  TerminalInv'
<1>1. IsHandler(h) /\ h.id \in Nat /\ ops \in Nat /\ shells \in Seq(Session)
  BY DEF TerminalInv, Typed, IsHandler
<1>2. \A i \in handlers : IsHandler(i)
  BY DEF TerminalInv, Typed
<1>3. CASE Upgrade(h) \/ Replay(h) \/ ReplayFrame(h) \/ Replayed(h) \/ Ready(h) \/ StreamFrame(h)
  <2>1. UNCHANGED <<term, shells, ops>>
    BY <1>3 DEF Upgrade, Replay, ReplayFrame, Replayed, Ready, StreamFrame, server, received
  <2>2. \A i \in handlers' : IsHandler(i)
    <3>1. CASE Upgrade(h)
      BY <1>1, <1>2, <3>1 DEF Upgrade, Becomes, IsHandler
    <3>2. CASE Replay(h)
      BY <1>1, <1>2, <3>2 DEF Replay, Becomes, IsHandler
    <3>3. CASE ReplayFrame(h)
      BY <1>1, <1>2, <3>3 DEF ReplayFrame, Becomes, IsHandler
    <3>4. CASE Replayed(h)
      BY <1>1, <1>2, <3>4 DEF Replayed, Becomes, IsHandler
    <3>5. CASE Ready(h)
      BY <1>1, <1>2, <3>5 DEF Ready, Becomes, IsHandler
    <3>6. CASE StreamFrame(h)
      BY <1>1, <1>2, <3>6, ZenonT(60) DEF StreamFrame, Becomes, IsHandler
    <3> QED
      BY <1>3, <3>1, <3>2, <3>3, <3>4, <3>5, <3>6
  <2> QED
    BY <2>1, <2>2 DEF TerminalInv, Typed, OneShell, Runs
<1>4. CASE Subscribe(h) \/ Return(h)
  <2>1. term' = term /\ ops' \in Nat
    BY <1>1, <1>4 DEF Subscribe, Return, received
  <2>2. \A i \in handlers' : IsHandler(i)
    <3>1. CASE Subscribe(h)
      BY <1>1, <1>2, <3>1 DEF Subscribe, Becomes, IsHandler
    <3>2. CASE Return(h)
      BY <1>2, <3>2 DEF Return
    <3> QED
      BY <1>4, <3>1, <3>2
  <2>3. PICK subs : /\ shells' = [shells EXCEPT ![h.gen].subs = subs]
                    /\ subs = shells[h.gen].subs \cup {h.id} \/ subs = shells[h.gen].subs \ {h.id}
    <3>1. CASE Subscribe(h)
      <4>1. shells' = [shells EXCEPT ![h.gen].subs = shells[h.gen].subs \cup {h.id}]
        BY <3>1 DEF Subscribe
      <4> QED
        BY <4>1
    <3>2. CASE Return(h)
      <4>1. shells' = [shells EXCEPT ![h.gen].subs = shells[h.gen].subs \ {h.id}]
        BY <3>2 DEF Return
      <4> QED
        BY <4>1
    <3> QED
      BY <1>4, <3>1, <3>2
  <2>4. h.gen \in DOMAIN shells => shells[h.gen] \in Session /\ shells[h.gen].subs \in SUBSET Nat
    <3>1. h.gen \in DOMAIN shells => shells[h.gen] \in Session
      BY <1>1
    <3> QED
      BY <3>1 DEF Session
  <2>5. h.gen \in DOMAIN shells => subs \in SUBSET Nat
    BY <1>1, <2>3, <2>4
  <2>6. PICK s : s = [shells[h.gen] EXCEPT !.subs = subs]
    OBVIOUS
  <2>7. shells' = [shells EXCEPT ![h.gen] = s]
    BY <2>3, <2>6
  <2>8. h.gen \in DOMAIN shells => s \in Session /\ s.at = shells[h.gen].at
    BY <2>4, <2>5, <2>6, SubscribersChanged
  <2> QED
    BY <2>1, <2>2, <2>7, <2>8, SessionUpdated
<1> QED
  BY <1>3, <1>4 DEF Serve

-----------------------------------------------------------------------------
(* The shell.                                                              *)

LEMMA ShellStep ==
  ASSUME TerminalInv, NEW g \in DOMAIN shells, ShellNext(g)
  PROVE  TerminalInv'
<1>1. shells \in Seq(Session) /\ ops \in Nat /\ shells[g] \in Session
  BY DEF TerminalInv, Typed
<1>2. \A i \in handlers : IsHandler(i)
  BY DEF TerminalInv, Typed
<1>3. Idle \in Appender /\ Sending(g) \in Appender
  BY <1>1 DEF Sending, Idle, Appender, Session
<1>4. CASE ReadOutput(g) \/ Exits(g) \/ AppendExit(g)
  <2>1. PICK s : /\ shells' = [shells EXCEPT ![g] = s]
                 /\ s \in Session
                 /\ s.at = "running" => shells[g].at = "running"
    <3>1. CASE ReadOutput(g)
      <4>1. PICK n \in Nat : n = shells[g].n + 1
        BY <1>1 DEF Session
      <4>2. PICK a \in Appender : a = Sending(g)
        BY <1>3
      <4>3. PICK s : s = [shells[g] EXCEPT !.n = n, !.reader = a]
        OBVIOUS
      <4>4. s \in Session /\ s.at = shells[g].at
        BY <1>1, <4>3, FrameAppended
      <4>5. shells' = [shells EXCEPT ![g] = s]
        BY <3>1, <4>1, <4>2, <4>3 DEF ReadOutput
      <4> QED
        BY <4>4, <4>5
    <3>2. CASE Exits(g)
      <4> DEFINE s == [shells[g] EXCEPT !.at = "exited"]
      <4>1. s \in Session /\ s.at = "exited"
        BY <1>1, AtChanged DEF ShellAt
      <4>2. shells' = [shells EXCEPT ![g] = s]
        BY <3>2 DEF Exits
      <4> QED
        BY <4>1, <4>2
    <3>3. CASE AppendExit(g)
      <4>1. PICK n \in Nat : n = shells[g].n + 1
        BY <1>1 DEF Session
      <4>2. PICK a \in Appender : a = Sending(g)
        BY <1>3
      <4>3. PICK s : s = [shells[g] EXCEPT !.n = n, !.exit = n, !.waiter = a]
        OBVIOUS
      <4>4. s \in Session /\ s.at = shells[g].at
        BY <1>1, <4>3, ExitAppended
      <4>5. shells' = [shells EXCEPT ![g] = s]
        BY <3>3, <4>1, <4>2, <4>3 DEF AppendExit
      <4> QED
        BY <4>4, <4>5
    <3> QED
      BY <1>4, <3>1, <3>2, <3>3
  <2>2. UNCHANGED <<term, handlers, ops>>
    BY <1>4 DEF ReadOutput, Exits, AppendExit, received
  <2> QED
    BY <1>1, <1>2, <2>1, <2>2, SessionUpdated
<1>5. ASSUME NEW who \in Appenders, Panic(g, who) PROVE TerminalInv'
  <2>1. handlers' = {} /\ ops' = ops
    BY <1>5 DEF Panic, received
  <2>2. PICK n \in Nat : shells \in [1..n -> Session]
    BY <1>1, SeqDef
  <2>3. shells' = [k \in DOMAIN shells |->
                     [shells[k] EXCEPT !.at = "discarded", !.reader = Idle, !.waiter = Idle,
                                       !.subs = {}]]
    BY <1>5 DEF Panic
  <2>4. ASSUME NEW k \in DOMAIN shells PROVE shells'[k] \in Session /\ shells'[k].at = "discarded"
    BY <1>3, <2>2, <2>3, ZenonT(60) DEF Session, ShellAt
  <2>5. DOMAIN shells' = 1..n /\ DOMAIN shells = 1..n
    BY <2>2, <2>3
  <2>6. shells' \in [1..n -> Session]
    BY <2>3, <2>4, <2>5
  <2>7. shells' \in Seq(Session)
    BY <2>6, SeqDef
  <2>8. OneShell'
    BY <2>4, <2>5 DEF OneShell, Runs
  <2> QED
    BY <1>1, <2>1, <2>7, <2>8 DEF TerminalInv, Typed
<1>6. ASSUME NEW who \in Appenders, NEW h \in handlers, Send(g, who, h) PROVE TerminalInv'
  <2>1. IsHandler(h)
    BY <1>2
  <2>2. term' = term /\ ops' \in Nat
    BY <1>1, <1>6 DEF Send, received
  <2>3. \A i \in handlers' : IsHandler(i)
    <3>1. CASE Len(h.queue) < SubBuffer
      <4>1. PICK queue : Becomes(h, [h EXCEPT !.queue = queue])
        BY <1>6, <3>1 DEF Send
      <4> QED
        BY <1>2, <2>1, <4>1 DEF Becomes, IsHandler
    <3>2. CASE ~(Len(h.queue) < SubBuffer)
      BY <1>2, <1>6, <3>2 DEF Send
    <3> QED
      BY <3>1, <3>2
  <2>4. shells[g].reader \in Appender /\ shells[g].waiter \in Appender
        /\ shells[g].subs \in SUBSET Nat
    BY <1>1 DEF Session
  <2>5. PICK a : a = Sent(shells[g][who], h.id)
    OBVIOUS
  <2>6. a \in Appender
    BY <1>3, <2>4, <2>5 DEF Sent, Appender, Appenders
  <2>7. PICK subs \in SUBSET Nat :
          shells' = [shells EXCEPT ![g][who] = a, ![g].subs = subs]
    <3>1. CASE Len(h.queue) < SubBuffer
      <4>1. shells' = [shells EXCEPT ![g][who] = a]
        BY <1>6, <2>5, <3>1 DEF Send
      <4>2. shells' = [shells EXCEPT ![g][who] = a, ![g].subs = shells[g].subs]
        BY <1>1, <4>1 DEF Session, Appenders
      <4> QED
        BY <2>4, <4>2
    <3>2. CASE ~(Len(h.queue) < SubBuffer)
      <4>1. shells' = [shells EXCEPT ![g][who] = a, ![g].subs = shells[g].subs \ {h.id}]
        BY <1>1, <1>6, <2>5, <3>2 DEF Send, Session, Appenders
      <4> QED
        BY <2>4, <4>1
    <3> QED
      BY <3>1, <3>2
  <2>8. PICK s : s = [shells[g] EXCEPT ![who] = a, !.subs = subs]
    OBVIOUS
  <2>9. s \in Session /\ s.at = shells[g].at
    BY <1>1, <2>6, <2>8 DEF Session, Appenders
  <2>10. shells' = [shells EXCEPT ![g] = s]
    BY <1>1, <2>7, <2>8 DEF Session, Appenders
  <2> QED
    BY <2>2, <2>3, <2>9, <2>10, SessionUpdated
<1> QED
  BY <1>4, <1>5, <1>6 DEF ShellNext

-----------------------------------------------------------------------------
(* The clients.                                                            *)

LEMMA ClientStep ==
  ASSUME TerminalInv, NEW c \in Clients, Connect(c) \/ Leave(c)
  PROVE  TerminalInv'
<1>1. ops \in Nat /\ \A i \in handlers : IsHandler(i)
  BY DEF TerminalInv, Typed
<1>2. CASE Connect(c)
  <2>1. \A i \in handlers' : IsHandler(i)
    BY <1>1, <1>2 DEF Connect, NewHandler, IsHandler
  <2> QED
    BY <1>1, <1>2, <2>1 DEF Connect, Op, server, TerminalInv, Typed, OneShell, Runs
<1>3. CASE Leave(c)
  <2>1. ops' \in Nat
    BY <1>1, <1>3 DEF Leave, Op
  <2> QED
    BY <1>3, <2>1 DEF Leave, server, TerminalInv, Typed, OneShell, Runs
<1> QED
  BY <1>2, <1>3

-----------------------------------------------------------------------------

(* Whatever connections start shells at the same time, and whenever shells *)
(* end, output is cut off, or the server panics and starts again: a shell  *)
(* that runs is the one projectTerms has (ensureProjectTerminal), so that  *)
(* none goes on unseen.                                                    *)
THEOREM RunningShellIsKnown == Spec => []OneShell
<1>1. Init => TerminalInv
  BY DEF Init, TerminalInv, Typed, OneShell
<1>2. TerminalInv /\ [Next]_vars => TerminalInv'
  <2> SUFFICES ASSUME TerminalInv, [Next]_vars PROVE TerminalInv'
    OBVIOUS
  <2>1. CASE Next
    BY <2>1, EnsureStep, ServeStep, ShellStep, ClientStep DEF Next
  <2>2. CASE UNCHANGED vars
    BY <2>2 DEF vars, TerminalInv, Typed, OneShell, Runs
  <2> QED
    BY <2>1, <2>2
<1>3. TerminalInv => OneShell
  BY DEF TerminalInv
<1> QED
  BY <1>1, <1>2, <1>3, PTL DEF Spec

-----------------------------------------------------------------------------
(* The frames of a client.                                                 *)

HandlerAt ==
  {"ensure", "start", "install", "upgrade", "replay", "replaying", "ready", "subscribe", "stream"}

Handler ==
  [id : Nat, client : Clients, at : HandlerAt, gen : Nat, last : Nat, upto : Nat,
   queue : Seq(Nat)]

(* The handler serves the connection its client has.                       *)
Current(h) == clients[h.client].conn = h.id

(* The frames of a session that are still to be sent to a subscriber, by   *)
(* one goroutine or the other.                                             *)
Owes(g, who, id) == id \in shells[g][who].to

Waiting(g, id) == {shells[g][who].seq : who \in {w \in Appenders : Owes(g, w, id)}}

(* A subscriber is a handler that streams, or was one.                     *)
Unsubscribed(h) ==
  \A g \in DOMAIN shells :
    h.id \notin shells[g].subs \cup shells[g].reader.to \cup shells[g].waiter.to

ShellKnown(g) ==
  /\ shells[g].subs \cup shells[g].reader.to \cup shells[g].waiter.to \subseteq 1..ops
  /\ shells[g].exit \in 0..shells[g].n
  /\ shells[g].exit = 0 => shells[g].waiter = Idle /\ shells[g].n <= MaxFrames
  /\ shells[g].n <= MaxFrames + 1

HandlerKnown(h) ==
  /\ h \in Handler
  /\ h.id \in 1..ops
  /\ Len(h.queue) <= SubBuffer
  /\ h.at \notin {"ensure", "start"} => h.gen \in DOMAIN shells
  /\ h.at # "stream" => h.queue = <<>> /\ Unsubscribed(h)

Known ==
  /\ term \in 0..Len(shells)
  /\ clients \in [Clients -> [conn : Nat, cursor : Nat, gen : Nat]]
  /\ \A c \in Clients : clients[c].conn <= ops
  /\ got \in [Clients -> Seq(Nat \X Nat)]
  /\ \A g \in DOMAIN shells : ShellKnown(g)
  /\ \A h \in handlers : HandlerKnown(h)
  /\ \A h, i \in handlers : h.id = i.id => h = i

(* What is in order.                                                       *)

Rising(s) == \A j, k \in DOMAIN s : j < k => s[j][2] < s[k][2]
UpTo(s, n) == \A k \in DOMAIN s : s[k][2] <= n

(* The frames a client has are in order, and the handler that serves it    *)
(* goes on after the last of them.                                         *)
Ordered ==
  /\ \A c \in Clients : Rising(got[c]) /\ UpTo(got[c], clients[c].cursor)
  /\ \A h \in handlers : Current(h) => UpTo(got[h.client], h.last)

(* A client for which no frame was passed over.                            *)
ClientWhole(c) ==
  /\ got[c] = [k \in 1..clients[c].cursor |-> <<clients[c].gen, k>>]
  /\ clients[c].cursor # 0 =>
       clients[c].gen \in DOMAIN shells /\ clients[c].cursor <= shells[clients[c].gen].n

(* A handler that streams has the next frames in its buffer; unless its    *)
(* channel was closed, the goroutines still have to send it the rest.      *)
Following(h) ==
  LET s == shells[h.gen]
      top == h.last + Len(h.queue)
  IN /\ \A k \in DOMAIN h.queue : h.queue[k] = h.last + k
     /\ top <= s.n
     /\ h.id \in s.subs =>
          /\ Waiting(h.gen, h.id) = (top + 1)..s.n
          /\ Owes(h.gen, "reader", h.id) /\ Owes(h.gen, "waiter", h.id) =>
               s.reader.seq # s.waiter.seq

(* A handler whose client has all frames so far: no frame came between its *)
(* replay and its subscription.                                            *)
HandlerWhole(h) ==
  /\ h.last = clients[h.client].cursor
  /\ h.at \in {"replay", "replaying", "ready", "subscribe", "stream"} =>
       clients[h.client].gen = h.gen
  /\ h.at = "replaying" => h.upto = shells[h.gen].n
  /\ h.at \in {"ready", "subscribe"} => h.last = shells[h.gen].n
  /\ h.at = "stream" => Following(h)

(* Before the replay the handler is where its client was when it connected.*)
Early ==
  \A h \in handlers :
    Current(h) /\ h.at \in {"ensure", "start", "install", "upgrade", "replay"} =>
      h.last = clients[h.client].cursor

Whole ==
  /\ \A c \in Clients : c \notin missed => ClientWhole(c)
  /\ \A h \in handlers : Current(h) /\ h.client \notin missed => HandlerWhole(h)

FramesInv == TerminalInv /\ Known /\ Ordered /\ Early /\ Whole

Sizes == FrameBacklog \in Nat /\ SubBuffer \in Nat /\ MaxFrames \in Nat

-----------------------------------------------------------------------------
(* A step that appends, sends and subscribes nothing.                      *)

SameFrames(g) ==
  /\ shells'[g].n = shells[g].n
  /\ shells'[g].exit = shells[g].exit
  /\ shells'[g].reader = shells[g].reader
  /\ shells'[g].waiter = shells[g].waiter
  /\ shells'[g].subs = shells[g].subs

Kept ==
  /\ DOMAIN shells \subseteq DOMAIN shells'
  /\ \A g \in DOMAIN shells : SameFrames(g)
  /\ \A g \in DOMAIN shells' \ DOMAIN shells : shells'[g] = NewShell

LEMMA KeptShells ==
  ASSUME Sizes, Known, Kept, ops \in Nat, ops' \in Nat, ops <= ops'
  PROVE  \A g \in DOMAIN shells' : ShellKnown(g)'
<1>1. TAKE g \in DOMAIN shells'
<1>2. 1..ops \subseteq 1..ops'
  OBVIOUS
<1>3. CASE g \in DOMAIN shells
  BY <1>2, <1>3 DEF Known, ShellKnown, Kept, SameFrames
<1>4. CASE g \notin DOMAIN shells
  <2>1. shells'[g] = NewShell
    BY <1>1, <1>4 DEF Kept
  <2> QED
    BY <2>1 DEF Sizes, ShellKnown, NewShell, Idle
<1> QED
  BY <1>3, <1>4

LEMMA KeptUnsubscribed ==
  ASSUME Kept, NEW h, Unsubscribed(h)
  PROVE  Unsubscribed(h)'
BY DEF Unsubscribed, Kept, SameFrames, NewShell, Idle

LEMMA KeptHandler ==
  ASSUME Kept, ops \in Nat, ops' \in Nat, ops <= ops', NEW h, HandlerKnown(h)
  PROVE  HandlerKnown(h)'
<1>1. h.at # "stream" => Unsubscribed(h)'
  BY KeptUnsubscribed DEF HandlerKnown
<1>2. h.id \in 1..ops'
  BY DEF HandlerKnown
<1> QED
  BY <1>1, <1>2 DEF HandlerKnown, Kept

LEMMA KeptFollowing ==
  ASSUME Kept, NEW h, h.gen \in DOMAIN shells, Following(h)
  PROVE  Following(h)'
<1>1. Waiting(h.gen, h.id)' = Waiting(h.gen, h.id)
  BY DEF Kept, SameFrames, Waiting, Owes, Appenders
<1>2. /\ Owes(h.gen, "reader", h.id)' = Owes(h.gen, "reader", h.id)
      /\ Owes(h.gen, "waiter", h.id)' = Owes(h.gen, "waiter", h.id)
  BY DEF Kept, SameFrames, Owes
<1>3. SameFrames(h.gen)
  BY DEF Kept
<1> QED
  BY <1>1, <1>2, <1>3 DEF Following, SameFrames

(* What holds of a handler goes on to hold when its client is left alone.  *)
LEMMA KeptHandlerWhole ==
  ASSUME Kept, NEW h, HandlerKnown(h), HandlerWhole(h),
         clients'[h.client] = clients[h.client]
  PROVE  HandlerWhole(h)'
<1>1. h.at \notin {"ensure", "start"} => h.gen \in DOMAIN shells /\ SameFrames(h.gen)
  BY DEF HandlerKnown, Kept
<1>2. h.at = "stream" => Following(h)'
  BY <1>1, KeptFollowing DEF HandlerWhole
<1> QED
  BY <1>1, <1>2 DEF HandlerWhole, SameFrames

LEMMA KeptClientWhole ==
  ASSUME Kept, NEW c, ClientWhole(c), clients'[c] = clients[c], got'[c] = got[c]
  PROVE  ClientWhole(c)'
BY DEF Kept, SameFrames, ClientWhole

-----------------------------------------------------------------------------
(* A step of one handler.                                                  *)

(* It changes what its client has, if at all, and only while it serves it. *)
ServesOnly(h) ==
  /\ clients' \in [Clients -> [conn : Nat, cursor : Nat, gen : Nat]]
  /\ got' \in [Clients -> Seq(Nat \X Nat)]
  /\ \A c \in Clients : clients'[c].conn = clients[c].conn
  /\ \A c \in Clients :
       ~ (c = h.client /\ Current(h)) => clients'[c] = clients[c] /\ got'[c] = got[c]
  /\ missed \subseteq missed'

LEMMA OthersAlone ==
  ASSUME Known, NEW h \in handlers, ServesOnly(h), NEW i \in handlers, i # h
  PROVE  /\ Current(i)' = Current(i)
         /\ Current(i) => clients'[i.client] = clients[i.client] /\ got'[i.client] = got[i.client]
<1>1. i.client \in Clients /\ h.client \in Clients
  BY DEF Known, HandlerKnown, Handler
<1>2. i.id # h.id
  BY DEF Known
<1>3. Current(i) => ~ (i.client = h.client /\ Current(h))
  BY <1>2 DEF Current
<1>4. clients'[i.client].conn = clients[i.client].conn
  BY <1>1 DEF ServesOnly
<1>5. Current(i)' = Current(i)
  BY <1>4 DEF Current
<1> QED
  BY <1>1, <1>3, <1>5 DEF ServesOnly

(* A step of a handler, which becomes new, keeps all when it keeps what is *)
(* said of its own client and of itself.                                   *)
LEMMA HandlerMoves ==
  ASSUME FramesInv, NEW h \in handlers, ServesOnly(h), Kept,
         NEW new, new.id = h.id, new.client = h.client,
         handlers' = (handlers \ {h}) \cup {new},
         Current(h) =>
           /\ Rising(got'[h.client])
           /\ UpTo(got'[h.client], clients'[h.client].cursor)
           /\ UpTo(got'[h.client], new.last)
           /\ new.at \in {"ensure", "start", "install", "upgrade", "replay"} =>
                new.last = clients'[h.client].cursor,
         Current(h) /\ h.client \notin missed' => ClientWhole(h.client)' /\ HandlerWhole(new)'
  PROVE  Ordered' /\ Early' /\ Whole'
<1>1. \A i \in handlers : HandlerKnown(i) /\ i.client \in Clients
  BY DEF FramesInv, Known, HandlerKnown, Handler
<1>2. Current(new)' = Current(h)
  BY <1>1 DEF Current, ServesOnly
<1>3. \A i \in handlers : i # h =>
        /\ Current(i)' = Current(i)
        /\ Current(i) => clients'[i.client] = clients[i.client] /\ got'[i.client] = got[i.client]
  BY OthersAlone DEF FramesInv
<1>4. Ordered'
  <2>1. \A c \in Clients : Rising(got'[c]) /\ UpTo(got'[c], clients'[c].cursor)
    BY DEF FramesInv, Ordered, ServesOnly
  <2>2. \A i \in handlers' : Current(i)' => UpTo(got'[i.client], i.last)
    BY <1>2, <1>3 DEF FramesInv, Ordered
  <2> QED
    BY <2>1, <2>2 DEF Ordered, Rising, UpTo
<1>5. Early'
  BY <1>2, <1>3 DEF FramesInv, Early
<1>6. Whole'
  <2>1. ASSUME NEW c \in Clients, c \notin missed' PROVE ClientWhole(c)'
    <3>1. CASE c = h.client /\ Current(h)
      BY <2>1, <3>1
    <3>2. CASE ~ (c = h.client /\ Current(h))
      BY <2>1, <3>2, KeptClientWhole DEF FramesInv, Whole, ServesOnly
    <3> QED
      BY <3>1, <3>2
  <2>2. ASSUME NEW i \in handlers', Current(i)', i.client \notin missed' PROVE HandlerWhole(i)'
    <3>1. CASE i = new
      BY <1>2, <2>2, <3>1
    <3>2. CASE i # new
      <4>1. i \in handlers /\ i # h
        BY <2>2, <3>2
      <4>2. Current(i) /\ clients'[i.client] = clients[i.client] /\ i.client \notin missed
        BY <1>3, <2>2, <4>1 DEF ServesOnly
      <4>3. HandlerWhole(i)
        BY <4>1, <4>2 DEF FramesInv, Whole
      <4> QED
        BY <1>1, <4>1, <4>2, <4>3, KeptHandlerWhole
    <3> QED
      BY <3>1, <3>2
  <2> QED
    BY <2>1, <2>2 DEF Whole
<1> QED
  BY <1>4, <1>5, <1>6

(* And it keeps the types.                                                 *)
LEMMA HandlerKept ==
  ASSUME Sizes, FramesInv, NEW h \in handlers, ServesOnly(h), Kept, ops' = ops,
         NEW new, new.id = h.id, handlers' = (handlers \ {h}) \cup {new},
         HandlerKnown(new)', term' \in 0..Len(shells')
  PROVE  Known'
<1>1. ops \in Nat
  BY DEF FramesInv, TerminalInv, Typed
<1>2. \A g \in DOMAIN shells' : ShellKnown(g)'
  BY <1>1, KeptShells DEF FramesInv
<1>3. \A i \in handlers' : HandlerKnown(i)'
  BY <1>1, KeptHandler DEF FramesInv, Known
<1>4. \A c \in Clients : clients'[c].conn <= ops'
  BY DEF FramesInv, Known, ServesOnly
<1>5. \A i, k \in handlers' : i.id = k.id => i = k
  BY DEF FramesInv, Known
<1> QED
  BY <1>2, <1>3, <1>4, <1>5 DEF Known, ServesOnly

-----------------------------------------------------------------------------
(* ensureProjectTerminal.                                                  *)

LEMMA NobodyServed ==
  ASSUME Known, UNCHANGED <<clients, got, missed>>, NEW h
  PROVE  ServesOnly(h)
BY DEF Known, ServesOnly

LEMMA StillEarly ==
  ASSUME FramesInv, NEW h \in handlers, h.at \in {"ensure", "start", "install"}, Kept,
         UNCHANGED <<clients, got, missed>>, NEW new, new.id = h.id, new.client = h.client,
         new.last = h.last, new.at \in {"start", "install", "upgrade"},
         handlers' = (handlers \ {h}) \cup {new}
  PROVE  Ordered' /\ Early' /\ Whole'
<1>1. h.client \in Clients
  BY DEF FramesInv, Known, HandlerKnown, Handler
<1>2. ServesOnly(h)
  BY NobodyServed DEF FramesInv
<1>3. Current(h) =>
        /\ Rising(got'[h.client])
        /\ UpTo(got'[h.client], clients'[h.client].cursor)
        /\ UpTo(got'[h.client], new.last)
        /\ new.last = clients'[h.client].cursor
  BY <1>1 DEF FramesInv, Ordered, Early
<1>4. ASSUME h.client \notin missed' PROVE ClientWhole(h.client)'
  BY <1>1, <1>4, KeptClientWhole DEF FramesInv, Whole
<1>5. Current(h) => HandlerWhole(new)'
  BY <1>3 DEF HandlerWhole
<1> QED
  BY <1>2, <1>3, <1>4, <1>5, HandlerMoves

(* A handler that is not subscribed, after a step.                         *)
LEMMA MovedHandler ==
  ASSUME FramesInv, NEW h \in handlers, h.at # "stream", Kept, ops' = ops,
         NEW new \in Handler, new.id = h.id, new.queue = h.queue,
         new.at \notin {"ensure", "start"} => new.gen \in DOMAIN shells'
  PROVE  HandlerKnown(new)'
<1>1. HandlerKnown(h)
  BY DEF FramesInv, Known
<1>2. Unsubscribed(h)' /\ h.queue = <<>> /\ h.id \in 1..ops /\ Len(h.queue) <= SubBuffer
  BY <1>1, KeptUnsubscribed DEF HandlerKnown
<1>3. Unsubscribed(new)'
  BY <1>2 DEF Unsubscribed
<1> QED
  BY <1>2, <1>3 DEF HandlerKnown

(* A handler is gone.                                                      *)
LEMMA HandlerGone ==
  ASSUME Sizes, FramesInv, Kept, DOMAIN shells' = DOMAIN shells, ops' = ops,
         UNCHANGED <<clients, got, missed>>, handlers' \subseteq handlers,
         term' \in 0..Len(shells')
  PROVE  (Known /\ Ordered /\ Early /\ Whole)'
<1>1. ops \in Nat
  BY DEF FramesInv, TerminalInv, Typed
<1>2. \A g \in DOMAIN shells' : ShellKnown(g)'
  BY <1>1, KeptShells DEF FramesInv
<1>3. \A i \in handlers' : HandlerKnown(i)'
  BY <1>1, KeptHandler DEF FramesInv, Known
<1>4. Known'
  BY <1>2, <1>3 DEF FramesInv, Known
<1>5. Ordered'
  BY DEF FramesInv, Ordered, Rising, UpTo, Current
<1>6. Early'
  BY DEF FramesInv, Early, Current
<1>7. \A c \in Clients : c \notin missed' => ClientWhole(c)'
  BY KeptClientWhole DEF FramesInv, Whole
<1>8. ASSUME NEW i \in handlers', Current(i)', i.client \notin missed' PROVE HandlerWhole(i)'
  <2>1. i \in handlers /\ Current(i) /\ i.client \notin missed
    BY <1>8 DEF Current
  <2>2. HandlerKnown(i) /\ HandlerWhole(i)
    BY <2>1 DEF FramesInv, Known, Whole
  <2> QED
    BY <2>2, KeptHandlerWhole
<1>9. Whole'
  BY <1>7, <1>8 DEF Whole
<1> QED
  BY <1>4, <1>5, <1>6, <1>9

LEMMA SameShellsKept ==
  ASSUME UNCHANGED shells
  PROVE  Kept
BY DEF Kept, SameFrames

Moved(h, at, gen) == [h EXCEPT !.at = at, !.gen = gen]

LEMMA MovedFields ==
  ASSUME NEW h \in Handler, NEW at \in HandlerAt, NEW gen \in Nat
  PROVE  LET new == Moved(h, at, gen)
         IN /\ new \in Handler
            /\ new.id = h.id /\ new.client = h.client /\ new.last = h.last /\ new.queue = h.queue
            /\ new.at = at /\ new.gen = gen
<1>1. PICK new : new = Moved(h, at, gen)
  OBVIOUS
<1>2. new = [id |-> h.id, client |-> h.client, at |-> at, gen |-> gen, last |-> h.last,
             upto |-> h.upto, queue |-> h.queue]
  BY <1>1 DEF Moved, Handler
<1>3. h.id \in Nat /\ h.client \in Clients /\ h.last \in Nat /\ h.upto \in Nat /\ h.queue \in Seq(Nat)
  BY DEF Handler
<1>4. /\ new \in Handler
      /\ new.id = h.id /\ new.client = h.client /\ new.last = h.last /\ new.queue = h.queue
      /\ new.at = at /\ new.gen = gen
  BY <1>2, <1>3 DEF Handler
<1> QED
  BY <1>1, <1>4

LEMMA EnsureFrames ==
  ASSUME Sizes, FramesInv, NEW h \in handlers, Ensure(h)
  PROVE  (Known /\ Ordered /\ Early /\ Whole)'
<1>1. h \in Handler /\ HandlerKnown(h)
  BY DEF FramesInv, Known, HandlerKnown
<1>2. shells \in Seq(Session) /\ term \in 0..Len(shells) /\ ops \in Nat
  BY DEF FramesInv, TerminalInv, Typed, Known
<1>3. CASE EnsureProjectTerminal(h)
  <2>1. h.at = "ensure" /\ UNCHANGED <<shells, term, clients, got, missed, ops>>
    BY <1>3 DEF EnsureProjectTerminal, server, received
  <2>2. PICK new : /\ new = IF Runs(term) THEN [h EXCEPT !.at = "upgrade", !.gen = term]
                            ELSE [h EXCEPT !.at = "start"]
                   /\ handlers' = (handlers \ {h}) \cup {new}
    BY <1>3 DEF EnsureProjectTerminal, Becomes
  <2>3. PICK at \in {"start", "upgrade"}, gen \in Nat :
          /\ new = [h EXCEPT !.at = at, !.gen = gen]
          /\ at = "upgrade" => gen = term /\ Runs(term)
    <3>1. CASE Runs(term)
      <4>1. term \in Nat
        BY <1>2
      <4>2. new = [h EXCEPT !.at = "upgrade", !.gen = term]
        BY <2>2, <3>1
      <4> QED
        BY <3>1, <4>1, <4>2
    <3>2. CASE ~Runs(term)
      <4>1. h.gen \in Nat /\ new = [h EXCEPT !.at = "start", !.gen = h.gen]
        BY <1>1, <2>2, <3>2 DEF Handler
      <4> QED
        BY <4>1
    <3> QED
      BY <3>1, <3>2
  <2>a. at \in HandlerAt
    BY DEF HandlerAt
  <2>b. h \in Handler /\ new = Moved(h, at, gen)
    BY <1>1, <2>3 DEF Moved
  <2>4. new \in Handler
        /\ new.id = h.id /\ new.client = h.client /\ new.last = h.last /\ new.queue = h.queue
        /\ new.at = at /\ new.gen = gen
    BY <2>a, <2>b, MovedFields
  <2>5. new.at \in {"start", "upgrade"} /\ (new.at = "upgrade" => new.gen = term /\ Runs(term))
    BY <2>3, <2>4
  <2>6. new.at \notin {"ensure", "start"} => new.gen \in DOMAIN shells'
    BY <1>2, <2>1, <2>5 DEF Runs
  <2>7. Kept /\ term' \in 0..Len(shells')
    BY <1>2, <2>1, SameShellsKept
  <2>8. HandlerKnown(new)'
    BY <2>1, <2>3, <2>4, <2>6, <2>7, MovedHandler
  <2>9. ServesOnly(h)
    BY <2>1, NobodyServed DEF FramesInv
  <2>10. Known'
    BY <2>1, <2>2, <2>4, <2>7, <2>8, <2>9, HandlerKept
  <2> QED
    BY <2>1, <2>2, <2>4, <2>5, <2>7, <2>10, StillEarly
<1>4. CASE StartTerminal(h)
  <2>1. h.at = "start" /\ UNCHANGED <<term, clients, got, missed, ops>>
        /\ shells' = Append(shells, NewShell)
    BY <1>4 DEF StartTerminal, received
  <2>2. PICK new : /\ new = [h EXCEPT !.at = "install", !.gen = Len(shells) + 1]
                   /\ handlers' = (handlers \ {h}) \cup {new}
    BY <1>4 DEF StartTerminal, Becomes
  <2>3. PICK gen \in Nat : gen = Len(shells) + 1 /\ new = [h EXCEPT !.at = "install", !.gen = gen]
    <3>1. Len(shells) + 1 \in Nat
      BY <1>2
    <3> QED
      BY <2>2, <3>1
  <2>a. "install" \in HandlerAt
    BY DEF HandlerAt
  <2>b. h \in Handler /\ new = Moved(h, "install", gen)
    BY <1>1, <2>3 DEF Moved
  <2>4. new \in Handler
        /\ new.id = h.id /\ new.client = h.client /\ new.last = h.last /\ new.queue = h.queue
        /\ new.at = "install" /\ new.gen = gen
    BY <2>a, <2>b, MovedFields
  <2>5. NewShell \in Session
    BY DEF NewShell, Idle, Session, Appender, ShellAt
  <2>6. DOMAIN shells' = DOMAIN shells \cup {Len(shells) + 1} /\ Len(shells') = Len(shells) + 1
        /\ (\A g \in DOMAIN shells : shells'[g] = shells[g])
        /\ shells'[Len(shells) + 1] = NewShell
    BY <1>2, <2>1, <2>5
  <2>7. Kept /\ term' \in 0..Len(shells')
    BY <1>2, <2>1, <2>6 DEF Kept, SameFrames
  <2>8. HandlerKnown(new)'
    BY <2>1, <2>3, <2>4, <2>6, <2>7, MovedHandler
  <2>9. ServesOnly(h)
    BY <2>1, NobodyServed DEF FramesInv
  <2>10. Known'
    BY <2>1, <2>2, <2>4, <2>7, <2>8, <2>9, HandlerKept
  <2> QED
    BY <2>1, <2>2, <2>4, <2>7, <2>10, StillEarly
<1>5. CASE StartFails(h)
  <2>1. handlers' = handlers \ {h} /\ UNCHANGED <<shells, term, clients, got, missed, ops>>
    BY <1>5 DEF StartFails, server, received
  <2> QED
    BY <1>2, <2>1, SameShellsKept, HandlerGone
<1>6. CASE InstallTerminal(h)
  <2>1. h.at = "install" /\ UNCHANGED <<clients, got, missed, ops>> /\ h.gen \in DOMAIN shells
    BY <1>1, <1>6 DEF InstallTerminal, received, HandlerKnown
  <2>2. PICK at \in ShellAt : shells' = [shells EXCEPT ![h.gen].at = at]
    BY <1>6 DEF InstallTerminal, ShellAt
  <2>3. PICK new : /\ \/ Runs(term) /\ new = [h EXCEPT !.at = "upgrade", !.gen = term]
                      \/ new = [h EXCEPT !.at = "upgrade"]
                   /\ handlers' = (handlers \ {h}) \cup {new}
    BY <1>6 DEF InstallTerminal, Becomes
  <2>4. PICK gen \in Nat : /\ new = [h EXCEPT !.at = "upgrade", !.gen = gen]
                           /\ gen \in {term, h.gen} /\ (gen = h.gen \/ Runs(term))
    <3>1. CASE new = [h EXCEPT !.at = "upgrade"]
      <4>1. h.gen \in Nat /\ new = [h EXCEPT !.at = "upgrade", !.gen = h.gen]
        BY <1>1, <3>1 DEF Handler
      <4> QED
        BY <4>1
    <3>2. CASE Runs(term) /\ new = [h EXCEPT !.at = "upgrade", !.gen = term]
      <4>1. term \in Nat
        BY <1>2
      <4> QED
        BY <3>2, <4>1
    <3> QED
      BY <2>3, <3>1, <3>2
  <2>a. "upgrade" \in HandlerAt
    BY DEF HandlerAt
  <2>b. h \in Handler /\ new = Moved(h, "upgrade", gen)
    BY <1>1, <2>4 DEF Moved
  <2>5. new \in Handler
        /\ new.id = h.id /\ new.client = h.client /\ new.last = h.last /\ new.queue = h.queue
        /\ new.at = "upgrade" /\ new.gen = gen
    BY <2>a, <2>b, MovedFields
  <2>6. new.gen \in {term, h.gen} /\ (new.gen = h.gen \/ Runs(term))
    BY <2>4, <2>5
  <2>7. DOMAIN shells' = DOMAIN shells /\ \A g \in DOMAIN shells : SameFrames(g)
    BY <1>2, <2>2 DEF SameFrames, Session
  <2>8. Kept
    BY <2>7 DEF Kept
  <2>9. Len(shells') = Len(shells)
    <3>1. shells[h.gen] \in Session
      BY <1>2, <2>1
    <3>2. PICK s : s = [shells[h.gen] EXCEPT !.at = at]
      OBVIOUS
    <3>3. s \in Session
      BY <3>1, <3>2, AtChanged
    <3>4. shells' = [shells EXCEPT ![h.gen] = s]
      BY <2>2, <3>2
    <3>5. shells' \in Seq(Session)
      BY <1>2, <3>3, <3>4, ChangedInPlace
    <3> QED
      BY <1>2, <2>7, <3>5
  <2>10. term' \in {term, h.gen}
    BY <1>6 DEF InstallTerminal
  <2>11. term' \in 0..Len(shells')
    BY <1>2, <2>1, <2>9, <2>10
  <2>12. new.gen \in DOMAIN shells'
    BY <1>2, <2>1, <2>6, <2>7 DEF Runs
  <2>13. HandlerKnown(new)'
    BY <2>1, <2>5, <2>8, <2>12, MovedHandler
  <2>14. ServesOnly(h)
    BY <2>1, NobodyServed DEF FramesInv
  <2>15. Known'
    BY <2>1, <2>3, <2>5, <2>8, <2>11, <2>13, <2>14, HandlerKept
  <2> QED
    BY <2>1, <2>3, <2>5, <2>8, <2>15, StillEarly
<1> QED
  BY <1>3, <1>4, <1>5, <1>6 DEF Ensure

-----------------------------------------------------------------------------
(* The connection stands: the replay and what follows it.                  *)

Served(h, at, last, upto, queue) ==
  [h EXCEPT !.at = at, !.last = last, !.upto = upto, !.queue = queue]

LEMMA ServedFields ==
  ASSUME NEW h \in Handler, NEW at \in HandlerAt, NEW last \in Nat, NEW upto \in Nat,
         NEW queue \in Seq(Nat)
  PROVE  LET new == Served(h, at, last, upto, queue)
         IN /\ new \in Handler
            /\ new.id = h.id /\ new.client = h.client /\ new.gen = h.gen
            /\ new.at = at /\ new.last = last /\ new.upto = upto /\ new.queue = queue
<1>1. PICK new : new = Served(h, at, last, upto, queue)
  OBVIOUS
<1>2. new = [id |-> h.id, client |-> h.client, at |-> at, gen |-> h.gen, last |-> last,
             upto |-> upto, queue |-> queue]
  BY <1>1 DEF Served, Handler
<1>3. h.id \in Nat /\ h.client \in Clients /\ h.gen \in Nat
  BY DEF Handler
<1>4. /\ new \in Handler
      /\ new.id = h.id /\ new.client = h.client /\ new.gen = h.gen
      /\ new.at = at /\ new.last = last /\ new.upto = upto /\ new.queue = queue
  BY <1>2, <1>3 DEF Handler
<1> QED
  BY <1>1, <1>4

LEMMA HandlerFields ==
  ASSUME FramesInv, NEW h \in handlers
  PROVE  /\ h \in Handler /\ HandlerKnown(h) /\ h.client \in Clients /\ h.id \in Nat
         /\ h.last \in Nat /\ h.upto \in Nat /\ h.queue \in Seq(Nat) /\ h.gen \in Nat
         /\ clients[h.client] \in [conn : Nat, cursor : Nat, gen : Nat]
         /\ clients[h.client].cursor \in Nat /\ clients[h.client].gen \in Nat
         /\ got[h.client] \in Seq(Nat \X Nat)
<1>1. h \in Handler /\ HandlerKnown(h)
  BY DEF FramesInv, Known, HandlerKnown
<1>2. h.client \in Clients /\ h.id \in Nat /\ h.last \in Nat /\ h.upto \in Nat
      /\ h.queue \in Seq(Nat) /\ h.gen \in Nat
  BY <1>1 DEF Handler
<1>3. clients[h.client] \in [conn : Nat, cursor : Nat, gen : Nat]
      /\ got[h.client] \in Seq(Nat \X Nat)
  BY <1>2 DEF FramesInv, Known
<1> QED
  BY <1>1, <1>2, <1>3

LEMMA ShellFields ==
  ASSUME FramesInv, NEW g \in DOMAIN shells
  PROVE  /\ shells[g] \in Session /\ ShellKnown(g)
         /\ shells[g].n \in Nat /\ shells[g].reader \in Appender /\ shells[g].waiter \in Appender
         /\ shells[g].subs \in SUBSET Nat
<1>1. shells[g] \in Session
  BY DEF FramesInv, TerminalInv, Typed
<1> QED
  BY <1>1 DEF FramesInv, Known, Session

LEMMA ServedKnown ==
  ASSUME Sizes, FramesInv, NEW h \in handlers, h.at \notin {"ensure", "start"},
         UNCHANGED <<term, shells, ops>>, ServesOnly(h),
         NEW new \in Handler, new.id = h.id, new.gen = h.gen, Len(new.queue) <= SubBuffer,
         new.at # "stream" => h.at # "stream" /\ new.queue = <<>>,
         handlers' = (handlers \ {h}) \cup {new}
  PROVE  Known' /\ Kept
<1>1. HandlerKnown(h)
  BY HandlerFields
<1>2. Kept
  BY SameShellsKept
<1>3. new.at # "stream" => Unsubscribed(new)'
  BY <1>1 DEF HandlerKnown, Unsubscribed
<1>4. HandlerKnown(new)'
  BY <1>1, <1>3 DEF HandlerKnown
<1>5. term' \in 0..Len(shells')
  BY DEF FramesInv, Known
<1> QED
  BY <1>2, <1>4, <1>5, HandlerKept

LEMMA UpToMore ==
  ASSUME NEW s \in Seq(Nat \X Nat), NEW m \in Nat, NEW n \in Nat, m <= n, UpTo(s, m)
  PROVE  UpTo(s, n)
<1>1. \A k \in DOMAIN s : s[k][2] \in Nat
  OBVIOUS
<1> QED
  BY <1>1 DEF UpTo

LEMMA UpgradeFrames ==
  ASSUME Sizes, FramesInv, NEW h \in handlers, Upgrade(h)
  PROVE  (Known /\ Ordered /\ Early /\ Whole)'
<1>1. /\ h \in Handler /\ HandlerKnown(h) /\ h.client \in Clients /\ h.id \in Nat
      /\ h.last \in Nat /\ h.upto \in Nat /\ h.queue \in Seq(Nat) /\ h.gen \in Nat
      /\ clients[h.client] \in [conn : Nat, cursor : Nat, gen : Nat]
  BY HandlerFields
<1>2. h.at = "upgrade" /\ UNCHANGED <<term, shells, got, ops>> /\ missed \subseteq missed'
  BY DEF Upgrade, server
<1>3. PICK new : /\ new = Served(h, "replay", h.last, h.upto, h.queue)
                 /\ handlers' = (handlers \ {h}) \cup {new}
  BY <1>1 DEF Upgrade, Becomes, Served, Handler
<1>4. "replay" \in HandlerAt
  BY DEF HandlerAt
<1>5. /\ new \in Handler /\ new.id = h.id /\ new.client = h.client /\ new.gen = h.gen
      /\ new.at = "replay" /\ new.last = h.last /\ new.queue = h.queue
  <2>1. h \in Handler /\ h.last \in Nat /\ h.upto \in Nat /\ h.queue \in Seq(Nat)
        /\ new = Served(h, "replay", h.last, h.upto, h.queue)
    BY <1>1, <1>3
  <2> QED
    BY <1>4, <2>1, ServedFields, SMTT(30)
<1>6. clients' = IF Current(h) THEN [clients EXCEPT ![h.client].gen = h.gen] ELSE clients
  BY DEF Upgrade, Current
<1>7. clients \in [Clients -> [conn : Nat, cursor : Nat, gen : Nat]]
  BY DEF FramesInv, Known
<1>8. /\ clients' \in [Clients -> [conn : Nat, cursor : Nat, gen : Nat]]
      /\ \A c \in Clients : clients'[c].conn = clients[c].conn /\ clients'[c].cursor = clients[c].cursor
      /\ \A c \in Clients : ~ (c = h.client /\ Current(h)) => clients'[c] = clients[c]
      /\ Current(h) => clients'[h.client].gen = h.gen
  BY <1>1, <1>6, <1>7
<1>9. ServesOnly(h)
  BY <1>2, <1>8 DEF ServesOnly, FramesInv, Known
<1>10. Known' /\ Kept
  BY <1>1, <1>2, <1>3, <1>5, <1>9, ServedKnown DEF HandlerKnown
<1>11. Current(h) => h.last = clients[h.client].cursor
  BY <1>2 DEF FramesInv, Early
<1>12. Current(h) =>
         /\ Rising(got'[h.client])
         /\ UpTo(got'[h.client], clients'[h.client].cursor)
         /\ UpTo(got'[h.client], new.last)
         /\ new.last = clients'[h.client].cursor
  BY <1>1, <1>2, <1>5, <1>8, <1>11 DEF FramesInv, Ordered
<1>13. ASSUME Current(h), h.client \notin missed' PROVE ClientWhole(h.client)'
  <2>1. h.last # 0 => clients[h.client].gen = h.gen
    BY <1>13 DEF Upgrade
  <2>2. ClientWhole(h.client)
    BY <1>1, <1>2, <1>13 DEF FramesInv, Whole
  <2>3. h.last = clients[h.client].cursor /\ clients'[h.client].cursor = clients[h.client].cursor
        /\ clients'[h.client].gen = h.gen
    BY <1>1, <1>8, <1>11, <1>13
  <2>4. CASE h.last # 0
    BY <1>2, <2>1, <2>2, <2>3, <2>4 DEF ClientWhole
  <2>5. CASE h.last = 0
    BY <1>2, <2>2, <2>3, <2>5 DEF ClientWhole
  <2> QED
    BY <2>4, <2>5
<1>14. Current(h) => HandlerWhole(new)'
  BY <1>1, <1>5, <1>8, <1>12 DEF HandlerWhole
<1> QED
  BY <1>3, <1>5, <1>9, <1>10, <1>12, <1>13, <1>14, HandlerMoves

LEMMA ReplayFrames ==
  ASSUME Sizes, FramesInv, NEW h \in handlers, Replay(h)
  PROVE  (Known /\ Ordered /\ Early /\ Whole)'
<1>1. /\ h \in Handler /\ HandlerKnown(h) /\ h.client \in Clients /\ h.id \in Nat
      /\ h.last \in Nat /\ h.upto \in Nat /\ h.queue \in Seq(Nat) /\ h.gen \in Nat
      /\ got[h.client] \in Seq(Nat \X Nat) /\ clients[h.client].cursor \in Nat
  BY HandlerFields
<1>2. h.at = "replay" /\ UNCHANGED <<term, shells, clients, got, ops>> /\ missed \subseteq missed'
  BY DEF Replay, server, received
<1>3. h.gen \in DOMAIN shells
  BY <1>1, <1>2 DEF HandlerKnown
<1>4. PICK n \in Nat : n = shells[h.gen].n
  BY <1>3, ShellFields
<1>5. PICK dropped \in Nat : dropped = IF n > FrameBacklog THEN n - FrameBacklog ELSE 0
  <2>1. (IF n > FrameBacklog THEN n - FrameBacklog ELSE 0) \in Nat
    BY DEF Sizes
  <2> QED
    BY <2>1
<1>6. PICK last \in Nat : last = Larger(h.last, dropped)
  <2>1. Larger(h.last, dropped) \in Nat
    BY <1>1 DEF Larger
  <2> QED
    BY <2>1
<1>7. h.last <= last /\ (h.last >= dropped => last = h.last)
  BY <1>1, <1>6 DEF Larger
<1>8. PICK new : /\ new = Served(h, "replaying", last, n, h.queue)
                 /\ handlers' = (handlers \ {h}) \cup {new}
  BY <1>1, <1>4, <1>5, <1>6 DEF Replay, Becomes, Served, Handler
<1>9. "replaying" \in HandlerAt
  BY DEF HandlerAt
<1>10. /\ new \in Handler /\ new.id = h.id /\ new.client = h.client /\ new.gen = h.gen
       /\ new.at = "replaying" /\ new.last = last /\ new.upto = n /\ new.queue = h.queue
  <2>1. h \in Handler /\ h.queue \in Seq(Nat) /\ new = Served(h, "replaying", last, n, h.queue)
    BY <1>1, <1>8
  <2> QED
    BY <1>9, <2>1, ServedFields, SMTT(30)
<1>11. ServesOnly(h)
  BY <1>2 DEF ServesOnly, FramesInv, Known
<1>12. Known' /\ Kept
  BY <1>1, <1>2, <1>8, <1>10, <1>11, ServedKnown DEF HandlerKnown
<1>13. Current(h) =>
         /\ Rising(got'[h.client])
         /\ UpTo(got'[h.client], clients'[h.client].cursor)
         /\ UpTo(got[h.client], h.last)
  BY <1>1, <1>2 DEF FramesInv, Ordered
<1>14. UpTo(got[h.client], h.last) => UpTo(got'[h.client], new.last)
  <2>1. got[h.client] \in Seq(Nat \X Nat) /\ h.last \in Nat /\ h.last <= last
        /\ got' = got /\ new.last = last
    BY <1>1, <1>2, <1>7, <1>10
  <2> QED
    BY <2>1, UpToMore
<1>15. ASSUME Current(h), h.client \notin missed'
       PROVE  ClientWhole(h.client)' /\ HandlerWhole(new)'
  <2>1. h.last >= dropped
    BY <1>1, <1>4, <1>5, <1>15 DEF Replay
  <2>2. ClientWhole(h.client) /\ HandlerWhole(h)
    BY <1>1, <1>2, <1>15 DEF FramesInv, Whole
  <2>3. new.last = clients'[h.client].cursor
    BY <1>2, <1>7, <1>10, <2>1, <2>2 DEF HandlerWhole
  <2>4. HandlerWhole(new)'
    BY <1>2, <1>4, <1>10, <2>2, <2>3 DEF HandlerWhole
  <2> QED
    BY <1>2, <2>2, <2>4 DEF ClientWhole
<1> QED
  BY <1>8, <1>10, <1>11, <1>12, <1>13, <1>14, <1>15, HandlerMoves

-----------------------------------------------------------------------------
(* A client is told of a frame.                                            *)

LEMMA AppendedFrame ==
  ASSUME NEW s \in Seq(Nat \X Nat), NEW g \in Nat, NEW k \in Nat, NEW m \in Nat, m < k,
         Rising(s), UpTo(s, m), NEW t, t = Append(s, <<g, k>>)
  PROVE  t \in Seq(Nat \X Nat) /\ Rising(t) /\ UpTo(t, k)
<1>1. t \in Seq(Nat \X Nat) /\ DOMAIN t = 1..(Len(s) + 1) /\ DOMAIN s = 1..Len(s)
      /\ Len(s) \in Nat
  OBVIOUS
<1>2. (\A j \in DOMAIN s : t[j] = s[j]) /\ t[Len(s) + 1][2] = k
  OBVIOUS
<1>3. \A j \in DOMAIN s : s[j][2] \in Nat
  OBVIOUS
<1>4. \A j \in DOMAIN s : t[j][2] < k
  BY <1>2, <1>3 DEF UpTo
<1>5. Rising(t)
  <2>1. ASSUME NEW j \in DOMAIN t, NEW i \in DOMAIN t, j < i PROVE t[j][2] < t[i][2]
    <3>1. j \in DOMAIN s
      BY <1>1, <2>1
    <3>2. CASE i = Len(s) + 1
      BY <1>2, <1>4, <3>1, <3>2
    <3>3. CASE i \in DOMAIN s
      BY <1>2, <2>1, <3>1, <3>3 DEF Rising
    <3> QED
      BY <1>1, <3>2, <3>3
  <2> QED
    BY <2>1 DEF Rising
<1>6. UpTo(t, k)
  <2>1. ASSUME NEW i \in DOMAIN t PROVE t[i][2] <= k
    <3>1. CASE i = Len(s) + 1
      BY <1>2, <3>1
    <3>2. CASE i \in DOMAIN s
      <4>1. t[i][2] = s[i][2] /\ s[i][2] \in Nat /\ t[i][2] < k
        BY <1>2, <1>3, <1>4, <3>2
      <4> QED
        BY <4>1
    <3> QED
      BY <1>1, <3>1, <3>2
  <2> QED
    BY <2>1 DEF UpTo
<1> QED
  BY <1>1, <1>5, <1>6

LEMMA ToldClient ==
  ASSUME FramesInv, NEW h \in handlers, NEW k \in Nat, h.last < k, Told(h, k), missed' = missed
  PROVE  /\ ServesOnly(h)
         /\ Current(h) =>
              /\ Rising(got'[h.client])
              /\ UpTo(got'[h.client], clients'[h.client].cursor)
              /\ UpTo(got'[h.client], k)
              /\ got'[h.client] = Append(got[h.client], <<h.gen, k>>)
              /\ clients'[h.client].cursor = Larger(clients[h.client].cursor, k)
              /\ clients'[h.client].gen = clients[h.client].gen
<1>1. h.client \in Clients /\ h.last \in Nat /\ h.gen \in Nat
      /\ clients[h.client].cursor \in Nat /\ got[h.client] \in Seq(Nat \X Nat)
  BY HandlerFields
<1>2. clients \in [Clients -> [conn : Nat, cursor : Nat, gen : Nat]]
      /\ got \in [Clients -> Seq(Nat \X Nat)]
  BY DEF FramesInv, Known
<1>3. CASE ~Current(h)
  <2>1. UNCHANGED <<clients, got>>
    BY <1>3 DEF Told, Current
  <2> QED
    BY <1>2, <1>3, <2>1 DEF ServesOnly
<1>4. CASE Current(h)
  <2>1. PICK n \in Nat : n = Larger(clients[h.client].cursor, k)
    <3>1. Larger(clients[h.client].cursor, k) \in Nat
      BY <1>1 DEF Larger
    <3> QED
      BY <3>1
  <2>2. PICK t : t = Append(got[h.client], <<h.gen, k>>)
    OBVIOUS
  <2>3. clients' = [clients EXCEPT ![h.client].cursor = n]
    BY <1>4, <2>1 DEF Told, Current
  <2>4. got' = [got EXCEPT ![h.client] = t]
    BY <1>4, <2>2 DEF Told, Current
  <2>5. Rising(got[h.client]) /\ UpTo(got[h.client], h.last)
    BY <1>1, <1>4 DEF FramesInv, Ordered
  <2>6. t \in Seq(Nat \X Nat) /\ Rising(t) /\ UpTo(t, k)
    BY <1>1, <2>2, <2>5, AppendedFrame
  <2>7. /\ clients' \in [Clients -> [conn : Nat, cursor : Nat, gen : Nat]]
        /\ \A c \in Clients : clients'[c].conn = clients[c].conn
        /\ \A c \in Clients : c # h.client => clients'[c] = clients[c]
        /\ clients'[h.client].cursor = n /\ clients'[h.client].gen = clients[h.client].gen
    BY <1>1, <1>2, <2>3
  <2>8. /\ got' \in [Clients -> Seq(Nat \X Nat)]
        /\ \A c \in Clients : c # h.client => got'[c] = got[c]
        /\ got'[h.client] = t
    BY <1>1, <1>2, <2>4, <2>6
  <2>9. ServesOnly(h)
    BY <1>4, <2>7, <2>8 DEF ServesOnly
  <2>10. k <= n
    BY <1>1, <2>1 DEF Larger
  <2>11. UpTo(t, n)
    BY <2>6, <2>10, UpToMore
  <2> QED
    BY <2>1, <2>2, <2>6, <2>7, <2>8, <2>9, <2>11
<1> QED
  BY <1>3, <1>4

(* The frame is the next one of the shell.                                 *)
LEMMA ToldNext ==
  ASSUME FramesInv, NEW h \in handlers, Told(h, h.last + 1), missed' = missed, UNCHANGED shells,
         Current(h), h.client \notin missed, h.gen \in DOMAIN shells,
         h.last + 1 <= shells[h.gen].n, h.at \in {"replaying", "stream"}
  PROVE  /\ ClientWhole(h.client)'
         /\ clients'[h.client].cursor = h.last + 1
         /\ clients'[h.client].gen = h.gen
<1>1. h.client \in Clients /\ h.last \in Nat /\ clients[h.client].cursor \in Nat
  BY HandlerFields
<1>2. HandlerWhole(h) /\ ClientWhole(h.client)
  BY <1>1 DEF FramesInv, Whole
<1>3. h.last = clients[h.client].cursor /\ clients[h.client].gen = h.gen
  BY <1>2 DEF HandlerWhole
<1>4. PICK k \in Nat : k = h.last + 1
  BY <1>1
<1>5. /\ got'[h.client] = Append(got[h.client], <<h.gen, k>>)
      /\ clients'[h.client].cursor = Larger(clients[h.client].cursor, k)
      /\ clients'[h.client].gen = clients[h.client].gen
  <2>1. h.last < k /\ Told(h, k)
    BY <1>1, <1>4
  <2> QED
    BY <2>1, ToldClient
<1>6. clients'[h.client].cursor = k /\ clients'[h.client].gen = h.gen
  BY <1>1, <1>3, <1>4, <1>5 DEF Larger
<1>7. PICK n \in Nat : n = h.last
  BY <1>1
<1>8. got[h.client] = [j \in 1..n |-> <<h.gen, j>>]
  BY <1>2, <1>3, <1>7 DEF ClientWhole
<1>9. Append([j \in 1..n |-> <<h.gen, j>>], <<h.gen, n + 1>>) = [j \in 1..(n + 1) |-> <<h.gen, j>>]
  <2>1. PICK s : s = [j \in 1..n |-> <<h.gen, j>>]
    OBVIOUS
  <2>2. h.gen \in Nat
    BY HandlerFields
  <2>3. s \in Seq(Nat \X Nat) /\ Len(s) = n
    BY <2>1, <2>2
  <2>4. PICK t : t = Append(s, <<h.gen, n + 1>>)
    OBVIOUS
  <2>5. t \in Seq(Nat \X Nat) /\ DOMAIN t = 1..(n + 1)
        /\ (\A j \in 1..n : t[j] = s[j]) /\ t[n + 1] = <<h.gen, n + 1>>
    BY <2>2, <2>3, <2>4
  <2>6. \A j \in 1..(n + 1) : t[j] = <<h.gen, j>>
    BY <2>1, <2>5
  <2>7. t = [j \in 1..(n + 1) |-> <<h.gen, j>>]
    <3>1. t = [j \in DOMAIN t |-> t[j]]
      BY <2>5
    <3> QED
      BY <2>5, <2>6, <3>1
  <2> QED
    BY <2>1, <2>4, <2>7
<1>10. got'[h.client] = [j \in 1..k |-> <<h.gen, j>>]
  BY <1>4, <1>5, <1>7, <1>8, <1>9
<1>11. h.gen \in DOMAIN shells' /\ k <= shells'[h.gen].n
  BY <1>4
<1>12. ClientWhole(h.client)'
  BY <1>6, <1>10, <1>11 DEF ClientWhole
<1> QED
  BY <1>4, <1>6, <1>12

LEMMA ReplayFrameFrames ==
  ASSUME Sizes, FramesInv, NEW h \in handlers, ReplayFrame(h)
  PROVE  (Known /\ Ordered /\ Early /\ Whole)'
<1>1. /\ h \in Handler /\ HandlerKnown(h) /\ h.client \in Clients /\ h.id \in Nat
      /\ h.last \in Nat /\ h.upto \in Nat /\ h.queue \in Seq(Nat) /\ h.gen \in Nat
  BY HandlerFields
<1>2. h.at = "replaying" /\ h.last < h.upto /\ UNCHANGED <<term, shells, ops, missed>>
      /\ Told(h, h.last + 1)
  BY DEF ReplayFrame, server
<1>3. h.gen \in DOMAIN shells
  BY <1>1, <1>2 DEF HandlerKnown
<1>4. PICK k \in Nat : k = h.last + 1
  BY <1>1
<1>5. PICK new : /\ new = Served(h, "replaying", k, h.upto, h.queue)
                 /\ handlers' = (handlers \ {h}) \cup {new}
  BY <1>1, <1>4 DEF ReplayFrame, Becomes, Served, Handler
<1>6. "replaying" \in HandlerAt
  BY DEF HandlerAt
<1>7. /\ new \in Handler /\ new.id = h.id /\ new.client = h.client /\ new.gen = h.gen
      /\ new.at = "replaying" /\ new.last = k /\ new.upto = h.upto /\ new.queue = h.queue
  <2>1. h \in Handler /\ h.upto \in Nat /\ h.queue \in Seq(Nat)
        /\ new = Served(h, "replaying", k, h.upto, h.queue)
    BY <1>1, <1>5
  <2> QED
    BY <1>6, <2>1, ServedFields, SMTT(30)
<1>8. /\ ServesOnly(h)
      /\ Current(h) =>
           /\ Rising(got'[h.client])
           /\ UpTo(got'[h.client], clients'[h.client].cursor)
           /\ UpTo(got'[h.client], k)
  <2>1. h.last < k /\ Told(h, k)
    BY <1>1, <1>2, <1>4
  <2> QED
    BY <1>2, <2>1, ToldClient
<1>9. Known' /\ Kept
  BY <1>1, <1>2, <1>5, <1>7, <1>8, ServedKnown DEF HandlerKnown
<1>10. ASSUME Current(h), h.client \notin missed'
       PROVE  ClientWhole(h.client)' /\ HandlerWhole(new)'
  <2>1. HandlerWhole(h)
    BY <1>1, <1>2, <1>10 DEF FramesInv, Whole
  <2>2. h.upto = shells[h.gen].n
    BY <1>2, <2>1 DEF HandlerWhole
  <2>3. h.last + 1 <= shells[h.gen].n
    BY <1>1, <1>2, <2>2
  <2>4. /\ ClientWhole(h.client)'
        /\ clients'[h.client].cursor = h.last + 1
        /\ clients'[h.client].gen = h.gen
    BY <1>2, <1>3, <1>10, <2>3, ToldNext
  <2>5. HandlerWhole(new)'
    BY <1>2, <1>4, <1>7, <2>2, <2>4 DEF HandlerWhole
  <2> QED
    BY <2>4, <2>5
<1> QED
  BY <1>5, <1>7, <1>8, <1>9, <1>10, HandlerMoves

LEMMA ReplayedFrames ==
  ASSUME Sizes, FramesInv, NEW h \in handlers, Replayed(h)
  PROVE  (Known /\ Ordered /\ Early /\ Whole)'
<1>1. /\ h \in Handler /\ HandlerKnown(h) /\ h.client \in Clients /\ h.id \in Nat
      /\ h.last \in Nat /\ h.upto \in Nat /\ h.queue \in Seq(Nat) /\ h.gen \in Nat
      /\ got[h.client] \in Seq(Nat \X Nat) /\ clients[h.client].cursor \in Nat
  BY HandlerFields
<1>2. h.at = "replaying" /\ h.last >= h.upto /\ UNCHANGED <<term, shells, clients, got, missed, ops>>
  BY DEF Replayed, server, received
<1>3. h.gen \in DOMAIN shells
  BY <1>1, <1>2 DEF HandlerKnown
<1>4. PICK n \in Nat : n = shells[h.gen].n
  BY <1>3, ShellFields
<1>5. PICK last \in Nat : last = Larger(h.last, n)
  <2>1. Larger(h.last, n) \in Nat
    BY <1>1 DEF Larger
  <2> QED
    BY <2>1
<1>6. PICK new : /\ new = Served(h, "ready", last, h.upto, h.queue)
                 /\ handlers' = (handlers \ {h}) \cup {new}
  BY <1>1, <1>4, <1>5 DEF Replayed, Becomes, Served, Handler
<1>7. "ready" \in HandlerAt
  BY DEF HandlerAt
<1>8. /\ new \in Handler /\ new.id = h.id /\ new.client = h.client /\ new.gen = h.gen
      /\ new.at = "ready" /\ new.last = last /\ new.upto = h.upto /\ new.queue = h.queue
  <2>1. h \in Handler /\ h.upto \in Nat /\ h.queue \in Seq(Nat)
        /\ new = Served(h, "ready", last, h.upto, h.queue)
    BY <1>1, <1>6
  <2> QED
    BY <1>7, <2>1, ServedFields, SMTT(30)
<1>9. ServesOnly(h)
  BY <1>2, NobodyServed DEF FramesInv
<1>10. Known' /\ Kept
  BY <1>1, <1>2, <1>6, <1>8, <1>9, ServedKnown DEF HandlerKnown
<1>11. h.last <= last
  BY <1>1, <1>5 DEF Larger
<1>12. Current(h) =>
         /\ Rising(got'[h.client])
         /\ UpTo(got'[h.client], clients'[h.client].cursor)
         /\ UpTo(got[h.client], h.last)
  BY <1>1, <1>2 DEF FramesInv, Ordered
<1>13. UpTo(got[h.client], h.last) => UpTo(got'[h.client], new.last)
  <2>1. got[h.client] \in Seq(Nat \X Nat) /\ h.last \in Nat /\ h.last <= last
        /\ got' = got /\ new.last = last
    BY <1>1, <1>2, <1>8, <1>11
  <2> QED
    BY <2>1, UpToMore
<1>14. ASSUME Current(h), h.client \notin missed'
       PROVE  ClientWhole(h.client)' /\ HandlerWhole(new)'
  <2>1. ClientWhole(h.client) /\ HandlerWhole(h)
    BY <1>1, <1>2, <1>14 DEF FramesInv, Whole
  <2>2. h.last = clients[h.client].cursor /\ clients[h.client].gen = h.gen /\ h.upto = n
    BY <1>2, <1>4, <2>1 DEF HandlerWhole
  <2>3. h.last <= n
    BY <1>1, <1>4, <2>1, <2>2 DEF ClientWhole
  <2>4. last = h.last /\ last = n
    BY <1>1, <1>2, <1>5, <2>2, <2>3 DEF Larger
  <2>5. HandlerWhole(new)'
    BY <1>2, <1>4, <1>8, <2>2, <2>4 DEF HandlerWhole
  <2> QED
    BY <1>2, <2>1, <2>5 DEF ClientWhole
<1> QED
  BY <1>6, <1>8, <1>9, <1>10, <1>12, <1>13, <1>14, HandlerMoves

LEMMA ReadyFrames ==
  ASSUME Sizes, FramesInv, NEW h \in handlers, Ready(h)
  PROVE  (Known /\ Ordered /\ Early /\ Whole)'
<1>1. /\ h \in Handler /\ HandlerKnown(h) /\ h.client \in Clients /\ h.id \in Nat
      /\ h.last \in Nat /\ h.upto \in Nat /\ h.queue \in Seq(Nat) /\ h.gen \in Nat
      /\ got[h.client] \in Seq(Nat \X Nat) /\ clients[h.client].cursor \in Nat
  BY HandlerFields
<1>2. h.at = "ready" /\ UNCHANGED <<term, shells, got, missed, ops>>
  BY DEF Ready, server
<1>3. h.gen \in DOMAIN shells
  BY <1>1, <1>2 DEF HandlerKnown
<1>4. PICK n \in Nat : n = shells[h.gen].n
  BY <1>3, ShellFields
<1>5. PICK cursor \in Nat : cursor = Larger(clients[h.client].cursor, n)
  <2>1. Larger(clients[h.client].cursor, n) \in Nat
    BY <1>1 DEF Larger
  <2> QED
    BY <2>1
<1>6. PICK new : /\ new = Served(h, "subscribe", h.last, h.upto, h.queue)
                 /\ handlers' = (handlers \ {h}) \cup {new}
  BY <1>1 DEF Ready, Becomes, Served, Handler
<1>7. "subscribe" \in HandlerAt
  BY DEF HandlerAt
<1>8. /\ new \in Handler /\ new.id = h.id /\ new.client = h.client /\ new.gen = h.gen
      /\ new.at = "subscribe" /\ new.last = h.last /\ new.upto = h.upto /\ new.queue = h.queue
  <2>1. h \in Handler /\ h.upto \in Nat /\ h.queue \in Seq(Nat) /\ h.last \in Nat
        /\ new = Served(h, "subscribe", h.last, h.upto, h.queue)
    BY <1>1, <1>6
  <2> QED
    BY <1>7, <2>1, ServedFields, SMTT(30)
<1>9. clients' = IF Current(h) THEN [clients EXCEPT ![h.client].cursor = cursor] ELSE clients
  BY <1>4, <1>5 DEF Ready, Current
<1>10. clients \in [Clients -> [conn : Nat, cursor : Nat, gen : Nat]]
       /\ got \in [Clients -> Seq(Nat \X Nat)]
  BY DEF FramesInv, Known
<1>11. /\ clients' \in [Clients -> [conn : Nat, cursor : Nat, gen : Nat]]
       /\ \A c \in Clients : clients'[c].conn = clients[c].conn /\ clients'[c].gen = clients[c].gen
       /\ \A c \in Clients : ~ (c = h.client /\ Current(h)) => clients'[c] = clients[c]
       /\ Current(h) => clients'[h.client].cursor = cursor
  BY <1>1, <1>9, <1>10
<1>12. ServesOnly(h)
  BY <1>2, <1>10, <1>11 DEF ServesOnly
<1>13. Known' /\ Kept
  BY <1>1, <1>2, <1>6, <1>8, <1>12, ServedKnown DEF HandlerKnown
<1>14. clients[h.client].cursor <= cursor
  BY <1>1, <1>5 DEF Larger
<1>15. Rising(got[h.client]) /\ UpTo(got[h.client], clients[h.client].cursor)
       /\ (Current(h) => UpTo(got[h.client], h.last))
  BY <1>1 DEF FramesInv, Ordered
<1>16. UpTo(got[h.client], cursor)
  BY <1>1, <1>14, <1>15, UpToMore
<1>17. Current(h) =>
         /\ Rising(got'[h.client])
         /\ UpTo(got'[h.client], clients'[h.client].cursor)
         /\ UpTo(got'[h.client], new.last)
  BY <1>2, <1>8, <1>11, <1>15, <1>16
<1>18. ASSUME Current(h), h.client \notin missed'
       PROVE  ClientWhole(h.client)' /\ HandlerWhole(new)'
  <2>1. ClientWhole(h.client) /\ HandlerWhole(h)
    BY <1>1, <1>2, <1>18 DEF FramesInv, Whole
  <2>2. h.last = clients[h.client].cursor /\ clients[h.client].gen = h.gen /\ h.last = n
    BY <1>2, <1>4, <2>1 DEF HandlerWhole
  <2>3. cursor = h.last
    BY <1>5, <2>2 DEF Larger
  <2>4. clients'[h.client].cursor = clients[h.client].cursor
        /\ clients'[h.client].gen = clients[h.client].gen
    BY <1>1, <1>11, <1>18, <2>2, <2>3
  <2>5. HandlerWhole(new)'
    BY <1>2, <1>4, <1>8, <2>2, <2>4 DEF HandlerWhole
  <2> QED
    BY <1>2, <2>1, <2>4, <2>5 DEF ClientWhole
<1> QED
  BY <1>6, <1>8, <1>12, <1>13, <1>17, <1>18, HandlerMoves

LEMMA StreamFrameFrames ==
  ASSUME Sizes, FramesInv, NEW h \in handlers, StreamFrame(h)
  PROVE  (Known /\ Ordered /\ Early /\ Whole)'
<1>1. /\ h \in Handler /\ HandlerKnown(h) /\ h.client \in Clients /\ h.id \in Nat
      /\ h.last \in Nat /\ h.upto \in Nat /\ h.queue \in Seq(Nat) /\ h.gen \in Nat
  BY HandlerFields
<1>2. h.at = "stream" /\ h.queue # <<>> /\ UNCHANGED <<term, shells, ops, missed>>
  BY DEF StreamFrame, server
<1>3. h.gen \in DOMAIN shells
  BY <1>1, <1>2 DEF HandlerKnown
<1>4. PICK k \in Nat : k = Head(h.queue)
  <2>1. Head(h.queue) \in Nat
    BY <1>1, <1>2
  <2> QED
    BY <2>1
<1>5. PICK queue \in Seq(Nat) : queue = Tail(h.queue)
  <2>1. Tail(h.queue) \in Seq(Nat)
    BY <1>1, <1>2
  <2> QED
    BY <2>1
<1>6. /\ Len(h.queue) \in Nat /\ Len(h.queue) >= 1 /\ Len(queue) = Len(h.queue) - 1
      /\ DOMAIN queue = 1..Len(queue) /\ DOMAIN h.queue = 1..Len(h.queue)
      /\ (\A j \in DOMAIN queue : queue[j] = h.queue[j + 1])
      /\ k = h.queue[1]
  <2>1. h.queue \in Seq(Nat) /\ h.queue # <<>>
    BY <1>1, <1>2
  <2> QED
    BY <1>4, <1>5, <2>1
<1>7. PICK last \in Nat :
        /\ last = IF k > h.last THEN k ELSE h.last
        /\ IF k > h.last THEN Told(h, k) ELSE UNCHANGED <<clients, got>>
        /\ handlers' = (handlers \ {h}) \cup {Served(h, "stream", last, h.upto, queue)}
  <2>1. CASE k > h.last
    BY <1>1, <1>2, <1>4, <1>5, <2>1, ZenonT(60) DEF StreamFrame, Becomes, Served, Handler
  <2>2. CASE ~(k > h.last)
    <3>1. UNCHANGED <<clients, got>> /\ handlers' = (handlers \ {h}) \cup {[h EXCEPT !.queue = queue]}
      BY <1>4, <1>5, <2>2 DEF StreamFrame, Becomes
    <3>2. [h EXCEPT !.queue = queue] = Served(h, "stream", h.last, h.upto, queue)
      BY <1>1, <1>2 DEF Served, Handler
    <3> QED
      BY <1>1, <2>2, <3>1, <3>2
  <2> QED
    BY <2>1, <2>2
<1>8. PICK new : new = Served(h, "stream", last, h.upto, queue)
  OBVIOUS
<1>9. "stream" \in HandlerAt
  BY DEF HandlerAt
<1>10. /\ new \in Handler /\ new.id = h.id /\ new.client = h.client /\ new.gen = h.gen
       /\ new.at = "stream" /\ new.last = last /\ new.upto = h.upto /\ new.queue = queue
  <2>1. h \in Handler /\ h.upto \in Nat
    BY <1>1
  <2> QED
    BY <1>8, <1>9, <2>1, ServedFields, SMTT(30)
<1>11. handlers' = (handlers \ {h}) \cup {new}
  BY <1>7, <1>8
<1>12. /\ ServesOnly(h)
       /\ Current(h) =>
            /\ Rising(got'[h.client])
            /\ UpTo(got'[h.client], clients'[h.client].cursor)
            /\ UpTo(got'[h.client], new.last)
  <2>1. CASE k > h.last
    <3>1. h.last < k /\ Told(h, k) /\ new.last = k
      BY <1>1, <1>7, <1>10, <2>1
    <3> QED
      BY <1>2, <3>1, ToldClient
  <2>2. CASE ~(k > h.last)
    <3>1. UNCHANGED <<clients, got>> /\ new.last = h.last
      BY <1>7, <1>10, <2>2
    <3>2. ServesOnly(h)
      BY <1>2, <3>1, NobodyServed DEF FramesInv
    <3> QED
      BY <1>1, <3>1, <3>2 DEF FramesInv, Ordered
  <2> QED
    BY <2>1, <2>2
<1>13. Len(new.queue) <= SubBuffer
  <2>1. Len(h.queue) <= SubBuffer
    BY <1>1 DEF HandlerKnown
  <2> QED
    BY <1>6, <1>10, <2>1 DEF Sizes
<1>14. Known' /\ Kept
  BY <1>2, <1>10, <1>11, <1>12, <1>13, ServedKnown
<1>15. ASSUME Current(h), h.client \notin missed'
       PROVE  ClientWhole(h.client)' /\ HandlerWhole(new)'
  <2>1. ClientWhole(h.client) /\ HandlerWhole(h) /\ h.client \notin missed
    BY <1>1, <1>2, <1>15 DEF FramesInv, Whole
  <2>2. h.last = clients[h.client].cursor /\ clients[h.client].gen = h.gen /\ Following(h)
    BY <1>2, <2>1 DEF HandlerWhole
  <2>3. PICK n \in Nat : n = shells[h.gen].n
    BY <1>3, ShellFields
  <2>4. h.last + Len(h.queue) <= n /\ \A j \in DOMAIN h.queue : h.queue[j] = h.last + j
    BY <2>2, <2>3 DEF Following
  <2>5. k = h.last + 1
    <3>1. 1 \in DOMAIN h.queue
      BY <1>6
    <3> QED
      BY <1>6, <2>4, <3>1
  <2>6. last = h.last + 1 /\ Told(h, h.last + 1) /\ h.last + 1 <= n
    BY <1>1, <1>6, <1>7, <2>4, <2>5
  <2>7. /\ ClientWhole(h.client)'
        /\ clients'[h.client].cursor = h.last + 1
        /\ clients'[h.client].gen = h.gen
    BY <1>2, <1>3, <1>15, <2>1, <2>3, <2>6, ToldNext
  <2>8. last + Len(queue) = h.last + Len(h.queue)
    <3>1. h.last \in Nat /\ last = h.last + 1 /\ Len(h.queue) \in Nat /\ Len(queue) = Len(h.queue) - 1
      BY <1>1, <1>6, <2>6
    <3>2. \A a, m \in Nat : (a + 1) + (m - 1) = a + m
      OBVIOUS
    <3>3. last + Len(queue) = (h.last + 1) + (Len(h.queue) - 1)
      BY <3>1
    <3> QED
      BY <3>1, <3>2, <3>3, Zenon
  <2>9. \A j \in DOMAIN queue : queue[j] = last + j
    <3>1. TAKE j \in DOMAIN queue
    <3>2. j \in Nat /\ j + 1 \in DOMAIN h.queue /\ queue[j] = h.queue[j + 1]
      BY <1>6
    <3>3. h.last \in Nat /\ last = h.last + 1 /\ h.queue[j + 1] = h.last + (j + 1)
      BY <1>1, <2>4, <2>6, <3>2
    <3>4. \A a, m \in Nat : a + (m + 1) = (a + 1) + m
      OBVIOUS
    <3>5. queue[j] = h.last + (j + 1)
      BY <3>2, <3>3
    <3> QED
      BY <3>2, <3>3, <3>4, <3>5, Zenon
  <2>10. Following(new)'
    <3>1. Following(new)
      <4>1. Waiting(new.gen, new.id) = Waiting(h.gen, h.id)
            /\ Owes(new.gen, "reader", new.id) = Owes(h.gen, "reader", h.id)
            /\ Owes(new.gen, "waiter", new.id) = Owes(h.gen, "waiter", h.id)
        BY <1>10
      <4> QED
        BY <1>10, <2>2, <2>8, <2>9, <4>1 DEF Following
    <3> QED
      BY <1>2, <3>1 DEF Following, Waiting, Owes
  <2>11. HandlerWhole(new)'
    BY <1>10, <2>6, <2>7, <2>10 DEF HandlerWhole
  <2> QED
    BY <2>7, <2>11
<1> QED
  BY <1>10, <1>11, <1>12, <1>14, <1>15, HandlerMoves

-----------------------------------------------------------------------------
(* Steps in which a shell changes for one subscriber.                      *)

(* Nothing changes for the subscriber id.                                  *)
AlikeFor(id) ==
  \A g \in DOMAIN shells :
    /\ id \in shells'[g].subs <=> id \in shells[g].subs
    /\ \A who \in Appenders :
         /\ Owes(g, who, id)' <=> Owes(g, who, id)
         /\ Owes(g, who, id) => shells'[g][who].seq = shells[g][who].seq

SameLengths ==
  /\ DOMAIN shells' = DOMAIN shells
  /\ \A g \in DOMAIN shells : shells'[g].n = shells[g].n

LEMMA AlikeHandler ==
  ASSUME SameLengths, ops' = ops, NEW h, HandlerKnown(h), AlikeFor(h.id)
  PROVE  HandlerKnown(h)'
<1>1. Unsubscribed(h) => Unsubscribed(h)'
  BY DEF SameLengths, AlikeFor, Unsubscribed, Owes, Appenders
<1> QED
  BY <1>1 DEF HandlerKnown, SameLengths

LEMMA AlikeFollowing ==
  ASSUME SameLengths, NEW h, h.gen \in DOMAIN shells, Following(h), AlikeFor(h.id)
  PROVE  Following(h)'
<1>1. \A who \in Appenders :
        /\ Owes(h.gen, who, h.id)' <=> Owes(h.gen, who, h.id)
        /\ Owes(h.gen, who, h.id) => shells'[h.gen][who].seq = shells[h.gen][who].seq
  BY DEF AlikeFor
<1>2. Waiting(h.gen, h.id)' = Waiting(h.gen, h.id)
  BY <1>1 DEF Waiting
<1>3. "reader" \in Appenders /\ "waiter" \in Appenders
  BY DEF Appenders
<1>4. Owes(h.gen, "reader", h.id)' /\ Owes(h.gen, "waiter", h.id)' /\ h.id \in shells[h.gen].subs
        => shells'[h.gen].reader.seq # shells'[h.gen].waiter.seq
  BY <1>1, <1>3 DEF Following
<1>5. shells'[h.gen].n = shells[h.gen].n
      /\ (h.id \in shells'[h.gen].subs <=> h.id \in shells[h.gen].subs)
  BY DEF SameLengths, AlikeFor
<1> QED
  BY <1>2, <1>4, <1>5 DEF Following

LEMMA AlikeHandlerWhole ==
  ASSUME SameLengths, NEW h, HandlerKnown(h), HandlerWhole(h), AlikeFor(h.id),
         clients' = clients
  PROVE  HandlerWhole(h)'
<1>1. h.at \notin {"ensure", "start"} => h.gen \in DOMAIN shells /\ shells'[h.gen].n = shells[h.gen].n
  BY DEF HandlerKnown, SameLengths
<1>2. h.at = "stream" => Following(h)'
  BY <1>1, AlikeFollowing DEF HandlerWhole
<1> QED
  BY <1>1, <1>2 DEF HandlerWhole

(* Such a step keeps all when it keeps what is said of that subscriber,    *)
(* which may become new or be gone.                                        *)
LEMMA SubscriberMoves ==
  ASSUME FramesInv, NEW h \in handlers, SameLengths, \A g \in DOMAIN shells : ShellKnown(g)',
         Len(shells') = Len(shells), UNCHANGED <<term, clients, got, ops>>, missed \subseteq missed',
         \A i \in handlers : i # h => AlikeFor(i.id),
         NEW new, handlers' = handlers \ {h} \/ handlers' = (handlers \ {h}) \cup {new},
         new \in handlers' =>
           /\ new.id = h.id /\ new.client = h.client /\ new.last = h.last /\ new.at = "stream"
           /\ HandlerKnown(new)',
         new \in handlers' /\ Current(h) /\ h.client \notin missed' => HandlerWhole(new)'
  PROVE  (Known /\ Ordered /\ Early /\ Whole)'
<1>1. \A i \in handlers' : i # new => i \in handlers /\ i # h
  OBVIOUS
<1>2. \A i \in handlers' : HandlerKnown(i)'
  BY <1>1, AlikeHandler DEF FramesInv, Known
<1>3. Known'
  BY <1>2 DEF FramesInv, Known, SameLengths
<1>4. \A i : Current(i)' = Current(i)
  BY DEF Current
<1>5. new \in handlers' => Current(new) = Current(h)
  BY DEF Current
<1>6. Ordered'
  BY <1>1, <1>4, <1>5 DEF FramesInv, Ordered, Rising, UpTo
<1>7. Early'
  BY <1>1, <1>4, <1>5 DEF FramesInv, Early
<1>8. \A c \in Clients : c \notin missed' => ClientWhole(c)'
  BY DEF FramesInv, Whole, ClientWhole, SameLengths
<1>9. ASSUME NEW i \in handlers', Current(i)', i.client \notin missed' PROVE HandlerWhole(i)'
  <2>1. CASE i = new
    BY <1>4, <1>5, <1>9, <2>1
  <2>2. CASE i # new
    <3>1. i \in handlers /\ i # h /\ Current(i) /\ i.client \notin missed
      BY <1>1, <1>4, <1>9, <2>2
    <3>2. HandlerKnown(i) /\ HandlerWhole(i) /\ AlikeFor(i.id)
      BY <3>1 DEF FramesInv, Known, Whole
    <3> QED
      BY <3>2, AlikeHandlerWhole
  <2> QED
    BY <2>1, <2>2
<1>10. Whole'
  BY <1>8, <1>9 DEF Whole
<1> QED
  BY <1>3, <1>6, <1>7, <1>10

(* Only the subscribers of a shell change.                                 *)
LEMMA SubsChanged ==
  ASSUME FramesInv, NEW g \in DOMAIN shells, NEW subs \in SUBSET (1..ops),
         shells' = [shells EXCEPT ![g].subs = subs]
  PROVE  /\ DOMAIN shells' = DOMAIN shells /\ Len(shells') = Len(shells)
         /\ shells'[g].subs = subs
         /\ \A k \in DOMAIN shells :
              /\ shells'[k].n = shells[k].n /\ shells'[k].exit = shells[k].exit
              /\ shells'[k].reader = shells[k].reader /\ shells'[k].waiter = shells[k].waiter
              /\ k # g => shells'[k] = shells[k]
<1>1. shells \in Seq(Session) /\ shells[g] \in Session /\ ops \in Nat
  BY DEF FramesInv, TerminalInv, Typed
<1>2. PICK s : s = [shells[g] EXCEPT !.subs = subs]
  OBVIOUS
<1>3. s = [at |-> shells[g].at, n |-> shells[g].n, exit |-> shells[g].exit,
           reader |-> shells[g].reader, waiter |-> shells[g].waiter, subs |-> subs]
  BY <1>1, <1>2 DEF Session
<1>4. s \in Session
  BY <1>1, <1>3 DEF Session
<1>5. shells' = [shells EXCEPT ![g] = s]
  BY <1>2
<1>6. shells' \in Seq(Session) /\ DOMAIN shells' = DOMAIN shells
  BY <1>1, <1>4, <1>5, ChangedInPlace
<1>7. Len(shells') = Len(shells)
  BY <1>1, <1>6
<1>8. shells'[g] = s /\ \A k \in DOMAIN shells : k # g => shells'[k] = shells[k]
  BY <1>1, <1>5
<1>9. s.n = shells[g].n /\ s.exit = shells[g].exit /\ s.reader = shells[g].reader
      /\ s.waiter = shells[g].waiter /\ s.subs = subs
  BY <1>3
<1> QED
  BY <1>6, <1>7, <1>8, <1>9

LEMMA SubscribeFrames ==
  ASSUME Sizes, FramesInv, NEW h \in handlers, Subscribe(h)
  PROVE  (Known /\ Ordered /\ Early /\ Whole)'
<1>1. /\ h \in Handler /\ HandlerKnown(h) /\ h.client \in Clients /\ h.id \in Nat
      /\ h.last \in Nat /\ h.upto \in Nat /\ h.queue \in Seq(Nat) /\ h.gen \in Nat
  BY HandlerFields
<1>2. h.at = "subscribe" /\ UNCHANGED <<term, clients, got, missed, ops>>
  BY DEF Subscribe, received
<1>3. h.gen \in DOMAIN shells /\ h.id \in 1..ops /\ h.queue = <<>> /\ Unsubscribed(h)
      /\ Len(h.queue) <= SubBuffer
  BY <1>1, <1>2 DEF HandlerKnown
<1>4. PICK g \in DOMAIN shells : g = h.gen
  BY <1>3
<1>5. shells[g].subs \subseteq 1..ops
  BY ShellFields DEF ShellKnown
<1>6. PICK subs \in SUBSET (1..ops) : subs = shells[g].subs \cup {h.id}
  BY <1>3, <1>5
<1>7. shells' = [shells EXCEPT ![g].subs = subs]
  BY <1>4, <1>6 DEF Subscribe
<1>8. /\ DOMAIN shells' = DOMAIN shells /\ Len(shells') = Len(shells)
      /\ shells'[g].subs = subs
      /\ \A k \in DOMAIN shells :
           /\ shells'[k].n = shells[k].n /\ shells'[k].exit = shells[k].exit
           /\ shells'[k].reader = shells[k].reader /\ shells'[k].waiter = shells[k].waiter
           /\ k # g => shells'[k] = shells[k]
  BY <1>7, SubsChanged
<1>9. SameLengths
  BY <1>8 DEF SameLengths
<1>10. \A k \in DOMAIN shells : ShellKnown(k)'
  <2>1. TAKE k \in DOMAIN shells
  <2>2. ShellKnown(k) /\ shells'[k].subs \subseteq 1..ops
    BY <1>8, ShellFields DEF ShellKnown
  <2> QED
    BY <1>2, <1>8, <2>2 DEF ShellKnown
<1>11. \A i \in handlers : i # h => AlikeFor(i.id)
  <2>1. TAKE i \in handlers
  <2>2. i # h => i.id # h.id
    BY DEF FramesInv, Known
  <2> QED
    BY <1>6, <1>8, <2>2 DEF AlikeFor, Owes, Appenders
<1>12. PICK new : /\ new = Served(h, "stream", h.last, h.upto, h.queue)
                  /\ handlers' = (handlers \ {h}) \cup {new}
  BY <1>1 DEF Subscribe, Becomes, Served, Handler
<1>13. "stream" \in HandlerAt
  BY DEF HandlerAt
<1>14. /\ new \in Handler /\ new.id = h.id /\ new.client = h.client /\ new.gen = h.gen
       /\ new.at = "stream" /\ new.last = h.last /\ new.upto = h.upto /\ new.queue = h.queue
  <2>1. h \in Handler /\ h.upto \in Nat /\ h.queue \in Seq(Nat) /\ h.last \in Nat
        /\ new = Served(h, "stream", h.last, h.upto, h.queue)
    BY <1>1, <1>12
  <2> QED
    BY <1>13, <2>1, ServedFields, SMTT(30)
<1>15. HandlerKnown(new)'
  BY <1>2, <1>3, <1>8, <1>14 DEF HandlerKnown
<1>16. ASSUME Current(h), h.client \notin missed' PROVE HandlerWhole(new)'
  <2>1. HandlerWhole(h)
    BY <1>1, <1>2, <1>16 DEF FramesInv, Whole
  <2>2. h.last = clients[h.client].cursor /\ clients[h.client].gen = h.gen /\ h.last = shells[g].n
    BY <1>2, <1>4, <2>1 DEF HandlerWhole
  <2>3. ~Owes(g, "reader", h.id)' /\ ~Owes(g, "waiter", h.id)'
    BY <1>3, <1>8 DEF Unsubscribed, Owes
  <2>4. Waiting(g, h.id)' = {}
    BY <2>3 DEF Waiting, Appenders
  <2>5. Following(new)'
    <3>1. new.queue = <<>> /\ new.last + Len(new.queue) = shells'[g].n /\ shells'[g].n \in Nat
      BY <1>1, <1>3, <1>8, <1>14, <2>2
    <3>2. (new.last + Len(new.queue) + 1)..shells'[g].n = {}
      BY <3>1
    <3> QED
      BY <1>4, <1>14, <2>3, <2>4, <3>1, <3>2 DEF Following
  <2> QED
    BY <1>2, <1>14, <2>2, <2>5 DEF HandlerWhole
<1> QED
  BY <1>2, <1>8, <1>9, <1>10, <1>11, <1>12, <1>14, <1>15, <1>16, SubscriberMoves

LEMMA ReturnFrames ==
  ASSUME Sizes, FramesInv, NEW h \in handlers, Return(h)
  PROVE  (Known /\ Ordered /\ Early /\ Whole)'
<1>1. HandlerKnown(h) /\ h \in Handler /\ h.id \in Nat
  BY HandlerFields
<1>2. UNCHANGED <<term, clients, got, missed, ops>> /\ handlers' = handlers \ {h}
  BY DEF Return, received
<1>3. h.gen \in DOMAIN shells
  BY <1>1 DEF Return, HandlerKnown
<1>4. PICK g \in DOMAIN shells : g = h.gen
  BY <1>3
<1>5. shells[g].subs \subseteq 1..ops
  BY ShellFields DEF ShellKnown
<1>6. PICK subs \in SUBSET (1..ops) : subs = shells[g].subs \ {h.id}
  BY <1>5
<1>7. shells' = [shells EXCEPT ![g].subs = subs]
  BY <1>4, <1>6 DEF Return
<1>8. /\ DOMAIN shells' = DOMAIN shells /\ Len(shells') = Len(shells)
      /\ shells'[g].subs = subs
      /\ \A k \in DOMAIN shells :
           /\ shells'[k].n = shells[k].n /\ shells'[k].exit = shells[k].exit
           /\ shells'[k].reader = shells[k].reader /\ shells'[k].waiter = shells[k].waiter
           /\ k # g => shells'[k] = shells[k]
  BY <1>7, SubsChanged
<1>9. SameLengths
  BY <1>8 DEF SameLengths
<1>10. \A k \in DOMAIN shells : ShellKnown(k)'
  <2>1. TAKE k \in DOMAIN shells
  <2>2. ShellKnown(k) /\ shells'[k].subs \subseteq 1..ops
    BY <1>8, ShellFields DEF ShellKnown
  <2> QED
    BY <1>2, <1>8, <2>2 DEF ShellKnown
<1>11. \A i \in handlers : i # h => AlikeFor(i.id)
  <2>1. TAKE i \in handlers
  <2>2. i # h => i.id # h.id
    BY DEF FramesInv, Known
  <2> QED
    BY <1>6, <1>8, <2>2 DEF AlikeFor, Owes, Appenders
<1>12. h \notin handlers'
  BY <1>2
<1> QED
  BY <1>2, <1>8, <1>9, <1>10, <1>11, <1>12, SubscriberMoves

-----------------------------------------------------------------------------
(* The frames of a shell.                                                  *)

LEMMA ExitsFrames ==
  ASSUME Sizes, FramesInv, NEW g \in DOMAIN shells, Exits(g)
  PROVE  (Known /\ Ordered /\ Early /\ Whole)'
<1>1. shells \in Seq(Session) /\ shells[g] \in Session /\ term \in 0..Len(shells)
  BY DEF FramesInv, TerminalInv, Typed, Known
<1>2. shells' = [shells EXCEPT ![g].at = "exited"] /\ UNCHANGED <<term, handlers, clients, got, missed, ops>>
  BY DEF Exits, received
<1>3. DOMAIN shells' = DOMAIN shells /\ \A k \in DOMAIN shells : SameFrames(k)
  BY <1>1, <1>2 DEF SameFrames, Session
<1>4. Kept
  BY <1>3 DEF Kept
<1>5. Len(shells') = Len(shells)
  <2>1. PICK s : s = [shells[g] EXCEPT !.at = "exited"]
    OBVIOUS
  <2>2. "exited" \in ShellAt
    BY DEF ShellAt
  <2>3. s \in Session
    BY <1>1, <2>1, <2>2, AtChanged
  <2>4. shells' = [shells EXCEPT ![g] = s]
    BY <1>2, <2>1
  <2>5. shells' \in Seq(Session)
    BY <1>1, <2>3, <2>4, ChangedInPlace
  <2> QED
    BY <1>1, <1>3, <2>5
<1>6. term' \in 0..Len(shells') /\ handlers' \subseteq handlers
  BY <1>1, <1>2, <1>5
<1> QED
  BY <1>2, <1>3, <1>4, <1>6, HandlerGone

(* What the goroutine who appends to shell g, it sends to all subscribers. *)
Appended(g, who) ==
  /\ DOMAIN shells' = DOMAIN shells
  /\ Len(shells') = Len(shells)
  /\ \A k \in DOMAIN shells : k # g => shells'[k] = shells[k]
  /\ shells'[g].n = shells[g].n + 1
  /\ shells'[g].subs = shells[g].subs
  /\ shells[g][who].to = {}
  /\ shells'[g][who] = Sending(g)
  /\ \A other \in Appenders : other # who => shells'[g][other] = shells[g][other]

LEMMA AppendedFollowing ==
  ASSUME FramesInv, NEW g \in DOMAIN shells, NEW who \in Appenders, Appended(g, who),
         NEW h, h \in Handler, h.gen = g, Following(h)
  PROVE  Following(h)'
<1>1. h.last \in Nat /\ Len(h.queue) \in Nat /\ h.id \in Nat
  BY DEF Handler
<1>2. PICK n \in Nat : n = shells[g].n
  BY ShellFields
<1>3. PICK top \in Nat : top = h.last + Len(h.queue)
  BY <1>1
<1>4. top <= n /\ shells'[g].n = n + 1 /\ top <= n + 1
  BY <1>2, <1>3 DEF Following, Appended
<1>5. ASSUME h.id \in shells'[g].subs
      PROVE  /\ Waiting(g, h.id)' = (top + 1)..(n + 1)
             /\ Owes(g, "reader", h.id)' /\ Owes(g, "waiter", h.id)' =>
                  shells'[g].reader.seq # shells'[g].waiter.seq
  <2>1. h.id \in shells[g].subs /\ shells[g].subs # {}
    BY <1>5 DEF Appended
  <2>2. shells'[g][who] = [seq |-> n + 1, to |-> shells[g].subs]
    BY <1>2, <2>1 DEF Appended, Sending
  <2>3. Owes(g, who, h.id)' /\ shells'[g][who].seq = n + 1 /\ ~Owes(g, who, h.id)
    BY <2>1, <2>2 DEF Owes, Appended
  <2>4. \A other \in Appenders : other # who =>
          /\ Owes(g, other, h.id)' <=> Owes(g, other, h.id)
          /\ shells'[g][other].seq = shells[g][other].seq
    BY DEF Appended, Owes
  <2>5. Waiting(g, h.id) = (top + 1)..n
    BY <1>2, <1>3, <2>1 DEF Following
  <2>6. Waiting(g, h.id)' = Waiting(g, h.id) \cup {n + 1}
    BY <2>3, <2>4 DEF Waiting
  <2>7. (top + 1)..n \cup {n + 1} = (top + 1)..(n + 1)
    BY <1>4
  <2>8. \A other \in Appenders : Owes(g, other, h.id) => shells[g][other].seq \in (top + 1)..n
    BY <2>5 DEF Waiting
  <2>9. \A other \in Appenders : other # who /\ Owes(g, other, h.id)' => shells'[g][other].seq # n + 1
    <3>1. TAKE other \in Appenders
    <3>2. other # who /\ Owes(g, other, h.id)' => shells'[g][other].seq \in (top + 1)..n
      BY <2>4, <2>8
    <3>3. n + 1 \notin (top + 1)..n
      OBVIOUS
    <3> QED
      BY <3>2, <3>3
  <2> QED
    BY <2>3, <2>5, <2>6, <2>7, <2>9 DEF Appenders
<1> QED
  BY <1>3, <1>4, <1>5 DEF Following

LEMMA AppendFrames ==
  ASSUME FramesInv, NEW g \in DOMAIN shells, NEW who \in Appenders, Appended(g, who),
         ShellKnown(g)', Missing(g), UNCHANGED <<term, handlers, clients, got, ops>>
  PROVE  (Known /\ Ordered /\ Early /\ Whole)'
<1>1. \A k \in DOMAIN shells' : ShellKnown(k)'
  BY DEF FramesInv, Known, ShellKnown, Appended
<1>2. shells'[g][who].to = shells[g].subs
  <2>1. Sending(g).to = shells[g].subs
    BY DEF Sending, Idle
  <2> QED
    BY <2>1 DEF Appended
<1>3. ASSUME NEW i \in handlers PROVE HandlerKnown(i)'
  <2>1. HandlerKnown(i)
    BY DEF FramesInv, Known
  <2>2. Unsubscribed(i) => Unsubscribed(i)'
    <3>1. ASSUME Unsubscribed(i), NEW k \in DOMAIN shells'
          PROVE  i.id \notin shells'[k].subs \cup shells'[k].reader.to \cup shells'[k].waiter.to
      <4>1. i.id \notin shells[k].subs \cup shells[k].reader.to \cup shells[k].waiter.to
        BY <3>1 DEF Unsubscribed, Appended
      <4>2. CASE k # g
        BY <3>1, <4>1, <4>2 DEF Appended
      <4>3. CASE k = g
        BY <1>2, <4>1, <4>3 DEF Appended, Appenders
      <4> QED
        BY <4>2, <4>3
    <3> QED
      BY <3>1 DEF Unsubscribed
  <2> QED
    BY <2>1, <2>2 DEF HandlerKnown, Appended
<1>4. Known'
  BY <1>1, <1>3 DEF FramesInv, Known, Appended
<1>5. Ordered' /\ Early'
  BY DEF FramesInv, Ordered, Rising, UpTo, Early, Current
<1>6. missed \subseteq missed'
  BY DEF Missing
<1>7. ASSUME NEW c \in Clients, c \notin missed' PROVE ClientWhole(c)'
  <2>1. ClientWhole(c) /\ clients[c].cursor \in Nat
    BY <1>6, <1>7 DEF FramesInv, Known, Whole
  <2>2. clients[c].gen \in DOMAIN shells => shells[clients[c].gen].n \in Nat
    BY ShellFields
  <2>3. clients[c].gen \in DOMAIN shells /\ clients[c].cursor <= shells[clients[c].gen].n =>
          clients[c].gen \in DOMAIN shells' /\ clients[c].cursor <= shells'[clients[c].gen].n
    <3>1. CASE clients[c].gen # g
      BY <3>1 DEF Appended
    <3>2. CASE clients[c].gen = g
      BY <2>1, <2>2, <3>2 DEF Appended
    <3> QED
      BY <3>1, <3>2
  <2> QED
    BY <2>1, <2>3 DEF ClientWhole
<1>8. ASSUME NEW i \in handlers, Current(i), i.client \notin missed' PROVE HandlerWhole(i)'
  <2>1. HandlerKnown(i) /\ i \in Handler /\ HandlerWhole(i)
    BY <1>6, <1>8, HandlerFields DEF FramesInv, Whole
  <2>2. CASE i.gen # g
    <3>1. i.gen \in DOMAIN shells => shells'[i.gen] = shells[i.gen]
      BY <2>2 DEF Appended
    <3>2. i.at = "stream" => Following(i)'
      <4>1. i.at = "stream" => i.gen \in DOMAIN shells /\ Following(i)
        BY <2>1 DEF HandlerKnown, HandlerWhole
      <4>2. i.gen \in DOMAIN shells => Waiting(i.gen, i.id)' = Waiting(i.gen, i.id)
        BY <3>1 DEF Waiting, Owes
      <4> QED
        BY <3>1, <4>1, <4>2 DEF Following, Owes
    <3>3. i.at \notin {"ensure", "start"} => i.gen \in DOMAIN shells
      BY <2>1 DEF HandlerKnown
    <3> QED
      BY <2>1, <3>1, <3>2, <3>3 DEF HandlerWhole
  <2>3. CASE i.gen = g
    <3>1. i.at \notin {"replaying", "ready", "subscribe"}
      BY <1>8, <2>3 DEF Missing
    <3>2. i.at = "stream" => Following(i)'
      BY <2>1, <2>3, AppendedFollowing DEF HandlerWhole
    <3> QED
      BY <2>1, <3>1, <3>2 DEF HandlerWhole
  <2> QED
    BY <2>2, <2>3
<1>9. Whole'
  BY <1>7, <1>8 DEF Whole, Current
<1> QED
  BY <1>4, <1>5, <1>9

LEMMA ReadOutputFrames ==
  ASSUME Sizes, FramesInv, NEW g \in DOMAIN shells, ReadOutput(g)
  PROVE  (Known /\ Ordered /\ Early /\ Whole)'
<1>1. shells \in Seq(Session) /\ shells[g] \in Session /\ ShellKnown(g)
  BY ShellFields DEF FramesInv, TerminalInv, Typed
<1>2. PICK n \in Nat : n = shells[g].n + 1
  BY <1>1 DEF Session
<1>3. Sending(g) \in Appender
  BY <1>1 DEF Sending, Idle, Appender, Session
<1>4. PICK a \in Appender : a = Sending(g)
  BY <1>3
<1>5. PICK s : s = [shells[g] EXCEPT !.n = n, !.reader = a]
  OBVIOUS
<1>6. s = [at |-> shells[g].at, n |-> n, exit |-> shells[g].exit, reader |-> a,
           waiter |-> shells[g].waiter, subs |-> shells[g].subs]
  BY <1>1, <1>5 DEF Session
<1>7. s \in Session
  BY <1>1, <1>6 DEF Session
<1>8. shells' = [shells EXCEPT ![g] = s]
  BY <1>2, <1>4, <1>5 DEF ReadOutput
<1>9. shells' \in Seq(Session) /\ DOMAIN shells' = DOMAIN shells
  BY <1>1, <1>7, <1>8, ChangedInPlace
<1>10. Len(shells') = Len(shells) /\ shells'[g] = s
       /\ \A k \in DOMAIN shells : k # g => shells'[k] = shells[k]
  BY <1>1, <1>8, <1>9
<1>11. Appended(g, "reader")
  <2>1. shells[g].reader.to = {}
    BY DEF ReadOutput, Idle
  <2>2. s.n = shells[g].n + 1 /\ s.subs = shells[g].subs /\ s.reader = Sending(g)
        /\ s.waiter = shells[g].waiter
    BY <1>2, <1>4, <1>6
  <2> QED
    BY <1>9, <1>10, <2>1, <2>2 DEF Appended, Appenders
<1>12. ShellKnown(g)'
  <2>1. s.n = n /\ s.exit = shells[g].exit /\ s.waiter = shells[g].waiter /\ s.subs = shells[g].subs
        /\ s.reader.to = shells[g].subs
    BY <1>4, <1>6 DEF Sending, Idle
  <2>2. n <= MaxFrames /\ shells[g].exit \in 0..n
    <3>1. shells[g].n \in Nat /\ shells[g].n < MaxFrames /\ shells[g].exit \in 0..shells[g].n
      BY <1>1 DEF ReadOutput, ShellKnown, Session
    <3> QED
      BY <1>2, <3>1 DEF Sizes
  <2>3. ops' = ops
    BY DEF ReadOutput, received
  <2> QED
    BY <1>1, <1>10, <2>1, <2>2, <2>3 DEF ShellKnown, Sizes
<1>13. "reader" \in Appenders /\ Missing(g) /\ UNCHANGED <<term, handlers, clients, got, ops>>
  BY DEF ReadOutput, received, Appenders
<1> QED
  BY <1>11, <1>12, <1>13, AppendFrames

LEMMA AppendExitFrames ==
  ASSUME Sizes, FramesInv, NEW g \in DOMAIN shells, AppendExit(g)
  PROVE  (Known /\ Ordered /\ Early /\ Whole)'
<1>1. shells \in Seq(Session) /\ shells[g] \in Session /\ ShellKnown(g)
  BY ShellFields DEF FramesInv, TerminalInv, Typed
<1>2. PICK n \in Nat : n = shells[g].n + 1
  BY <1>1 DEF Session
<1>3. Sending(g) \in Appender
  BY <1>1 DEF Sending, Idle, Appender, Session
<1>4. PICK a \in Appender : a = Sending(g)
  BY <1>3
<1>5. PICK s : s = [shells[g] EXCEPT !.n = n, !.exit = n, !.waiter = a]
  OBVIOUS
<1>6. s = [at |-> shells[g].at, n |-> n, exit |-> n, reader |-> shells[g].reader,
           waiter |-> a, subs |-> shells[g].subs]
  BY <1>1, <1>5 DEF Session
<1>7. s \in Session
  BY <1>1, <1>6 DEF Session
<1>8. shells' = [shells EXCEPT ![g] = s]
  BY <1>2, <1>4, <1>5 DEF AppendExit
<1>9. shells' \in Seq(Session) /\ DOMAIN shells' = DOMAIN shells
  BY <1>1, <1>7, <1>8, ChangedInPlace
<1>10. Len(shells') = Len(shells) /\ shells'[g] = s
       /\ \A k \in DOMAIN shells : k # g => shells'[k] = shells[k]
  BY <1>1, <1>8, <1>9
<1>11. shells[g].exit = 0 /\ shells[g].waiter = Idle /\ shells[g].n <= MaxFrames
  BY <1>1 DEF AppendExit, ShellKnown
<1>12. Appended(g, "waiter")
  <2>1. shells[g].waiter.to = {}
    BY <1>11 DEF Idle
  <2>2. s.n = shells[g].n + 1 /\ s.subs = shells[g].subs /\ s.waiter = Sending(g)
        /\ s.reader = shells[g].reader
    BY <1>2, <1>4, <1>6
  <2> QED
    BY <1>9, <1>10, <2>1, <2>2 DEF Appended, Appenders
<1>13. ShellKnown(g)'
  <2>1. s.n = n /\ s.exit = n /\ s.reader = shells[g].reader /\ s.subs = shells[g].subs
        /\ s.waiter.to = shells[g].subs
    BY <1>4, <1>6 DEF Sending, Idle
  <2>2. n <= MaxFrames + 1 /\ n \in 0..n /\ n # 0
    <3>1. shells[g].n \in Nat
      BY <1>1 DEF Session
    <3> QED
      BY <1>2, <1>11, <3>1 DEF Sizes
  <2>3. ops' = ops
    BY DEF AppendExit, received
  <2> QED
    BY <1>1, <1>10, <2>1, <2>2, <2>3 DEF ShellKnown
<1>14. "waiter" \in Appenders /\ Missing(g) /\ UNCHANGED <<term, handlers, clients, got, ops>>
  BY DEF AppendExit, received, Appenders
<1> QED
  BY <1>12, <1>13, <1>14, AppendFrames

LEMMA PanicFrames ==
  ASSUME Sizes, FramesInv, NEW g \in DOMAIN shells, NEW who \in Appenders, Panic(g, who)
  PROVE  (Known /\ Ordered /\ Early /\ Whole)'
<1>1. shells \in Seq(Session)
  BY DEF FramesInv, TerminalInv, Typed
<1>2. shells' = [k \in DOMAIN shells |->
                   [shells[k] EXCEPT !.at = "discarded", !.reader = Idle, !.waiter = Idle,
                                     !.subs = {}]]
  BY DEF Panic
<1>3. term' = 0 /\ handlers' = {} /\ UNCHANGED <<clients, got, missed, ops>>
  BY DEF Panic, received
<1>4. ASSUME NEW k \in DOMAIN shells
      PROVE  /\ shells'[k].n = shells[k].n /\ shells'[k].exit = shells[k].exit
             /\ shells'[k].subs = {} /\ shells'[k].reader = Idle /\ shells'[k].waiter = Idle
  <2>1. shells[k] \in Session
    BY <1>1
  <2> QED
    BY <1>2, <2>1 DEF Session
<1>5. DOMAIN shells' = DOMAIN shells
  BY <1>2
<1>6. \A k \in DOMAIN shells' : ShellKnown(k)'
  BY <1>3, <1>4, <1>5, SMTT(30) DEF FramesInv, Known, ShellKnown, Idle
<1>7. 0 \in 0..Len(shells')
  <2>1. TerminalInv'
    BY ShellStep DEF ShellNext, FramesInv
  <2>2. Len(shells') \in Nat
    BY <2>1 DEF TerminalInv, Typed
  <2> QED
    BY <2>2
<1>8. Known'
  BY <1>3, <1>6, <1>7 DEF FramesInv, Known
<1>9. Ordered' /\ Early'
  BY <1>3 DEF FramesInv, Ordered, Rising, UpTo, Early
<1>10. Whole'
  BY <1>3, <1>4, <1>5 DEF FramesInv, Whole, ClientWhole
<1> QED
  BY <1>8, <1>9, <1>10

LEMMA SentFrame ==
  ASSUME NEW a \in Appender, NEW id, id \in a.to
  PROVE  /\ Sent(a, id) \in Appender
         /\ Sent(a, id).to = a.to \ {id}
         /\ \A other \in a.to : other # id => Sent(a, id).seq = a.seq
<1>1. CASE a.to = {id}
  BY <1>1 DEF Sent, Idle, Appender
<1>2. CASE a.to # {id}
  BY <1>2 DEF Sent, Appender
<1> QED
  BY <1>1, <1>2

(* What a send changes: the frame is not owed to h any more.               *)
LEMMA SendEffect ==
  ASSUME FramesInv, NEW g \in DOMAIN shells, NEW who \in Appenders, NEW h \in handlers,
         Send(g, who, h)
  PROVE  /\ SameLengths /\ Len(shells') = Len(shells)
         /\ UNCHANGED <<term, clients, got, ops>> /\ missed \subseteq missed'
         /\ h.gen = g /\ Owes(g, who, h.id) /\ h.id \in shells[g].subs
         /\ \A k \in DOMAIN shells : ShellKnown(k)'
         /\ \A i \in handlers : i # h => AlikeFor(i.id)
         /\ ~Owes(g, who, h.id)'
         /\ \A other \in Appenders : other # who => shells'[g][other] = shells[g][other]
         /\ IF Len(h.queue) < SubBuffer THEN shells'[g].subs = shells[g].subs
            ELSE shells'[g].subs = shells[g].subs \ {h.id}
<1>1. shells \in Seq(Session) /\ shells[g] \in Session /\ ShellKnown(g)
  BY ShellFields DEF FramesInv, TerminalInv, Typed
<1>2. shells[g][who] \in Appender /\ h.gen = g /\ h.id \in shells[g][who].to
      /\ h.id \in shells[g].subs
  BY <1>1 DEF Send, Session, Appenders
<1>3. UNCHANGED <<term, clients, got, ops>> /\ missed \subseteq missed'
  BY DEF Send, received
<1>4. PICK a : a = Sent(shells[g][who], h.id)
  OBVIOUS
<1>5. a \in Appender /\ a.to = shells[g][who].to \ {h.id}
      /\ \A other \in shells[g][who].to : other # h.id => a.seq = shells[g][who].seq
  BY <1>2, <1>4, SentFrame
<1>6. PICK subs : /\ subs = IF Len(h.queue) < SubBuffer THEN shells[g].subs
                             ELSE shells[g].subs \ {h.id}
                  /\ shells' = [shells EXCEPT ![g][who] = a, ![g].subs = subs]
  <2>1. CASE Len(h.queue) < SubBuffer
    <3>1. shells' = [shells EXCEPT ![g][who] = a]
      BY <1>4, <2>1 DEF Send
    <3>2. shells' = [shells EXCEPT ![g][who] = a, ![g].subs = shells[g].subs]
      BY <1>1, <3>1 DEF Session, Appenders
    <3> QED
      BY <2>1, <3>2
  <2>2. CASE ~(Len(h.queue) < SubBuffer)
    <3>1. shells' = [shells EXCEPT ![g][who] = a, ![g].subs = shells[g].subs \ {h.id}]
      BY <1>1, <1>4, <2>2 DEF Send, Session, Appenders
    <3> QED
      BY <2>2, <3>1
  <2> QED
    BY <2>1, <2>2
<1>7. subs \subseteq shells[g].subs /\ subs \in SUBSET Nat
      /\ \A id : id # h.id => (id \in subs <=> id \in shells[g].subs)
  BY <1>1, <1>6 DEF Session
<1>8. PICK s : s = [shells[g] EXCEPT ![who] = a, !.subs = subs]
  OBVIOUS
<1>9. /\ s \in Session /\ s.n = shells[g].n /\ s.exit = shells[g].exit /\ s.subs = subs
      /\ s[who] = a /\ \A other \in Appenders : other # who => s[other] = shells[g][other]
  <2>1. CASE who = "reader"
    <3>1. s = [at |-> shells[g].at, n |-> shells[g].n, exit |-> shells[g].exit, reader |-> a,
               waiter |-> shells[g].waiter, subs |-> subs]
      BY <1>1, <1>8, <2>1 DEF Session
    <3>2. s \in Session /\ s.n = shells[g].n /\ s.exit = shells[g].exit /\ s.subs = subs
          /\ s.reader = a /\ s.waiter = shells[g].waiter
      BY <1>1, <1>5, <1>7, <3>1 DEF Session
    <3> QED
      BY <2>1, <3>2 DEF Appenders
  <2>2. CASE who = "waiter"
    <3>1. s = [at |-> shells[g].at, n |-> shells[g].n, exit |-> shells[g].exit,
               reader |-> shells[g].reader, waiter |-> a, subs |-> subs]
      BY <1>1, <1>8, <2>2 DEF Session
    <3>2. s \in Session /\ s.n = shells[g].n /\ s.exit = shells[g].exit /\ s.subs = subs
          /\ s.waiter = a /\ s.reader = shells[g].reader
      BY <1>1, <1>5, <1>7, <3>1 DEF Session
    <3> QED
      BY <2>2, <3>2 DEF Appenders
  <2> QED
    BY <2>1, <2>2 DEF Appenders
<1>10. shells' = [shells EXCEPT ![g] = s]
  BY <1>1, <1>6, <1>8 DEF Session, Appenders
<1>11. shells' \in Seq(Session) /\ DOMAIN shells' = DOMAIN shells
  BY <1>1, <1>9, <1>10, ChangedInPlace
<1>12. Len(shells') = Len(shells) /\ shells'[g] = s
       /\ \A k \in DOMAIN shells : k # g => shells'[k] = shells[k]
  BY <1>1, <1>10, <1>11
<1>13. SameLengths
  BY <1>9, <1>11, <1>12 DEF SameLengths
<1>14. \A other \in Appenders : s[other].to \subseteq shells[g][other].to
  BY <1>5, <1>9
<1>15. ShellKnown(g)'
  <2>1. s.reader.to \subseteq shells[g].reader.to /\ s.waiter.to \subseteq shells[g].waiter.to
    BY <1>14 DEF Appenders
  <2>2. s.exit = 0 => s.waiter = Idle
    <3>1. shells[g].exit = 0 => shells[g].waiter = Idle /\ who = "reader"
      BY <1>1, <1>2 DEF ShellKnown, Idle, Appenders
    <3> QED
      BY <1>9, <3>1 DEF Appenders
  <2> QED
    BY <1>1, <1>3, <1>7, <1>9, <1>12, <2>1, <2>2 DEF ShellKnown
<1>16. \A k \in DOMAIN shells : ShellKnown(k)'
  <2>1. TAKE k \in DOMAIN shells
  <2>2. ShellKnown(k)
    BY ShellFields
  <2> QED
    BY <1>3, <1>12, <1>15, <2>2 DEF ShellKnown
<1>17. ASSUME NEW i \in handlers, i # h PROVE AlikeFor(i.id)
  <2>1. i.id # h.id
    BY <1>17 DEF FramesInv, Known
  <2>2. ASSUME NEW k \in DOMAIN shells, k # g
        PROVE  /\ i.id \in shells'[k].subs <=> i.id \in shells[k].subs
               /\ \A w \in Appenders :
                    /\ Owes(k, w, i.id)' <=> Owes(k, w, i.id)
                    /\ Owes(k, w, i.id) => shells'[k][w].seq = shells[k][w].seq
    BY <1>12, <2>2 DEF Owes
  <2>3. /\ i.id \in shells'[g].subs <=> i.id \in shells[g].subs
        /\ \A w \in Appenders :
             /\ Owes(g, w, i.id)' <=> Owes(g, w, i.id)
             /\ Owes(g, w, i.id) => shells'[g][w].seq = shells[g][w].seq
    <3>1. i.id \in shells'[g].subs <=> i.id \in shells[g].subs
      BY <1>7, <1>9, <1>12, <2>1
    <3>2. ASSUME NEW w \in Appenders
          PROVE  /\ Owes(g, w, i.id)' <=> Owes(g, w, i.id)
                 /\ Owes(g, w, i.id) => shells'[g][w].seq = shells[g][w].seq
      <4>1. CASE w = who
        BY <1>5, <1>9, <1>12, <2>1, <4>1 DEF Owes
      <4>2. CASE w # who
        BY <1>9, <1>12, <3>2, <4>2 DEF Owes
      <4> QED
        BY <4>1, <4>2
    <3> QED
      BY <3>1, <3>2
  <2> QED
    BY <2>2, <2>3 DEF AlikeFor
<1>18. ~Owes(g, who, h.id)'
  BY <1>5, <1>9, <1>12 DEF Owes
<1>19. /\ \A other \in Appenders : other # who => shells'[g][other] = shells[g][other]
       /\ IF Len(h.queue) < SubBuffer THEN shells'[g].subs = shells[g].subs
          ELSE shells'[g].subs = shells[g].subs \ {h.id}
  BY <1>6, <1>9, <1>12
<1> QED
  BY <1>2, <1>3, <1>12, <1>13, <1>16, <1>17, <1>18, <1>19 DEF Owes

(* The frame that is sent is the next one, or the client has missed one.   *)
LEMMA NextIsSent ==
  ASSUME FramesInv, NEW g \in DOMAIN shells, NEW who \in Appenders, NEW h \in handlers,
         Send(g, who, h), Len(h.queue) < SubBuffer, Following(h), h.client \notin missed'
  PROVE  LET top == h.last + Len(h.queue)
         IN /\ shells[g][who].seq = top + 1 /\ top + 1 <= shells[g].n
            /\ Waiting(g, h.id)' = (top + 2)..shells[g].n
<1>1. /\ h.gen = g /\ Owes(g, who, h.id) /\ h.id \in shells[g].subs
      /\ ~Owes(g, who, h.id)'
      /\ \A other \in Appenders : other # who => shells'[g][other] = shells[g][other]
  BY SendEffect
<1>2. PICK n \in Nat : n = shells[g].n
  BY ShellFields
<1>3. PICK top \in Nat : top = h.last + Len(h.queue)
  <2>1. h.last \in Nat /\ Len(h.queue) \in Nat
    BY HandlerFields
  <2> QED
    BY <2>1
<1>4. Waiting(g, h.id) = (top + 1)..n
  BY <1>1, <1>2, <1>3 DEF Following
<1>5. \A other \in Appenders : Owes(g, other, h.id) => shells[g][other].seq \in (top + 1)..n
  BY <1>4 DEF Waiting
<1>6. PICK seq \in Nat : seq = shells[g][who].seq
  BY <1>1, <1>5
<1>7. seq \in (top + 1)..n
  BY <1>1, <1>5, <1>6
<1>8. seq = top + 1
  <2>1. SUFFICES ASSUME seq # top + 1 PROVE FALSE
    OBVIOUS
  <2>2. top + 1 \in Waiting(g, h.id) /\ top + 1 < seq
    BY <1>4, <1>7, <2>1
  <2>3. PICK other \in Appenders : Owes(g, other, h.id) /\ shells[g][other].seq = top + 1
    BY <2>2 DEF Waiting
  <2>4. h.id \in shells[g][other].to /\ shells[g][other].seq < shells[g][who].seq
    BY <1>6, <2>2, <2>3 DEF Owes
  <2> QED
    BY <2>4 DEF Send
<1>9. \A other \in Appenders : other # who /\ Owes(g, other, h.id) => shells[g][other].seq # seq
  BY <1>1, <1>6 DEF Following, Appenders
<1>10. \A other \in Appenders : other # who =>
         (Owes(g, other, h.id)' <=> Owes(g, other, h.id))
  BY <1>1 DEF Owes
<1>11. Waiting(g, h.id)' = {shells[g][other].seq : other \in {w \in Appenders : w # who /\ Owes(g, w, h.id)}}
  BY <1>1, <1>10 DEF Waiting
<1>12. Waiting(g, h.id)' = Waiting(g, h.id) \ {seq}
  BY <1>6, <1>9, <1>11 DEF Waiting
<1>13. Waiting(g, h.id)' = (top + 2)..n
  BY <1>4, <1>8, <1>12
<1> QED
  BY <1>2, <1>3, <1>6, <1>7, <1>8, <1>13

LEMMA SendFrames ==
  ASSUME Sizes, FramesInv, NEW g \in DOMAIN shells, NEW who \in Appenders, NEW h \in handlers,
         Send(g, who, h)
  PROVE  (Known /\ Ordered /\ Early /\ Whole)'
<1>1. /\ SameLengths /\ Len(shells') = Len(shells)
      /\ UNCHANGED <<term, clients, got, ops>> /\ missed \subseteq missed'
      /\ h.gen = g /\ Owes(g, who, h.id) /\ h.id \in shells[g].subs
      /\ \A k \in DOMAIN shells : ShellKnown(k)'
      /\ \A i \in handlers : i # h => AlikeFor(i.id)
      /\ ~Owes(g, who, h.id)'
      /\ \A other \in Appenders : other # who => shells'[g][other] = shells[g][other]
  BY SendEffect
<1>2. /\ h \in Handler /\ HandlerKnown(h) /\ h.client \in Clients /\ h.id \in Nat
      /\ h.last \in Nat /\ h.upto \in Nat /\ h.queue \in Seq(Nat) /\ h.gen \in Nat
  BY HandlerFields
<1>3. h.at = "stream"
  BY <1>1, <1>2 DEF HandlerKnown, Unsubscribed
<1>4. PICK n \in Nat : n = shells[g].n
  BY ShellFields
<1>5. shells'[g].n = n
  BY <1>1, <1>4 DEF SameLengths
<1>6. PICK top \in Nat : top = h.last + Len(h.queue)
  <2>1. h.last + Len(h.queue) \in Nat
    BY <1>2
  <2> QED
    BY <2>1
<1>7. CASE Len(h.queue) < SubBuffer
  <2>1. PICK seq \in Nat : seq = shells[g][who].seq
    <3>1. shells[g][who] \in Appender
      BY ShellFields DEF Appenders
    <3> QED
      BY <3>1 DEF Appender
  <2>2. PICK queue \in Seq(Nat) : queue = Append(h.queue, seq)
    <3>1. Append(h.queue, seq) \in Seq(Nat)
      BY <1>2, <2>1
    <3> QED
      BY <3>1
  <2>3. /\ Len(queue) = Len(h.queue) + 1 /\ DOMAIN h.queue = 1..Len(h.queue)
        /\ DOMAIN queue = 1..(Len(h.queue) + 1) /\ Len(h.queue) \in Nat
        /\ (\A j \in DOMAIN h.queue : queue[j] = h.queue[j]) /\ queue[Len(h.queue) + 1] = seq
    <3>1. h.queue \in Seq(Nat)
      BY <1>2
    <3> QED
      BY <2>2, <3>1
  <2>4. PICK new : /\ new = Served(h, "stream", h.last, h.upto, queue)
                   /\ handlers' = (handlers \ {h}) \cup {new}
    <3>1. handlers' = (handlers \ {h}) \cup {[h EXCEPT !.queue = queue]}
      BY <1>7, <2>1, <2>2 DEF Send, Becomes
    <3>2. [h EXCEPT !.queue = queue] = Served(h, "stream", h.last, h.upto, queue)
      BY <1>2, <1>3 DEF Served, Handler
    <3> QED
      BY <3>1, <3>2
  <2>5. "stream" \in HandlerAt
    BY DEF HandlerAt
  <2>6. /\ new \in Handler /\ new.id = h.id /\ new.client = h.client /\ new.gen = h.gen
        /\ new.at = "stream" /\ new.last = h.last /\ new.upto = h.upto /\ new.queue = queue
    <3>1. h \in Handler /\ h.upto \in Nat /\ h.last \in Nat
          /\ new = Served(h, "stream", h.last, h.upto, queue)
      BY <1>2, <2>4
    <3> QED
      BY <2>5, <3>1, ServedFields, SMTT(30)
  <2>7. HandlerKnown(new)'
    <3>1. Len(queue) <= SubBuffer
      BY <1>7, <2>3 DEF Sizes
    <3> QED
      BY <1>1, <1>2, <2>6, <3>1 DEF HandlerKnown, SameLengths
  <2>8. ASSUME Current(h), h.client \notin missed' PROVE HandlerWhole(new)'
    <3>1. HandlerWhole(h)
      BY <1>1, <1>2, <2>8 DEF FramesInv, Whole
    <3>2. h.last = clients[h.client].cursor /\ clients[h.client].gen = h.gen /\ Following(h)
      BY <1>3, <3>1 DEF HandlerWhole
    <3>3. seq = top + 1 /\ top + 1 <= n /\ Waiting(g, h.id)' = (top + 2)..n
      BY <1>4, <1>6, <1>7, <2>1, <2>8, <3>2, NextIsSent
    <3>4. \A j \in DOMAIN h.queue : h.queue[j] = h.last + j
      BY <3>2 DEF Following
    <3>5. queue[Len(h.queue) + 1] = h.last + (Len(h.queue) + 1)
      BY <1>2, <1>6, <2>3, <3>3, SMTT(30)
    <3>6. \A j \in DOMAIN queue : queue[j] = h.last + j
      <4>1. TAKE j \in DOMAIN queue
      <4>2. j \in DOMAIN h.queue \/ j = Len(h.queue) + 1
        BY <2>3
      <4> QED
        BY <2>3, <3>4, <3>5, <4>2
    <3>7. h.last + Len(queue) = top + 1
      <4>1. h.last \in Nat /\ Len(h.queue) \in Nat
        BY <1>2
      <4>2. \A a, m \in Nat : a + (m + 1) = (a + m) + 1
        OBVIOUS
      <4>3. h.last + (Len(h.queue) + 1) = (h.last + Len(h.queue)) + 1
        BY <4>1, <4>2, Zenon
      <4> QED
        BY <1>6, <2>3, <4>3, Zenon
    <3>8. (top + 1) + 1 = top + 2
      OBVIOUS
    <3>9. ~(Owes(g, "reader", h.id)' /\ Owes(g, "waiter", h.id)')
      BY <1>1 DEF Appenders
    <3>10. Following(new)'
      BY <1>1, <1>5, <2>6, <3>3, <3>6, <3>7, <3>8, <3>9 DEF Following
    <3> QED
      BY <1>1, <2>6, <3>2, <3>10 DEF HandlerWhole
  <2> QED
    BY <1>1, <2>4, <2>6, <2>7, <2>8, SubscriberMoves
<1>8. CASE ~(Len(h.queue) < SubBuffer)
  <2>1. shells'[g].subs = shells[g].subs \ {h.id}
    BY <1>8, SendEffect
  <2>2. handlers' = (handlers \ {h}) \cup {h}
    BY <1>8 DEF Send
  <2>3. HandlerKnown(h)'
    BY <1>1, <1>2, <1>3 DEF HandlerKnown, SameLengths
  <2>4. ASSUME Current(h), h.client \notin missed' PROVE HandlerWhole(h)'
    <3>1. HandlerWhole(h)
      BY <1>1, <1>2, <2>4 DEF FramesInv, Whole
    <3>2. h.last = clients[h.client].cursor /\ clients[h.client].gen = h.gen /\ Following(h)
      BY <1>3, <3>1 DEF HandlerWhole
    <3>3. Following(h)'
      BY <1>1, <1>4, <1>5, <2>1, <3>2 DEF Following
    <3> QED
      BY <1>1, <1>3, <3>2, <3>3 DEF HandlerWhole
  <2> QED
    BY <1>1, <1>3, <2>2, <2>3, <2>4, SubscriberMoves
<1> QED
  BY <1>7, <1>8

-----------------------------------------------------------------------------
(* A client connects or leaves.                                            *)

LEMMA ConnectFrames ==
  ASSUME Sizes, FramesInv, NEW c \in Clients, Connect(c)
  PROVE  (Known /\ Ordered /\ Early /\ Whole)'
<1>1. ops \in Nat /\ ops' = ops + 1 /\ UNCHANGED <<term, shells, got, missed>>
      /\ clients' = [clients EXCEPT ![c].conn = ops + 1]
  BY DEF FramesInv, TerminalInv, Typed, Connect, Op, server
<1>2. clients \in [Clients -> [conn : Nat, cursor : Nat, gen : Nat]]
      /\ clients[c].cursor \in Nat /\ \A d \in Clients : clients[d].conn <= ops
  BY DEF FramesInv, Known
<1>3. /\ clients' \in [Clients -> [conn : Nat, cursor : Nat, gen : Nat]]
      /\ \A d \in Clients : d # c => clients'[d] = clients[d]
      /\ clients'[c].conn = ops + 1 /\ clients'[c].cursor = clients[c].cursor
      /\ clients'[c].gen = clients[c].gen
  BY <1>1, <1>2
<1>4. PICK new : new = NewHandler(ops + 1, c, clients[c].cursor)
  OBVIOUS
<1>5. /\ new.id = ops + 1 /\ new.client = c /\ new.at = "ensure" /\ new.queue = <<>>
      /\ new.last = clients[c].cursor
  BY <1>4 DEF NewHandler
<1>6. new \in Handler
  <2>1. "ensure" \in HandlerAt /\ <<>> \in Seq(Nat) /\ ops + 1 \in Nat
    BY <1>1 DEF HandlerAt
  <2> QED
    BY <1>2, <1>4, <2>1 DEF NewHandler, Handler
<1>7. handlers' = handlers \cup {new}
  BY <1>4 DEF Connect
<1>8. Kept
  BY <1>1, SameShellsKept
<1>9. \A g \in DOMAIN shells : shells[g].subs \cup shells[g].reader.to \cup shells[g].waiter.to
                                  \subseteq 1..ops
  BY ShellFields DEF ShellKnown
<1>10. HandlerKnown(new)'
  <2>1. ops + 1 \notin 1..ops /\ ops + 1 \in 1..ops'
    BY <1>1
  <2>2. Unsubscribed(new)'
    BY <1>1, <1>5, <1>9, <2>1 DEF Unsubscribed
  <2>3. Len(new.queue) <= SubBuffer
    BY <1>5 DEF Sizes
  <2> QED
    BY <1>5, <1>6, <2>1, <2>2, <2>3 DEF HandlerKnown
<1>11. \A i \in handlers : HandlerKnown(i) /\ i.id \in 1..ops /\ i.client \in Clients
  BY HandlerFields DEF HandlerKnown
<1>12. \A i \in handlers' : HandlerKnown(i)'
  BY <1>1, <1>7, <1>8, <1>10, <1>11, KeptHandler
<1>13. \A i, k \in handlers' : i.id = k.id => i = k
  <2>1. \A i \in handlers : i.id # new.id
    BY <1>1, <1>5, <1>11
  <2> QED
    BY <1>7, <2>1 DEF FramesInv, Known
<1>14. Known'
  <2>1. \A g \in DOMAIN shells' : ShellKnown(g)'
    BY <1>1, <1>8, KeptShells DEF FramesInv
  <2>2. \A d \in Clients : clients'[d].conn <= ops'
    BY <1>1, <1>2, <1>3
  <2>3. term' \in 0..Len(shells') /\ got' \in [Clients -> Seq(Nat \X Nat)]
    BY <1>1 DEF FramesInv, Known
  <2> QED
    BY <1>3, <1>12, <1>13, <2>1, <2>2, <2>3 DEF Known
<1>15. \A i \in handlers : Current(i)' => Current(i) /\ i.client # c
  <2>1. ASSUME NEW i \in handlers, Current(i)' PROVE Current(i) /\ i.client # c
    <3>1. i.id # ops + 1
      BY <1>1, <1>11
    <3>2. i.client # c
      BY <1>3, <2>1, <3>1 DEF Current
    <3> QED
      BY <1>3, <1>11, <2>1, <3>2 DEF Current
  <2> QED
    BY <2>1
<1>16. \A d \in Clients : clients'[d].cursor = clients[d].cursor /\ clients'[d].gen = clients[d].gen
  BY <1>3
<1>17. Ordered'
  <2>1. \A d \in Clients : Rising(got'[d]) /\ UpTo(got'[d], clients'[d].cursor)
    BY <1>1, <1>16 DEF FramesInv, Ordered
  <2>2. \A i \in handlers' : Current(i)' => UpTo(got'[i.client], i.last)
    <3>1. UpTo(got'[new.client], new.last)
      BY <1>1, <1>5 DEF FramesInv, Ordered
    <3> QED
      BY <1>1, <1>7, <1>15, <3>1 DEF FramesInv, Ordered
  <2> QED
    BY <2>1, <2>2 DEF Ordered
<1>18. Early'
  BY <1>5, <1>7, <1>11, <1>15, <1>16 DEF FramesInv, Early
<1>19. Whole'
  <2>1. \A d \in Clients : d \notin missed' => ClientWhole(d)'
    BY <1>1, <1>16 DEF FramesInv, Whole, ClientWhole
  <2>2. ASSUME NEW i \in handlers', Current(i)', i.client \notin missed' PROVE HandlerWhole(i)'
    <3>1. CASE i = new
      BY <1>3, <1>5, <3>1 DEF HandlerWhole
    <3>2. CASE i # new
      <4>1. i \in handlers /\ Current(i) /\ i.client # c /\ i.client \notin missed
        BY <1>1, <1>7, <1>15, <2>2, <3>2
      <4>2. HandlerKnown(i) /\ HandlerWhole(i) /\ clients'[i.client] = clients[i.client]
        BY <1>3, <1>11, <4>1 DEF FramesInv, Whole
      <4> QED
        BY <1>8, <4>2, KeptHandlerWhole
    <3> QED
      BY <3>1, <3>2
  <2> QED
    BY <2>1, <2>2 DEF Whole
<1> QED
  BY <1>14, <1>17, <1>18, <1>19

LEMMA LeaveFrames ==
  ASSUME Sizes, FramesInv, NEW c \in Clients, Leave(c)
  PROVE  (Known /\ Ordered /\ Early /\ Whole)'
<1>1. ops \in Nat /\ ops' \in {ops, ops + 1} /\ UNCHANGED <<term, shells, handlers, got, missed>>
      /\ clients' = [clients EXCEPT ![c].conn = 0]
  BY DEF FramesInv, TerminalInv, Typed, Leave, Op, server
<1>2. ops' \in Nat /\ ops <= ops'
  BY <1>1
<1>3. clients \in [Clients -> [conn : Nat, cursor : Nat, gen : Nat]]
      /\ \A d \in Clients : clients[d].conn <= ops
  BY DEF FramesInv, Known
<1>4. /\ clients' \in [Clients -> [conn : Nat, cursor : Nat, gen : Nat]]
      /\ \A d \in Clients : d # c => clients'[d] = clients[d]
      /\ clients'[c].conn = 0
      /\ \A d \in Clients : clients'[d].cursor = clients[d].cursor /\ clients'[d].gen = clients[d].gen
  BY <1>1, <1>3
<1>5. Kept
  BY <1>1, SameShellsKept
<1>6. \A i \in handlers : HandlerKnown(i) /\ i.id \in 1..ops /\ i.client \in Clients
  BY HandlerFields DEF HandlerKnown
<1>7. \A i \in handlers' : HandlerKnown(i)'
  BY <1>1, <1>2, <1>5, <1>6, KeptHandler
<1>8. Known'
  <2>1. \A g \in DOMAIN shells' : ShellKnown(g)'
    BY <1>1, <1>2, <1>5, KeptShells DEF FramesInv
  <2>2. \A d \in Clients : clients'[d].conn <= ops'
    <3>1. TAKE d \in Clients
    <3>2. clients[d].conn \in Nat /\ clients[d].conn <= ops
      BY <1>3
    <3>3. clients'[d].conn = 0 \/ clients'[d].conn = clients[d].conn
      BY <1>4
    <3> QED
      BY <1>1, <1>2, <3>2, <3>3
  <2> QED
    BY <1>1, <1>4, <1>7, <2>1, <2>2 DEF FramesInv, Known
<1>9. \A i \in handlers : Current(i)' => Current(i) /\ i.client # c
  <2>1. ASSUME NEW i \in handlers, Current(i)' PROVE Current(i) /\ i.client # c
    <3>1. i.id # 0
      BY <1>1, <1>6
    <3>2. i.client # c
      BY <1>4, <2>1, <3>1 DEF Current
    <3> QED
      BY <1>4, <1>6, <2>1, <3>2 DEF Current
  <2> QED
    BY <2>1
<1>10. Ordered' /\ Early'
  BY <1>1, <1>4, <1>6, <1>9 DEF FramesInv, Ordered, Rising, UpTo, Early
<1>11. \A d \in Clients : d \notin missed' => ClientWhole(d)'
  BY <1>1, <1>4 DEF FramesInv, Whole, ClientWhole
<1>12. ASSUME NEW i \in handlers', Current(i)', i.client \notin missed' PROVE HandlerWhole(i)'
  <2>1. i \in handlers /\ Current(i) /\ i.client # c /\ i.client \notin missed
    BY <1>1, <1>9, <1>12
  <2>2. HandlerKnown(i) /\ HandlerWhole(i) /\ clients'[i.client] = clients[i.client]
    BY <1>4, <1>6, <2>1 DEF FramesInv, Whole
  <2> QED
    BY <1>5, <2>2, KeptHandlerWhole
<1>13. Whole'
  BY <1>11, <1>12 DEF Whole
<1> QED
  BY <1>8, <1>10, <1>13

-----------------------------------------------------------------------------

LEMMA FramesInit ==
  ASSUME Sizes, Init
  PROVE  FramesInv
<1>1. TerminalInv
  BY DEF Init, TerminalInv, Typed, OneShell
<1>2. Known
  BY DEF Init, Known
<1>3. Ordered
  BY DEF Init, Ordered, Rising, UpTo
<1>4. Early
  BY DEF Init, Early
<1>5. Whole
  <2>1. ASSUME NEW c \in Clients PROVE ClientWhole(c)
    <3>1. got[c] = <<>> /\ clients[c].cursor = 0
      BY DEF Init
    <3>2. 1..0 = {}
      OBVIOUS
    <3>3. <<>> = [k \in {} |-> <<clients[c].gen, k>>]
      OBVIOUS
    <3> QED
      BY <3>1, <3>2, <3>3 DEF ClientWhole
  <2> QED
    BY <2>1 DEF Init, Whole
<1> QED
  BY <1>1, <1>2, <1>3, <1>4, <1>5 DEF FramesInv

LEMMA FramesStep ==
  ASSUME Sizes, FramesInv, [Next]_vars
  PROVE  FramesInv'
<1>1. TerminalInv'
  <2>1. TerminalInv
    BY DEF FramesInv
  <2>2. CASE Next
    BY <2>1, <2>2, EnsureStep, ServeStep, ShellStep, ClientStep DEF Next
  <2>3. CASE UNCHANGED vars
    BY <2>1, <2>3 DEF vars, TerminalInv, Typed, OneShell, Runs
  <2> QED
    BY <2>2, <2>3
<1>2. ASSUME NEW h \in handlers, Ensure(h) PROVE (Known /\ Ordered /\ Early /\ Whole)'
  BY <1>2, EnsureFrames
<1>3. ASSUME NEW h \in handlers, Serve(h) PROVE (Known /\ Ordered /\ Early /\ Whole)'
  BY <1>3, UpgradeFrames, ReplayFrames, ReplayFrameFrames, ReplayedFrames, ReadyFrames,
     SubscribeFrames, StreamFrameFrames, ReturnFrames DEF Serve
<1>4. ASSUME NEW g \in DOMAIN shells, ShellNext(g) PROVE (Known /\ Ordered /\ Early /\ Whole)'
  BY <1>4, ReadOutputFrames, ExitsFrames, AppendExitFrames, PanicFrames, SendFrames DEF ShellNext
<1>5. ASSUME NEW c \in Clients, Connect(c) \/ Leave(c)
      PROVE  (Known /\ Ordered /\ Early /\ Whole)'
  BY <1>5, ConnectFrames, LeaveFrames
<1>6. ASSUME UNCHANGED vars PROVE (Known /\ Ordered /\ Early /\ Whole)'
  <2>1. Known'
    BY <1>6 DEF vars, FramesInv, Known, ShellKnown, HandlerKnown, Unsubscribed
  <2>2. Ordered' /\ Early'
    BY <1>6 DEF vars, FramesInv, Ordered, Rising, UpTo, Early, Current
  <2>3. Whole'
    BY <1>6 DEF vars, FramesInv, Whole, ClientWhole, HandlerWhole, Following, Waiting, Owes, Current
  <2> QED
    BY <2>1, <2>2, <2>3
<1>7. (Known /\ Ordered /\ Early /\ Whole)'
  BY <1>2, <1>3, <1>4, <1>5, <1>6 DEF Next
<1> QED
  BY <1>1, <1>7 DEF FramesInv

(* The shells, their frames and the handlers are what they should be: a    *)
(* connection has a number of its own, a buffer is never over its size     *)
(* (appendFrame), a shell has its frames and one more for its exit.        *)
THEOREM TerminalTypeCorrect ==
  ASSUME FrameBacklog \in Nat, SubBuffer \in Nat, MaxFrames \in Nat
  PROVE  Spec => []TypeOK
<1>1. Sizes
  BY DEF Sizes
<1>2. Init => FramesInv
  BY <1>1, FramesInit
<1>3. FramesInv /\ [Next]_vars => FramesInv'
  BY <1>1, FramesStep
<1>4. FramesInv => TypeOK
  <2> SUFFICES ASSUME FramesInv PROVE TypeOK
    OBVIOUS
  <2>2. \A g \in DOMAIN shells : /\ shells[g].at \in ShellAt
                                 /\ shells[g].exit \in 0..shells[g].n
                                 /\ shells[g].n <= MaxFrames + 1
    <3>1. TAKE g \in DOMAIN shells
    <3>2. shells[g] \in Session /\ ShellKnown(g)
      BY ShellFields
    <3>3. shells[g].at \in ShellAt
      BY <3>2 DEF Session
    <3> QED
      BY <3>2, <3>3 DEF ShellKnown
  <2>3. term \in 0..Len(shells)
    BY DEF FramesInv, Known
  <2>4. \A h \in handlers : h.id \in 1..ops /\ Len(h.queue) <= SubBuffer
    BY DEF FramesInv, Known, HandlerKnown
  <2>5. \A h, i \in handlers : h.id = i.id => h = i
    BY DEF FramesInv, Known
  <2> QED
    BY <2>2, <2>3, <2>4, <2>5 DEF TypeOK
<1> QED
  BY <1>2, <1>3, <1>4, PTL DEF Spec

(* However shells start, write and end, connections come and go, buffers   *)
(* overflow, and the two goroutines of a shell overtake one another: a     *)
(* client receives the frames of a shell in order and none twice, and all  *)
(* of them unless one of the four races passed one over for it             *)
(* (handleProjectTerminalWS, appendFrame).                                 *)
THEOREM FramesReachClients ==
  ASSUME FrameBacklog \in Nat, SubBuffer \in Nat, MaxFrames \in Nat
  PROVE  Spec => []FramesFaithful
<1>1. Sizes
  BY DEF Sizes
<1>2. Init => FramesInv
  BY <1>1, FramesInit
<1>3. FramesInv /\ [Next]_vars => FramesInv'
  BY <1>1, FramesStep
<1>4. FramesInv => FramesFaithful
  BY DEF FramesInv, Ordered, Rising, Whole, ClientWhole, FramesFaithful
<1> QED
  BY <1>2, <1>3, <1>4, PTL DEF Spec
=============================================================================
