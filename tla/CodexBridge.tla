---------------------------- MODULE CodexBridge ----------------------------
(***************************************************************************)
(* The bridge to the codex app-server of one host                          *)
(* (internal/codexrpc/bridge.go): goroutines that connect it on demand and *)
(* send requests over it, the loops that read the answers and wait for the *)
(* process to end, the goroutine that reconnects, and Close.               *)
(*                                                                         *)
(* A connection is a started process, numbered by connID.  The lock of the *)
(* bridge protects its fields; starting, writing, killing and answering    *)
(* happen outside it, so a goroutine may find another connection, or none, *)
(* when it comes back.                                                     *)
(***************************************************************************)
EXTENDS Naturals, FiniteSets

CONSTANTS
  Callers,      (* goroutines in Call                                       *)
  Notifiers,    (* goroutines in Notify or Respond                          *)
  Loop,         (* the goroutine reconnectLoop                              *)
  MaxConns,     (* bound: processes started                                 *)
  MaxFaults     (* bound: faults of each kind                               *)

(* exit: a process ends or its output cannot be read any more; start: a    *)
(* process cannot be started; timeout: a request gets no answer in time;   *)
(* refuse: it gets an error as the answer.                                 *)
FaultKinds == {"exit", "start", "timeout", "refuse"}
Threads == Callers \cup Notifiers \cup {Loop}
Conns == 1..MaxConns

(* A request is its sender, which try of its call it is (0: initialize)    *)
(* and, for initialize, the connection it is about.                        *)
Requests == (Threads \X {0} \X Conns) \cup (Callers \X {1, 2} \X {0})

ASSUME BridgeAssumption ==
  /\ Loop \notin Callers \cup Notifiers
  /\ Callers \cap Notifiers = {}
  /\ MaxConns \in Nat
  /\ MaxFaults \in [FaultKinds -> Nat]

VARIABLES
  closed, connecting, reconnecting,
  conn,         (* connID; 0: proc is nil                                   *)
  lastConn,     (* nextConnID                                               *)
  process,      (* of each connection: none, running, exited                *)
  pending,      (* the requests in the map pending                          *)
  thread,       (* where each goroutine is: at, job, try, own, to           *)
  channel,      (* what is in the channel of each request                   *)
  inbox,        (* requests written to a process and not yet answered       *)
  outbox,       (* answers written by a process and not yet read            *)
  drop,         (* what remains to do after each lost connection            *)
  faults        (* ghost: faults so far                                     *)

bridgeVars  == <<closed, connecting, reconnecting, conn>>
processVars == <<lastConn, process, inbox, outbox>>
vars == <<bridgeVars, processVars, pending, thread, channel, drop, faults>>

Fault(kind) ==
  /\ faults[kind] < MaxFaults[kind]
  /\ faults' = [faults EXCEPT ![kind] = @ + 1]

-----------------------------------------------------------------------------
(* Helpers.                                                                *)

(* cond.Broadcast: the goroutines in cond.Wait look again.                 *)
Wake(threads) ==
  [t \in Threads |-> IF threads[t].at = "waiting" THEN [threads[t] EXCEPT !.at = "ensure"]
                     ELSE threads[t]]

(* ensureConnected returns nil.                                            *)
Connected(t) == IF t = Loop THEN "leaving" ELSE "register"

(* ensureConnected returns an error.                                       *)
NotConnected(t) == IF t = Loop THEN "backoff" ELSE "done"

Purpose(t) == IF t \in Callers THEN "call" ELSE "note"

(* The goroutine t goes on at another place, or returns from               *)
(* ensureConnected or from its call.                                       *)
Moved(t, at) == [thread EXCEPT ![t].at = at]

Returned(t, at) ==
  [thread EXCEPT ![t].at = at, ![t].job = Purpose(t), ![t].own = 0, ![t].to = 0]

Request(t) ==
  IF thread[t].job = "init" THEN <<t, 0, thread[t].own>> ELSE <<t, thread[t].try, 0>>

(* Mutation: those who wait for an answer are not told.                    *)
LostSilently(told) == [at |-> "kill", told |-> {}, loop |-> ~closed /\ ~reconnecting]

(* What remains to do after a connection is lost.                          *)
Lost(told) == [at |-> "kill", told |-> told, loop |-> ~closed /\ ~reconnecting]

(* handleProcessDrop up to the end of its critical section, called when    *)
(* the requests left are pending and the goroutines are at threads; only   *)
(* the first call for the current connection has an effect.                *)
HandleProcessDrop(c, left, threads) ==
  IF conn = c
  THEN /\ conn' = 0
       /\ pending' = {}
       /\ drop' = [drop EXCEPT ![c] = Lost(left)]
       /\ reconnecting' = (reconnecting \/ ~closed)
       /\ thread' = Wake(threads)
  ELSE pending' = left /\ thread' = threads /\ UNCHANGED <<conn, drop, reconnecting>>

(* The goroutine t after its call of handleProcessDrop for connection c.   *)
AfterDrop(t, c) ==
  [thread EXCEPT ![t].to = c, ![t].at = IF conn = c THEN "dropping" ELSE "failed"]

-----------------------------------------------------------------------------
(* Connecting: ensureConnected.                                            *)

Begin(t) ==
  /\ t # Loop
  /\ thread[t].at = "idle"
  /\ thread' = Moved(t, "ensure")
  /\ UNCHANGED <<bridgeVars, processVars, pending, channel, drop, faults>>

EnsureConnected(t) ==
  /\ thread[t].at = "ensure"
  /\ \/ closed /\ thread' = Returned(t, NotConnected(t)) /\ UNCHANGED connecting
     \/ ~closed /\ conn # 0 /\ thread' = Returned(t, Connected(t)) /\ UNCHANGED connecting
     \/ ~closed /\ conn = 0 /\ ~connecting /\ connecting' = TRUE /\ thread' = Moved(t, "starting")
     \/ ~closed /\ conn = 0 /\ connecting /\ thread' = Moved(t, "waiting") /\ UNCHANGED connecting
  /\ UNCHANGED <<closed, reconnecting, conn, processVars, pending, channel, drop, faults>>

StartProcess(t) ==
  /\ thread[t].at = "starting"
  /\ lastConn < MaxConns
  /\ lastConn' = lastConn + 1
  /\ process' = [process EXCEPT ![lastConn + 1] = "running"]
  /\ thread' = [thread EXCEPT ![t].at = "started", ![t].own = lastConn + 1]
  /\ UNCHANGED <<bridgeVars, inbox, outbox, pending, channel, drop, faults>>

(* startFn returns an error: finishConnect.                                *)
StartFails(t) ==
  /\ thread[t].at = "starting"
  /\ Fault("start")
  /\ connecting' = FALSE
  /\ thread' = Wake(Returned(t, NotConnected(t)))
  /\ UNCHANGED <<closed, reconnecting, conn, processVars, pending, channel, drop>>

(* Mutation: a bridge that has been closed is noticed, but the process     *)
(* just started is not killed.                                             *)
InstallOrAbandon(t) ==
  /\ \/ /\ closed
        /\ thread' = Wake(Returned(t, NotConnected(t)))
        /\ UNCHANGED conn
     \/ /\ ~closed
        /\ conn' = thread[t].own
        /\ thread' = Wake([thread EXCEPT ![t].at = "register", ![t].job = "init"])
  /\ UNCHANGED process

(* Mutation: the goroutines waiting for the connection are not woken.      *)
InstallSilently(t) ==
  \/ /\ closed
     /\ thread' = Returned(t, NotConnected(t))
     /\ process' = [process EXCEPT ![thread[t].own] = "exited"]
     /\ UNCHANGED conn
  \/ /\ ~closed
     /\ conn' = thread[t].own
     /\ thread' = [thread EXCEPT ![t].at = "register", ![t].job = "init"]
     /\ UNCHANGED process

(* The started process becomes the connection, or is killed when the       *)
(* bridge has been closed in the meantime.                                 *)
InstallOrKill(t) ==
  \/ /\ closed
     /\ thread' = Wake(Returned(t, NotConnected(t)))
     /\ process' = [process EXCEPT ![thread[t].own] = "exited"]
     /\ UNCHANGED conn
  \/ /\ ~closed
     /\ conn' = thread[t].own
     /\ thread' = Wake([thread EXCEPT ![t].at = "register", ![t].job = "init"])
     /\ UNCHANGED process

Install(t) ==
  /\ thread[t].at = "started"
  /\ InstallOrKill(t)
  /\ connecting' = FALSE
  /\ UNCHANGED <<closed, reconnecting, lastConn, inbox, outbox, pending, channel, drop, faults>>

-----------------------------------------------------------------------------
(* Sending: callConnected and notifyConnected, for the request of the      *)
(* goroutine ("call"), for its notification or response ("note"), and for  *)
(* the two messages of bootstrap ("init", "greet").                        *)

HasAnswer(t) == thread[t].job \in {"init", "call"}

(* Mutation: whether there is a process is not looked at.                  *)
RegisterAnyway(t) ==
  /\ thread[t].at = "register"
  /\ ~closed
  /\ thread' = [thread EXCEPT ![t].at = "write", ![t].to = conn]
  /\ pending' = IF HasAnswer(t) THEN pending \cup {Request(t)} ELSE pending
  /\ UNCHANGED <<bridgeVars, processVars, channel, drop, faults>>

(* registerPending or currentProcess: the connection may not be the one    *)
(* ensureConnected saw, or bootstrap started.                              *)
Register(t) ==
  /\ thread[t].at = "register"
  /\ \/ /\ conn # 0
        /\ thread' = [thread EXCEPT ![t].at = "write", ![t].to = conn]
        /\ pending' = IF HasAnswer(t) THEN pending \cup {Request(t)} ELSE pending
     \/ /\ conn = 0
        /\ thread' = IF closed /\ thread[t].job = "call" THEN Returned(t, "done")
                     ELSE Moved(t, "failed")
        /\ UNCHANGED pending
  /\ UNCHANGED <<bridgeVars, processVars, channel, drop, faults>>

(* writeLine: a line is lost when the process ends before it reads it.     *)
Write(t) ==
  /\ thread[t].at = "write"
  /\ process[thread[t].to] = "running"
  /\ inbox' = IF HasAnswer(t) THEN inbox \cup {<<thread[t].to, Request(t)>>} ELSE inbox
  /\ thread' = CASE HasAnswer(t) -> Moved(t, "wait")
                 [] thread[t].job = "greet" -> Returned(t, Connected(t))
                 [] thread[t].job = "note" -> Returned(t, "done")
  /\ UNCHANGED <<bridgeVars, lastConn, process, outbox, pending, channel, drop, faults>>

WriteFails(t) ==
  /\ thread[t].at = "write"
  /\ process[thread[t].to] = "exited"
  /\ HandleProcessDrop(thread[t].to, pending \ {Request(t)}, AfterDrop(t, thread[t].to))
  /\ UNCHANGED <<closed, connecting, processVars, channel, faults>>

(* The answer is in the channel: bootstrap goes on with "initialized", a   *)
(* call returns; an error fails the try.                                   *)
Receive(t) ==
  /\ thread[t].at = "wait"
  /\ channel[Request(t)] # "none"
  /\ thread' = IF channel[Request(t)] # "ok" THEN Moved(t, "failed")
               ELSE IF thread[t].job = "init"
               THEN [thread EXCEPT ![t].at = "register", ![t].job = "greet"]
               ELSE Returned(t, "done")
  /\ UNCHANGED <<bridgeVars, processVars, pending, channel, drop, faults>>

(* The context of the request is done: unregisterPending; a call returns.  *)
TimeOut(t) ==
  /\ thread[t].at = "wait"
  /\ pending' = pending \ {Request(t)}
  /\ Fault("timeout")
  /\ thread' = IF thread[t].job = "init" THEN Moved(t, "failed") ELSE Returned(t, "done")
  /\ UNCHANGED <<bridgeVars, processVars, channel, drop>>

(* handleProcessDrop returns when the process is dead and everybody told.  *)
Dropped(t) ==
  /\ thread[t].at = "dropping"
  /\ drop[thread[t].to].at = "done"
  /\ thread' = Moved(t, "failed")
  /\ UNCHANGED <<bridgeVars, processVars, pending, channel, drop, faults>>

(* bootstrap has failed: ensureConnected drops the connection it made.     *)
BootstrapFails(t) ==
  /\ thread[t].at = "failed"
  /\ thread[t].job \in {"init", "greet"}
  /\ HandleProcessDrop(thread[t].own, pending, [AfterDrop(t, thread[t].own) EXCEPT ![t].job = "drop"])
  /\ UNCHANGED <<closed, connecting, processVars, channel, faults>>

ConnectFails(t) ==
  /\ thread[t].at = "failed"
  /\ thread[t].job = "drop"
  /\ thread' = Returned(t, NotConnected(t))
  /\ UNCHANGED <<bridgeVars, processVars, pending, channel, drop, faults>>

(* Call makes a second try after any error other than a closed bridge or   *)
(* the end of its context.                                                 *)
TryFails(t) ==
  /\ thread[t].at = "failed"
  /\ thread[t].job \in {"call", "note"}
  /\ thread' = IF thread[t].job = "call" /\ thread[t].try = 1
               THEN [Returned(t, "ensure") EXCEPT ![t].try = 2]
               ELSE Returned(t, "done")
  /\ UNCHANGED <<bridgeVars, processVars, pending, channel, drop, faults>>

-----------------------------------------------------------------------------
(* The processes and the loops that belong to a connection.                *)

(* The app-server answers the requests it has read, in any order.          *)
Answer(c, request) ==
  /\ process[c] = "running"
  /\ <<c, request>> \in inbox
  /\ inbox' = inbox \ {<<c, request>>}
  /\ \/ outbox' = outbox \cup {<<request, "ok">>} /\ UNCHANGED faults
     \/ outbox' = outbox \cup {<<request, "error">>} /\ Fault("refuse")
  /\ UNCHANGED <<bridgeVars, lastConn, process, pending, thread, channel, drop>>

(* dispatchEnvelope: an answer nobody waits for is ignored.                *)
Dispatch(request, answer) ==
  /\ <<request, answer>> \in outbox
  /\ outbox' = outbox \ {<<request, answer>>}
  /\ pending' = pending \ {request}
  /\ channel' = IF request \in pending THEN [channel EXCEPT ![request] = answer] ELSE channel
  /\ UNCHANGED <<bridgeVars, lastConn, process, inbox, thread, drop, faults>>

(* The process ends; the requests it has not read are lost.                *)
Ends(c) ==
  /\ process' = [process EXCEPT ![c] = "exited"]
  /\ inbox' = {line \in inbox : line[1] # c}

Exit(c) ==
  /\ process[c] = "running"
  /\ Fault("exit")
  /\ Ends(c)
  /\ UNCHANGED <<bridgeVars, lastConn, outbox, pending, thread, channel, drop>>

(* waitLoop; its call for a connection that is not the current one any     *)
(* more has no effect.                                                     *)
WaitLoop(c) ==
  /\ conn = c
  /\ process[c] = "exited"
  /\ HandleProcessDrop(c, pending, thread)
  /\ UNCHANGED <<closed, connecting, processVars, channel, faults>>

(* readLoop or stderrDrainLoop fail while the process runs (a line is too  *)
(* long).                                                                  *)
ReadFails(c) ==
  /\ conn = c
  /\ process[c] = "running"
  /\ Fault("exit")
  /\ HandleProcessDrop(c, pending, thread)
  /\ UNCHANGED <<closed, connecting, processVars, channel>>

(* The rest of handleProcessDrop: proc.Close, then the pending requests    *)
(* one by one, then the goroutine that reconnects.  Close does the first   *)
(* two in the other order.                                                 *)
Kill(c) ==
  /\ drop[c].at \in {"kill", "closeKill"}
  /\ Ends(c)
  /\ drop' = [drop EXCEPT ![c].at = IF @ = "kill" THEN "tell" ELSE "done"]
  /\ UNCHANGED <<bridgeVars, lastConn, outbox, pending, thread, channel, faults>>

Tell(c) ==
  /\ drop[c].at \in {"tell", "closeTell"}
  /\ \E request \in drop[c].told :
       /\ channel' = [channel EXCEPT ![request] = IF @ = "none" THEN "dropped" ELSE @]
       /\ drop' = [drop EXCEPT ![c].told = @ \ {request}]
  /\ UNCHANGED <<bridgeVars, processVars, pending, thread, faults>>

EndDrop(c) ==
  /\ drop[c].at \in {"tell", "closeTell"}
  /\ drop[c].told = {}
  /\ drop' = [drop EXCEPT ![c].at = IF @ = "tell" THEN "done" ELSE "closeKill"]
  /\ thread' = IF drop[c].loop THEN Moved(Loop, "check") ELSE thread
  /\ UNCHANGED <<bridgeVars, processVars, pending, channel, faults>>

-----------------------------------------------------------------------------
(* reconnectLoop and Close.                                                *)

Check ==
  /\ thread[Loop].at = "check"
  /\ thread' = Moved(Loop, IF closed \/ conn # 0 THEN "leaving" ELSE "ensure")
  /\ UNCHANGED <<bridgeVars, processVars, pending, channel, drop, faults>>

BackedOff ==
  /\ thread[Loop].at = "backoff"
  /\ thread' = Moved(Loop, "check")
  /\ UNCHANGED <<bridgeVars, processVars, pending, channel, drop, faults>>

(* The deferred function: the loop has already decided to end.             *)
Leave ==
  /\ thread[Loop].at = "leaving"
  /\ reconnecting' = FALSE
  /\ thread' = Moved(Loop, "idle")
  /\ UNCHANGED <<closed, connecting, conn, processVars, pending, channel, drop, faults>>

(* Mutation: the map of pending requests is not replaced.                  *)
CloseKeepingPending ==
  /\ ~closed
  /\ closed' = TRUE
  /\ conn' = 0
  /\ thread' = Wake(thread)
  /\ drop' = IF conn = 0 THEN drop
             ELSE [drop EXCEPT ![conn] = [at |-> "closeTell", told |-> pending, loop |-> FALSE]]
  /\ UNCHANGED <<connecting, reconnecting, processVars, pending, channel, faults>>

Close ==
  /\ ~closed
  /\ closed' = TRUE
  /\ conn' = 0
  /\ pending' = {}
  /\ thread' = Wake(thread)
  /\ drop' = IF conn = 0 THEN drop
             ELSE [drop EXCEPT ![conn] = [at |-> "closeTell", told |-> pending, loop |-> FALSE]]
  /\ UNCHANGED <<connecting, reconnecting, processVars, channel, faults>>

-----------------------------------------------------------------------------
Init ==
  /\ closed = FALSE
  /\ connecting = FALSE
  /\ reconnecting = FALSE
  /\ conn = 0
  /\ lastConn = 0
  /\ process = [c \in Conns |-> "none"]
  /\ pending = {}
  /\ thread = [t \in Threads |-> [at |-> "idle", job |-> Purpose(t), try |-> 1, own |-> 0, to |-> 0]]
  /\ channel = [r \in Requests |-> "none"]
  /\ inbox = {}
  /\ outbox = {}
  /\ drop = [c \in Conns |-> [at |-> "none", told |-> {}, loop |-> FALSE]]
  /\ faults = [k \in FaultKinds |-> 0]

Connect(t) ==
  \/ EnsureConnected(t)
  \/ StartProcess(t)
  \/ StartFails(t)
  \/ Install(t)

Send(t) ==
  \/ Register(t)
  \/ Write(t)
  \/ WriteFails(t)
  \/ Receive(t)
  \/ TimeOut(t)
  \/ Dropped(t)
  \/ BootstrapFails(t)
  \/ ConnectFails(t)
  \/ TryFails(t)

Reconnect == Check \/ BackedOff \/ Leave

Clear(c) == WaitLoop(c) \/ Kill(c) \/ Tell(c) \/ EndDrop(c)

Read ==
  \/ \E c \in Conns, request \in Requests : Answer(c, request)
  \/ \E request \in Requests, answer \in {"ok", "error"} : Dispatch(request, answer)

Next ==
  \/ \E t \in Threads : Begin(t) \/ Connect(t) \/ Send(t)
  \/ Read
  \/ \E c \in Conns : Clear(c) \/ Exit(c) \/ ReadFails(c)
  \/ Reconnect
  \/ Close

Spec == Init /\ [][Next]_vars

(* Goroutines that can run do, a running app-server answers and its output *)
(* is read.  Nothing obliges anybody to call or to close the bridge.       *)
Fairness ==
  /\ \A t \in Threads : WF_vars(Connect(t) \/ Send(t))
  /\ \A c \in Conns : WF_vars(Clear(c))
  /\ WF_vars(Read)
  /\ WF_vars(Reconnect)

FairSpec == Spec /\ Fairness

-----------------------------------------------------------------------------
(* Properties.                                                             *)

ThreadAt ==
  {"idle", "ensure", "waiting", "starting", "started", "register", "write", "wait", "dropping",
   "failed", "done", "check", "backoff", "leaving"}

(* Each field of the bridge, each goroutine and each channel is in a state *)
(* of the code; whoever is connected, sending or being told has a real     *)
(* number for it.                                                          *)
TypeOK ==
  /\ closed \in BOOLEAN /\ connecting \in BOOLEAN /\ reconnecting \in BOOLEAN
  /\ lastConn \in 0..MaxConns
  /\ conn \in 0..lastConn
  /\ process \in [Conns -> {"none", "running", "exited"}]
  /\ pending \subseteq Requests
  /\ thread \in [Threads -> [at : ThreadAt, job : {"init", "greet", "call", "note", "drop"},
                             try : {1, 2}, own : 0..lastConn, to : 0..lastConn]]
  /\ \A t \in Threads :
       /\ thread[t].at \in {"write", "wait", "dropping"} => thread[t].to # 0
       /\ thread[t].at = "started" \/ thread[t].job \in {"init", "greet"} => thread[t].own # 0
       /\ thread[t].job = "call" => t \in Callers
  /\ channel \in [Requests -> {"none", "ok", "error", "dropped"}]
  /\ inbox \subseteq Conns \X Requests
  /\ outbox \subseteq Requests \X {"ok", "error"}
  /\ drop \in [Conns -> [at : {"none", "kill", "tell", "closeTell", "closeKill", "done"},
                         told : SUBSET Requests, loop : BOOLEAN]]
  /\ faults \in [FaultKinds -> Nat]

(* A pending request belongs to a goroutine that still waits for it and    *)
(* was registered with the connection the bridge has now: an answer is     *)
(* never looked up for a connection that is gone.                          *)
PendingCurrent ==
  \A r \in pending : /\ thread[r[1]].at \in {"write", "wait"}
                     /\ Request(r[1]) = r
                     /\ thread[r[1]].to = conn

(* Whoever waits for an answer can still get one: its request is pending,  *)
(* its channel is filled, or somebody is about to tell it that the         *)
(* connection is lost.                                                     *)
NobodyForgotten ==
  \A t \in Threads :
    thread[t].at = "wait" => \/ Request(t) \in pending
                             \/ channel[Request(t)] # "none"
                             \/ \E c \in Conns : Request(t) \in drop[c].told

(* At most one app-server runs on the host, and it is known to the bridge  *)
(* or to somebody about to install or to kill it, also when the bridge is  *)
(* closed while it connects.                                               *)
OneProcess ==
  LET Doomed(c) == drop[c].at \in {"kill", "closeTell", "closeKill"}
      Live == {c \in Conns : process[c] = "running" /\ ~Doomed(c)}
  IN /\ \A c \in Live : conn = c \/ \E t \in Threads : thread[t].at = "started" /\ thread[t].own = c
     /\ \A c, d \in Live : c = d

(* At most one goroutine reconnects: none is running when one is started.  *)
OneLoop ==
  \A c \in Conns :
    drop[c].loop /\ drop[c].at \in {"kill", "tell"} =>
      /\ reconnecting
      /\ thread[Loop].at = "idle"
      /\ \A d \in Conns : drop[d].loop /\ drop[d].at \in {"kill", "tell"} => d = c

(* The bridge never has two processes of codex, nor two goroutines that    *)
(* would start one.                                                        *)
OneAtATime == OneProcess /\ OneLoop

(* Once a lost connection has been dealt with, a goroutine is reconnecting *)
(* or has.                                                                 *)
Reconnecting ==
  /\ \E c \in Conns : drop[c].at = "done"
  /\ \A c \in Conns : drop[c].at \in {"none", "done"}
  /\ conn = 0
  /\ ~closed
  => connecting \/ thread[Loop].at \notin {"idle", "leaving"}

(* Every call and every notification returns, whatever happens to the      *)
(* connections meanwhile.                                                  *)
CallsReturn ==
  \A t \in Callers \cup Notifiers : thread[t].at = "ensure" ~> thread[t].at = "done"
=============================================================================
