---------------------------- MODULE CodexSession ----------------------------
(***************************************************************************)
(* What the server keeps of one codex session                              *)
(* (internal/api/codex_v2.go): the subscription to the bridge of its host, *)
(* the goroutines that store what the app-server reports, the pending      *)
(* server requests, the session's record, and the HTTP handlers that start *)
(* a turn, rename the session and answer a request.                        *)
(*                                                                         *)
(* The app-server writes one stream of lines; the bridge sorts them into   *)
(* two channels, notifications and server requests, each read by a         *)
(* goroutine of its own, so the order between the two is lost.  A          *)
(* subscription whose channel is full is closed by the bridge and replaced *)
(* by the goroutine that notices first.                                    *)
(***************************************************************************)
EXTENDS Naturals, Sequences, FiniteSets

CONSTANTS
  Requests,     (* server requests, by id                                   *)
  MaxTurns,     (* bound: turns                                             *)
  Clients,      (* who starts turns and renames the session                 *)
  Resolvers,    (* who answers server requests                              *)
  Buffer,       (* capacity of each channel (512 and 128 in the code)       *)
  MaxSubs,      (* bound: subscriptions made                                *)
  MaxFaults,    (* bound: how often each kind of disorder happens           *)
  MaxKinds      (* bound: kinds of disorder in one behaviour                *)

Kinds == {"note", "request"}
Turns == 1..MaxTurns
Subs == 1..MaxSubs
Handlers == Clients \cup Resolvers

(* save: a save fails; exit: the app-server ends in the middle of a turn;  *)
(* repeat: it sends a notification again; overflow: a channel is full;     *)
(* forget: the dedupe table drops a key (age, size); expire: a pending     *)
(* request is older than its time to live.                                 *)
FaultKinds == {"save", "exit", "repeat", "overflow", "forget", "expire"}

(* Lines of the app-server about the session.                              *)
Message == ({"started", "ended"} \X Turns) \cup ({"request", "resolved"} \X Requests)

ASSUME SessionAssumption ==
  /\ IsFiniteSet(Requests)
  /\ MaxTurns \in Nat
  /\ MaxSubs \in Nat
  /\ Buffer \in Nat \ {0}
  /\ Clients \cap Resolvers = {}
  /\ MaxFaults \in [FaultKinds -> Nat]
  /\ MaxKinds \in Nat

VARIABLES
  app,          (* the app-server: turn, running, asked, asker, sent        *)
  entry,        (* the host has an entry in codexBridgeSub                  *)
  subs,         (* subscriptions made so far; the last one is current       *)
  chan,         (* the channels of each subscription: open, items           *)
  worker,       (* the goroutine of each channel: at, message, copy         *)
  once,         (* restartOnce of each subscription                         *)
  pending,      (* codexPending                                             *)
  seen,         (* codexNotifSeen                                           *)
  record,       (* of the session: turn, status (its name is left out)      *)
  handler,      (* where each HTTP handler is: at, copy, turn, request      *)
  events,       (* ghost: how often each message was stored as an event     *)
  handled,      (* ghost: notifications whose handling has come to its end  *)
  raced,        (* ghost: the two channels have been read in another order  *)
                (* than they were filled                                    *)
  stale,        (* ghost: a record was written back over a change           *)
  faults        (* ghost: faults so far                                     *)

subVars == <<entry, subs, once>>
ghosts == <<raced, stale>>
vars == <<app, subVars, chan, worker, pending, seen, record, handler, events, handled, ghosts, faults>>

Fault(kind) ==
  /\ faults[kind] < MaxFaults[kind]
  /\ Cardinality({k \in FaultKinds \ {kind} : faults[k] > 0}) < MaxKinds
  /\ faults' = [faults EXCEPT ![kind] = @ + 1]

-----------------------------------------------------------------------------
(* The bridge: subscriptions and publication.                              *)

Channel == [open |-> TRUE, items |-> <<>>]
Closed == [open |-> FALSE, items |-> <<>>]
Reading == [at |-> "loop", message |-> <<>>, copy |-> <<>>]

KindOf(m) == IF m[1] = "request" THEN "request" ELSE "note"

(* Mutation: one message more than the channel holds.                      *)
FullLate(s, k) == Len(chan[s][k].items) > Buffer

Full(s, k) == Len(chan[s][k].items) = Buffer

(* publishNotification and publishServerRequest send without blocking; a   *)
(* channel that is full is closed and its subscription forgotten.          *)
Deliver(m) ==
  LET k == KindOf(m)
  IN chan' = [s \in Subs |->
                IF ~chan[s][k].open THEN chan[s]
                ELSE IF Full(s, k) THEN [chan[s] EXCEPT ![k].open = FALSE]
                ELSE [chan[s] EXCEPT ![k].items = Append(@, m)]]

Publish(m) ==
  /\ Deliver(m)
  /\ IF \E s \in Subs : chan[s][KindOf(m)].open /\ Full(s, KindOf(m))
     THEN Fault("overflow") ELSE UNCHANGED faults

(* ensureCodexBridgeSubscription: nothing when the host has an entry;      *)
(* otherwise two channels and their goroutines.                            *)
EnsureSubscription ==
  IF entry
  THEN UNCHANGED <<entry, subs, chan>>
  ELSE /\ subs < MaxSubs
       /\ entry' = TRUE
       /\ subs' = subs + 1
       /\ chan' = [chan EXCEPT ![subs + 1] = [k \in Kinds |-> Channel]]

-----------------------------------------------------------------------------
(* The app-server.                                                         *)

Ask(r) ==
  /\ app.running
  /\ app.asker[r] = 0
  /\ app' = [app EXCEPT !.asked = @ \cup {r}, !.asker[r] = app.turn, !.sent = @ \cup {<<"request", r>>}]
  /\ Publish(<<"request", r>>)
  /\ UNCHANGED <<subVars, worker, pending, seen, record, handler, events, handled, ghosts>>

(* A turn ends, by itself or interrupted, whatever it still waits for.     *)
EndTurn ==
  /\ app.running
  /\ app' = [app EXCEPT !.running = FALSE, !.asked = {}, !.sent = @ \cup {<<"ended", app.turn>>}]
  /\ Publish(<<"ended", app.turn>>)
  /\ UNCHANGED <<subVars, worker, pending, seen, record, handler, events, handled, ghosts>>

(* The process is gone and another one is started by the bridge.           *)
Exit ==
  /\ app.running
  /\ Fault("exit")
  /\ app' = [app EXCEPT !.running = FALSE, !.asked = {}]
  /\ UNCHANGED <<subVars, chan, worker, pending, seen, record, handler, events, handled, ghosts>>

Repeat(m) ==
  /\ m \in app.sent
  /\ m[1] # "request"
  /\ \A s \in Subs : chan[s]["note"].open => ~Full(s, "note")
  /\ Deliver(m)
  /\ Fault("repeat")
  /\ UNCHANGED <<app, subVars, worker, pending, seen, record, handler, events, handled, ghosts>>

-----------------------------------------------------------------------------
(* The goroutine of channel k of subscription s.                           *)

Goto(s, k, at) == worker' = [worker EXCEPT ![s][k].at = at]

Finish(s, k) == worker' = [worker EXCEPT ![s][k] = Reading]

HasNext(s, k) == worker[s][k].at = "loop" /\ chan[s][k].items # <<>>

Next1(s, k) == Head(chan[s][k].items)

Taken(s, k) == [chan EXCEPT ![s][k].items = Tail(@)]

(* persistCodexServerRequest puts the request into the map, whatever has   *)
(* become of it meanwhile, and goes on as for a notification.              *)
TakeRequest(s) ==
  /\ HasNext(s, "request")
  /\ chan' = Taken(s, "request")
  /\ pending' = pending \cup {Next1(s, "request")[2]}
  /\ worker' = [worker EXCEPT ![s]["request"] =
                  [Reading EXCEPT !.at = "mark", !.message = Next1(s, "request")]]
  /\ UNCHANGED <<app, subVars, seen, record, handler, events, handled, ghosts, faults>>

TakeNote(s) ==
  /\ HasNext(s, "note")
  /\ chan' = Taken(s, "note")
  /\ worker' = [worker EXCEPT ![s]["note"] =
                  [Reading EXCEPT !.at = "mark", !.message = Next1(s, "note")]]
  /\ UNCHANGED <<app, subVars, pending, seen, record, handler, events, handled, ghosts, faults>>

(* Mutation: duplicates are not recognised.                                *)
NeverSeen(m) == FALSE

AlreadySeen(m) == m \in seen

(* markCodexNotificationSeen.                                              *)
Mark(s, k) ==
  LET m == worker[s][k].message
  IN /\ worker[s][k].at = "mark"
     /\ seen' = seen \cup {m}
     /\ IF AlreadySeen(m) THEN Finish(s, k) ELSE Goto(s, k, "append")
     /\ UNCHANGED <<app, subVars, chan, pending, record, handler, events, handled, ghosts, faults>>

(* AppendSessionEvent and publishSessionEvent; a failed save ends the      *)
(* handling of the message.                                                *)
AppendEvent(s, k) ==
  LET m == worker[s][k].message
  IN /\ worker[s][k].at = "append"
     /\ events' = [events EXCEPT ![m] = @ + 1]
     /\ \/ /\ UNCHANGED faults
           /\ CASE m[1] = "request"  -> Finish(s, k)
                [] m[1] = "resolved" -> Goto(s, k, "settle")
                [] OTHER             -> Goto(s, k, "read")
        \/ Fault("save") /\ Finish(s, k)
     /\ UNCHANGED <<app, subVars, chan, pending, seen, record, handler, handled, ghosts>>

(* updateCodexSessionRunStateFromNotification: the record is read, and     *)
(* written back as a whole.                                                *)
ReadRecord(s) ==
  /\ worker[s]["note"].at = "read"
  /\ worker' = [worker EXCEPT ![s]["note"].at = "write", ![s]["note"].copy = record]
  /\ UNCHANGED <<app, subVars, chan, pending, seen, record, handler, events, handled, ghosts, faults>>

(* A whole record made from an earlier copy replaces the record.           *)
WriteBack(copy, new) ==
  /\ record' = new
  /\ stale' = (stale \/ record # copy)

StatusAfter(m) == IF m[1] = "started" THEN "running" ELSE "succeeded"

WriteRecord(s) ==
  LET m == worker[s]["note"].message
      copy == worker[s]["note"].copy
  IN /\ worker[s]["note"].at = "write"
     /\ WriteBack(copy, [copy EXCEPT !.turn = m[2], !.status = StatusAfter(m)])
     /\ IF m[1] = "ended"
        THEN worker' = [worker EXCEPT ![s]["note"].at = "settle", ![s]["note"].copy = <<>>]
        ELSE Finish(s, "note")
     /\ UNCHANGED <<app, subVars, chan, pending, seen, handler, events, handled, raced, faults>>

(* Published and not yet in the map.                                       *)
Waiting == {r \in Requests : \E s \in Subs, i \in 1..Buffer :
              i <= Len(chan[s]["request"].items) /\ chan[s]["request"].items[i] = <<"request", r>>}

(* The requests that a notification settles.                               *)
Settles(m) ==
  IF m[1] = "resolved" THEN {m[2]} ELSE {r \in Requests : app.asker[r] \in 1..m[2]}

(* Mutation: the end of a turn leaves its requests in the map.             *)
DropResolvedOnly(m) == IF m[1] = "resolved" THEN pending \ {m[2]} ELSE pending

(* deleteCodexPendingRequest or clearCodexPendingRequests: the end of a    *)
(* turn clears all the requests of the session.                            *)
DropSettled(m) == IF m[1] = "resolved" THEN pending \ {m[2]} ELSE {}

Raced(m) == Settles(m) \cap Waiting # {} \/ (m[1] = "ended" /\ ~(pending \subseteq Settles(m)))

Settle(s) ==
  LET m == worker[s]["note"].message
  IN /\ worker[s]["note"].at = "settle"
     /\ pending' = DropSettled(m)
     /\ handled' = handled \cup {m}
     /\ raced' = (raced \/ Raced(m))
     /\ Finish(s, "note")
     /\ UNCHANGED <<app, subVars, chan, seen, record, handler, events, stale, faults>>

(* Mutation: each of the two goroutines replaces the subscription.         *)
StopEach(s, k) ==
  /\ once' = [once EXCEPT ![s] = "running"]
  /\ chan' = [chan EXCEPT ![s] = [c \in Kinds |-> [@[c] EXCEPT !.open = FALSE]]]
  /\ Goto(s, k, "delete")

(* restart, run once for each subscription: stopAll closes both channels;  *)
(* the second goroutine waits for the first.                               *)
Stop(s, k) ==
  \/ /\ once[s] = "no"
     /\ once' = [once EXCEPT ![s] = "running"]
     /\ chan' = [chan EXCEPT ![s] = [c \in Kinds |-> [@[c] EXCEPT !.open = FALSE]]]
     /\ Goto(s, k, "delete")
  \/ /\ once[s] = "done"
     /\ Goto(s, k, "off")
     /\ UNCHANGED <<once, chan>>

EndLoop(s, k) ==
  /\ worker[s][k].at = "loop"
  /\ chan[s][k] = Closed
  /\ Stop(s, k)
  /\ UNCHANGED <<app, entry, subs, pending, seen, record, handler, events, handled, ghosts, faults>>

(* Mutation: the entry of the host is not deleted.                         *)
EntryKept == entry

EntryDeleted == FALSE

DeleteEntry(s, k) ==
  /\ worker[s][k].at = "delete"
  /\ entry' = EntryDeleted
  /\ Goto(s, k, "ensure")
  /\ UNCHANGED <<app, subs, once, chan, pending, seen, record, handler, events, handled, ghosts, faults>>

Resubscribe(s, k) ==
  /\ worker[s][k].at = "ensure"
  /\ EnsureSubscription
  /\ once' = [once EXCEPT ![s] = "done"]
  /\ worker' = [t \in Subs |-> IF t = s THEN [worker[t] EXCEPT ![k].at = "off"]
                               ELSE IF t = subs + 1 /\ ~entry THEN [c \in Kinds |-> Reading]
                               ELSE worker[t]]
  /\ UNCHANGED <<app, pending, seen, record, handler, events, handled, ghosts, faults>>

-----------------------------------------------------------------------------
(* The HTTP handlers.                                                      *)

HandlerTo(h, at) == handler' = [handler EXCEPT ![h].at = at]

Idle == [at |-> "idle", copy |-> <<>>, turn |-> 0, request |-> {}]

(* The client has its answer and may send the next request.                *)
Answered(h) == handler' = [handler EXCEPT ![h] = Idle]

(* codexBridgeForHost: every handler makes sure of the subscription.       *)
BridgeForHost ==
  /\ EnsureSubscription
  /\ worker' = IF entry THEN worker
               ELSE [worker EXCEPT ![subs + 1] = [k \in Kinds |-> Reading]]
  /\ UNCHANGED once

(* handleCodexV2TurnStart and handleCodexV2SessionSetName up to the call   *)
(* of the app-server; the record is read here.                             *)
Open(h) ==
  /\ h \in Clients
  /\ handler[h].at = "idle"
  /\ BridgeForHost
  /\ handler' = [handler EXCEPT ![h].at = "call", ![h].copy = record]
  /\ UNCHANGED <<app, pending, seen, record, events, handled, ghosts, faults>>

(* The call fails, or its answer does not arrive.                          *)
CallFails(h) ==
  /\ handler[h].at \in {"call", "answered"}
  /\ Answered(h)
  /\ UNCHANGED <<app, subVars, chan, worker, pending, seen, record, events, handled, ghosts, faults>>

(* The app-server starts the turn and answers.                             *)
AcceptTurn(h) ==
  LET t == app.turn + 1
  IN /\ h \in Clients
     /\ handler[h].at = "call"
     /\ ~app.running
     /\ t \in Turns
     /\ app' = [app EXCEPT !.turn = t, !.running = TRUE, !.sent = @ \cup {<<"started", t>>}]
     /\ Publish(<<"started", t>>)
     /\ handler' = [handler EXCEPT ![h].at = "answered", ![h].turn = t]
     /\ UNCHANGED <<subVars, worker, pending, seen, record, events, handled, ghosts>>

(* The record read before the call, changed, replaces the record.          *)
WriteTurn(h) ==
  LET copy == handler[h].copy
  IN /\ handler[h].at = "answered"
     /\ WriteBack(copy, [copy EXCEPT !.turn = handler[h].turn, !.status = "running"])
     /\ Answered(h)
     /\ UNCHANGED <<app, subVars, chan, worker, pending, seen, events, handled, raced, faults>>

(* The new name is left out; the copy of the rest is written back.         *)
WriteName(h) ==
  LET copy == handler[h].copy
  IN /\ h \in Clients
     /\ handler[h].at = "call"
     /\ WriteBack(copy, copy)
     /\ Answered(h)
     /\ UNCHANGED <<app, subVars, chan, worker, pending, seen, events, handled, raced, faults>>

(* handleCodexV2ResolveRequest: the request is looked up, answered over    *)
(* the bridge, and deleted.                                                *)
ResolveRead(h, r) ==
  /\ h \in Resolvers
  /\ handler[h].at = "idle"
  /\ r \in pending
  /\ handler' = [handler EXCEPT ![h].at = "respond", ![h].request = {r}]
  /\ UNCHANGED <<app, subVars, chan, worker, pending, seen, record, events, handled, ghosts, faults>>

(* An app-server that waits for the answer reports that it has it; another *)
(* one ignores it.                                                         *)
Respond(h) ==
  /\ handler[h].at = "respond"
  /\ entry
  /\ \E r \in handler[h].request :
       IF r \in app.asked
       THEN /\ app' = [app EXCEPT !.asked = @ \ {r}, !.sent = @ \cup {<<"resolved", r>>}]
            /\ Publish(<<"resolved", r>>)
       ELSE UNCHANGED <<app, chan, faults>>
  /\ HandlerTo(h, "delete")
  /\ UNCHANGED <<subVars, worker, pending, seen, record, events, handled, ghosts>>

(* codexBridgeForHost finds the host without a subscription.               *)
RespondSubscribes(h) ==
  /\ handler[h].at = "respond"
  /\ ~entry
  /\ BridgeForHost
  /\ UNCHANGED <<app, pending, seen, record, handler, events, handled, ghosts, faults>>

RespondFails(h) ==
  /\ handler[h].at = "respond"
  /\ Answered(h)
  /\ UNCHANGED <<app, subVars, chan, worker, pending, seen, record, events, handled, ghosts, faults>>

ResolveDelete(h) ==
  /\ handler[h].at = "delete"
  /\ pending' = pending \ handler[h].request
  /\ Answered(h)
  /\ UNCHANGED <<app, subVars, chan, worker, seen, record, events, handled, ghosts, faults>>

-----------------------------------------------------------------------------
(* The passing of time.                                                    *)

(* pruneCodexPendingLocked.                                                *)
Expire(r) ==
  /\ r \in pending
  /\ Fault("expire")
  /\ pending' = pending \ {r}
  /\ UNCHANGED <<app, subVars, chan, worker, seen, record, handler, events, handled, ghosts>>

(* The dedupe table drops a key that is too old or one too many.           *)
Forget(m) ==
  /\ m \in seen
  /\ Fault("forget")
  /\ seen' = seen \ {m}
  /\ UNCHANGED <<app, subVars, chan, worker, pending, record, handler, events, handled, ghosts>>

-----------------------------------------------------------------------------
Init ==
  /\ app = [turn |-> 0, running |-> FALSE, asked |-> {}, asker |-> [r \in Requests |-> 0], sent |-> {}]
  /\ entry = FALSE
  /\ subs = 0
  /\ chan = [s \in Subs |-> [k \in Kinds |-> Closed]]
  /\ worker = [s \in Subs |-> [k \in Kinds |-> [Reading EXCEPT !.at = "off"]]]
  /\ once = [s \in Subs |-> "no"]
  /\ pending = {}
  /\ seen = {}
  /\ record = [turn |-> 0, status |-> "none"]
  /\ handler = [h \in Handlers |-> Idle]
  /\ events = [m \in Message |-> 0]
  /\ handled = {}
  /\ raced = FALSE
  /\ stale = FALSE
  /\ faults = [k \in FaultKinds |-> 0]

Work(s, k) ==
  \/ k = "request" /\ TakeRequest(s)
  \/ k = "note" /\ (TakeNote(s) \/ ReadRecord(s) \/ WriteRecord(s) \/ Settle(s))
  \/ Mark(s, k)
  \/ AppendEvent(s, k)
  \/ EndLoop(s, k)
  \/ DeleteEntry(s, k)
  \/ Resubscribe(s, k)

Handle(h) ==
  \/ Open(h)
  \/ CallFails(h)
  \/ AcceptTurn(h)
  \/ WriteTurn(h)
  \/ WriteName(h)
  \/ \E r \in Requests : ResolveRead(h, r)
  \/ Respond(h)
  \/ RespondSubscribes(h)
  \/ RespondFails(h)
  \/ ResolveDelete(h)

AppServer ==
  \/ \E r \in Requests : Ask(r)
  \/ EndTurn
  \/ Exit
  \/ \E m \in Message : Repeat(m)

Time ==
  \/ \E r \in Requests : Expire(r)
  \/ \E m \in Message : Forget(m)

Next ==
  \/ AppServer
  \/ \E s \in Subs, k \in Kinds : Work(s, k)
  \/ \E h \in Handlers : Handle(h)
  \/ Time

Spec == Init /\ [][Next]_vars

(* Goroutines that can run do.                                             *)
Fairness == \A s \in Subs, k \in Kinds : WF_vars(Work(s, k))

FairSpec == Spec /\ Fairness

-----------------------------------------------------------------------------
(* Properties.                                                             *)

Record == [turn : 0..MaxTurns, status : {"none", "running", "succeeded"}]

(* Every field, goroutine and handler is in a state of the code, and no    *)
(* channel holds more than its capacity.                                   *)
TypeOK ==
  /\ app.turn \in 0..MaxTurns /\ app.running \in BOOLEAN
  /\ app.asked \subseteq Requests /\ app.asker \in [Requests -> 0..MaxTurns]
  /\ app.sent \subseteq Message
  /\ entry \in BOOLEAN /\ subs \in 0..MaxSubs
  /\ once \in [Subs -> {"no", "running", "done"}]
  /\ \A s \in Subs, k \in Kinds :
       /\ chan[s][k].open \in BOOLEAN
       /\ chan[s][k].items \in Seq({m \in Message : KindOf(m) = k})
       /\ Len(chan[s][k].items) <= Buffer
       /\ worker[s][k].at \in {"off", "loop", "mark", "append", "read", "write", "settle", "delete", "ensure"}
       /\ worker[s][k].message \in Message \cup {<<>>}
       /\ worker[s][k].copy \in Record \cup {<<>>}
  /\ pending \subseteq Requests /\ seen \subseteq Message /\ handled \subseteq Message
  /\ record \in Record
  /\ \A h \in Handlers :
       /\ handler[h].at \in {"idle", "call", "answered", "respond", "delete"}
       /\ handler[h].copy \in Record \cup {<<>>}
       /\ handler[h].turn \in 0..MaxTurns /\ handler[h].request \subseteq Requests
  /\ events \in [Message -> Nat]
  /\ raced \in BOOLEAN /\ stale \in BOOLEAN
  /\ faults \in [FaultKinds -> Nat]

(* At most one subscription receives what the app-server says, whatever    *)
(* order the two goroutines of a closed one and the HTTP handlers find it  *)
(* missing in: with two, every message would be handled twice.             *)
OneSubscriber ==
  \A s, t \in Subs : (\E k, l \in Kinds : chan[s][k].open /\ chan[t][l].open) => s = t

(* A message the app-server repeats is stored as one event, also when the  *)
(* copies arrive through two subscriptions, as long as the dedupe table    *)
(* keeps its key.                                                          *)
NoEventTwice == faults["forget"] = 0 => \A m \in Message : events[m] <= 1

(* A request that the app-server waits for is pending from the moment it   *)
(* has been taken off its channel; one whose resolution or whose turn's    *)
(* end has been handled is not: as long as the two channels are read in    *)
(* the order of the lines, nothing is lost and no time to live ends.       *)
PendingAgrees ==
  ~raced /\ faults["overflow"] = 0 /\ faults["expire"] = 0 =>
    /\ \A r \in app.asked : r \notin Waiting => r \in pending
    /\ \A m \in handled : Settles(m) \cap pending = {}

(* A session whose last turn is known to have ended is not shown as        *)
(* running.                                                                *)
EndedNotRunning == <<"ended", record.turn>> \in handled => record.status # "running"

(* The same, as long as no record is written back over a change, no        *)
(* subscription is replaced and the dedupe table keeps its keys.           *)
StatusSettles ==
  ~stale /\ faults["overflow"] = 0 /\ faults["forget"] = 0 => EndedNotRunning

(* A lost subscription is replaced: from the first one on, the server      *)
(* again and again listens to both channels of the host.                   *)
Resubscribed ==
  subs > 0 ~> \E s \in Subs : \A k \in Kinds : chan[s][k].open
=============================================================================
