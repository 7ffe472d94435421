------------------------ MODULE CodexSessionProofs ------------------------
(***************************************************************************)
(* Proofs about CodexSession for every set of requests, clients and        *)
(* resolvers, every capacity of the channels and any number of turns, of   *)
(* subscriptions and of faults.                                            *)
(***************************************************************************)
EXTENDS CodexSession, TLAPS

-----------------------------------------------------------------------------
(* The types.                                                              *)

MessagesOf(k) == {m \in Message : KindOf(m) = k}

Lifecycle == {"started", "ended"} \X Turns

Channels == [open : BOOLEAN, items : Seq(Message)]

Places == {"off", "loop", "mark", "append", "read", "write", "settle", "delete", "ensure"}

Goroutines == [at : Places, message : Message \cup {<<>>}, copy : Record \cup {<<>>}]

Calls == [at : {"idle", "call", "answered", "respond", "delete"},
          copy : Record \cup {<<>>}, turn : 0..MaxTurns, request : SUBSET Requests]

(* What a goroutine of a channel of kind k holds where it is.              *)
Holds(w, k) ==
  /\ w.at \in {"mark", "append"} => w.message \in MessagesOf(k)
  /\ w.at \in {"read", "write"} => k = "note" /\ w.message \in Lifecycle
  /\ w.at = "write" => w.copy \in Record
  /\ w.at = "settle" => /\ k = "note"
                        /\ w.message \in ({"ended"} \X Turns) \cup ({"resolved"} \X Requests)

AppTyped ==
  /\ app \in [turn : 0..MaxTurns, running : BOOLEAN, asked : SUBSET Requests,
              asker : [Requests -> 0..MaxTurns], sent : SUBSET Message]
  /\ app.running => app.turn > 0

SubsTyped ==
  /\ entry \in BOOLEAN
  /\ subs \in 0..MaxSubs
  /\ once \in [Subs -> {"no", "running", "done"}]

ChanTyped ==
  /\ chan \in [Subs -> [Kinds -> Channels]]
  /\ \A s \in Subs, k \in Kinds :
       chan[s][k].items \in Seq(MessagesOf(k)) /\ Len(chan[s][k].items) <= Buffer

WorkerTyped ==
  /\ worker \in [Subs -> [Kinds -> Goroutines]]
  /\ \A s \in Subs, k \in Kinds : Holds(worker[s][k], k)

HandlerTyped ==
  /\ handler \in [Handlers -> Calls]
  /\ \A h \in Handlers : handler[h].at \in {"call", "answered"} => handler[h].copy \in Record

StoreTyped ==
  /\ pending \subseteq Requests /\ seen \subseteq Message /\ handled \subseteq Message
  /\ record \in Record
  /\ events \in [Message -> Nat]
  /\ raced \in BOOLEAN /\ stale \in BOOLEAN
  /\ faults \in [FaultKinds -> Nat]

Typed == AppTyped /\ SubsTyped /\ ChanTyped /\ WorkerTyped /\ HandlerTyped /\ StoreTyped

-----------------------------------------------------------------------------
(* Messages and channels.                                                  *)

LEMMA MessageKinds ==
  /\ \A m \in Message : KindOf(m) \in Kinds
  /\ \A r \in Requests : /\ <<"request", r>> \in MessagesOf("request")
                         /\ <<"resolved", r>> \in MessagesOf("note")
  /\ Lifecycle \subseteq MessagesOf("note")
  /\ \A t \in Turns : <<"started", t>> \in Lifecycle /\ <<"ended", t>> \in Lifecycle
  BY DEF MessagesOf, Message, KindOf, Kinds, Lifecycle

(* A message is appended to the open channels of its kind; one that is     *)
(* full is closed instead.                                                 *)
Delivered(m) ==
  \A s \in Subs, k \in Kinds :
    /\ (k # KindOf(m) \/ ~chan[s][k].open) => chan'[s][k] = chan[s][k]
    /\ (k = KindOf(m) /\ chan[s][k].open /\ Full(s, k)) =>
         chan'[s][k] = [open |-> FALSE, items |-> chan[s][k].items]
    /\ (k = KindOf(m) /\ chan[s][k].open /\ ~Full(s, k)) =>
         chan'[s][k] = [open |-> TRUE, items |-> Append(chan[s][k].items, m)]

LEMMA DeliverEffect ==
  ASSUME SessionAssumption, ChanTyped, NEW m \in Message, Deliver(m)
  PROVE  ChanTyped' /\ Delivered(m)
<1>1. PICK k0 \in Kinds : k0 = KindOf(m)
  BY MessageKinds
<1>2. ASSUME NEW s \in Subs
      PROVE  /\ chan'[s] \in [Kinds -> Channels]
             /\ \A k \in Kinds :
                  /\ (k # k0 \/ ~chan[s][k].open) => chan'[s][k] = chan[s][k]
                  /\ (k = k0 /\ chan[s][k].open /\ Full(s, k)) =>
                       chan'[s][k] = [open |-> FALSE, items |-> chan[s][k].items]
                  /\ (k = k0 /\ chan[s][k].open /\ ~Full(s, k)) =>
                       chan'[s][k] = [open |-> TRUE, items |-> Append(chan[s][k].items, m)]
  <2>1. /\ chan[s] \in [Kinds -> Channels]
        /\ chan[s][k0] \in Channels
    BY <1>1 DEF ChanTyped
  <2>2. PICK c \in Channels : c = chan[s][k0]
    BY <2>1
  <2>3. PICK d : d = [c EXCEPT !.open = FALSE]
    OBVIOUS
  <2>4. PICK e : e = [c EXCEPT !.items = Append(@, m)]
    OBVIOUS
  <2>5. d \in Channels /\ d = [open |-> FALSE, items |-> c.items]
    BY <2>3 DEF Channels
  <2>6. e \in Channels /\ (c.open => e = [open |-> TRUE, items |-> Append(c.items, m)])
    <3>1. PICK q : q = Append(c.items, m)
      OBVIOUS
    <3>2. q \in Seq(Message)
      BY <3>1 DEF Channels
    <3>3. e = [c EXCEPT !.items = q]
      BY <2>4, <3>1
    <3>4. e \in Channels /\ (c.open => e = [open |-> TRUE, items |-> q])
      BY <3>2, <3>3 DEF Channels
    <3> QED
      BY <3>1, <3>4
  <2>7. chan'[s] = IF ~c.open THEN chan[s]
                   ELSE IF Full(s, k0) THEN [chan[s] EXCEPT ![k0] = d]
                   ELSE [chan[s] EXCEPT ![k0] = e]
    BY <1>1, <2>1, <2>2, <2>3, <2>4 DEF Deliver
  <2> QED
    BY <1>1, <2>1, <2>2, <2>5, <2>6, <2>7, ZenonT(60)
<1>3. Delivered(m)
  BY <1>1, <1>2 DEF Delivered
<1>4. chan' \in [Subs -> [Kinds -> Channels]]
  BY <1>1, <1>2 DEF Deliver
<1>5. ASSUME NEW s \in Subs, NEW k \in Kinds
      PROVE  chan'[s][k].items \in Seq(MessagesOf(k)) /\ Len(chan'[s][k].items) <= Buffer
  <2>1. chan[s][k] \in Channels /\ chan[s][k].items \in Seq(MessagesOf(k)) /\ Len(chan[s][k].items) <= Buffer
    BY DEF ChanTyped
  <2>2. CASE chan'[s][k].items = chan[s][k].items
    BY <2>1, <2>2
  <2>3. CASE k = k0 /\ ~Full(s, k) /\ chan'[s][k].items = Append(chan[s][k].items, m)
    <3>1. m \in MessagesOf(k)
      BY <1>1, <2>3 DEF MessagesOf
    <3>2. Len(chan[s][k].items) # Buffer
      BY <2>3 DEF Full
    <3> QED
      BY <2>1, <2>3, <3>1, <3>2 DEF SessionAssumption
  <2>4. \/ chan'[s][k].items = chan[s][k].items
        \/ k = k0 /\ ~Full(s, k) /\ chan'[s][k].items = Append(chan[s][k].items, m)
    <3>1. CASE k # k0 \/ ~chan[s][k].open
      BY <1>2, <3>1
    <3>2. CASE k = k0 /\ chan[s][k].open /\ Full(s, k)
      <4>1. chan'[s][k] = [open |-> FALSE, items |-> chan[s][k].items]
        BY <1>2, <3>2
      <4> QED
        BY <4>1
    <3>3. CASE k = k0 /\ chan[s][k].open /\ ~Full(s, k)
      <4>1. chan'[s][k] = [open |-> TRUE, items |-> Append(chan[s][k].items, m)]
        BY <1>2, <3>3
      <4> QED
        BY <3>3, <4>1
    <3> QED
      BY <3>1, <3>2, <3>3
  <2> QED
    BY <2>2, <2>3, <2>4
<1> QED
  BY <1>3, <1>4, <1>5 DEF ChanTyped

(* The first message of a channel is taken off.                            *)
Took(s, k) ==
  /\ \A t \in Subs, l \in Kinds : (t # s \/ l # k) => chan'[t][l] = chan[t][l]
  /\ chan'[s][k].open = chan[s][k].open
  /\ chan'[s][k].items = Tail(chan[s][k].items)

LEMMA TakenEffect ==
  ASSUME SessionAssumption, ChanTyped, NEW s \in Subs, NEW k \in Kinds,
         chan[s][k].items # <<>>, chan' = Taken(s, k)
  PROVE  ChanTyped' /\ Took(s, k) /\ Next1(s, k) \in MessagesOf(k)
<1>1. PICK c \in Channels : /\ c = chan[s][k]
                            /\ c.items \in Seq(MessagesOf(k)) /\ Len(c.items) <= Buffer
  BY DEF ChanTyped
<1>2. c.items # <<>>
  BY <1>1
<1>3. PICK d : d = [c EXCEPT !.items = Tail(@)]
  OBVIOUS
<1>4. /\ d \in Channels /\ d.open = c.open /\ d.items = Tail(c.items)
  <2>1. PICK q : q = Tail(c.items)
    OBVIOUS
  <2>2. q \in Seq(Message)
    BY <1>2, <2>1 DEF Channels
  <2>3. d = [c EXCEPT !.items = q]
    BY <1>3, <2>1
  <2> QED
    BY <2>1, <2>2, <2>3 DEF Channels
<1>5. d.items \in Seq(MessagesOf(k)) /\ Len(d.items) <= Buffer
  <2>1. Tail(c.items) \in Seq(MessagesOf(k)) /\ Len(Tail(c.items)) = Len(c.items) - 1
    BY <1>1, <1>2
  <2>2. Len(c.items) \in Nat
    BY <1>1
  <2>3. Len(c.items) - 1 <= Buffer
    BY <1>1, <2>2 DEF SessionAssumption
  <2> QED
    BY <1>4, <2>1, <2>3
<1>6. Head(c.items) \in MessagesOf(k)
  BY <1>1, <1>2
<1>7. chan' = [chan EXCEPT ![s][k] = d]
  BY <1>1, <1>3 DEF Taken
<1>8. /\ chan' \in [Subs -> [Kinds -> Channels]]
      /\ chan'[s][k] = d
      /\ \A t \in Subs, l \in Kinds : (t # s \/ l # k) => chan'[t][l] = chan[t][l]
  BY <1>4, <1>7 DEF ChanTyped
<1>9. ChanTyped'
  BY <1>5, <1>8 DEF ChanTyped
<1>10. Took(s, k)
  BY <1>1, <1>4, <1>8 DEF Took
<1> QED
  BY <1>1, <1>6, <1>9, <1>10 DEF Next1

(* Both channels of a subscription are closed.                             *)
Shut(s) ==
  /\ \A t \in Subs, l \in Kinds : t # s => chan'[t][l] = chan[t][l]
  /\ \A l \in Kinds : chan'[s][l] = [open |-> FALSE, items |-> chan[s][l].items]

LEMMA ShutEffect ==
  ASSUME ChanTyped, NEW s \in Subs,
         chan' = [chan EXCEPT ![s] = [c \in Kinds |-> [@[c] EXCEPT !.open = FALSE]]]
  PROVE  ChanTyped' /\ Shut(s)
<1>1. PICK f : f = [c \in Kinds |-> [chan[s][c] EXCEPT !.open = FALSE]]
  OBVIOUS
<1>2. ASSUME NEW l \in Kinds
      PROVE  f[l] \in Channels /\ f[l] = [open |-> FALSE, items |-> chan[s][l].items]
  <2>1. PICK c \in Channels : c = chan[s][l]
    BY DEF ChanTyped
  <2>2. f[l] = [c EXCEPT !.open = FALSE]
    BY <1>1, <2>1
  <2> QED
    BY <2>1, <2>2 DEF Channels
<1>3. f \in [Kinds -> Channels]
  BY <1>1, <1>2
<1>4. chan' = [chan EXCEPT ![s] = f]
  BY <1>1
<1>5. /\ chan' \in [Subs -> [Kinds -> Channels]]
      /\ chan'[s] = f
      /\ \A t \in Subs : t # s => chan'[t] = chan[t]
  BY <1>3, <1>4 DEF ChanTyped
<1>6. \A t \in Subs, l \in Kinds : chan'[t][l].items = chan[t][l].items
  BY <1>2, <1>5
<1> QED
  BY <1>2, <1>5, <1>6 DEF ChanTyped, Shut

(* The channels of a new subscription.                                     *)
Opened(n) ==
  /\ \A t \in Subs, l \in Kinds : t # n => chan'[t][l] = chan[t][l]
  /\ \A l \in Kinds : chan'[n][l] = Channel

LEMMA OpenedEffect ==
  ASSUME SessionAssumption, ChanTyped, NEW n \in Subs,
         chan' = [chan EXCEPT ![n] = [k \in Kinds |-> Channel]]
  PROVE  ChanTyped' /\ Opened(n)
<1>1. Channel \in Channels
  BY DEF Channel, Channels
<1>2. /\ chan' \in [Subs -> [Kinds -> Channels]]
      /\ \A l \in Kinds : chan'[n][l] = Channel
      /\ \A t \in Subs : t # n => chan'[t] = chan[t]
  BY <1>1 DEF ChanTyped
<1>3. ASSUME NEW t \in Subs, NEW l \in Kinds
      PROVE  chan'[t][l].items \in Seq(MessagesOf(l)) /\ Len(chan'[t][l].items) <= Buffer
  <2>1. CASE t = n
    <3>1. chan'[t][l].items = <<>>
      BY <1>2, <2>1 DEF Channel
    <3>2. <<>> \in Seq(MessagesOf(l))
      OBVIOUS
    <3>3. Len(<<>>) = 0
      OBVIOUS
    <3>4. 0 <= Buffer
      BY DEF SessionAssumption
    <3> QED
      BY <3>1, <3>2, <3>3, <3>4
  <2>2. CASE t # n
    BY <1>2, <2>2 DEF ChanTyped
  <2> QED
    BY <2>1, <2>2
<1> QED
  BY <1>2, <1>3 DEF ChanTyped, Opened

-----------------------------------------------------------------------------
(* Goroutines.                                                             *)

(* Only the goroutine of channel k of subscription s has moved, to w.      *)
Moved(s, k, w) ==
  /\ worker'[s][k] = w
  /\ \A t \in Subs, l \in Kinds : (t # s \/ l # k) => worker'[t][l] = worker[t][l]

LEMMA MovedEffect ==
  ASSUME WorkerTyped, NEW s \in Subs, NEW k \in Kinds, NEW w \in Goroutines, Holds(w, k),
         worker' = [worker EXCEPT ![s][k] = w]
  PROVE  WorkerTyped' /\ Moved(s, k, w)
<1>1. /\ worker' \in [Subs -> [Kinds -> Goroutines]]
      /\ worker'[s][k] = w
      /\ \A t \in Subs, l \in Kinds : (t # s \/ l # k) => worker'[t][l] = worker[t][l]
  BY DEF WorkerTyped
<1>2. \A t \in Subs, l \in Kinds : Holds(worker'[t][l], l)
  BY <1>1 DEF WorkerTyped
<1> QED
  BY <1>1, <1>2 DEF WorkerTyped, Moved

LEMMA ReadingHolds ==
  /\ Reading = [at |-> "loop", message |-> <<>>, copy |-> <<>>]
  /\ Reading \in Goroutines
  /\ \A k : Holds(Reading, k)
  BY DEF Reading, Goroutines, Places, Holds

LEMMA FinishEffect ==
  ASSUME WorkerTyped, NEW s \in Subs, NEW k \in Kinds, Finish(s, k)
  PROVE  WorkerTyped' /\ Moved(s, k, Reading)
  BY ReadingHolds, MovedEffect DEF Finish

(* It keeps what it holds.                                                 *)
Went(s, k, at) ==
  /\ worker'[s][k] = [at |-> at, message |-> worker[s][k].message, copy |-> worker[s][k].copy]
  /\ \A t \in Subs, l \in Kinds : (t # s \/ l # k) => worker'[t][l] = worker[t][l]

LEMMA GotoEffect ==
  ASSUME WorkerTyped, NEW s \in Subs, NEW k \in Kinds, NEW at \in Places, Goto(s, k, at),
         Holds([at |-> at, message |-> worker[s][k].message, copy |-> worker[s][k].copy], k)
  PROVE  WorkerTyped' /\ Went(s, k, at)
<1>1. PICK v \in Goroutines : v = worker[s][k]
  BY DEF WorkerTyped
<1>2. PICK w : w = [v EXCEPT !.at = at]
  OBVIOUS
<1>3. w = [at |-> at, message |-> v.message, copy |-> v.copy] /\ w \in Goroutines
  BY <1>2 DEF Goroutines
<1>4. worker' = [worker EXCEPT ![s][k] = w]
  BY <1>1, <1>2 DEF Goto
<1>5. Holds(w, k)
  BY <1>1, <1>3
<1>6. WorkerTyped' /\ Moved(s, k, w)
  BY <1>3, <1>4, <1>5, MovedEffect
<1> QED
  BY <1>1, <1>3, <1>6 DEF Moved, Went

LEMMA LeavingHolds ==
  \A at \in {"off", "delete", "ensure"} : \A m, c, k :
    Holds([at |-> at, message |-> m, copy |-> c], k)
  BY DEF Holds

-----------------------------------------------------------------------------
(* Faults and subscriptions.                                               *)

(* A counter that is zero was zero.                                        *)
FaultsGrow == \A k \in FaultKinds : faults'[k] = 0 => faults[k] = 0

LEMMA FaultEffect ==
  ASSUME StoreTyped, NEW kind \in FaultKinds, Fault(kind)
  PROVE  /\ faults' \in [FaultKinds -> Nat]
         /\ FaultsGrow
         /\ faults'[kind] # 0
         /\ \A k \in FaultKinds : k # kind => faults'[k] = faults[k]
<1>1. PICK f \in [FaultKinds -> Nat] : f = faults
  BY DEF StoreTyped
<1>2. faults' = [f EXCEPT ![kind] = @ + 1]
  BY <1>1 DEF Fault
<1> QED
  BY <1>1, <1>2 DEF FaultsGrow

LEMMA FaultNames ==
  {"save", "exit", "repeat", "overflow", "forget", "expire"} \subseteq FaultKinds
  BY DEF FaultKinds

LEMMA SameFaults ==
  ASSUME UNCHANGED faults PROVE FaultsGrow
  BY DEF FaultsGrow

(* The message reaches every open channel of its kind, unless a channel    *)
(* overflows.                                                              *)
LEMMA PublishEffect ==
  ASSUME SessionAssumption, ChanTyped, StoreTyped, NEW m \in Message, Publish(m)
  PROVE  /\ ChanTyped' /\ Delivered(m)
         /\ faults' \in [FaultKinds -> Nat]
         /\ FaultsGrow
         /\ \A k \in FaultKinds : k # "overflow" => faults'[k] = faults[k]
         /\ faults'["overflow"] = 0 =>
              \A s \in Subs : ~(chan[s][KindOf(m)].open /\ Full(s, KindOf(m)))
<1>1. Deliver(m)
  BY DEF Publish
<1>2. ChanTyped' /\ Delivered(m)
  BY <1>1, DeliverEffect
<1>3. CASE \E s \in Subs : chan[s][KindOf(m)].open /\ Full(s, KindOf(m))
  <2>1. Fault("overflow")
    BY <1>3 DEF Publish
  <2> QED
    BY <1>2, <2>1, FaultEffect, FaultNames
<1>4. CASE ~ \E s \in Subs : chan[s][KindOf(m)].open /\ Full(s, KindOf(m))
  <2>1. UNCHANGED faults
    BY <1>4 DEF Publish
  <2> QED
    BY <1>2, <1>4, <2>1 DEF FaultsGrow, StoreTyped
<1> QED
  BY <1>3, <1>4

(* A new subscription, the next one, with goroutines that read.            *)
Joined ==
  /\ ~entry /\ entry' = TRUE
  /\ subs + 1 \in Subs /\ subs' = subs + 1
  /\ Opened(subs + 1)

LEMMA EnsureEffect ==
  ASSUME SessionAssumption, SubsTyped, ChanTyped, EnsureSubscription
  PROVE  /\ ChanTyped'
         /\ subs' \in 0..MaxSubs
         /\ (entry /\ UNCHANGED <<entry, subs, chan>>) \/ Joined
<1>1. CASE entry
  BY <1>1 DEF EnsureSubscription, SubsTyped, ChanTyped
<1>2. CASE ~entry
  <2>1. PICK n \in Nat : n = subs + 1
    BY DEF SubsTyped
  <2>2. n \in Subs /\ n \in 0..MaxSubs
    BY <1>2, <2>1 DEF EnsureSubscription, SubsTyped, Subs, SessionAssumption
  <2>3. entry' = TRUE /\ subs' = n /\ chan' = [chan EXCEPT ![n] = [k \in Kinds |-> Channel]]
    BY <1>2, <2>1 DEF EnsureSubscription
  <2>4. ChanTyped' /\ Opened(n)
    BY <2>2, <2>3, OpenedEffect
  <2> QED
    BY <1>2, <2>1, <2>2, <2>3, <2>4 DEF Joined
<1> QED
  BY <1>1, <1>2

-----------------------------------------------------------------------------
(* What each step does to the channels and the goroutines, and that it     *)
(* keeps the types.                                                        *)

LEMMA AskTyped ==
  ASSUME SessionAssumption, Typed, NEW r \in Requests, Ask(r)
  PROVE  Typed'
<1>1. <<"request", r>> \in Message
  BY DEF Message
<1>2. ChanTyped' /\ faults' \in [FaultKinds -> Nat]
  BY <1>1, PublishEffect DEF Ask, Typed
<1>3. AppTyped'
  <2>1. PICK f \in [Requests -> 0..MaxTurns] : f = [app.asker EXCEPT ![r] = app.turn]
    BY DEF AppTyped, Typed
  <2>2. PICK sent \in SUBSET Message : sent = app.sent \cup {<<"request", r>>}
    BY <1>1 DEF AppTyped, Typed
  <2>3. PICK asked \in SUBSET Requests : asked = app.asked \cup {r}
    BY DEF AppTyped, Typed
  <2>4. app' = [app EXCEPT !.asked = asked, !.asker = f, !.sent = sent]
    BY <2>1, <2>2, <2>3 DEF Ask
  <2> QED
    BY <2>4 DEF AppTyped, Typed
<1> QED
  BY <1>2, <1>3 DEF Ask, Typed, SubsTyped, WorkerTyped, HandlerTyped, StoreTyped, subVars, ghosts

LEMMA EndTurnTyped ==
  ASSUME SessionAssumption, Typed, EndTurn
  PROVE  Typed' /\ app.turn \in Turns /\ <<"ended", app.turn>> \in Message
<1>1. app.turn \in Turns
  BY DEF EndTurn, AppTyped, Typed, Turns, SessionAssumption
<1>2. <<"ended", app.turn>> \in Message
  BY <1>1 DEF Message
<1>3. ChanTyped' /\ faults' \in [FaultKinds -> Nat]
  BY <1>2, PublishEffect DEF EndTurn, Typed
<1>4. AppTyped'
  <2>1. PICK sent \in SUBSET Message : sent = app.sent \cup {<<"ended", app.turn>>}
    BY <1>2 DEF AppTyped, Typed
  <2>2. app' = [app EXCEPT !.running = FALSE, !.asked = {}, !.sent = sent]
    BY <2>1 DEF EndTurn
  <2> QED
    BY <2>2 DEF AppTyped, Typed
<1> QED
  BY <1>1, <1>2, <1>3, <1>4
  DEF EndTurn, Typed, SubsTyped, WorkerTyped, HandlerTyped, StoreTyped, subVars, ghosts

LEMMA ExitTyped ==
  ASSUME SessionAssumption, Typed, Exit
  PROVE  Typed'
<1>1. faults' \in [FaultKinds -> Nat]
  BY FaultEffect, FaultNames DEF Exit, Typed
<1>2. AppTyped'
  BY DEF Exit, AppTyped, Typed
<1> QED
  BY <1>1, <1>2 DEF Exit, Typed, SubsTyped, ChanTyped, WorkerTyped, HandlerTyped, StoreTyped,
                    subVars, ghosts

LEMMA RepeatTyped ==
  ASSUME SessionAssumption, Typed, NEW m \in Message, Repeat(m)
  PROVE  Typed'
<1>1. faults' \in [FaultKinds -> Nat]
  BY FaultEffect, FaultNames DEF Repeat, Typed
<1>2. ChanTyped'
  BY DeliverEffect DEF Repeat, Typed
<1> QED
  BY <1>1, <1>2 DEF Repeat, Typed, AppTyped, SubsTyped, WorkerTyped, HandlerTyped, StoreTyped,
                    subVars, ghosts

(* A goroutine that has taken m off its channel.                           *)
AtMark(m) == [at |-> "mark", message |-> m, copy |-> <<>>]

LEMMA AtMarkHolds ==
  ASSUME NEW k \in Kinds, NEW m \in MessagesOf(k)
  PROVE  AtMark(m) \in Goroutines /\ Holds(AtMark(m), k)
  BY DEF AtMark, Goroutines, Places, Holds, MessagesOf

LEMMA TakeEffect ==
  ASSUME SessionAssumption, Typed, NEW s \in Subs, NEW k \in Kinds, HasNext(s, k),
         chan' = Taken(s, k),
         worker' = [worker EXCEPT ![s][k] = [Reading EXCEPT !.at = "mark", !.message = Next1(s, k)]]
  PROVE  /\ ChanTyped' /\ WorkerTyped'
         /\ Next1(s, k) \in MessagesOf(k)
         /\ Took(s, k) /\ Moved(s, k, AtMark(Next1(s, k)))
<1>1. ChanTyped' /\ Took(s, k) /\ Next1(s, k) \in MessagesOf(k)
  BY TakenEffect DEF HasNext, Typed
<1>2. PICK m \in MessagesOf(k) : m = Next1(s, k)
  BY <1>1
<1>3. AtMark(m) = [Reading EXCEPT !.at = "mark", !.message = m]
  <2>1. PICK w \in Goroutines : w = Reading
    BY ReadingHolds
  <2>2. w.at = "loop" /\ w.message = <<>> /\ w.copy = <<>>
    BY <2>1, ReadingHolds
  <2>3. PICK v : v = [w EXCEPT !.at = "mark", !.message = m]
    OBVIOUS
  <2>4. v = [at |-> "mark", message |-> m, copy |-> w.copy]
    BY <2>3 DEF Goroutines
  <2> QED
    BY <2>1, <2>2, <2>3, <2>4 DEF AtMark
<1>4. worker' = [worker EXCEPT ![s][k] = AtMark(m)]
  BY <1>2, <1>3
<1>5. WorkerTyped' /\ Moved(s, k, AtMark(m))
  BY <1>4, AtMarkHolds, MovedEffect DEF Typed
<1> QED
  BY <1>1, <1>2, <1>5

LEMMA TakeRequestTyped ==
  ASSUME SessionAssumption, Typed, NEW s \in Subs, TakeRequest(s)
  PROVE  /\ Typed'
         /\ Next1(s, "request") \in MessagesOf("request")
         /\ Took(s, "request") /\ Moved(s, "request", AtMark(Next1(s, "request")))
         /\ Next1(s, "request")[2] \in Requests
         /\ Next1(s, "request") = <<"request", Next1(s, "request")[2]>>
<1>1. "request" \in Kinds
  BY DEF Kinds
<1>2. /\ ChanTyped' /\ WorkerTyped'
      /\ Next1(s, "request") \in MessagesOf("request")
      /\ Took(s, "request") /\ Moved(s, "request", AtMark(Next1(s, "request")))
  BY <1>1, TakeEffect DEF TakeRequest
<1>3. PICK m \in MessagesOf("request") : m = Next1(s, "request")
  BY <1>2
<1>4. m[2] \in Requests /\ m = <<"request", m[2]>>
  BY DEF MessagesOf, Message, KindOf
<1>5. Next1(s, "request")[2] \in Requests /\ Next1(s, "request") = <<"request", Next1(s, "request")[2]>>
  BY <1>3, <1>4
<1>6. AppTyped' /\ SubsTyped' /\ HandlerTyped' /\ StoreTyped'
  BY <1>5 DEF TakeRequest, Typed, AppTyped, SubsTyped, HandlerTyped, StoreTyped, subVars, ghosts
<1> QED
  BY <1>2, <1>5, <1>6 DEF Typed

LEMMA TakeNoteTyped ==
  ASSUME SessionAssumption, Typed, NEW s \in Subs, TakeNote(s)
  PROVE  /\ Typed'
         /\ Next1(s, "note") \in MessagesOf("note")
         /\ Took(s, "note") /\ Moved(s, "note", AtMark(Next1(s, "note")))
<1>1. "note" \in Kinds
  BY DEF Kinds
<1>2. /\ ChanTyped' /\ WorkerTyped'
      /\ Next1(s, "note") \in MessagesOf("note")
      /\ Took(s, "note") /\ Moved(s, "note", AtMark(Next1(s, "note")))
  BY <1>1, TakeEffect DEF TakeNote
<1>3. AppTyped' /\ SubsTyped' /\ HandlerTyped' /\ StoreTyped'
  BY DEF TakeNote, Typed, AppTyped, SubsTyped, HandlerTyped, StoreTyped, subVars, ghosts
<1> QED
  BY <1>2, <1>3 DEF Typed

LEMMA MarkTyped ==
  ASSUME SessionAssumption, Typed, NEW s \in Subs, NEW k \in Kinds, Mark(s, k)
  PROVE  /\ Typed'
         /\ worker[s][k].message \in MessagesOf(k)
         /\ worker[s][k].message \in seen => Moved(s, k, Reading)
         /\ worker[s][k].message \notin seen => Went(s, k, "append")
<1>1. worker[s][k].message \in MessagesOf(k)
  BY DEF Mark, Typed, WorkerTyped, Holds
<1>2. worker[s][k].message \in Message
  BY <1>1 DEF MessagesOf
<1>3. ASSUME worker[s][k].message \in seen
      PROVE  WorkerTyped' /\ Moved(s, k, Reading)
  BY <1>3, FinishEffect DEF Mark, AlreadySeen, Typed
<1>4. ASSUME worker[s][k].message \notin seen
      PROVE  WorkerTyped' /\ Went(s, k, "append")
  <2>1. Goto(s, k, "append")
    BY <1>4 DEF Mark, AlreadySeen
  <2>2. Holds([at |-> "append", message |-> worker[s][k].message, copy |-> worker[s][k].copy], k)
    BY <1>1 DEF Holds
  <2> QED
    BY <2>1, <2>2, GotoEffect DEF Typed, Places
<1>5. WorkerTyped'
  BY <1>3, <1>4
<1>6. AppTyped' /\ SubsTyped' /\ ChanTyped' /\ HandlerTyped' /\ StoreTyped'
  BY <1>2 DEF Mark, Typed, AppTyped, SubsTyped, ChanTyped, HandlerTyped, StoreTyped, subVars, ghosts
<1> QED
  BY <1>1, <1>3, <1>4, <1>5, <1>6 DEF Typed

LEMMA AppendTyped ==
  ASSUME SessionAssumption, Typed, NEW s \in Subs, NEW k \in Kinds, AppendEvent(s, k)
  PROVE  /\ Typed' /\ FaultsGrow
         /\ worker[s][k].message \in MessagesOf(k)
         /\ \/ Moved(s, k, Reading)
            \/ Went(s, k, "settle") /\ k = "note"
            \/ Went(s, k, "read") /\ k = "note"
<1> DEFINE m == worker[s][k].message
<1>1. m \in MessagesOf(k)
  BY DEF AppendEvent, Typed, WorkerTyped, Holds
<1>2. m \in Message /\ KindOf(m) = k
  BY <1>1 DEF MessagesOf
<1>3. FaultsGrow /\ faults' \in [FaultKinds -> Nat]
  <2>1. CASE UNCHANGED faults
    BY <2>1 DEF FaultsGrow, Typed, StoreTyped
  <2>2. CASE Fault("save")
    BY <2>2, FaultEffect, FaultNames DEF Typed
  <2> QED
    BY <2>1, <2>2 DEF AppendEvent
<1>4. \/ Finish(s, k)
      \/ Goto(s, k, "settle") /\ m[1] = "resolved"
      \/ Goto(s, k, "read") /\ m[1] # "request" /\ m[1] # "resolved"
  BY DEF AppendEvent
<1>5. /\ WorkerTyped'
      /\ \/ Moved(s, k, Reading)
         \/ Went(s, k, "settle") /\ k = "note"
         \/ Went(s, k, "read") /\ k = "note"
  <2>1. CASE Finish(s, k)
    BY <2>1, FinishEffect DEF Typed
  <2>2. CASE Goto(s, k, "settle") /\ m[1] = "resolved"
    <3>1. k = "note" /\ m \in {"resolved"} \X Requests
      BY <1>2, <2>2 DEF Message, KindOf
    <3>2. Holds([at |-> "settle", message |-> m, copy |-> worker[s][k].copy], k)
      BY <3>1 DEF Holds
    <3> QED
      BY <2>2, <3>1, <3>2, GotoEffect DEF Typed, Places
  <2>3. CASE Goto(s, k, "read") /\ m[1] # "request" /\ m[1] # "resolved"
    <3>1. k = "note" /\ m \in Lifecycle
      BY <1>2, <2>3 DEF Message, KindOf, Lifecycle
    <3>2. Holds([at |-> "read", message |-> m, copy |-> worker[s][k].copy], k)
      BY <3>1 DEF Holds
    <3> QED
      BY <2>3, <3>1, <3>2, GotoEffect DEF Typed, Places
  <2> QED
    BY <1>4, <2>1, <2>2, <2>3
<1>6. events' \in [Message -> Nat]
  BY <1>2 DEF AppendEvent, Typed, StoreTyped
<1>7. AppTyped' /\ SubsTyped' /\ ChanTyped' /\ HandlerTyped' /\ StoreTyped'
  BY <1>3, <1>6 DEF AppendEvent, Typed, AppTyped, SubsTyped, ChanTyped, HandlerTyped, StoreTyped,
                    subVars, ghosts
<1> QED
  BY <1>1, <1>3, <1>5, <1>7 DEF Typed

LEMMA ReadTyped ==
  ASSUME SessionAssumption, Typed, NEW s \in Subs, ReadRecord(s)
  PROVE  /\ Typed'
         /\ worker[s]["note"].message \in Lifecycle
         /\ Moved(s, "note", [at |-> "write", message |-> worker[s]["note"].message, copy |-> record])
<1>1. "note" \in Kinds
  BY DEF Kinds
<1>2. PICK v \in Goroutines : v = worker[s]["note"]
  BY <1>1 DEF Typed, WorkerTyped
<1>3. v.message \in Lifecycle
  BY <1>1, <1>2 DEF ReadRecord, Typed, WorkerTyped, Holds
<1>4. PICK w : w = [v EXCEPT !.at = "write", !.copy = record]
  OBVIOUS
<1>5. w = [at |-> "write", message |-> v.message, copy |-> record]
  BY <1>4 DEF Goroutines
<1>6. w \in Goroutines /\ Holds(w, "note")
  BY <1>2, <1>3, <1>5 DEF Goroutines, Places, Holds, Typed, StoreTyped
<1>7. worker' = [worker EXCEPT ![s]["note"] = w]
  BY <1>1, <1>2, <1>4 DEF ReadRecord, Typed, WorkerTyped
<1>8. WorkerTyped' /\ Moved(s, "note", w)
  BY <1>1, <1>6, <1>7, MovedEffect DEF Typed
<1>9. AppTyped' /\ SubsTyped' /\ ChanTyped' /\ HandlerTyped' /\ StoreTyped'
  BY DEF ReadRecord, Typed, AppTyped, SubsTyped, ChanTyped, HandlerTyped, StoreTyped, subVars, ghosts
<1> QED
  BY <1>2, <1>3, <1>5, <1>8, <1>9 DEF Typed

(* The record after the start or the end of a turn.                        *)
RecordAfter(m) == [turn |-> m[2], status |-> StatusAfter(m)]

LEMMA WriteRecordTyped ==
  ASSUME SessionAssumption, Typed, NEW s \in Subs, WriteRecord(s)
  PROVE  /\ Typed'
         /\ worker[s]["note"].message \in Lifecycle
         /\ record' = RecordAfter(worker[s]["note"].message)
         /\ \/ /\ worker[s]["note"].message[1] = "ended"
               /\ Moved(s, "note", [at |-> "settle", message |-> worker[s]["note"].message, copy |-> <<>>])
            \/ /\ worker[s]["note"].message[1] # "ended"
               /\ Moved(s, "note", Reading)
<1>1. "note" \in Kinds
  BY DEF Kinds
<1>2. PICK v \in Goroutines : v = worker[s]["note"]
  BY <1>1 DEF Typed, WorkerTyped
<1>3. v.message \in Lifecycle /\ v.copy \in Record
  BY <1>1, <1>2 DEF WriteRecord, Typed, WorkerTyped, Holds
<1>4. v.message[2] \in 0..MaxTurns /\ StatusAfter(v.message) \in {"running", "succeeded"}
  BY <1>3 DEF Lifecycle, Turns, StatusAfter
<1>5. record' = RecordAfter(v.message) /\ record' \in Record
  <2>1. PICK c \in Record : c = v.copy
    BY <1>3
  <2>2. record' = [c EXCEPT !.turn = v.message[2], !.status = StatusAfter(v.message)]
    BY <1>2, <2>1 DEF WriteRecord, WriteBack
  <2> QED
    BY <1>4, <2>2 DEF Record, RecordAfter
<1>6. stale' \in BOOLEAN
  BY DEF WriteRecord, WriteBack
<1>7. CASE v.message[1] = "ended"
  <2>1. PICK w : w = [v EXCEPT !.at = "settle", !.copy = <<>>]
    OBVIOUS
  <2>2. v.message \in {"ended"} \X Turns
    BY <1>3, <1>7 DEF Lifecycle
  <2>3. w = [at |-> "settle", message |-> v.message, copy |-> <<>>]
    BY <2>1 DEF Goroutines
  <2>4. w \in Goroutines /\ Holds(w, "note")
    BY <1>2, <2>2, <2>3 DEF Goroutines, Places, Holds
  <2>5. worker' = [worker EXCEPT ![s]["note"] = w]
    BY <1>1, <1>2, <1>7, <2>1 DEF WriteRecord, Typed, WorkerTyped
  <2>6. WorkerTyped' /\ Moved(s, "note", w)
    BY <1>1, <2>4, <2>5, MovedEffect DEF Typed
  <2>7. AppTyped' /\ SubsTyped' /\ ChanTyped' /\ HandlerTyped' /\ StoreTyped'
    BY <1>5, <1>6 DEF WriteRecord, Typed, AppTyped, SubsTyped, ChanTyped, HandlerTyped, StoreTyped,
                      subVars
  <2> QED
    BY <1>2, <1>3, <1>5, <1>7, <2>3, <2>6, <2>7 DEF Typed
<1>8. CASE v.message[1] # "ended"
  <2>1. WorkerTyped' /\ Moved(s, "note", Reading)
    BY <1>1, <1>2, <1>8, FinishEffect DEF WriteRecord, Typed
  <2>2. AppTyped' /\ SubsTyped' /\ ChanTyped' /\ HandlerTyped' /\ StoreTyped'
    BY <1>5, <1>6 DEF WriteRecord, Typed, AppTyped, SubsTyped, ChanTyped, HandlerTyped, StoreTyped,
                      subVars
  <2> QED
    BY <1>2, <1>3, <1>5, <1>8, <2>1, <2>2 DEF Typed
<1> QED
  BY <1>7, <1>8

LEMMA SettleTyped ==
  ASSUME SessionAssumption, Typed, NEW s \in Subs, Settle(s)
  PROVE  /\ Typed'
         /\ worker[s]["note"].message \in ({"ended"} \X Turns) \cup ({"resolved"} \X Requests)
         /\ Moved(s, "note", Reading)
<1>1. "note" \in Kinds
  BY DEF Kinds
<1>2. worker[s]["note"].message \in ({"ended"} \X Turns) \cup ({"resolved"} \X Requests)
  BY <1>1 DEF Settle, Typed, WorkerTyped, Holds
<1>3. worker[s]["note"].message \in Message
  BY <1>2 DEF Message
<1>4. WorkerTyped' /\ Moved(s, "note", Reading)
  BY <1>1, FinishEffect DEF Settle, Typed
<1>5. pending' \subseteq Requests /\ raced' \in BOOLEAN
  BY DEF Settle, DropSettled, Typed, StoreTyped
<1>6. AppTyped' /\ SubsTyped' /\ ChanTyped' /\ HandlerTyped' /\ StoreTyped'
  BY <1>3, <1>5 DEF Settle, Typed, AppTyped, SubsTyped, ChanTyped, HandlerTyped, StoreTyped, subVars
<1> QED
  BY <1>2, <1>4, <1>6 DEF Typed

LEMMA EndLoopTyped ==
  ASSUME SessionAssumption, Typed, NEW s \in Subs, NEW k \in Kinds, EndLoop(s, k)
  PROVE  /\ Typed'
         /\ worker[s][k].at = "loop" /\ chan[s][k] = Closed
         /\ UNCHANGED <<entry, subs>>
         /\ \/ /\ once[s] = "no" /\ once' = [once EXCEPT ![s] = "running"]
               /\ Shut(s) /\ Went(s, k, "delete")
            \/ once[s] = "done" /\ UNCHANGED <<once, chan>> /\ Went(s, k, "off")
<1>1. "delete" \in Places /\ "off" \in Places
  BY DEF Places
<1>2. CASE once[s] = "no"
  <2>1. /\ once' = [once EXCEPT ![s] = "running"]
        /\ chan' = [chan EXCEPT ![s] = [c \in Kinds |-> [@[c] EXCEPT !.open = FALSE]]]
        /\ Goto(s, k, "delete")
    BY <1>2 DEF EndLoop, Stop
  <2>2. ChanTyped' /\ Shut(s)
    BY <2>1, ShutEffect DEF Typed
  <2>3. WorkerTyped' /\ Went(s, k, "delete")
    BY <1>1, <2>1, GotoEffect, LeavingHolds DEF Typed
  <2>4. AppTyped' /\ SubsTyped' /\ HandlerTyped' /\ StoreTyped'
    BY <2>1 DEF EndLoop, Typed, AppTyped, SubsTyped, HandlerTyped, StoreTyped, ghosts
  <2> QED
    BY <1>2, <2>1, <2>2, <2>3, <2>4 DEF EndLoop, Typed
<1>3. CASE once[s] # "no"
  <2>1. once[s] = "done" /\ Goto(s, k, "off") /\ UNCHANGED <<once, chan>>
    BY <1>3 DEF EndLoop, Stop
  <2>2. WorkerTyped' /\ Went(s, k, "off")
    BY <1>1, <2>1, GotoEffect, LeavingHolds DEF Typed
  <2>3. AppTyped' /\ SubsTyped' /\ ChanTyped' /\ HandlerTyped' /\ StoreTyped'
    BY <2>1 DEF EndLoop, Typed, AppTyped, SubsTyped, ChanTyped, HandlerTyped, StoreTyped, ghosts
  <2> QED
    BY <2>1, <2>2, <2>3 DEF EndLoop, Typed
<1> QED
  BY <1>2, <1>3

LEMMA DeleteEntryTyped ==
  ASSUME SessionAssumption, Typed, NEW s \in Subs, NEW k \in Kinds, DeleteEntry(s, k)
  PROVE  Typed' /\ Went(s, k, "ensure")
<1>1. "ensure" \in Places
  BY DEF Places
<1>2. WorkerTyped' /\ Went(s, k, "ensure")
  BY <1>1, GotoEffect, LeavingHolds DEF DeleteEntry, Typed
<1>3. AppTyped' /\ SubsTyped' /\ ChanTyped' /\ HandlerTyped' /\ StoreTyped'
  BY DEF DeleteEntry, EntryDeleted, Typed, AppTyped, SubsTyped, ChanTyped, HandlerTyped,
         StoreTyped, ghosts
<1> QED
  BY <1>2, <1>3 DEF Typed

(* The goroutines of subscription n start reading.                         *)
Started(t, n) == \A k \in Kinds : worker'[t][k] = IF t = n THEN Reading ELSE worker[t][k]

LEMMA ResubscribeTyped ==
  ASSUME SessionAssumption, Typed, NEW s \in Subs, NEW k \in Kinds, Resubscribe(s, k)
  PROVE  /\ Typed'
         /\ once' = [once EXCEPT ![s] = "done"]
         /\ (entry /\ UNCHANGED <<entry, subs, chan>>) \/ Joined
         /\ worker'[s][k].at = "off"
         /\ \A l \in Kinds : l # k => worker'[s][l] = worker[s][l]
         /\ \A t \in Subs : t # s => Started(t, IF entry THEN 0 ELSE subs + 1)
<1>1. /\ ChanTyped' /\ subs' \in 0..MaxSubs
      /\ (entry /\ UNCHANGED <<entry, subs, chan>>) \/ Joined
  BY EnsureEffect DEF Resubscribe, Typed
<1>2. /\ [c \in Kinds |-> Reading] \in [Kinds -> Goroutines]
      /\ \A t \in Subs : worker[t] \in [Kinds -> Goroutines]
  BY ReadingHolds DEF Typed, WorkerTyped
<1>3. PICK v \in Goroutines : v = worker[s][k]
  BY <1>2
<1>4. PICK w : w = [v EXCEPT !.at = "off"]
  OBVIOUS
<1>5. w \in Goroutines /\ w.at = "off"
  BY <1>4 DEF Goroutines, Places
<1>6. PICK g : g = [worker[s] EXCEPT ![k] = w]
  OBVIOUS
<1>7. /\ g = [worker[s] EXCEPT ![k].at = "off"]
      /\ g \in [Kinds -> Goroutines] /\ g[k] = w
      /\ \A l \in Kinds : l # k => g[l] = worker[s][l]
  BY <1>2, <1>3, <1>4, <1>5, <1>6
<1>8. PICK n \in Nat : n = IF entry THEN 0 ELSE subs + 1
  BY DEF Typed, SubsTyped
<1>9. subs \in Nat /\ s \in Nat /\ \A t \in Subs : t # 0
  BY DEF Typed, SubsTyped, Subs
<1>10. \A t \in Subs : (t = n) <=> (t = subs + 1 /\ ~entry)
  BY <1>8, <1>9
<1>11. worker' = [t \in Subs |-> IF t = s THEN g
                                 ELSE IF t = n THEN [c \in Kinds |-> Reading]
                                 ELSE worker[t]]
  BY <1>7, <1>10 DEF Resubscribe
<1>12. /\ worker' \in [Subs -> [Kinds -> Goroutines]]
       /\ worker'[s] = g
       /\ \A t \in Subs : t # s => Started(t, n)
  BY <1>2, <1>7, <1>11 DEF Started
<1>13. \A t \in Subs, l \in Kinds : Holds(worker'[t][l], l)
  <2> SUFFICES ASSUME NEW t \in Subs, NEW l \in Kinds PROVE Holds(worker'[t][l], l)
    OBVIOUS
  <2>1. CASE t = s /\ l = k
    BY <1>5, <1>7, <1>12, <2>1 DEF Holds
  <2>2. CASE t = s /\ l # k
    BY <1>7, <1>12, <2>2 DEF Typed, WorkerTyped
  <2>3. CASE t # s
    <3>1. worker'[t][l] = IF t = n THEN Reading ELSE worker[t][l]
      BY <1>12, <2>3 DEF Started
    <3> QED
      BY <3>1, ReadingHolds DEF Typed, WorkerTyped
  <2> QED
    BY <2>1, <2>2, <2>3
<1>14. WorkerTyped'
  BY <1>12, <1>13 DEF WorkerTyped
<1>15. entry' \in BOOLEAN
  BY <1>1 DEF Typed, SubsTyped, Joined
<1>16. SubsTyped'
  BY <1>1, <1>15 DEF Resubscribe, Typed, SubsTyped
<1>17. AppTyped' /\ HandlerTyped' /\ StoreTyped'
  BY DEF Resubscribe, Typed, AppTyped, HandlerTyped, StoreTyped, ghosts
<1>18. Typed'
  BY <1>1, <1>14, <1>16, <1>17 DEF Typed
<1>19. \A t \in Subs : t # s => Started(t, IF entry THEN 0 ELSE subs + 1)
  BY <1>8, <1>12
<1> QED
  BY <1>1, <1>5, <1>7, <1>12, <1>18, <1>19 DEF Resubscribe

LEMMA BridgeTyped ==
  ASSUME SessionAssumption, Typed, BridgeForHost
  PROVE  /\ SubsTyped' /\ ChanTyped' /\ WorkerTyped'
         /\ UNCHANGED once
         /\ \/ entry /\ UNCHANGED <<entry, subs, chan, worker>>
            \/ Joined /\ \A t \in Subs : Started(t, subs + 1)
<1>1. /\ ChanTyped' /\ subs' \in 0..MaxSubs
      /\ (entry /\ UNCHANGED <<entry, subs, chan>>) \/ Joined
  BY EnsureEffect DEF BridgeForHost, Typed
<1>2. CASE entry
  <2>1. UNCHANGED <<entry, subs, chan, worker, once>>
    BY <1>1, <1>2 DEF BridgeForHost, Joined
  <2> QED
    BY <1>2, <2>1 DEF Typed, SubsTyped, ChanTyped, WorkerTyped
<1>3. CASE ~entry
  <2>1. Joined
    BY <1>1, <1>3
  <2>2. PICK n \in Subs : n = subs + 1
    BY <2>1 DEF Joined
  <2>3. PICK g \in [Kinds -> Goroutines] : g = [k \in Kinds |-> Reading]
    BY ReadingHolds
  <2>4. worker' = [worker EXCEPT ![n] = g]
    BY <1>3, <2>2, <2>3 DEF BridgeForHost
  <2>5. /\ worker' \in [Subs -> [Kinds -> Goroutines]]
        /\ worker'[n] = g
        /\ \A t \in Subs : t # n => worker'[t] = worker[t]
    BY <2>4 DEF Typed, WorkerTyped
  <2>6. \A t \in Subs : Started(t, n)
    BY <2>3, <2>5 DEF Started
  <2>7. \A t \in Subs, l \in Kinds : Holds(worker'[t][l], l)
    BY <2>6, ReadingHolds DEF Started, Typed, WorkerTyped
  <2>8. SubsTyped'
    BY <1>1, <2>1 DEF Joined, BridgeForHost, Typed, SubsTyped
  <2> QED
    BY <1>1, <2>1, <2>2, <2>5, <2>6, <2>7, <2>8 DEF WorkerTyped, BridgeForHost
<1> QED
  BY <1>2, <1>3

-----------------------------------------------------------------------------
(* Handlers.                                                               *)

(* Only handler h has moved, to w.                                         *)
HandlerMoved(h, w) ==
  /\ handler'[h] = w
  /\ \A g \in Handlers : g # h => handler'[g] = handler[g]

LEMMA HandlerEffect ==
  ASSUME HandlerTyped, NEW h \in Handlers, NEW w \in Calls,
         w.at \in {"call", "answered"} => w.copy \in Record,
         handler' = [handler EXCEPT ![h] = w]
  PROVE  HandlerTyped' /\ HandlerMoved(h, w)
<1>1. /\ handler' \in [Handlers -> Calls]
      /\ handler'[h] = w
      /\ \A g \in Handlers : g # h => handler'[g] = handler[g]
  BY DEF HandlerTyped
<1> QED
  BY <1>1 DEF HandlerTyped, HandlerMoved

LEMMA AnsweredEffect ==
  ASSUME SessionAssumption, HandlerTyped, NEW h \in Handlers, Answered(h)
  PROVE  HandlerTyped' /\ HandlerMoved(h, Idle)
<1>1. Idle \in Calls /\ Idle.at = "idle"
  BY DEF Idle, Calls, SessionAssumption
<1> QED
  BY <1>1, HandlerEffect DEF Answered

LEMMA OpenTyped ==
  ASSUME SessionAssumption, Typed, NEW h \in Handlers, Open(h)
  PROVE  /\ Typed'
         /\ UNCHANGED once
         /\ \/ entry /\ UNCHANGED <<entry, subs, chan, worker>>
            \/ Joined /\ \A t \in Subs : Started(t, subs + 1)
         /\ HandlerMoved(h, [at |-> "call", copy |-> record, turn |-> handler[h].turn,
                             request |-> handler[h].request])
<1>1. /\ SubsTyped' /\ ChanTyped' /\ WorkerTyped'
      /\ UNCHANGED once
      /\ \/ entry /\ UNCHANGED <<entry, subs, chan, worker>>
         \/ Joined /\ \A t \in Subs : Started(t, subs + 1)
  BY BridgeTyped DEF Open
<1>2. PICK v \in Calls : v = handler[h]
  BY DEF Typed, HandlerTyped
<1>3. PICK w : w = [v EXCEPT !.at = "call", !.copy = record]
  OBVIOUS
<1>4. /\ w = [at |-> "call", copy |-> record, turn |-> v.turn, request |-> v.request]
      /\ w \in Calls
  BY <1>3 DEF Calls, Typed, StoreTyped
<1>5. w.copy \in Record
  BY <1>4 DEF Typed, StoreTyped
<1>6. handler' = [handler EXCEPT ![h] = w]
  BY <1>2, <1>3 DEF Open, Typed, HandlerTyped
<1>7. HandlerTyped' /\ HandlerMoved(h, w)
  BY <1>4, <1>5, <1>6, HandlerEffect DEF Typed
<1>8. AppTyped' /\ StoreTyped'
  BY DEF Open, Typed, AppTyped, StoreTyped, ghosts
<1> QED
  BY <1>1, <1>2, <1>4, <1>7, <1>8 DEF Typed

LEMMA CallFailsTyped ==
  ASSUME SessionAssumption, Typed, NEW h \in Handlers, CallFails(h)
  PROVE  Typed' /\ HandlerMoved(h, Idle)
<1>1. HandlerTyped' /\ HandlerMoved(h, Idle)
  BY AnsweredEffect DEF CallFails, Typed
<1> QED
  BY <1>1 DEF CallFails, Typed, AppTyped, SubsTyped, ChanTyped, WorkerTyped, StoreTyped, subVars, ghosts

LEMMA AcceptTyped ==
  ASSUME SessionAssumption, Typed, NEW h \in Handlers, AcceptTurn(h)
  PROVE  /\ Typed'
         /\ app.turn + 1 \in Turns
         /\ app' = [turn |-> app.turn + 1, running |-> TRUE, asked |-> app.asked,
                    asker |-> app.asker, sent |-> app.sent \cup {<<"started", app.turn + 1>>}]
         /\ Publish(<<"started", app.turn + 1>>)
         /\ HandlerMoved(h, [at |-> "answered", copy |-> handler[h].copy, turn |-> app.turn + 1,
                             request |-> handler[h].request])
<1>1. PICK t \in Turns : t = app.turn + 1
  BY DEF AcceptTurn
<1>2. <<"started", t>> \in Message /\ t \in 0..MaxTurns /\ t > 0
  BY DEF Message, Turns
<1>3. Publish(<<"started", t>>)
  BY <1>1 DEF AcceptTurn
<1>4. ChanTyped' /\ faults' \in [FaultKinds -> Nat]
  BY <1>2, <1>3, PublishEffect DEF Typed
<1>5. PICK sent \in SUBSET Message : sent = app.sent \cup {<<"started", t>>}
  BY <1>2 DEF Typed, AppTyped
<1>6. app' = [app EXCEPT !.turn = t, !.running = TRUE, !.sent = sent]
  BY <1>1, <1>5 DEF AcceptTurn
<1>7. PICK a : a = app'
  OBVIOUS
<1>8. /\ a = [turn |-> t, running |-> TRUE, asked |-> app.asked, asker |-> app.asker, sent |-> sent]
  BY <1>6, <1>7 DEF Typed, AppTyped
<1>9. AppTyped'
  BY <1>2, <1>7, <1>8 DEF Typed, AppTyped
<1>10. PICK v \in Calls : v = handler[h]
  BY DEF Typed, HandlerTyped
<1>11. PICK w : w = [v EXCEPT !.at = "answered", !.turn = t]
  OBVIOUS
<1>12. /\ w = [at |-> "answered", copy |-> v.copy, turn |-> t, request |-> v.request]
       /\ w \in Calls
  BY <1>2, <1>11 DEF Calls
<1>13. w.copy \in Record
  BY <1>10, <1>12 DEF AcceptTurn, Typed, HandlerTyped
<1>14. handler' = [handler EXCEPT ![h] = w]
  BY <1>1, <1>10, <1>11 DEF AcceptTurn, Typed, HandlerTyped
<1>15. HandlerTyped' /\ HandlerMoved(h, w)
  BY <1>12, <1>13, <1>14, HandlerEffect DEF Typed
<1>16. SubsTyped' /\ WorkerTyped' /\ StoreTyped'
  BY <1>4 DEF AcceptTurn, Typed, SubsTyped, WorkerTyped, StoreTyped, subVars, ghosts
<1> QED
  BY <1>1, <1>3, <1>4, <1>5, <1>7, <1>8, <1>9, <1>10, <1>12, <1>15, <1>16 DEF Typed

LEMMA WriteTurnTyped ==
  ASSUME SessionAssumption, Typed, NEW h \in Handlers, WriteTurn(h)
  PROVE  /\ Typed' /\ HandlerMoved(h, Idle)
         /\ record' = [turn |-> handler[h].turn, status |-> "running"]
<1>1. HandlerTyped' /\ HandlerMoved(h, Idle)
  BY AnsweredEffect DEF WriteTurn, Typed
<1>2. PICK c \in Record : c = handler[h].copy
  BY DEF WriteTurn, Typed, HandlerTyped
<1>3. handler[h].turn \in 0..MaxTurns
  BY DEF Typed, HandlerTyped, Calls
<1>4. PICK r : r = [c EXCEPT !.turn = handler[h].turn, !.status = "running"]
  OBVIOUS
<1>5. r = [turn |-> handler[h].turn, status |-> "running"] /\ r \in Record
  BY <1>3, <1>4 DEF Record
<1>6. record' = r /\ stale' \in BOOLEAN
  BY <1>2, <1>4 DEF WriteTurn, WriteBack
<1>7. AppTyped' /\ SubsTyped' /\ ChanTyped' /\ WorkerTyped' /\ StoreTyped'
  BY <1>5, <1>6 DEF WriteTurn, Typed, AppTyped, SubsTyped, ChanTyped, WorkerTyped, StoreTyped, subVars
<1> QED
  BY <1>1, <1>5, <1>6, <1>7 DEF Typed

LEMMA WriteNameTyped ==
  ASSUME SessionAssumption, Typed, NEW h \in Handlers, WriteName(h)
  PROVE  /\ Typed' /\ HandlerMoved(h, Idle)
         /\ record' = handler[h].copy
<1>1. HandlerTyped' /\ HandlerMoved(h, Idle)
  BY AnsweredEffect DEF WriteName, Typed
<1>2. record' = handler[h].copy /\ record' \in Record /\ stale' \in BOOLEAN
  BY DEF WriteName, WriteBack, Typed, HandlerTyped
<1>3. AppTyped' /\ SubsTyped' /\ ChanTyped' /\ WorkerTyped' /\ StoreTyped'
  BY <1>2 DEF WriteName, Typed, AppTyped, SubsTyped, ChanTyped, WorkerTyped, StoreTyped, subVars
<1> QED
  BY <1>1, <1>2, <1>3 DEF Typed

LEMMA ResolveReadTyped ==
  ASSUME SessionAssumption, Typed, NEW h \in Handlers, NEW r \in Requests, ResolveRead(h, r)
  PROVE  /\ Typed'
         /\ HandlerMoved(h, [at |-> "respond", copy |-> handler[h].copy, turn |-> handler[h].turn,
                             request |-> {r}])
<1>1. PICK v \in Calls : v = handler[h]
  BY DEF Typed, HandlerTyped
<1>2. PICK w : w = [v EXCEPT !.at = "respond", !.request = {r}]
  OBVIOUS
<1>3. /\ w = [at |-> "respond", copy |-> v.copy, turn |-> v.turn, request |-> {r}]
      /\ w \in Calls
  BY <1>2 DEF Calls
<1>4. handler' = [handler EXCEPT ![h] = w]
  BY <1>1, <1>2 DEF ResolveRead, Typed, HandlerTyped
<1>5. HandlerTyped' /\ HandlerMoved(h, w)
  BY <1>3, <1>4, HandlerEffect DEF Typed
<1>6. AppTyped' /\ SubsTyped' /\ ChanTyped' /\ WorkerTyped' /\ StoreTyped'
  BY DEF ResolveRead, Typed, AppTyped, SubsTyped, ChanTyped, WorkerTyped, StoreTyped, subVars, ghosts
<1> QED
  BY <1>1, <1>3, <1>5, <1>6 DEF Typed

(* The answer is told to an app-server that waits for it.                  *)
Resolves(r) ==
  /\ r \in app.asked
  /\ app' = [turn |-> app.turn, running |-> app.running, asked |-> app.asked \ {r},
             asker |-> app.asker, sent |-> app.sent \cup {<<"resolved", r>>}]
  /\ Publish(<<"resolved", r>>)

LEMMA RespondTyped ==
  ASSUME SessionAssumption, Typed, NEW h \in Handlers, Respond(h)
  PROVE  /\ Typed'
         /\ HandlerMoved(h, [at |-> "delete", copy |-> handler[h].copy, turn |-> handler[h].turn,
                             request |-> handler[h].request])
         /\ \E r \in handler[h].request :
              Resolves(r) \/ (r \notin app.asked /\ UNCHANGED <<app, chan, faults>>)
<1>1. PICK v \in Calls : v = handler[h]
  BY DEF Typed, HandlerTyped
<1>2. PICK w : w = [v EXCEPT !.at = "delete"]
  OBVIOUS
<1>3. /\ w = [at |-> "delete", copy |-> v.copy, turn |-> v.turn, request |-> v.request]
      /\ w \in Calls
  BY <1>2 DEF Calls
<1>4. handler' = [handler EXCEPT ![h] = w]
  BY <1>1, <1>2 DEF Respond, HandlerTo, Typed, HandlerTyped
<1>5. HandlerTyped' /\ HandlerMoved(h, w)
  BY <1>3, <1>4, HandlerEffect DEF Typed
<1>6. PICK r \in handler[h].request :
        IF r \in app.asked
        THEN /\ app' = [app EXCEPT !.asked = @ \ {r}, !.sent = @ \cup {<<"resolved", r>>}]
             /\ Publish(<<"resolved", r>>)
        ELSE UNCHANGED <<app, chan, faults>>
  BY DEF Respond
<1>7. r \in Requests
  BY <1>1, <1>6 DEF Calls
<1>8. /\ AppTyped' /\ ChanTyped' /\ faults' \in [FaultKinds -> Nat]
      /\ Resolves(r) \/ (r \notin app.asked /\ UNCHANGED <<app, chan, faults>>)
  <2>1. CASE r \in app.asked
    <3>1. <<"resolved", r>> \in Message
      BY <1>7 DEF Message
    <3>2. ChanTyped' /\ faults' \in [FaultKinds -> Nat]
      BY <1>6, <2>1, <3>1, PublishEffect DEF Typed
    <3>3. PICK sent \in SUBSET Message : sent = app.sent \cup {<<"resolved", r>>}
      BY <3>1 DEF Typed, AppTyped
    <3>4. PICK asked \in SUBSET Requests : asked = app.asked \ {r}
      BY DEF Typed, AppTyped
    <3>5. app' = [app EXCEPT !.asked = asked, !.sent = sent]
      BY <1>6, <2>1, <3>3, <3>4
    <3>6. PICK a : a = app'
      OBVIOUS
    <3>7. a = [turn |-> app.turn, running |-> app.running, asked |-> asked, asker |-> app.asker, sent |-> sent]
      BY <3>5, <3>6 DEF Typed, AppTyped
    <3>8. AppTyped'
      BY <3>6, <3>7 DEF Typed, AppTyped
    <3> QED
      BY <1>6, <2>1, <3>2, <3>3, <3>4, <3>6, <3>7, <3>8 DEF Resolves
  <2>2. CASE r \notin app.asked
    BY <1>6, <2>2 DEF Typed, AppTyped, ChanTyped, StoreTyped
  <2> QED
    BY <2>1, <2>2
<1>9. SubsTyped' /\ WorkerTyped' /\ StoreTyped'
  BY <1>8 DEF Respond, Typed, SubsTyped, WorkerTyped, StoreTyped, subVars, ghosts
<1> QED
  BY <1>1, <1>3, <1>5, <1>6, <1>8, <1>9 DEF Typed

LEMMA RespondSubscribesTyped ==
  ASSUME SessionAssumption, Typed, NEW h \in Handlers, RespondSubscribes(h)
  PROVE  /\ Typed'
         /\ UNCHANGED once
         /\ Joined /\ \A t \in Subs : Started(t, subs + 1)
<1>1. /\ SubsTyped' /\ ChanTyped' /\ WorkerTyped'
      /\ UNCHANGED once
      /\ Joined /\ \A t \in Subs : Started(t, subs + 1)
  BY BridgeTyped DEF RespondSubscribes
<1>2. AppTyped' /\ HandlerTyped' /\ StoreTyped'
  BY DEF RespondSubscribes, Typed, AppTyped, HandlerTyped, StoreTyped, ghosts
<1> QED
  BY <1>1, <1>2 DEF Typed

LEMMA RespondFailsTyped ==
  ASSUME SessionAssumption, Typed, NEW h \in Handlers, RespondFails(h)
  PROVE  Typed' /\ HandlerMoved(h, Idle)
<1>1. HandlerTyped' /\ HandlerMoved(h, Idle)
  BY AnsweredEffect DEF RespondFails, Typed
<1> QED
  BY <1>1 DEF RespondFails, Typed, AppTyped, SubsTyped, ChanTyped, WorkerTyped, StoreTyped,
              subVars, ghosts

LEMMA ResolveDeleteTyped ==
  ASSUME SessionAssumption, Typed, NEW h \in Handlers, ResolveDelete(h)
  PROVE  Typed' /\ HandlerMoved(h, Idle)
<1>1. HandlerTyped' /\ HandlerMoved(h, Idle)
  BY AnsweredEffect DEF ResolveDelete, Typed
<1> QED
  BY <1>1 DEF ResolveDelete, Typed, AppTyped, SubsTyped, ChanTyped, WorkerTyped, StoreTyped,
              subVars, ghosts

LEMMA TimeTyped ==
  ASSUME SessionAssumption, Typed, Time
  PROVE  Typed'
<1>1. faults' \in [FaultKinds -> Nat]
  BY FaultEffect, FaultNames DEF Time, Expire, Forget, Typed
<1>2. CASE \E r \in Requests : Expire(r)
  BY <1>1, <1>2 DEF Expire, Typed, AppTyped, SubsTyped, ChanTyped, WorkerTyped, HandlerTyped,
                    StoreTyped, subVars, ghosts
<1>3. CASE \E m \in Message : Forget(m)
  BY <1>1, <1>3 DEF Forget, Typed, AppTyped, SubsTyped, ChanTyped, WorkerTyped, HandlerTyped,
                    StoreTyped, subVars, ghosts
<1> QED
  BY <1>2, <1>3 DEF Time

LEMMA StutterTyped ==
  ASSUME Typed, UNCHANGED vars
  PROVE  Typed'
  BY DEF vars, Typed, AppTyped, SubsTyped, ChanTyped, WorkerTyped, HandlerTyped, StoreTyped,
         subVars, ghosts

LEMMA TypedStep ==
  ASSUME SessionAssumption, Typed, [Next]_vars
  PROVE  Typed'
<1>1. CASE AppServer
  BY <1>1, AskTyped, EndTurnTyped, ExitTyped, RepeatTyped DEF AppServer
<1>2. CASE \E s \in Subs, k \in Kinds : Work(s, k)
  BY <1>2, TakeRequestTyped, TakeNoteTyped, ReadTyped, WriteRecordTyped, SettleTyped, MarkTyped,
     AppendTyped, EndLoopTyped, DeleteEntryTyped, ResubscribeTyped DEF Work
<1>3. CASE \E h \in Handlers : Handle(h)
  BY <1>3, OpenTyped, CallFailsTyped, AcceptTyped, WriteTurnTyped, WriteNameTyped,
     ResolveReadTyped, RespondTyped, RespondSubscribesTyped, RespondFailsTyped,
     ResolveDeleteTyped DEF Handle
<1> QED
  BY <1>1, <1>2, <1>3, TimeTyped, StutterTyped DEF Next

LEMMA InitTyped ==
  ASSUME SessionAssumption, Init
  PROVE  Typed
<1>1. AppTyped
  BY DEF Init, AppTyped, SessionAssumption
<1>2. SubsTyped
  <2>1. entry \in BOOLEAN
    BY DEF Init
  <2>2. subs \in 0..MaxSubs /\ once \in [Subs -> {"no", "running", "done"}]
    BY DEF Init, SessionAssumption
  <2> QED
    BY <2>1, <2>2 DEF SubsTyped
<1>3. Closed \in Channels /\ \A k : Closed.items \in Seq(MessagesOf(k)) /\ Len(Closed.items) = 0
  BY DEF Closed, Channels
<1>4. ChanTyped
  BY <1>3 DEF Init, ChanTyped, SessionAssumption
<1>5. PICK w : w = [Reading EXCEPT !.at = "off"]
  OBVIOUS
<1>6. w \in Goroutines /\ w.at = "off"
  BY <1>5, ReadingHolds DEF Goroutines, Places
<1>7. \A k : Holds(w, k)
  BY <1>6 DEF Holds
<1>8. WorkerTyped
  BY <1>5, <1>6, <1>7 DEF Init, WorkerTyped
<1>9. Idle \in Calls /\ Idle.at = "idle"
  BY DEF Idle, Calls, SessionAssumption
<1>10. HandlerTyped
  BY <1>9 DEF Init, HandlerTyped
<1>11. StoreTyped
  <2>1. raced \in BOOLEAN /\ stale \in BOOLEAN
    BY DEF Init
  <2>2. pending = {} /\ seen = {} /\ handled = {} /\ record = [turn |-> 0, status |-> "none"]
    BY DEF Init
  <2>3. record \in Record
    BY <2>2 DEF Record, SessionAssumption
  <2>4. events \in [Message -> Nat] /\ faults \in [FaultKinds -> Nat]
    BY DEF Init
  <2> QED
    BY <2>1, <2>2, <2>3, <2>4 DEF StoreTyped
<1> QED
  BY <1>1, <1>2, <1>4, <1>8, <1>10, <1>11 DEF Typed

LEMMA TypedIsTypeOK ==
  ASSUME SessionAssumption, Typed
  PROVE  TypeOK
<1>1. /\ app.turn \in 0..MaxTurns /\ app.running \in BOOLEAN
      /\ app.asked \subseteq Requests /\ app.asker \in [Requests -> 0..MaxTurns]
      /\ app.sent \subseteq Message
  BY DEF Typed, AppTyped
<1>2. ASSUME NEW s \in Subs, NEW k \in Kinds
      PROVE  /\ chan[s][k].open \in BOOLEAN
             /\ chan[s][k].items \in Seq({m \in Message : KindOf(m) = k})
             /\ Len(chan[s][k].items) <= Buffer
             /\ worker[s][k].at \in Places
             /\ worker[s][k].message \in Message \cup {<<>>}
             /\ worker[s][k].copy \in Record \cup {<<>>}
  <2>1. chan[s][k] \in Channels /\ worker[s][k] \in Goroutines
    BY DEF Typed, ChanTyped, WorkerTyped
  <2>2. chan[s][k].items \in Seq(MessagesOf(k)) /\ Len(chan[s][k].items) <= Buffer
    BY DEF Typed, ChanTyped
  <2> QED
    BY <2>1, <2>2 DEF Channels, Goroutines, MessagesOf
<1>3. ASSUME NEW h \in Handlers
      PROVE  /\ handler[h].at \in {"idle", "call", "answered", "respond", "delete"}
             /\ handler[h].copy \in Record \cup {<<>>}
             /\ handler[h].turn \in 0..MaxTurns /\ handler[h].request \subseteq Requests
  <2>1. handler[h] \in Calls
    BY DEF Typed, HandlerTyped
  <2> QED
    BY <2>1 DEF Calls
<1> QED
  BY <1>1, <1>2, <1>3 DEF TypeOK, Places, Typed, SubsTyped, StoreTyped

(* Whatever the app-server, the clients and the clock do, every field,     *)
(* goroutine and handler is in a state of the code, and no channel holds   *)
(* more than its capacity (publishNotification, persistCodexNotification). *)
THEOREM SessionTypeCorrect == Spec => []TypeOK
<1>1. Init => Typed
  BY SessionAssumption, InitTyped
<1>2. Typed /\ [Next]_vars => Typed'
  BY SessionAssumption, TypedStep
<1>3. Typed => TypeOK
  BY SessionAssumption, TypedIsTypeOK
<1> QED
  BY <1>1, <1>2, <1>3, PTL DEF Spec

-----------------------------------------------------------------------------
(* One subscription.  A subscription s is replaced once restart has run    *)
(* for it; the goroutine that runs it deletes the entry of the host and    *)
(* subscribes again, while the other goroutine of s waits.                 *)

Leaving(s, k) == worker[s][k].at \in {"delete", "ensure"}

Replaced(s) == once[s] # "no"

OneLeaves ==
  \A s \in Subs, k \in Kinds :
    Leaving(s, k) => once[s] = "running" /\ \A l \in Kinds : Leaving(s, l) => k = l

OnlyCurrent ==
  /\ \A s \in Subs : s > subs =>
       once[s] = "no" /\ \A k \in Kinds : chan[s][k] = Closed /\ worker[s][k].at = "off"
  /\ \A s \in Subs : s < subs => Replaced(s)
  /\ \A s \in Subs : Replaced(s) => \A k \in Kinds : ~chan[s][k].open

(* The host has an entry until the goroutine that restarts the current     *)
(* subscription has deleted it.                                            *)
EntryOfCurrent ==
  /\ \A s \in Subs, k \in Kinds : worker[s][k].at = "delete" => s = subs /\ entry
  /\ \A s \in Subs : s = subs /\ ~entry => Replaced(s)
  /\ entry => subs > 0

SubsInv == OneLeaves /\ OnlyCurrent /\ EntryOfCurrent

(* A step that opens and closes no subscription.                           *)
ChanQuiet ==
  \A s \in Subs, k \in Kinds :
    /\ chan[s][k] = Closed => chan'[s][k] = Closed
    /\ chan'[s][k].open => chan[s][k].open

WorkerQuiet ==
  \A s \in Subs, k \in Kinds :
    /\ worker[s][k].at = "off" => worker'[s][k].at = "off"
    /\ worker'[s][k].at \in {"delete", "ensure"} => worker'[s][k].at = worker[s][k].at

Quiet == UNCHANGED subVars /\ ChanQuiet /\ WorkerQuiet

LEMMA DeliveredQuiet ==
  ASSUME NEW m, Delivered(m) PROVE ChanQuiet
<1> SUFFICES ASSUME NEW s \in Subs, NEW k \in Kinds
             PROVE  /\ chan[s][k] = Closed => chan'[s][k] = Closed
                    /\ chan'[s][k].open => chan[s][k].open
  BY DEF ChanQuiet
<1>1. CASE k # KindOf(m) \/ ~chan[s][k].open
  BY <1>1 DEF Delivered
<1>2. CASE k = KindOf(m) /\ chan[s][k].open
  <2>1. chan[s][k] # Closed
    BY <1>2 DEF Closed
  <2> QED
    BY <1>2, <2>1
<1> QED
  BY <1>1, <1>2

LEMMA TookQuiet ==
  ASSUME NEW s \in Subs, NEW k \in Kinds, Took(s, k), chan[s][k].items # <<>>
  PROVE  ChanQuiet
<1>1. chan[s][k] # Closed
  BY DEF Closed
<1> QED
  BY <1>1 DEF Took, ChanQuiet

LEMMA MovedQuiet ==
  ASSUME NEW s \in Subs, NEW k \in Kinds, worker[s][k].at # "off",
         \E w : Moved(s, k, w) /\ w.at \notin {"delete", "ensure"}
  PROVE  WorkerQuiet
  BY DEF Moved, WorkerQuiet

LEMMA WentQuiet ==
  ASSUME NEW s \in Subs, NEW k \in Kinds, worker[s][k].at # "off",
         \E at : Went(s, k, at) /\ at \notin {"delete", "ensure"}
  PROVE  WorkerQuiet
  BY DEF Went, WorkerQuiet

LEMMA PublishQuiet ==
  ASSUME SessionAssumption, Typed, NEW m \in Message, Publish(m), UNCHANGED <<subVars, worker>>
  PROVE  Quiet
<1>1. ChanQuiet
  BY PublishEffect, DeliveredQuiet DEF Typed
<1> QED
  BY <1>1 DEF Quiet, WorkerQuiet

LEMMA SameQuiet ==
  ASSUME UNCHANGED <<subVars, chan, worker>>
  PROVE  Quiet
  BY DEF Quiet, ChanQuiet, WorkerQuiet

Subscribing ==
  \/ \E s \in Subs, k \in Kinds : EndLoop(s, k) \/ DeleteEntry(s, k) \/ Resubscribe(s, k)
  \/ \E h \in Handlers : Open(h) \/ RespondSubscribes(h)

LEMMA AppQuiet ==
  ASSUME SessionAssumption, Typed, AppServer
  PROVE  Quiet
<1>1. ASSUME NEW r \in Requests, Ask(r)
      PROVE  Quiet
  <2>1. <<"request", r>> \in Message
    BY DEF Message
  <2> QED
    BY <1>1, <2>1, PublishQuiet DEF Ask
<1>2. CASE EndTurn
  BY <1>2, EndTurnTyped, PublishQuiet DEF EndTurn
<1>3. CASE Exit
  BY <1>3, SameQuiet DEF Exit
<1>4. ASSUME NEW m \in Message, Repeat(m)
      PROVE  Quiet
  <2>1. ChanQuiet
    BY <1>4, DeliverEffect, DeliveredQuiet DEF Repeat, Typed
  <2> QED
    BY <1>4, <2>1 DEF Repeat, Quiet, WorkerQuiet
<1> QED
  BY <1>1, <1>2, <1>3, <1>4 DEF AppServer

LEMMA WorkQuiet ==
  ASSUME SessionAssumption, Typed, NEW s \in Subs, NEW k \in Kinds, Work(s, k)
  PROVE  Quiet \/ EndLoop(s, k) \/ DeleteEntry(s, k) \/ Resubscribe(s, k)
<1>1. /\ "note" \in Kinds /\ "request" \in Kinds
      /\ \A m : AtMark(m).at = "mark"
      /\ Reading.at = "loop"
  BY DEF Kinds, AtMark, Reading
<1>2. ASSUME TakeRequest(s) PROVE Quiet
  <2>1. Took(s, "request") /\ Moved(s, "request", AtMark(Next1(s, "request")))
    BY <1>2, TakeRequestTyped
  <2>2. /\ chan[s]["request"].items # <<>> /\ worker[s]["request"].at # "off"
        /\ UNCHANGED subVars
    BY <1>2 DEF TakeRequest, HasNext
  <2> QED
    BY <1>1, <2>1, <2>2, TookQuiet, MovedQuiet DEF Quiet
<1>3. ASSUME TakeNote(s) PROVE Quiet
  <2>1. Took(s, "note") /\ Moved(s, "note", AtMark(Next1(s, "note")))
    BY <1>3, TakeNoteTyped
  <2>2. /\ chan[s]["note"].items # <<>> /\ worker[s]["note"].at # "off"
        /\ UNCHANGED subVars
    BY <1>3 DEF TakeNote, HasNext
  <2> QED
    BY <1>1, <2>1, <2>2, TookQuiet, MovedQuiet DEF Quiet
<1>4. ASSUME Mark(s, k) PROVE Quiet
  <2>1. Moved(s, k, Reading) \/ Went(s, k, "append")
    BY <1>4, MarkTyped
  <2>2. WorkerQuiet
    BY <1>1, <1>4, <2>1, MovedQuiet, WentQuiet DEF Mark
  <2> QED
    BY <1>4, <2>2 DEF Mark, Quiet, ChanQuiet
<1>5. ASSUME AppendEvent(s, k) PROVE Quiet
  <2>1. Moved(s, k, Reading) \/ Went(s, k, "settle") \/ Went(s, k, "read")
    BY <1>5, AppendTyped
  <2>2. WorkerQuiet
    BY <1>1, <1>5, <2>1, MovedQuiet, WentQuiet DEF AppendEvent
  <2> QED
    BY <1>5, <2>2 DEF AppendEvent, Quiet, ChanQuiet
<1>6. ASSUME ReadRecord(s) PROVE Quiet
  <2>1. PICK w : /\ w = [at |-> "write", message |-> worker[s]["note"].message, copy |-> record]
                 /\ Moved(s, "note", w)
    BY <1>6, ReadTyped
  <2>2. w.at = "write" /\ worker[s]["note"].at = "read"
    BY <1>6, <2>1 DEF ReadRecord
  <2>3. WorkerQuiet
    BY <1>1, <2>1, <2>2, MovedQuiet
  <2> QED
    BY <1>6, <2>3 DEF ReadRecord, Quiet, ChanQuiet
<1>7. ASSUME WriteRecord(s) PROVE Quiet
  <2>1. PICK w : /\ \/ w = [at |-> "settle", message |-> worker[s]["note"].message, copy |-> <<>>]
                    \/ w = Reading
                 /\ Moved(s, "note", w)
    BY <1>7, WriteRecordTyped
  <2>2. w.at \in {"settle", "loop"} /\ worker[s]["note"].at = "write"
    BY <1>1, <1>7, <2>1 DEF WriteRecord
  <2>3. WorkerQuiet
    BY <1>1, <2>1, <2>2, MovedQuiet
  <2> QED
    BY <1>7, <2>3 DEF WriteRecord, Quiet, ChanQuiet
<1>8. ASSUME Settle(s) PROVE Quiet
  <2>1. WorkerQuiet
    BY <1>1, <1>8, SettleTyped, MovedQuiet DEF Settle
  <2> QED
    BY <1>8, <2>1 DEF Settle, Quiet, ChanQuiet
<1> QED
  BY <1>2, <1>3, <1>4, <1>5, <1>6, <1>7, <1>8 DEF Work

LEMMA HandleQuiet ==
  ASSUME SessionAssumption, Typed, NEW h \in Handlers, Handle(h)
  PROVE  Quiet \/ Open(h) \/ RespondSubscribes(h)
<1>1. ASSUME AcceptTurn(h) PROVE Quiet
  <2>1. <<"started", app.turn + 1>> \in Message /\ Publish(<<"started", app.turn + 1>>)
    BY <1>1, AcceptTyped DEF Message
  <2> QED
    BY <1>1, <2>1, PublishQuiet DEF AcceptTurn
<1>2. ASSUME Respond(h) PROVE Quiet
  <2>1. PICK r \in handler[h].request :
          Resolves(r) \/ (r \notin app.asked /\ UNCHANGED <<app, chan, faults>>)
    BY <1>2, RespondTyped
  <2>2. UNCHANGED <<subVars, worker>>
    BY <1>2 DEF Respond
  <2>3. CASE Resolves(r)
    <3>1. <<"resolved", r>> \in Message
      BY <2>3 DEF Resolves, Message, Typed, AppTyped
    <3> QED
      BY <2>2, <2>3, <3>1, PublishQuiet DEF Resolves
  <2> QED
    BY <2>1, <2>2, <2>3, SameQuiet
<1>3. ASSUME CallFails(h) \/ WriteTurn(h) \/ WriteName(h) PROVE Quiet
  BY <1>3, SameQuiet DEF CallFails, WriteTurn, WriteName
<1>4. ASSUME RespondFails(h) \/ ResolveDelete(h) \/ \E r \in Requests : ResolveRead(h, r)
      PROVE  Quiet
  BY <1>4, SameQuiet DEF RespondFails, ResolveDelete, ResolveRead
<1> QED
  BY <1>1, <1>2, <1>3, <1>4 DEF Handle

LEMMA StepQuiet ==
  ASSUME SessionAssumption, Typed, [Next]_vars
  PROVE  Quiet \/ Subscribing
<1>1. CASE Time
  BY <1>1, SameQuiet DEF Time, Expire, Forget
<1>2. CASE UNCHANGED vars
  BY <1>2, SameQuiet DEF vars
<1>3. CASE \E s \in Subs, k \in Kinds : Work(s, k)
  BY <1>3, WorkQuiet DEF Subscribing
<1>4. CASE \E h \in Handlers : Handle(h)
  BY <1>4, HandleQuiet DEF Subscribing
<1> QED
  BY <1>1, <1>2, <1>3, <1>4, AppQuiet DEF Next

LEMMA QuietKeepsSubs ==
  ASSUME SubsInv, Quiet
  PROVE  SubsInv'
<1>1. /\ entry' = entry /\ subs' = subs /\ once' = once
      /\ \A s \in Subs, k \in Kinds :
           /\ chan[s][k] = Closed => chan'[s][k] = Closed
           /\ chan'[s][k].open => chan[s][k].open
           /\ worker[s][k].at = "off" => worker'[s][k].at = "off"
           /\ worker'[s][k].at \in {"delete", "ensure"} => worker'[s][k].at = worker[s][k].at
  BY DEF Quiet, ChanQuiet, WorkerQuiet, subVars
<1>2. OneLeaves'
  BY <1>1 DEF SubsInv, OneLeaves, Leaving
<1>3. OnlyCurrent'
  BY <1>1 DEF SubsInv, OnlyCurrent, Replaced
<1>4. EntryOfCurrent'
  BY <1>1 DEF SubsInv, EntryOfCurrent, Replaced
<1> QED
  BY <1>2, <1>3, <1>4 DEF SubsInv

LEMMA SubsNumbers ==
  ASSUME SessionAssumption, Typed
  PROVE  /\ subs \in Nat
         /\ \A s \in Subs : s \in Nat /\ s > 0
  BY DEF Typed, SubsTyped, Subs, SessionAssumption

LEMMA EndLoopSubs ==
  ASSUME SessionAssumption, Typed, SubsInv, NEW s \in Subs, NEW k \in Kinds, EndLoop(s, k)
  PROVE  SubsInv'
<1>1. /\ worker[s][k].at = "loop" /\ chan[s][k] = Closed
      /\ entry' = entry /\ subs' = subs
  BY EndLoopTyped
<1>2. subs \in Nat /\ \A t \in Subs : t \in Nat
  BY SubsNumbers
<1>3. s <= subs
  BY <1>1, <1>2 DEF SubsInv, OnlyCurrent
<1>4. CASE once[s] = "no"
  <2>1. once' = [once EXCEPT ![s] = "running"] /\ Shut(s) /\ Went(s, k, "delete")
    BY <1>4, EndLoopTyped
  <2>2. s = subs /\ entry
    BY <1>2, <1>3, <1>4 DEF SubsInv, OnlyCurrent, EntryOfCurrent, Replaced
  <2>3. \A t \in Subs : once'[t] = IF t = s THEN "running" ELSE once[t]
    BY <2>1 DEF Typed, SubsTyped
  <2>4. \A l \in Kinds : ~Leaving(s, l)
    BY <1>4 DEF SubsInv, OneLeaves
  <2>5. /\ worker'[s][k].at = "delete"
        /\ \A t \in Subs, l \in Kinds : (t # s \/ l # k) => worker'[t][l] = worker[t][l]
    BY <2>1 DEF Went
  <2>6. /\ \A t \in Subs, l \in Kinds : t # s => chan'[t][l] = chan[t][l]
        /\ \A l \in Kinds : ~chan'[s][l].open
    <3>1. \A l \in Kinds : chan'[s][l] = [open |-> FALSE, items |-> chan[s][l].items]
      BY <2>1 DEF Shut
    <3>2. ASSUME NEW l \in Kinds PROVE ~chan'[s][l].open
      <4>1. PICK q : q = chan[s][l].items
        OBVIOUS
      <4>2. chan'[s][l] = [open |-> FALSE, items |-> q]
        BY <3>1, <4>1
      <4> QED
        BY <4>2
    <3> QED
      BY <2>1, <3>2 DEF Shut
  <2>7. OneLeaves'
    <3> SUFFICES ASSUME NEW t \in Subs, NEW l \in Kinds, Leaving(t, l)'
                 PROVE  once'[t] = "running" /\ \A j \in Kinds : Leaving(t, j)' => l = j
      BY DEF OneLeaves
    <3>1. CASE t = s
      BY <2>3, <2>4, <2>5, <3>1 DEF Leaving
    <3>2. CASE t # s
      BY <2>3, <2>5, <3>2 DEF SubsInv, OneLeaves, Leaving
    <3> QED
      BY <3>1, <3>2
  <2>8. OnlyCurrent'
    BY <1>1, <1>2, <2>2, <2>3, <2>5, <2>6 DEF SubsInv, OnlyCurrent, Replaced
  <2>9. EntryOfCurrent'
    BY <1>1, <2>2, <2>3, <2>5 DEF SubsInv, EntryOfCurrent, Replaced
  <2> QED
    BY <2>7, <2>8, <2>9 DEF SubsInv
<1>5. CASE once[s] # "no"
  <2>1. UNCHANGED <<once, chan>> /\ Went(s, k, "off")
    BY <1>5, EndLoopTyped
  <2>2. WorkerQuiet
    BY <1>1, <2>1, WentQuiet
  <2>3. Quiet
    BY <1>1, <2>1, <2>2 DEF Quiet, ChanQuiet, subVars
  <2> QED
    BY <2>3, QuietKeepsSubs
<1> QED
  BY <1>4, <1>5

LEMMA DeleteEntrySubs ==
  ASSUME SessionAssumption, Typed, SubsInv, NEW s \in Subs, NEW k \in Kinds, DeleteEntry(s, k)
  PROVE  SubsInv'
<1>1. /\ worker[s][k].at = "delete" /\ entry' = FALSE
      /\ subs' = subs /\ once' = once /\ chan' = chan
  BY DEF DeleteEntry, EntryDeleted
<1>2. /\ worker'[s][k].at = "ensure"
      /\ \A t \in Subs, l \in Kinds : (t # s \/ l # k) => worker'[t][l] = worker[t][l]
  <2>1. Went(s, k, "ensure")
    BY DeleteEntryTyped
  <2> QED
    BY <2>1 DEF Went
<1>3. s = subs /\ once[s] = "running" /\ \A l \in Kinds : l # k => worker[s][l].at # "delete"
  BY <1>1 DEF SubsInv, EntryOfCurrent, OneLeaves, Leaving
<1>4. OneLeaves'
  <2>1. \A t \in Subs, l \in Kinds : Leaving(t, l)' => Leaving(t, l)
    BY <1>1, <1>2 DEF Leaving
  <2> QED
    BY <1>1, <2>1 DEF SubsInv, OneLeaves
<1>5. OnlyCurrent'
  <2>1. \A t \in Subs, l \in Kinds : worker[t][l].at = "off" => worker'[t][l].at = "off"
    BY <1>1, <1>2
  <2> QED
    BY <1>1, <2>1 DEF SubsInv, OnlyCurrent, Replaced
<1>6. EntryOfCurrent'
  <2>1. ASSUME NEW t \in Subs, NEW l \in Kinds, worker'[t][l].at = "delete"
        PROVE  FALSE
    <3>1. worker[t][l].at = "delete" /\ (t # s \/ l # k)
      BY <1>2, <2>1
    <3> QED
      BY <1>3, <3>1 DEF SubsInv, EntryOfCurrent
  <2>2. \A t \in Subs : t = subs => Replaced(t)'
    BY <1>1, <1>3 DEF Replaced
  <2> QED
    BY <1>1, <2>1, <2>2 DEF EntryOfCurrent
<1> QED
  BY <1>4, <1>5, <1>6 DEF SubsInv

(* A new subscription: all the earlier ones have been replaced.            *)
LEMMA JoinedSubs ==
  ASSUME SessionAssumption, Typed, SubsInv, Joined,
         \A t \in Subs : Replaced(t)' <=> Replaced(t),
         \A t \in Subs, l \in Kinds :
           t # subs + 1 /\ worker'[t][l] # worker[t][l] => worker'[t][l].at = "off",
         \A t \in Subs, l \in Kinds : t = subs + 1 => worker'[t][l] = Reading,
         \A t \in Subs, l \in Kinds : Leaving(t, l)' => once'[t] = once[t]
  PROVE  SubsInv'
<1>1. subs \in Nat /\ \A t \in Subs : t \in Nat
  BY SubsNumbers
<1>2. PICK n \in Subs : n = subs + 1 /\ subs' = n /\ entry' = TRUE /\ ~entry
  BY DEF Joined
<1>3. /\ \A t \in Subs, l \in Kinds : t # n => chan'[t][l] = chan[t][l]
      /\ \A l \in Kinds : chan'[n][l].open
  BY <1>2 DEF Joined, Opened, Channel
<1>4. /\ \A l \in Kinds : worker'[n][l].at = "loop"
      /\ \A t \in Subs, l \in Kinds :
           t # n => worker'[t][l] = worker[t][l] \/ worker'[t][l].at = "off"
  BY <1>2 DEF Reading
<1>5. \A t \in Subs : t <= subs => Replaced(t)
  BY <1>1, <1>2 DEF SubsInv, OnlyCurrent, EntryOfCurrent
<1>6. once[n] = "no"
  BY <1>1, <1>2 DEF SubsInv, OnlyCurrent
<1>7. OneLeaves'
  <2>1. \A t \in Subs, l \in Kinds : Leaving(t, l)' => Leaving(t, l)
    <3> SUFFICES ASSUME NEW t \in Subs, NEW l \in Kinds, Leaving(t, l)' PROVE Leaving(t, l)
      OBVIOUS
    <3> QED
      BY <1>4 DEF Leaving
  <2> QED
    BY <2>1 DEF SubsInv, OneLeaves
<1>8. OnlyCurrent'
  <2>1. ASSUME NEW t \in Subs, t > n
        PROVE  once'[t] = "no" /\ \A l \in Kinds : chan'[t][l] = Closed /\ worker'[t][l].at = "off"
    <3>1. t > subs /\ t # n
      BY <1>1, <1>2, <2>1
    <3>2. once[t] = "no" /\ \A l \in Kinds : chan[t][l] = Closed /\ worker[t][l].at = "off"
      BY <3>1 DEF SubsInv, OnlyCurrent
    <3>3. once'[t] = "no"
      BY <3>2 DEF Replaced
    <3> QED
      BY <1>3, <1>4, <3>1, <3>2, <3>3
  <2>2. ASSUME NEW t \in Subs, t < n
        PROVE  Replaced(t)'
    BY <1>1, <1>2, <1>5, <2>2
  <2>3. ASSUME NEW t \in Subs, Replaced(t)', NEW l \in Kinds
        PROVE  ~chan'[t][l].open
    <3>1. Replaced(t) /\ t # n
      BY <1>6, <2>3 DEF Replaced
    <3> QED
      BY <1>3, <3>1 DEF SubsInv, OnlyCurrent
  <2> QED
    BY <1>2, <2>1, <2>2, <2>3 DEF OnlyCurrent
<1>9. EntryOfCurrent'
  <2>1. ASSUME NEW t \in Subs, NEW l \in Kinds, worker'[t][l].at = "delete"
        PROVE  FALSE
    <3>1. worker[t][l].at = "delete"
      BY <1>4, <2>1
    <3> QED
      BY <1>2, <3>1 DEF SubsInv, EntryOfCurrent
  <2> QED
    BY <1>1, <1>2, <2>1 DEF EntryOfCurrent
<1> QED
  BY <1>7, <1>8, <1>9 DEF SubsInv

LEMMA BridgeSubs ==
  ASSUME SessionAssumption, Typed, SubsInv, UNCHANGED once,
         \/ entry /\ UNCHANGED <<entry, subs, chan, worker>>
         \/ Joined /\ \A t \in Subs : Started(t, subs + 1)
  PROVE  SubsInv'
<1>1. CASE entry /\ UNCHANGED <<entry, subs, chan, worker>>
  <2>1. Quiet
    BY <1>1, SameQuiet DEF subVars
  <2> QED
    BY <2>1, QuietKeepsSubs
<1>2. CASE Joined /\ \A t \in Subs : Started(t, subs + 1)
  <2>1. \A t \in Subs : Replaced(t)' <=> Replaced(t)
    BY DEF Replaced
  <2>2. /\ \A t \in Subs, l \in Kinds : t # subs + 1 => worker'[t][l] = worker[t][l]
        /\ \A t \in Subs, l \in Kinds : t = subs + 1 => worker'[t][l] = Reading
    BY <1>2 DEF Started
  <2> QED
    BY <1>2, <2>1, <2>2, JoinedSubs
<1> QED
  BY <1>1, <1>2

LEMMA ResubscribeSubs ==
  ASSUME SessionAssumption, Typed, SubsInv, NEW s \in Subs, NEW k \in Kinds, Resubscribe(s, k)
  PROVE  SubsInv'
<1>1. /\ once' = [once EXCEPT ![s] = "done"]
      /\ (entry /\ UNCHANGED <<entry, subs, chan>>) \/ Joined
      /\ worker'[s][k].at = "off"
      /\ \A l \in Kinds : l # k => worker'[s][l] = worker[s][l]
      /\ \A t \in Subs : t # s => Started(t, IF entry THEN 0 ELSE subs + 1)
  BY ResubscribeTyped
<1>2. worker[s][k].at = "ensure"
  BY DEF Resubscribe
<1>3. once[s] = "running" /\ \A l \in Kinds : Leaving(s, l) => k = l
  BY <1>2 DEF SubsInv, OneLeaves, Leaving
<1>4. \A t \in Subs : once'[t] = IF t = s THEN "done" ELSE once[t]
  BY <1>1 DEF Typed, SubsTyped
<1>5. \A t \in Subs : Replaced(t)' <=> Replaced(t)
  BY <1>3, <1>4 DEF Replaced
<1>6. s # subs + 1
  BY <1>3, SubsNumbers DEF SubsInv, OnlyCurrent
<1>7. \A l \in Kinds : ~Leaving(s, l)'
  <2> SUFFICES ASSUME NEW l \in Kinds PROVE ~Leaving(s, l)'
    OBVIOUS
  <2>1. CASE l = k
    BY <1>1, <2>1 DEF Leaving
  <2>2. CASE l # k
    BY <1>1, <1>3, <2>2 DEF Leaving
  <2> QED
    BY <2>1, <2>2
<1>8. \A t \in Subs, l \in Kinds : Leaving(t, l)' => once'[t] = once[t]
  BY <1>4, <1>7
<1>9. CASE entry
  <2>1. UNCHANGED <<entry, subs, chan>>
    BY <1>1, <1>9 DEF Joined
  <2>2. \A t \in Subs, l \in Kinds : worker'[t][l] = worker[t][l] \/ worker'[t][l].at = "off"
    <3> SUFFICES ASSUME NEW t \in Subs, NEW l \in Kinds
                 PROVE  worker'[t][l] = worker[t][l] \/ worker'[t][l].at = "off"
      OBVIOUS
    <3>1. CASE t = s
      BY <1>1, <3>1
    <3>2. CASE t # s
      <4>1. t # 0
        BY SubsNumbers
      <4> QED
        BY <1>1, <1>9, <3>2, <4>1 DEF Started
    <3> QED
      BY <3>1, <3>2
  <2>3. OneLeaves'
    <3>1. \A t \in Subs, l \in Kinds : Leaving(t, l)' => Leaving(t, l)
      BY <2>2 DEF Leaving
    <3> QED
      BY <1>8, <3>1 DEF SubsInv, OneLeaves
  <2>4. OnlyCurrent'
    <3>1. \A t \in Subs : once[t] = "no" => once'[t] = "no"
      BY <1>5 DEF Replaced
    <3> QED
      BY <1>5, <2>1, <2>2, <3>1 DEF SubsInv, OnlyCurrent
  <2>5. EntryOfCurrent'
    BY <1>5, <2>1, <2>2 DEF SubsInv, EntryOfCurrent
  <2> QED
    BY <2>3, <2>4, <2>5 DEF SubsInv
<1>10. CASE ~entry
  <2>1. Joined
    BY <1>1, <1>10
  <2>2. \A t \in Subs, l \in Kinds : t = subs + 1 => worker'[t][l] = Reading
    BY <1>1, <1>6, <1>10 DEF Started
  <2>3. \A t \in Subs, l \in Kinds :
           t # subs + 1 /\ worker'[t][l] # worker[t][l] => worker'[t][l].at = "off"
    <3> SUFFICES ASSUME NEW t \in Subs, NEW l \in Kinds, t # subs + 1,
                        worker'[t][l] # worker[t][l]
                 PROVE  worker'[t][l].at = "off"
      OBVIOUS
    <3>1. CASE t = s
      BY <1>1, <3>1
    <3>2. CASE t # s
      BY <1>1, <1>10, <3>2 DEF Started
    <3> QED
      BY <3>1, <3>2
  <2> QED
    BY <1>5, <1>8, <2>1, <2>2, <2>3, JoinedSubs
<1> QED
  BY <1>9, <1>10

LEMMA SubsStep ==
  ASSUME SessionAssumption, Typed, SubsInv, [Next]_vars
  PROVE  SubsInv'
<1>1. CASE Quiet
  BY <1>1, QuietKeepsSubs
<1>2. ASSUME NEW s \in Subs, NEW k \in Kinds,
             EndLoop(s, k) \/ DeleteEntry(s, k) \/ Resubscribe(s, k)
      PROVE  SubsInv'
  BY <1>2, EndLoopSubs, DeleteEntrySubs, ResubscribeSubs
<1>3. ASSUME NEW h \in Handlers, Open(h) \/ RespondSubscribes(h)
      PROVE  SubsInv'
  BY <1>3, OpenTyped, RespondSubscribesTyped, BridgeSubs
<1> QED
  BY <1>1, <1>2, <1>3, StepQuiet DEF Subscribing

LEMMA InitSubs ==
  ASSUME SessionAssumption, Init
  PROVE  SubsInv
<1>1. /\ subs = 0 /\ entry = FALSE
      /\ \A s \in Subs : /\ once[s] = "no" /\ s > 0
                         /\ \A k \in Kinds : chan[s][k] = Closed /\ worker[s][k].at = "off"
  BY DEF Init, Reading, Subs, SessionAssumption
<1>2. ~Closed.open
  BY DEF Closed
<1> QED
  BY <1>1, <1>2 DEF SubsInv, OneLeaves, OnlyCurrent, EntryOfCurrent, Leaving, Replaced, Subs

LEMMA SubsIsOneSubscriber ==
  ASSUME SessionAssumption, Typed, SubsInv
  PROVE  OneSubscriber
<1> SUFFICES ASSUME NEW s \in Subs, NEW t \in Subs, NEW k \in Kinds, NEW l \in Kinds,
                    chan[s][k].open, chan[t][l].open
             PROVE  s = t
  BY DEF OneSubscriber
<1>1. ASSUME NEW u \in Subs, NEW j \in Kinds, chan[u][j].open
      PROVE  u = subs
  <2>1. ~Replaced(u) /\ chan[u][j] # Closed
    BY <1>1 DEF SubsInv, OnlyCurrent, Closed
  <2> QED
    BY <2>1, SubsNumbers DEF SubsInv, OnlyCurrent
<1> QED
  BY <1>1

(* In whatever order the two goroutines of a closed subscription and the   *)
(* HTTP handlers find it missing (restartOnce,                             *)
(* ensureCodexBridgeSubscription): never do two of them receive what the   *)
(* app-server says.                                                        *)
THEOREM OneSubscriberAtATime == Spec => []OneSubscriber
<1>1. Init => Typed /\ SubsInv
  BY SessionAssumption, InitTyped, InitSubs
<1>2. Typed /\ SubsInv /\ [Next]_vars => Typed' /\ SubsInv'
  BY SessionAssumption, TypedStep, SubsStep
<1>3. Typed /\ SubsInv => OneSubscriber
  BY SessionAssumption, SubsIsOneSubscriber
<1> QED
  BY <1>1, <1>2, <1>3, PTL DEF Spec

-----------------------------------------------------------------------------
(* As long as no channel overflows, the first subscription stays.          *)

Listening ==
  /\ \A s \in Subs : s <= subs => once[s] = "no" /\ \A k \in Kinds : chan[s][k].open
  /\ subs > 0 => entry
  /\ app.turn > 0 => subs > 0
  /\ \A h \in Handlers : handler[h].at \in {"call", "answered"} => subs > 0

ListenInv == faults["overflow"] = 0 => Listening

LEMMA StepFaults ==
  ASSUME SessionAssumption, Typed, [Next]_vars
  PROVE  FaultsGrow
<1>0. StoreTyped
  BY DEF Typed
<1>1. ASSUME NEW kind \in FaultKinds, Fault(kind) PROVE FaultsGrow
  BY <1>0, <1>1, FaultEffect
<1>2. ASSUME NEW m \in Message, Publish(m) PROVE FaultsGrow
  BY <1>2, PublishEffect DEF Typed
<1>3. CASE AppServer
  <2>1. ASSUME NEW r \in Requests, Ask(r) PROVE FaultsGrow
    <3>1. <<"request", r>> \in Message
      BY DEF Message
    <3> QED
      BY <1>2, <2>1, <3>1 DEF Ask
  <2>2. CASE EndTurn
    BY <1>2, <2>2, EndTurnTyped DEF EndTurn
  <2>3. CASE Exit \/ \E m \in Message : Repeat(m)
    BY <1>1, <2>3, FaultNames DEF Exit, Repeat
  <2> QED
    BY <1>3, <2>1, <2>2, <2>3 DEF AppServer
<1>4. ASSUME NEW s \in Subs, NEW k \in Kinds, Work(s, k) PROVE FaultsGrow
  <2>1. CASE AppendEvent(s, k)
    BY <2>1, AppendTyped
  <2>2. CASE UNCHANGED faults
    BY <2>2, SameFaults
  <2>3. AppendEvent(s, k) \/ UNCHANGED faults
    BY <1>4 DEF Work, TakeRequest, TakeNote, ReadRecord, WriteRecord, Settle, Mark, EndLoop,
                DeleteEntry, Resubscribe
  <2> QED
    BY <2>1, <2>2, <2>3
<1>5. ASSUME NEW h \in Handlers, Handle(h) PROVE FaultsGrow
  <2>1. CASE AcceptTurn(h)
    BY <1>2, <2>1, AcceptTyped DEF Message
  <2>2. CASE Respond(h)
    <3>1. PICK r \in handler[h].request :
            Resolves(r) \/ (r \notin app.asked /\ UNCHANGED <<app, chan, faults>>)
      BY <2>2, RespondTyped
    <3>2. ASSUME Resolves(r) PROVE FaultsGrow
      <4>1. <<"resolved", r>> \in Message
        BY <3>2 DEF Resolves, Message, Typed, AppTyped
      <4> QED
        BY <1>2, <3>2, <4>1 DEF Resolves
    <3> QED
      BY <3>1, <3>2, SameFaults
  <2>3. AcceptTurn(h) \/ Respond(h) \/ UNCHANGED faults
    BY <1>5 DEF Handle, Open, CallFails, WriteTurn, WriteName, ResolveRead, RespondSubscribes,
                RespondFails, ResolveDelete
  <2> QED
    BY <2>1, <2>2, <2>3, SameFaults
<1>6. CASE Time
  BY <1>1, <1>6, FaultNames DEF Time, Expire, Forget
<1>7. CASE UNCHANGED vars
  BY <1>7, SameFaults DEF vars
<1> QED
  BY <1>3, <1>4, <1>5, <1>6, <1>7 DEF Next

(* No channel has been closed.                                             *)
StaysOpen == \A s \in Subs, k \in Kinds : chan[s][k].open => chan'[s][k].open

LEMMA PublishStaysOpen ==
  ASSUME SessionAssumption, Typed, NEW m \in Message, Publish(m), faults'["overflow"] = 0
  PROVE  StaysOpen
<1>1. /\ Delivered(m)
      /\ \A s \in Subs : ~(chan[s][KindOf(m)].open /\ Full(s, KindOf(m)))
  BY PublishEffect DEF Typed
<1> SUFFICES ASSUME NEW s \in Subs, NEW k \in Kinds, chan[s][k].open PROVE chan'[s][k].open
  BY DEF StaysOpen
<1>2. CASE k # KindOf(m)
  BY <1>1, <1>2 DEF Delivered
<1>3. CASE k = KindOf(m)
  <2>1. chan'[s][k] = [open |-> TRUE, items |-> Append(chan[s][k].items, m)]
    BY <1>1, <1>3 DEF Delivered
  <2>2. PICK q : q = Append(chan[s][k].items, m)
    OBVIOUS
  <2>3. chan'[s][k] = [open |-> TRUE, items |-> q]
    BY <2>1, <2>2
  <2> QED
    BY <2>3
<1> QED
  BY <1>2, <1>3

(* Unless it replaces the subscription.                                    *)
Stopping(s, k) == EndLoop(s, k) \/ DeleteEntry(s, k) \/ Resubscribe(s, k)

LEMMA StepStaysOpen ==
  ASSUME SessionAssumption, Typed, SubsInv, [Next]_vars, faults'["overflow"] = 0
  PROVE  StaysOpen \/ \E s \in Subs, k \in Kinds : Stopping(s, k)
<1>1. ASSUME NEW m \in Message, Publish(m) PROVE StaysOpen
  BY <1>1, PublishStaysOpen
<1>2. ASSUME UNCHANGED chan PROVE StaysOpen
  BY <1>2 DEF StaysOpen
<1>3. CASE AppServer
  <2>1. ASSUME NEW r \in Requests, Ask(r) PROVE StaysOpen
    <3>1. <<"request", r>> \in Message
      BY DEF Message
    <3> QED
      BY <1>1, <2>1, <3>1 DEF Ask
  <2>2. CASE EndTurn
    BY <1>1, <2>2, EndTurnTyped DEF EndTurn
  <2>3. CASE Exit
    BY <1>2, <2>3 DEF Exit
  <2>4. ASSUME NEW m \in Message, Repeat(m) PROVE StaysOpen
    <3> SUFFICES ASSUME NEW s \in Subs, NEW k \in Kinds, chan[s][k].open PROVE chan'[s][k].open
      BY DEF StaysOpen
    <3>1. Delivered(m)
      BY <2>4, DeliverEffect DEF Repeat, Typed
    <3>2. KindOf(m) = "note" /\ ~(chan[s]["note"].open /\ Full(s, "note"))
      BY <2>4 DEF Repeat, KindOf
    <3>3. CASE k # KindOf(m)
      BY <3>1, <3>3 DEF Delivered
    <3>4. CASE k = KindOf(m)
      <4>1. PICK q : q = Append(chan[s][k].items, m)
        OBVIOUS
      <4>2. chan'[s][k] = [open |-> TRUE, items |-> q]
        BY <3>1, <3>2, <3>4, <4>1 DEF Delivered
      <4> QED
        BY <4>2
    <3> QED
      BY <3>3, <3>4
  <2> QED
    BY <1>3, <2>1, <2>2, <2>3, <2>4 DEF AppServer
<1>4. ASSUME NEW s \in Subs, NEW k \in Kinds, Work(s, k) PROVE StaysOpen \/ Stopping(s, k)
  <2>1. ASSUME NEW l \in Kinds, Took(s, l) PROVE StaysOpen
    BY <2>1 DEF Took, StaysOpen
  <2>2. "note" \in Kinds /\ "request" \in Kinds
    BY DEF Kinds
  <2>3. CASE TakeRequest(s)
    BY <2>1, <2>2, <2>3, TakeRequestTyped
  <2>4. CASE TakeNote(s)
    BY <2>1, <2>2, <2>4, TakeNoteTyped
  <2>5. TakeRequest(s) \/ TakeNote(s) \/ UNCHANGED chan \/ Stopping(s, k)
    BY <1>4 DEF Work, Stopping, ReadRecord, WriteRecord, Settle, Mark, AppendEvent
  <2> QED
    BY <1>2, <2>3, <2>4, <2>5
<1>5. ASSUME NEW h \in Handlers, Handle(h) PROVE StaysOpen
  <2>1. CASE AcceptTurn(h)
    BY <1>1, <2>1, AcceptTyped DEF Message
  <2>2. CASE Respond(h)
    <3>1. PICK r \in handler[h].request :
            Resolves(r) \/ (r \notin app.asked /\ UNCHANGED <<app, chan, faults>>)
      BY <2>2, RespondTyped
    <3>2. ASSUME Resolves(r) PROVE StaysOpen
      <4>1. <<"resolved", r>> \in Message
        BY <3>2 DEF Resolves, Message, Typed, AppTyped
      <4> QED
        BY <1>1, <3>2, <4>1 DEF Resolves
    <3> QED
      BY <1>2, <3>1, <3>2
  <2>3. CASE Joined
    <3>1. PICK n \in Subs : n = subs + 1 /\ Opened(n)
      BY <2>3 DEF Joined
    <3>2. \A k \in Kinds : chan'[n][k].open
      BY <3>1 DEF Opened, Channel
    <3> QED
      BY <3>1, <3>2 DEF Opened, StaysOpen
  <2>4. CASE Open(h) \/ RespondSubscribes(h)
    BY <1>2, <2>3, <2>4, OpenTyped, RespondSubscribesTyped
  <2>5. AcceptTurn(h) \/ Respond(h) \/ Open(h) \/ RespondSubscribes(h) \/ UNCHANGED chan
    BY <1>5 DEF Handle, CallFails, WriteTurn, WriteName, ResolveRead, RespondFails, ResolveDelete
  <2> QED
    BY <1>2, <2>1, <2>2, <2>4, <2>5
<1>6. CASE Time \/ UNCHANGED vars
  BY <1>2, <1>6 DEF Time, Expire, Forget, vars
<1> QED
  BY <1>3, <1>4, <1>5, <1>6 DEF Next

LEMMA ListeningNeverStops ==
  ASSUME SessionAssumption, Typed, SubsInv, Listening, NEW s \in Subs, NEW k \in Kinds
  PROVE  ~Stopping(s, k)
<1>1. ASSUME worker[s][k].at # "off" PROVE s <= subs
  BY <1>1, SubsNumbers DEF SubsInv, OnlyCurrent
<1>2. ASSUME EndLoop(s, k) PROVE FALSE
  <2>1. worker[s][k].at = "loop" /\ chan[s][k] = Closed
    BY <1>2, EndLoopTyped
  <2>2. ~chan[s][k].open
    BY <2>1 DEF Closed
  <2> QED
    BY <1>1, <2>1, <2>2 DEF Listening
<1>3. ASSUME DeleteEntry(s, k) \/ Resubscribe(s, k) PROVE FALSE
  <2>1. Leaving(s, k) /\ worker[s][k].at # "off"
    BY <1>3 DEF DeleteEntry, Resubscribe, Leaving
  <2>2. once[s] = "running"
    BY <2>1 DEF SubsInv, OneLeaves
  <2> QED
    BY <1>1, <2>1, <2>2 DEF Listening
<1> QED
  BY <1>2, <1>3 DEF Stopping

(* The app-server's side of each step.                                     *)
LEMMA AskApp ==
  ASSUME SessionAssumption, Typed, NEW r \in Requests, Ask(r)
  PROVE  /\ app'.turn = app.turn /\ app'.running = app.running
         /\ app'.asked = app.asked \cup {r}
         /\ app'.asker[r] = app.turn
         /\ \A q \in Requests : q # r => app'.asker[q] = app.asker[q]
         /\ app'.sent = app.sent \cup {<<"request", r>>}
<1>1. PICK f : f = [app.asker EXCEPT ![r] = app.turn]
  OBVIOUS
<1>2. app' = [app EXCEPT !.asked = app.asked \cup {r}, !.asker = f,
                         !.sent = app.sent \cup {<<"request", r>>}]
  BY <1>1 DEF Ask
<1>3. f[r] = app.turn /\ \A q \in Requests : q # r => f[q] = app.asker[q]
  BY <1>1 DEF Typed, AppTyped
<1>4. /\ app'.turn = app.turn /\ app'.running = app.running
      /\ app'.asked = app.asked \cup {r}
      /\ app'.asker = f
      /\ app'.sent = app.sent \cup {<<"request", r>>}
  BY <1>2 DEF Typed, AppTyped
<1> QED
  BY <1>3, <1>4

LEMMA EndTurnApp ==
  ASSUME SessionAssumption, Typed, EndTurn
  PROVE  /\ app'.turn = app.turn /\ ~app'.running /\ app'.asked = {} /\ app'.asker = app.asker
         /\ app'.sent = app.sent \cup {<<"ended", app.turn>>}
<1>1. app' = [app EXCEPT !.running = FALSE, !.asked = {}, !.sent = app.sent \cup {<<"ended", app.turn>>}]
  BY DEF EndTurn
<1>2. PICK a : a = app'
  OBVIOUS
<1>3. a = [turn |-> app.turn, running |-> FALSE, asked |-> {}, asker |-> app.asker,
           sent |-> app.sent \cup {<<"ended", app.turn>>}]
  BY <1>1, <1>2 DEF Typed, AppTyped
<1> QED
  BY <1>2, <1>3

LEMMA ExitApp ==
  ASSUME SessionAssumption, Typed, Exit
  PROVE  /\ app'.turn = app.turn /\ ~app'.running /\ app'.asked = {} /\ app'.asker = app.asker
         /\ app'.sent = app.sent
<1>1. app' = [app EXCEPT !.running = FALSE, !.asked = {}]
  BY DEF Exit
<1>2. PICK a : a = app'
  OBVIOUS
<1>3. a = [turn |-> app.turn, running |-> FALSE, asked |-> {}, asker |-> app.asker, sent |-> app.sent]
  BY <1>1, <1>2 DEF Typed, AppTyped
<1> QED
  BY <1>2, <1>3

LEMMA StepTurn ==
  ASSUME SessionAssumption, Typed, [Next]_vars
  PROVE  app'.turn = app.turn \/ \E h \in Handlers : AcceptTurn(h)
<1>1. CASE AppServer
  <2>1. ASSUME NEW r \in Requests, Ask(r) PROVE app'.turn = app.turn
    BY <2>1, AskApp
  <2>2. CASE EndTurn
    BY <2>2, EndTurnApp
  <2>3. CASE Exit
    BY <2>3, ExitApp
  <2>4. CASE \E m \in Message : Repeat(m)
    BY <2>4 DEF Repeat
  <2> QED
    BY <1>1, <2>1, <2>2, <2>3, <2>4 DEF AppServer
<1>2. CASE \E s \in Subs, k \in Kinds : Work(s, k)
  BY <1>2 DEF Work, TakeRequest, TakeNote, ReadRecord, WriteRecord, Settle, Mark, AppendEvent,
              EndLoop, DeleteEntry, Resubscribe
<1>3. ASSUME NEW h \in Handlers, Handle(h)
      PROVE  app'.turn = app.turn \/ AcceptTurn(h)
  <2>1. CASE Respond(h)
    <3>1. PICK r \in handler[h].request :
            Resolves(r) \/ (r \notin app.asked /\ UNCHANGED <<app, chan, faults>>)
      BY <2>1, RespondTyped
    <3> QED
      BY <3>1 DEF Resolves
  <2>2. AcceptTurn(h) \/ Respond(h) \/ UNCHANGED app
    BY <1>3 DEF Handle, Open, CallFails, WriteTurn, WriteName, ResolveRead, RespondSubscribes,
                RespondFails, ResolveDelete
  <2> QED
    BY <2>1, <2>2
<1>4. CASE Time \/ UNCHANGED vars
  BY <1>4 DEF Time, Expire, Forget, vars
<1> QED
  BY <1>1, <1>2, <1>3, <1>4 DEF Next

Calling(h) == handler[h].at \in {"call", "answered"}

LEMMA StepCalling ==
  ASSUME SessionAssumption, Typed, [Next]_vars, NEW g \in Handlers, Calling(g)'
  PROVE  Calling(g) \/ Open(g)
<1>1. ASSUME UNCHANGED handler PROVE Calling(g)
  BY <1>1 DEF Calling
<1>2. CASE AppServer \/ Time \/ UNCHANGED vars
  BY <1>1, <1>2 DEF AppServer, Ask, EndTurn, Exit, Repeat, Time, Expire, Forget, vars
<1>3. CASE \E s \in Subs, k \in Kinds : Work(s, k)
  BY <1>1, <1>3 DEF Work, TakeRequest, TakeNote, ReadRecord, WriteRecord, Settle, Mark,
                    AppendEvent, EndLoop, DeleteEntry, Resubscribe
<1>4. ASSUME NEW h \in Handlers, Handle(h)
      PROVE  Calling(g) \/ Open(g)
  <2>1. ASSUME NEW w, HandlerMoved(h, w), w.at \notin {"call", "answered"}
        PROVE  Calling(g)
    BY <2>1 DEF HandlerMoved, Calling
  <2>2. Idle.at = "idle"
    BY DEF Idle
  <2>3. CASE CallFails(h) \/ WriteTurn(h) \/ WriteName(h) \/ RespondFails(h) \/ ResolveDelete(h)
    BY <2>1, <2>2, <2>3, CallFailsTyped, WriteTurnTyped, WriteNameTyped, RespondFailsTyped,
       ResolveDeleteTyped
  <2>4. ASSUME NEW r \in Requests, ResolveRead(h, r) PROVE Calling(g)
    <3>1. PICK w : /\ w = [at |-> "respond", copy |-> handler[h].copy, turn |-> handler[h].turn,
                           request |-> {r}]
                   /\ HandlerMoved(h, w)
      BY <2>4, ResolveReadTyped
    <3> QED
      BY <2>1, <3>1
  <2>5. CASE Respond(h)
    <3>1. PICK w : /\ w = [at |-> "delete", copy |-> handler[h].copy, turn |-> handler[h].turn,
                           request |-> handler[h].request]
                   /\ HandlerMoved(h, w)
      BY <2>5, RespondTyped
    <3> QED
      BY <2>1, <3>1
  <2>6. CASE AcceptTurn(h)
    <3>1. CASE g = h
      BY <2>6, <3>1 DEF AcceptTurn, Calling
    <3>2. CASE g # h
      BY <2>6, <3>2, AcceptTyped DEF HandlerMoved, Calling
    <3> QED
      BY <3>1, <3>2
  <2>7. CASE Open(h)
    BY <2>7, OpenTyped DEF HandlerMoved, Calling
  <2>8. CASE RespondSubscribes(h)
    BY <1>1, <2>8 DEF RespondSubscribes
  <2> QED
    BY <1>4, <2>3, <2>4, <2>5, <2>6, <2>7, <2>8 DEF Handle
<1> QED
  BY <1>2, <1>3, <1>4 DEF Next

LEMMA StepSubscriptions ==
  ASSUME SessionAssumption, Typed, [Next]_vars
  PROVE  \/ once' = once /\ (UNCHANGED <<entry, subs>> \/ Joined)
         \/ \E s \in Subs, k \in Kinds : Stopping(s, k)
<1>1. CASE Quiet
  BY <1>1 DEF Quiet, subVars
<1>2. ASSUME NEW h \in Handlers, Open(h) \/ RespondSubscribes(h)
      PROVE  once' = once /\ (UNCHANGED <<entry, subs>> \/ Joined)
  BY <1>2, OpenTyped, RespondSubscribesTyped
<1> QED
  BY <1>1, <1>2, StepQuiet DEF Subscribing, Stopping

LEMMA ListenStep ==
  ASSUME SessionAssumption, Typed, SubsInv, ListenInv, [Next]_vars
  PROVE  ListenInv'
<1> SUFFICES ASSUME faults'["overflow"] = 0 PROVE Listening'
  BY DEF ListenInv
<1>1. Listening
  BY StepFaults, FaultNames DEF FaultsGrow, ListenInv
<1>2. once' = once /\ (UNCHANGED <<entry, subs>> \/ Joined) /\ StaysOpen
  BY <1>1, StepSubscriptions, StepStaysOpen, ListeningNeverStops
<1>3. subs \in Nat /\ subs' \in Nat /\ \A s \in Subs : s \in Nat
  BY <1>2, SubsNumbers DEF Joined
<1>4. entry => subs > 0
  BY DEF SubsInv, EntryOfCurrent
<1>5. subs > 0 => subs' > 0
  BY <1>2, <1>3 DEF Joined
<1>6. ASSUME NEW s \in Subs, s <= subs' PROVE once'[s] = "no" /\ \A k \in Kinds : chan'[s][k].open
  <2>1. CASE s <= subs
    BY <1>1, <1>2, <2>1 DEF Listening, StaysOpen
  <2>2. CASE ~(s <= subs)
    <3>1. Joined /\ s = subs + 1
      BY <1>2, <1>3, <1>6, <2>2 DEF Joined
    <3>2. once[s] = "no"
      BY <1>3, <3>1 DEF SubsInv, OnlyCurrent
    <3>3. \A k \in Kinds : chan'[s][k] = Channel
      BY <3>1 DEF Joined, Opened
    <3>4. Channel.open
      BY DEF Channel
    <3> QED
      BY <1>2, <3>2, <3>3, <3>4
  <2> QED
    BY <2>1, <2>2
<1>7. subs' > 0 => entry'
  BY <1>1, <1>2 DEF Listening, Joined
<1>8. ASSUME NEW h \in Handlers, Calling(h)' PROVE subs' > 0
  <2>1. CASE Calling(h)
    BY <1>1, <1>5, <2>1 DEF Calling, Listening
  <2>2. CASE Open(h)
    <3>1. (entry /\ UNCHANGED <<entry, subs>>) \/ Joined
      BY <2>2, OpenTyped
    <3> QED
      BY <1>3, <1>4, <3>1 DEF Joined
  <2> QED
    BY <1>8, <2>1, <2>2, StepCalling
<1>9. app'.turn > 0 => subs' > 0
  <2>1. CASE app'.turn = app.turn
    BY <1>1, <1>5, <2>1 DEF Listening
  <2>2. ASSUME NEW h \in Handlers, AcceptTurn(h) PROVE subs' > 0
    BY <1>1, <1>5, <2>2 DEF AcceptTurn, Listening
  <2> QED
    BY <2>1, <2>2, StepTurn
<1> QED
  BY <1>6, <1>7, <1>8, <1>9 DEF Listening, Calling

LEMMA InitListen ==
  ASSUME SessionAssumption, Init
  PROVE  ListenInv
<1>1. /\ subs = 0 /\ \A s \in Subs : ~(s <= subs)
      /\ app.turn = 0
      /\ \A h \in Handlers : handler[h].at = "idle"
  BY DEF Init, Idle, Subs, SessionAssumption
<1> QED
  BY <1>1 DEF ListenInv, Listening

-----------------------------------------------------------------------------
(* Events.  A goroutine that stores a message has just marked it as seen;  *)
(* no other one stores the same message, and no event has it yet.          *)

Appending(s, k) == worker[s][k].at = "append"

StoredOnce ==
  /\ \A m \in Message : events[m] <= 1
  /\ \A m \in Message : events[m] > 0 => m \in seen
  /\ \A s \in Subs, k \in Kinds :
       Appending(s, k) => worker[s][k].message \in seen /\ events[worker[s][k].message] = 0
  /\ \A s, t \in Subs, k, l \in Kinds :
       Appending(s, k) /\ Appending(t, l) /\ worker[s][k].message = worker[t][l].message
         => s = t /\ k = l

EventsInv == faults["forget"] = 0 => StoredOnce

(* A step that stores nothing and lets nobody begin to.                    *)
StoresNothing ==
  /\ events' = events
  /\ seen' = seen
  /\ \A s \in Subs, k \in Kinds :
       Appending(s, k)' => Appending(s, k) /\ worker'[s][k].message = worker[s][k].message

LEMMA MovedStores ==
  ASSUME NEW s \in Subs, NEW k \in Kinds, UNCHANGED <<events, seen>>,
         \E w : Moved(s, k, w) /\ w.at # "append"
  PROVE  StoresNothing
  BY DEF Moved, StoresNothing, Appending

LEMMA WentStores ==
  ASSUME NEW s \in Subs, NEW k \in Kinds, UNCHANGED <<events, seen>>,
         \E at : Went(s, k, at) /\ at # "append"
  PROVE  StoresNothing
  BY DEF Went, StoresNothing, Appending

LEMMA StartedStores ==
  ASSUME NEW n, UNCHANGED <<events, seen>>, \A t \in Subs : Started(t, n)
  PROVE  StoresNothing
  BY ReadingHolds DEF Started, StoresNothing, Appending

LEMMA StepStores ==
  ASSUME SessionAssumption, Typed, [Next]_vars
  PROVE  \/ StoresNothing
         \/ \E s \in Subs, k \in Kinds : Mark(s, k) \/ AppendEvent(s, k)
         \/ \E m \in Message : Forget(m)
<1>1. ASSUME UNCHANGED <<events, seen, worker>> PROVE StoresNothing
  BY <1>1 DEF StoresNothing, Appending
<1>2. CASE AppServer
  BY <1>1, <1>2 DEF AppServer, Ask, EndTurn, Exit, Repeat
<1>3. ASSUME NEW s \in Subs, NEW k \in Kinds, Work(s, k)
      PROVE  StoresNothing \/ Mark(s, k) \/ AppendEvent(s, k)
  <2>1. /\ "note" \in Kinds /\ "request" \in Kinds
        /\ Reading.at = "loop" /\ \A m : AtMark(m).at = "mark"
    BY DEF Kinds, Reading, AtMark
  <2>2. CASE TakeRequest(s)
    BY <2>1, <2>2, TakeRequestTyped, MovedStores DEF TakeRequest
  <2>3. CASE TakeNote(s)
    BY <2>1, <2>3, TakeNoteTyped, MovedStores DEF TakeNote
  <2>4. CASE ReadRecord(s)
    <3>1. PICK w : /\ w = [at |-> "write", message |-> worker[s]["note"].message, copy |-> record]
                   /\ Moved(s, "note", w)
      BY <2>4, ReadTyped
    <3>2. w.at = "write"
      BY <3>1
    <3> QED
      BY <2>1, <2>4, <3>1, <3>2, MovedStores DEF ReadRecord
  <2>5. CASE WriteRecord(s)
    <3>1. PICK w : /\ \/ w = [at |-> "settle", message |-> worker[s]["note"].message, copy |-> <<>>]
                      \/ w = Reading
                   /\ Moved(s, "note", w)
      BY <2>5, WriteRecordTyped
    <3>2. w.at # "append"
      BY <2>1, <3>1
    <3> QED
      BY <2>1, <2>5, <3>1, <3>2, MovedStores DEF WriteRecord
  <2>6. CASE Settle(s)
    BY <2>1, <2>6, SettleTyped, MovedStores DEF Settle
  <2>7. CASE EndLoop(s, k)
    <3>1. Went(s, k, "delete") \/ Went(s, k, "off")
      BY <2>7, EndLoopTyped
    <3> QED
      BY <2>7, <3>1, WentStores DEF EndLoop
  <2>8. CASE DeleteEntry(s, k)
    BY <2>8, DeleteEntryTyped, WentStores DEF DeleteEntry
  <2>9. CASE Resubscribe(s, k)
    <3>1. /\ worker'[s][k].at = "off"
          /\ \A l \in Kinds : l # k => worker'[s][l] = worker[s][l]
          /\ \A t \in Subs : t # s => Started(t, IF entry THEN 0 ELSE subs + 1)
      BY <2>9, ResubscribeTyped
    <3>2. ASSUME NEW t \in Subs, NEW l \in Kinds, Appending(t, l)'
          PROVE  Appending(t, l) /\ worker'[t][l].message = worker[t][l].message
      <4>1. CASE t = s
        BY <3>1, <3>2, <4>1 DEF Appending
      <4>2. CASE t # s
        BY <3>1, <3>2, <4>2, ReadingHolds DEF Appending, Started
      <4> QED
        BY <4>1, <4>2
    <3> QED
      BY <2>9, <3>2 DEF Resubscribe, StoresNothing
  <2> QED
    BY <1>3, <2>2, <2>3, <2>4, <2>5, <2>6, <2>7, <2>8, <2>9 DEF Work
<1>4. ASSUME NEW h \in Handlers, Handle(h) PROVE StoresNothing
  <2>1. CASE Open(h)
    <3>1. UNCHANGED worker \/ \A t \in Subs : Started(t, subs + 1)
      BY <2>1, OpenTyped
    <3> QED
      BY <1>1, <2>1, <3>1, StartedStores DEF Open
  <2>2. CASE RespondSubscribes(h)
    BY <2>2, RespondSubscribesTyped, StartedStores DEF RespondSubscribes
  <2>3. Open(h) \/ RespondSubscribes(h) \/ UNCHANGED <<events, seen, worker>>
    BY <1>4 DEF Handle, CallFails, AcceptTurn, WriteTurn, WriteName, ResolveRead, Respond,
                RespondFails, ResolveDelete
  <2> QED
    BY <1>1, <2>1, <2>2, <2>3
<1>5. CASE (\E r \in Requests : Expire(r)) \/ UNCHANGED vars
  BY <1>1, <1>5 DEF Expire, vars
<1> QED
  BY <1>2, <1>3, <1>4, <1>5 DEF Next, Time

LEMMA MarkStores ==
  ASSUME SessionAssumption, Typed, StoredOnce, NEW s \in Subs, NEW k \in Kinds, Mark(s, k)
  PROVE  StoredOnce'
<1> DEFINE m == worker[s][k].message
<1>1. /\ seen' = seen \cup {m} /\ events' = events
      /\ m \in Message
  BY MarkTyped DEF Mark, MessagesOf
<1>2. CASE m \in seen
  <2>1. Moved(s, k, Reading)
    BY <1>2, MarkTyped
  <2>2. StoresNothing
    BY <1>1, <1>2, <2>1, MovedStores, ReadingHolds
  <2> QED
    BY <2>2 DEF StoresNothing, StoredOnce, Appending
<1>3. CASE m \notin seen
  <2>1. Went(s, k, "append")
    BY <1>3, MarkTyped
  <2>2. /\ worker'[s][k].message = m
        /\ \A t \in Subs, l \in Kinds : (t # s \/ l # k) => worker'[t][l] = worker[t][l]
    BY <2>1 DEF Went
  <2>3. events[m] = 0
    BY <1>1, <1>3 DEF StoredOnce, Typed, StoreTyped
  <2>4. \A t \in Subs, l \in Kinds :
          (t # s \/ l # k) /\ Appending(t, l) => worker[t][l].message # m
    BY <1>3 DEF StoredOnce
  <2>5. ASSUME NEW t \in Subs, NEW l \in Kinds, Appending(t, l)'
        PROVE  worker'[t][l].message \in seen' /\ events'[worker'[t][l].message] = 0
    <3>1. CASE t = s /\ l = k
      BY <1>1, <2>2, <2>3, <3>1
    <3>2. CASE t # s \/ l # k
      BY <1>1, <2>2, <2>5, <3>2 DEF StoredOnce, Appending
    <3> QED
      BY <3>1, <3>2
  <2>6. ASSUME NEW t \in Subs, NEW u \in Subs, NEW l \in Kinds, NEW j \in Kinds,
               Appending(t, l)', Appending(u, j)', worker'[t][l].message = worker'[u][j].message
        PROVE  t = u /\ l = j
    <3>1. CASE t = s /\ l = k
      BY <2>2, <2>4, <2>6, <3>1 DEF Appending
    <3>2. CASE u = s /\ j = k
      BY <2>2, <2>4, <2>6, <3>2 DEF Appending
    <3>3. CASE (t # s \/ l # k) /\ (u # s \/ j # k)
      BY <2>2, <2>6, <3>3 DEF StoredOnce, Appending
    <3> QED
      BY <3>1, <3>2, <3>3
  <2>7. \A n \in Message : events'[n] <= 1 /\ (events'[n] > 0 => n \in seen')
    BY <1>1 DEF StoredOnce
  <2> QED
    BY <2>5, <2>6, <2>7 DEF StoredOnce
<1> QED
  BY <1>2, <1>3

LEMMA AppendStores ==
  ASSUME SessionAssumption, Typed, StoredOnce, NEW s \in Subs, NEW k \in Kinds, AppendEvent(s, k)
  PROVE  StoredOnce'
<1> DEFINE m == worker[s][k].message
<1>1. Appending(s, k) /\ m \in Message /\ seen' = seen
  BY AppendTyped DEF AppendEvent, Appending, MessagesOf
<1>2. events[m] = 0 /\ m \in seen
  BY <1>1 DEF StoredOnce
<1>3. events'[m] = 1 /\ \A n \in Message : n # m => events'[n] = events[n]
  <2>1. PICK n \in Message : n = m
    BY <1>1
  <2>2. events' = [events EXCEPT ![n] = @ + 1]
    BY <2>1 DEF AppendEvent
  <2> QED
    BY <1>2, <2>1, <2>2 DEF Typed, StoreTyped
<1>4. /\ worker'[s][k].at # "append"
      /\ \A t \in Subs, l \in Kinds : (t # s \/ l # k) => worker'[t][l] = worker[t][l]
  <2>1. Moved(s, k, Reading) \/ Went(s, k, "settle") \/ Went(s, k, "read")
    BY AppendTyped
  <2> QED
    BY <2>1, ReadingHolds DEF Moved, Went
<1>5. ASSUME NEW t \in Subs, NEW l \in Kinds, Appending(t, l)'
      PROVE  Appending(t, l) /\ worker'[t][l].message = worker[t][l].message
             /\ (t # s \/ l # k)
  BY <1>4, <1>5 DEF Appending
<1>6. ASSUME NEW t \in Subs, NEW l \in Kinds, Appending(t, l)'
      PROVE  worker'[t][l].message \in seen' /\ events'[worker'[t][l].message] = 0
  <2>1. worker[t][l].message # m
    BY <1>1, <1>5, <1>6 DEF StoredOnce
  <2>2. worker[t][l].message \in seen /\ events[worker[t][l].message] = 0
    BY <1>5, <1>6 DEF StoredOnce
  <2>3. worker[t][l].message \in Message
    BY <2>2 DEF Typed, StoreTyped
  <2> QED
    BY <1>1, <1>3, <1>5, <1>6, <2>1, <2>2, <2>3
<1>7. \A n \in Message : events'[n] <= 1 /\ (events'[n] > 0 => n \in seen')
  BY <1>1, <1>2, <1>3 DEF StoredOnce
<1>8. \A t, u \in Subs, l, j \in Kinds :
        Appending(t, l)' /\ Appending(u, j)' /\ worker'[t][l].message = worker'[u][j].message
          => t = u /\ l = j
  BY <1>5 DEF StoredOnce
<1> QED
  BY <1>6, <1>7, <1>8 DEF StoredOnce

LEMMA EventsStep ==
  ASSUME SessionAssumption, Typed, EventsInv, [Next]_vars
  PROVE  EventsInv'
<1> SUFFICES ASSUME faults'["forget"] = 0 PROVE StoredOnce'
  BY DEF EventsInv
<1>1. StoredOnce
  BY StepFaults, FaultNames DEF FaultsGrow, EventsInv
<1>2. CASE StoresNothing
  BY <1>1, <1>2 DEF StoresNothing, StoredOnce
<1>3. ASSUME NEW s \in Subs, NEW k \in Kinds, Mark(s, k) \/ AppendEvent(s, k)
      PROVE  StoredOnce'
  BY <1>1, <1>3, MarkStores, AppendStores
<1>4. ASSUME NEW m \in Message, Forget(m) PROVE FALSE
  BY <1>4, FaultEffect, FaultNames DEF Forget, Typed
<1> QED
  BY <1>2, <1>3, <1>4, StepStores

LEMMA InitEvents ==
  ASSUME SessionAssumption, Init
  PROVE  EventsInv
<1>1. /\ \A m \in Message : events[m] = 0
      /\ \A s \in Subs, k \in Kinds : worker[s][k].at = "off"
  BY DEF Init, Reading
<1> QED
  BY <1>1 DEF EventsInv, StoredOnce, Appending

(* However often the app-server repeats itself, through whatever           *)
(* subscriptions the copies come and whichever goroutine handles them:     *)
(* while the dedupe table keeps its keys (markCodexNotificationSeen), a    *)
(* message is stored as one event.                                         *)
THEOREM EventsAreStoredOnce == Spec => []NoEventTwice
<1>1. Init => Typed /\ EventsInv
  BY SessionAssumption, InitTyped, InitEvents
<1>2. Typed /\ EventsInv /\ [Next]_vars => Typed' /\ EventsInv'
  BY SessionAssumption, TypedStep, EventsStep
<1>3. EventsInv => NoEventTwice
  BY DEF EventsInv, StoredOnce, NoEventTwice
<1> QED
  BY <1>1, <1>2, <1>3, PTL DEF Spec

-----------------------------------------------------------------------------
(* Messages on their way.                                                  *)

Queued(s, k, m) == \E i \in 1..Len(chan[s][k].items) : chan[s][k].items[i] = m

LEMMA AppendItems ==
  ASSUME NEW S, NEW q \in Seq(S), NEW e \in S
  PROVE  /\ Append(q, e) \in Seq(S) /\ Len(Append(q, e)) = Len(q) + 1 /\ Len(q) \in Nat
         /\ \A i \in 1..Len(q) : Append(q, e)[i] = q[i]
         /\ Append(q, e)[Len(q) + 1] = e
  OBVIOUS

LEMMA TailItems ==
  ASSUME NEW S, NEW q \in Seq(S), q # <<>>
  PROVE  /\ Tail(q) \in Seq(S) /\ Len(Tail(q)) = Len(q) - 1 /\ Len(q) \in Nat /\ Len(q) > 0
         /\ \A i \in 1..Len(Tail(q)) : Tail(q)[i] = q[i + 1]
         /\ Head(q) = q[1]
  OBVIOUS

LEMMA AppendQueued ==
  ASSUME NEW S, NEW q \in Seq(S), NEW e \in S, NEW x
  PROVE  (\E i \in 1..Len(Append(q, e)) : Append(q, e)[i] = x)
           <=> (\E i \in 1..Len(q) : q[i] = x) \/ x = e
<1>1. PICK p : p = Append(q, e)
  OBVIOUS
<1>2. /\ Len(p) = Len(q) + 1 /\ Len(q) \in Nat
      /\ \A i \in 1..Len(q) : p[i] = q[i]
      /\ p[Len(q) + 1] = e
  BY <1>1, AppendItems
<1>3. ASSUME NEW i \in 1..Len(p), p[i] = x PROVE (\E j \in 1..Len(q) : q[j] = x) \/ x = e
  BY <1>2, <1>3
<1>4. ASSUME NEW i \in 1..Len(q), q[i] = x PROVE \E j \in 1..Len(p) : p[j] = x
  BY <1>2, <1>4
<1>5. ASSUME x = e PROVE \E j \in 1..Len(p) : p[j] = x
  BY <1>2, <1>5
<1> QED
  BY <1>1, <1>3, <1>4, <1>5

LEMMA TailQueued ==
  ASSUME NEW S, NEW q \in Seq(S), q # <<>>, NEW x
  PROVE  (\E i \in 1..Len(q) : q[i] = x)
           <=> (\E i \in 1..Len(Tail(q)) : Tail(q)[i] = x) \/ x = Head(q)
<1>1. PICK p : p = Tail(q)
  OBVIOUS
<1>2. /\ Len(p) = Len(q) - 1 /\ Len(q) \in Nat /\ Len(q) > 0
      /\ \A i \in 1..Len(p) : p[i] = q[i + 1]
      /\ Head(q) = q[1]
  BY <1>1, TailItems
<1>3. ASSUME NEW i \in 1..Len(p), p[i] = x PROVE \E j \in 1..Len(q) : q[j] = x
  <2>1. i + 1 \in 1..Len(q) /\ q[i + 1] = x
    BY <1>2, <1>3
  <2> QED
    BY <2>1
<1>4. ASSUME NEW i \in 1..Len(q), q[i] = x, i # 1 PROVE \E j \in 1..Len(p) : p[j] = x
  <2>1. i - 1 \in 1..Len(p) /\ (i - 1) + 1 = i
    BY <1>2, <1>4
  <2>2. p[i - 1] = x
    BY <1>2, <1>4, <2>1
  <2> QED
    BY <2>1, <2>2
<1>5. 1 \in 1..Len(q)
  BY <1>2
<1> QED
  BY <1>1, <1>2, <1>3, <1>4, <1>5

LEMMA DeliveredQueued ==
  ASSUME ChanTyped, NEW m \in Message, Delivered(m), NEW s \in Subs, NEW k \in Kinds, NEW x
  PROVE  /\ Queued(s, k, x)' => Queued(s, k, x) \/ (x = m /\ k = KindOf(m))
         /\ Queued(s, k, x) => Queued(s, k, x)'
         /\ (k = KindOf(m) /\ chan[s][k].open /\ ~Full(s, k)) => Queued(s, k, m)'
<1>1. chan[s][k].items \in Seq(Message)
  BY DEF ChanTyped, Channels
<1>2. CASE chan'[s][k].items = chan[s][k].items /\ ~(k = KindOf(m) /\ chan[s][k].open /\ ~Full(s, k))
  BY <1>2 DEF Queued
<1>3. CASE /\ k = KindOf(m) /\ chan[s][k].open /\ ~Full(s, k)
           /\ chan'[s][k].items = Append(chan[s][k].items, m)
  <2>1. PICK q \in Seq(Message) : q = chan[s][k].items
    BY <1>1
  <2>2. PICK p : p = Append(q, m)
    OBVIOUS
  <2>3. (\E i \in 1..Len(p) : p[i] = x) <=> (\E i \in 1..Len(q) : q[i] = x) \/ x = m
    BY <2>2, AppendQueued
  <2>4. \E i \in 1..Len(p) : p[i] = m
    BY <2>2, AppendQueued
  <2>5. chan'[s][k].items = p
    BY <1>3, <2>1, <2>2
  <2> QED
    BY <1>3, <2>1, <2>3, <2>4, <2>5 DEF Queued
<1>4. CASE k # KindOf(m) \/ ~chan[s][k].open
  BY <1>2, <1>4 DEF Delivered
<1>5. CASE k = KindOf(m) /\ chan[s][k].open /\ Full(s, k)
  <2>1. chan'[s][k] = [open |-> FALSE, items |-> chan[s][k].items]
    BY <1>5 DEF Delivered
  <2>2. chan'[s][k].items = chan[s][k].items
    BY <2>1
  <2> QED
    BY <1>2, <1>5, <2>2
<1>6. CASE k = KindOf(m) /\ chan[s][k].open /\ ~Full(s, k)
  <2>1. chan'[s][k] = [open |-> TRUE, items |-> Append(chan[s][k].items, m)]
    BY <1>6 DEF Delivered
  <2>2. chan'[s][k].items = Append(chan[s][k].items, m)
    BY <2>1
  <2> QED
    BY <1>3, <1>6, <2>2
<1> QED
  BY <1>4, <1>5, <1>6

LEMMA TookQueued ==
  ASSUME ChanTyped, NEW s \in Subs, NEW k \in Kinds, Took(s, k), chan[s][k].items # <<>>,
         NEW t \in Subs, NEW l \in Kinds, NEW x
  PROVE  Queued(t, l, x) <=> Queued(t, l, x)' \/ (t = s /\ l = k /\ x = Next1(s, k))
<1>1. chan[s][k].items \in Seq(Message)
  BY DEF ChanTyped, Channels
<1>2. CASE t = s /\ l = k
  <2>1. PICK q \in Seq(Message) : q = chan[s][k].items
    BY <1>1
  <2>2. PICK p : p = Tail(q)
    OBVIOUS
  <2>3. (\E i \in 1..Len(q) : q[i] = x) <=> (\E i \in 1..Len(p) : p[i] = x) \/ x = Head(q)
    BY <2>1, <2>2, TailQueued, SMTT(30)
  <2>4. chan'[s][k].items = p
    BY <2>1, <2>2 DEF Took
  <2>5. Queued(t, l, x) <=> \E i \in 1..Len(q) : q[i] = x
    BY <1>2, <2>1 DEF Queued
  <2>6. Queued(t, l, x)' <=> \E i \in 1..Len(p) : p[i] = x
    BY <1>2, <2>4 DEF Queued
  <2>7. Next1(s, k) = Head(q)
    BY <2>1 DEF Next1
  <2> QED
    BY <1>2, <2>3, <2>5, <2>6, <2>7
<1>3. CASE t # s \/ l # k
  BY <1>3 DEF Took, Queued
<1> QED
  BY <1>2, <1>3

LEMMA ShutQueued ==
  ASSUME NEW s \in Subs, Shut(s), NEW t \in Subs, NEW l \in Kinds, NEW x
  PROVE  Queued(t, l, x)' <=> Queued(t, l, x)
<1>1. chan'[t][l].items = chan[t][l].items
  <2>1. CASE t = s
    <3>1. chan'[t][l] = [open |-> FALSE, items |-> chan[t][l].items]
      BY <2>1 DEF Shut
    <3> QED
      BY <3>1
  <2>2. CASE t # s
    BY <2>2 DEF Shut
  <2> QED
    BY <2>1, <2>2
<1> QED
  BY <1>1 DEF Queued

LEMMA OpenedQueued ==
  ASSUME NEW n, Opened(n), NEW t \in Subs, NEW l \in Kinds, NEW x
  PROVE  /\ t # n => (Queued(t, l, x)' <=> Queued(t, l, x))
         /\ t = n => ~Queued(t, l, x)'
<1>1. CASE t # n
  BY <1>1 DEF Opened, Queued
<1>2. CASE t = n
  <2>1. chan'[t][l].items = <<>>
    BY <1>2 DEF Opened, Channel
  <2>2. Len(<<>>) = 0 /\ 1..0 = {}
    OBVIOUS
  <2> QED
    BY <1>2, <2>1, <2>2 DEF Queued
<1> QED
  BY <1>1, <1>2

-----------------------------------------------------------------------------
(* What the app-server has sent.                                           *)

Busy == {"mark", "append", "read", "write", "settle"}

(* Channels and goroutines hold nothing that it has not sent.              *)
Sent ==
  /\ \A s \in Subs, k \in Kinds :
       /\ \A m \in Message : Queued(s, k, m) => m \in app.sent
       /\ worker[s][k].at \in Busy => worker[s][k].message \in app.sent
  /\ handled \subseteq app.sent

LEMMA BusyMessage ==
  ASSUME Typed, NEW s \in Subs, NEW k \in Kinds, worker[s][k].at \in Busy
  PROVE  worker[s][k].message \in MessagesOf(k) /\ worker[s][k].message \in Message
<1>1. Holds(worker[s][k], k)
  BY DEF Typed, WorkerTyped
<1>2. CASE worker[s][k].at \in {"mark", "append"}
  BY <1>1, <1>2 DEF Holds, MessagesOf
<1>3. CASE worker[s][k].at \in {"read", "write"}
  BY <1>1, <1>3 DEF Holds, MessagesOf, Message, Lifecycle, KindOf
<1>4. CASE worker[s][k].at = "settle"
  BY <1>1, <1>4 DEF Holds, MessagesOf, Message, KindOf
<1> QED
  BY <1>2, <1>3, <1>4 DEF Busy

(* A goroutine that goes on does so with the message it has.               *)
GoesOn ==
  \A s \in Subs, k \in Kinds :
    worker'[s][k].at \in Busy =>
      worker[s][k].at \in Busy /\ worker'[s][k].message = worker[s][k].message

LEMMA SentKept ==
  ASSUME Sent, app.sent \subseteq app'.sent, GoesOn,
         \A s \in Subs, k \in Kinds, m \in Message :
           Queued(s, k, m)' => Queued(s, k, m) \/ m \in app'.sent,
         handled' \subseteq handled \cup app.sent
  PROVE  Sent'
<1>1. \A s \in Subs, k \in Kinds : worker'[s][k].at \in Busy => worker'[s][k].message \in app'.sent
  BY DEF Sent, GoesOn
<1>2. \A s \in Subs, k \in Kinds, m \in Message : Queued(s, k, m)' => m \in app'.sent
  BY DEF Sent
<1>3. handled' \subseteq app'.sent
  BY DEF Sent
<1> QED
  BY <1>1, <1>2, <1>3 DEF Sent

LEMMA SameGoesOn ==
  ASSUME UNCHANGED worker PROVE GoesOn
  BY DEF GoesOn

LEMMA MovedGoesOn ==
  ASSUME NEW s \in Subs, NEW k \in Kinds,
         \E w : /\ Moved(s, k, w)
                /\ w.at \in Busy => worker[s][k].at \in Busy /\ w.message = worker[s][k].message
  PROVE  GoesOn
  BY DEF Moved, GoesOn

LEMMA WentGoesOn ==
  ASSUME NEW s \in Subs, NEW k \in Kinds,
         \E at : Went(s, k, at) /\ (at \in Busy => worker[s][k].at \in Busy)
  PROVE  GoesOn
  BY DEF Went, GoesOn

LEMMA StartedGoesOn ==
  ASSUME NEW n, \A t \in Subs : Started(t, n)
  PROVE  GoesOn
  BY ReadingHolds DEF Started, GoesOn, Busy

(* The app-server sends m, or sends it again.                              *)
Posted(m) ==
  /\ m \in Message
  /\ app'.sent = app.sent \cup {m}
  /\ Delivered(m)
  /\ faults'["overflow"] = 0 =>
       \A s \in Subs : ~(chan[s][KindOf(m)].open /\ Full(s, KindOf(m)))
  /\ UNCHANGED <<subVars, worker, pending, seen, record, events, handled, ghosts>>

LEMMA AskPosts ==
  ASSUME SessionAssumption, Typed, NEW r \in Requests, Ask(r)
  PROVE  Posted(<<"request", r>>) /\ UNCHANGED handler
<1>1. <<"request", r>> \in Message
  BY DEF Message
<1> QED
  BY <1>1, AskApp, PublishEffect DEF Ask, Posted, Typed

LEMMA EndTurnPosts ==
  ASSUME SessionAssumption, Typed, EndTurn
  PROVE  Posted(<<"ended", app.turn>>) /\ UNCHANGED handler
  BY EndTurnTyped, EndTurnApp, PublishEffect DEF EndTurn, Posted, Typed

LEMMA RepeatPosts ==
  ASSUME SessionAssumption, Typed, NEW m \in Message, Repeat(m)
  PROVE  Posted(m) /\ UNCHANGED <<app, handler>> /\ KindOf(m) = "note" /\ m \in app.sent
<1>1. Delivered(m)
  BY DeliverEffect DEF Repeat, Typed
<1>2. KindOf(m) = "note" /\ \A s \in Subs : ~(chan[s]["note"].open /\ Full(s, "note"))
  BY DEF Repeat, KindOf
<1> QED
  BY <1>1, <1>2 DEF Repeat, Posted

LEMMA AcceptPosts ==
  ASSUME SessionAssumption, Typed, NEW h \in Handlers, AcceptTurn(h)
  PROVE  Posted(<<"started", app.turn + 1>>)
<1>1. /\ <<"started", app.turn + 1>> \in Message
      /\ app'.sent = app.sent \cup {<<"started", app.turn + 1>>}
      /\ Publish(<<"started", app.turn + 1>>)
  <2>1. PICK t \in Turns : t = app.turn + 1
    BY AcceptTyped
  <2>2. PICK a : /\ a = app'
                 /\ a = [turn |-> app.turn + 1, running |-> TRUE, asked |-> app.asked,
                         asker |-> app.asker, sent |-> app.sent \cup {<<"started", app.turn + 1>>}]
    BY AcceptTyped
  <2>3. a.sent = app.sent \cup {<<"started", app.turn + 1>>}
    BY <2>2
  <2>4. <<"started", t>> \in Message
    BY DEF Message
  <2> QED
    BY <2>1, <2>2, <2>3, <2>4, AcceptTyped
<1> QED
  BY <1>1, PublishEffect DEF AcceptTurn, Posted, Typed

LEMMA RespondPosts ==
  ASSUME SessionAssumption, Typed, NEW h \in Handlers, Respond(h), NEW r, Resolves(r)
  PROVE  Posted(<<"resolved", r>>)
<1>1. /\ <<"resolved", r>> \in Message
      /\ app'.sent = app.sent \cup {<<"resolved", r>>}
      /\ Publish(<<"resolved", r>>)
  BY DEF Resolves, Message, Typed, AppTyped
<1> QED
  BY <1>1, PublishEffect DEF Respond, Posted, Typed

LEMMA PostedSent ==
  ASSUME SessionAssumption, Typed, Sent, NEW m, Posted(m)
  PROVE  Sent'
<1>1. \A s \in Subs, k \in Kinds, x \in Message :
        Queued(s, k, x)' => Queued(s, k, x) \/ x \in app'.sent
  BY DeliveredQueued DEF Posted, Typed
<1> QED
  BY <1>1, SentKept, SameGoesOn DEF Posted

LEMMA TakenSent ==
  ASSUME SessionAssumption, Typed, Sent, NEW s \in Subs, NEW k \in Kinds, HasNext(s, k),
         Next1(s, k) \in MessagesOf(k), Took(s, k), Moved(s, k, AtMark(Next1(s, k))),
         UNCHANGED <<app, handled>>
  PROVE  Sent' /\ Next1(s, k) \in app.sent
<1>1. PICK m \in Message : m = Next1(s, k)
  BY DEF MessagesOf
<1>2. chan[s][k].items # <<>>
  BY DEF HasNext
<1>3. \A x : \A t \in Subs, l \in Kinds :
        Queued(t, l, x) <=> Queued(t, l, x)' \/ (t = s /\ l = k /\ x = m)
  BY <1>1, <1>2, TookQueued DEF Typed
<1>4. m \in app.sent
  BY <1>1, <1>3 DEF Sent
<1>5. \A t \in Subs, l \in Kinds :
        worker'[t][l].at \in Busy => worker'[t][l].message \in app'.sent
  <2> SUFFICES ASSUME NEW t \in Subs, NEW l \in Kinds, worker'[t][l].at \in Busy
               PROVE  worker'[t][l].message \in app'.sent
    OBVIOUS
  <2>1. CASE t = s /\ l = k
    BY <1>1, <1>4, <2>1 DEF Moved, AtMark
  <2>2. CASE t # s \/ l # k
    BY <2>2 DEF Moved, Sent
  <2> QED
    BY <2>1, <2>2
<1> QED
  BY <1>1, <1>3, <1>4, <1>5 DEF Sent

LEMMA WorkSent ==
  ASSUME SessionAssumption, Typed, Sent, NEW s \in Subs, NEW k \in Kinds, Work(s, k)
  PROVE  Sent'
<1>1. /\ "note" \in Kinds /\ "request" \in Kinds
      /\ Reading.at \notin Busy
      /\ "off" \notin Busy /\ "delete" \notin Busy /\ "ensure" \notin Busy
  BY DEF Kinds, Reading, Busy
<1>2. CASE TakeRequest(s)
  BY <1>1, <1>2, TakeRequestTyped, TakenSent DEF TakeRequest
<1>3. CASE TakeNote(s)
  BY <1>1, <1>3, TakeNoteTyped, TakenSent DEF TakeNote
<1>4. ASSUME GoesOn, UNCHANGED <<app, chan>>, handled' \subseteq handled \cup app.sent
      PROVE  Sent'
  <2>1. \A t \in Subs, l \in Kinds, m \in Message :
          Queued(t, l, m)' => Queued(t, l, m) \/ m \in app'.sent
    BY <1>4 DEF Queued
  <2> QED
    BY <1>4, <2>1, SentKept
<1>5. CASE Mark(s, k)
  <2>1. Moved(s, k, Reading) \/ Went(s, k, "append")
    BY <1>5, MarkTyped
  <2>2. worker[s][k].at \in Busy
    BY <1>5 DEF Mark, Busy
  <2>3. GoesOn
    BY <1>1, <2>1, <2>2, MovedGoesOn, WentGoesOn
  <2> QED
    BY <1>4, <1>5, <2>3 DEF Mark
<1>6. CASE AppendEvent(s, k)
  <2>1. Moved(s, k, Reading) \/ Went(s, k, "settle") \/ Went(s, k, "read")
    BY <1>6, AppendTyped
  <2>2. worker[s][k].at \in Busy
    BY <1>6 DEF AppendEvent, Busy
  <2>3. GoesOn
    BY <1>1, <2>1, <2>2, MovedGoesOn, WentGoesOn
  <2> QED
    BY <1>4, <1>6, <2>3 DEF AppendEvent
<1>7. CASE ReadRecord(s)
  <2>1. PICK w : /\ w = [at |-> "write", message |-> worker[s]["note"].message, copy |-> record]
                 /\ Moved(s, "note", w)
    BY <1>7, ReadTyped
  <2>2. w.message = worker[s]["note"].message /\ worker[s]["note"].at \in Busy
    BY <1>7, <2>1 DEF ReadRecord, Busy
  <2>3. GoesOn
    BY <1>1, <2>1, <2>2, MovedGoesOn
  <2> QED
    BY <1>4, <1>7, <2>3 DEF ReadRecord
<1>8. CASE WriteRecord(s)
  <2>1. PICK w : /\ \/ w = [at |-> "settle", message |-> worker[s]["note"].message, copy |-> <<>>]
                    \/ w = Reading
                 /\ Moved(s, "note", w)
    BY <1>8, WriteRecordTyped
  <2>2. /\ w.message = worker[s]["note"].message \/ w.at \notin Busy
        /\ worker[s]["note"].at \in Busy
    BY <1>1, <1>8, <2>1 DEF WriteRecord, Busy
  <2>3. GoesOn
    BY <1>1, <2>1, <2>2, MovedGoesOn
  <2> QED
    BY <1>4, <1>8, <2>3 DEF WriteRecord
<1>9. CASE Settle(s)
  <2>1. Moved(s, "note", Reading)
    BY <1>9, SettleTyped
  <2>2. worker[s]["note"].message \in app.sent
    BY <1>1, <1>9 DEF Settle, Busy, Sent
  <2>3. GoesOn
    BY <1>1, <2>1, MovedGoesOn
  <2> QED
    BY <1>4, <1>9, <2>2, <2>3 DEF Settle
<1>10. CASE EndLoop(s, k)
  <2>1. Went(s, k, "delete") \/ Went(s, k, "off")
    BY <1>10, EndLoopTyped
  <2>2. GoesOn
    BY <1>1, <2>1, WentGoesOn
  <2>3. Shut(s) \/ UNCHANGED chan
    BY <1>10, EndLoopTyped
  <2>4. \A t \in Subs, l \in Kinds, m \in Message :
          Queued(t, l, m)' => Queued(t, l, m) \/ m \in app'.sent
    <3>1. CASE Shut(s)
      BY <3>1, ShutQueued
    <3>2. CASE UNCHANGED chan
      BY <3>2 DEF Queued
    <3> QED
      BY <2>3, <3>1, <3>2
  <2> QED
    BY <1>10, <2>2, <2>4, SentKept DEF EndLoop
<1>11. CASE DeleteEntry(s, k)
  <2>1. GoesOn
    BY <1>1, <1>11, DeleteEntryTyped, WentGoesOn
  <2> QED
    BY <1>4, <1>11, <2>1 DEF DeleteEntry
<1>12. CASE Resubscribe(s, k)
  <2>1. /\ worker'[s][k].at = "off"
        /\ \A l \in Kinds : l # k => worker'[s][l] = worker[s][l]
        /\ \A t \in Subs : t # s => Started(t, IF entry THEN 0 ELSE subs + 1)
    BY <1>12, ResubscribeTyped
  <2>2. GoesOn
    <3> SUFFICES ASSUME NEW t \in Subs, NEW l \in Kinds, worker'[t][l].at \in Busy
                 PROVE  worker'[t][l] = worker[t][l]
      BY DEF GoesOn
    <3>1. CASE t = s
      BY <1>1, <2>1, <3>1
    <3>2. CASE t # s
      BY <1>1, <2>1, <3>2 DEF Started
    <3> QED
      BY <3>1, <3>2
  <2>3. Joined \/ UNCHANGED chan
    BY <1>12, ResubscribeTyped
  <2>4. \A t \in Subs, l \in Kinds, m \in Message :
          Queued(t, l, m)' => Queued(t, l, m) \/ m \in app'.sent
    <3>1. CASE Joined
      BY <3>1, OpenedQueued DEF Joined
    <3>2. CASE UNCHANGED chan
      BY <3>2 DEF Queued
    <3> QED
      BY <2>3, <3>1, <3>2
  <2> QED
    BY <1>12, <2>2, <2>4, SentKept DEF Resubscribe
<1> QED
  BY <1>2, <1>3, <1>5, <1>6, <1>7, <1>8, <1>9, <1>10, <1>11, <1>12 DEF Work

LEMMA SentStep ==
  ASSUME SessionAssumption, Typed, Sent, [Next]_vars
  PROVE  Sent'
<1>1. ASSUME NEW m, Posted(m) PROVE Sent'
  BY <1>1, PostedSent
<1>2. ASSUME UNCHANGED <<chan, worker, handled>>, app.sent \subseteq app'.sent PROVE Sent'
  BY <1>2 DEF Sent, Queued
<1>3. CASE AppServer
  <2>1. CASE Exit
    BY <1>2, <2>1, ExitApp DEF Exit
  <2> QED
    BY <1>1, <1>3, <2>1, AskPosts, EndTurnPosts, RepeatPosts DEF AppServer
<1>4. CASE \E s \in Subs, k \in Kinds : Work(s, k)
  BY <1>4, WorkSent
<1>5. ASSUME NEW h \in Handlers, Handle(h) PROVE Sent'
  <2>1. CASE AcceptTurn(h)
    BY <1>1, <2>1, AcceptPosts
  <2>2. CASE Respond(h)
    <3>1. PICK r \in handler[h].request :
            Resolves(r) \/ (r \notin app.asked /\ UNCHANGED <<app, chan, faults>>)
      BY <2>2, RespondTyped
    <3>2. CASE Resolves(r)
      BY <1>1, <2>2, <3>2, RespondPosts
    <3>3. CASE UNCHANGED <<app, chan, faults>>
      BY <1>2, <2>2, <3>3 DEF Respond
    <3> QED
      BY <3>1, <3>2, <3>3
  <2>3. CASE Joined /\ (\A t \in Subs : Started(t, subs + 1)) /\ UNCHANGED <<app, handled>>
    <3>1. GoesOn
      BY <2>3, StartedGoesOn
    <3>2. \A t \in Subs, l \in Kinds, m \in Message :
            Queued(t, l, m)' => Queued(t, l, m) \/ m \in app'.sent
      BY <2>3, OpenedQueued DEF Joined
    <3> QED
      BY <2>3, <3>1, <3>2, SentKept
  <2>4. CASE Open(h)
    BY <1>2, <2>3, <2>4, OpenTyped DEF Open
  <2>5. CASE RespondSubscribes(h)
    BY <2>3, <2>5, RespondSubscribesTyped DEF RespondSubscribes
  <2>6. CASE UNCHANGED <<app, chan, worker, handled>>
    BY <1>2, <2>6
  <2>7. \/ AcceptTurn(h) \/ Respond(h) \/ Open(h) \/ RespondSubscribes(h)
        \/ UNCHANGED <<app, chan, worker, handled>>
    BY <1>5 DEF Handle, CallFails, WriteTurn, WriteName, ResolveRead, RespondFails, ResolveDelete
  <2> QED
    BY <2>1, <2>2, <2>4, <2>5, <2>6, <2>7
<1>6. CASE Time \/ UNCHANGED vars
  BY <1>2, <1>6 DEF Time, Expire, Forget, vars
<1> QED
  BY <1>3, <1>4, <1>5, <1>6 DEF Next

-----------------------------------------------------------------------------
(* Requests and turns.                                                     *)

(* Who has asked what.                                                     *)
Asked ==
  /\ \A r \in app.asked : app.running /\ app.asker[r] = app.turn
  /\ \A r \in Requests : <<"request", r>> \in app.sent => app.asker[r] # 0
  /\ \A r \in Requests : <<"resolved", r>> \in app.sent => app.asker[r] # 0 /\ r \notin app.asked

(* The map and the handlers hold requests that have been asked; one that   *)
(* a handler has answered is asked no longer.                              *)
Known ==
  /\ \A r \in pending : app.asker[r] # 0
  /\ \A h \in Handlers : \A r \in handler[h].request :
       /\ app.asker[r] # 0
       /\ handler[h].at = "delete" => r \notin app.asked
       /\ handler[h].request = {r}

TurnsInOrder ==
  /\ \A t \in Turns : <<"started", t>> \in app.sent => t <= app.turn
  /\ \A t \in Turns : <<"ended", t>> \in app.sent => t <= app.turn /\ (app.running => t < app.turn)

SentInv == Sent /\ Asked /\ Known /\ TurnsInOrder

LEMMA AcceptApp ==
  ASSUME SessionAssumption, Typed, NEW h \in Handlers, AcceptTurn(h)
  PROVE  /\ ~app.running /\ app.turn + 1 \in Turns
         /\ app'.turn = app.turn + 1 /\ app'.running
         /\ app'.asked = app.asked /\ app'.asker = app.asker
         /\ app'.sent = app.sent \cup {<<"started", app.turn + 1>>}
<1>1. PICK a : /\ a = app'
               /\ a = [turn |-> app.turn + 1, running |-> TRUE, asked |-> app.asked,
                       asker |-> app.asker, sent |-> app.sent \cup {<<"started", app.turn + 1>>}]
  BY AcceptTyped
<1>2. /\ a.turn = app.turn + 1 /\ a.running
      /\ a.asked = app.asked /\ a.asker = app.asker
      /\ a.sent = app.sent \cup {<<"started", app.turn + 1>>}
  BY <1>1
<1> QED
  BY <1>1, <1>2, AcceptTyped DEF AcceptTurn

LEMMA ResolveApp ==
  ASSUME NEW r, Resolves(r)
  PROVE  /\ r \in app.asked
         /\ app'.turn = app.turn /\ app'.running = app.running
         /\ app'.asked = app.asked \ {r} /\ app'.asker = app.asker
         /\ app'.sent = app.sent \cup {<<"resolved", r>>}
<1>1. PICK a : /\ a = app'
               /\ a = [turn |-> app.turn, running |-> app.running, asked |-> app.asked \ {r},
                       asker |-> app.asker, sent |-> app.sent \cup {<<"resolved", r>>}]
  BY DEF Resolves
<1>2. /\ a.turn = app.turn /\ a.running = app.running
      /\ a.asked = app.asked \ {r} /\ a.asker = app.asker
      /\ a.sent = app.sent \cup {<<"resolved", r>>}
  BY <1>1
<1> QED
  BY <1>1, <1>2 DEF Resolves

LEMMA StepApp ==
  ASSUME SessionAssumption, Typed, [Next]_vars
  PROVE  \/ UNCHANGED app
         \/ \E r \in Requests : Ask(r)
         \/ EndTurn
         \/ Exit
         \/ \E h \in Handlers : AcceptTurn(h)
         \/ \E h \in Handlers : Respond(h) /\ \E r \in handler[h].request : Resolves(r)
<1>1. CASE AppServer
  BY <1>1 DEF AppServer, Repeat
<1>2. ASSUME NEW s \in Subs, NEW k \in Kinds, Work(s, k) PROVE UNCHANGED app
  BY <1>2 DEF Work, TakeRequest, TakeNote, ReadRecord, WriteRecord, Settle, Mark, AppendEvent,
              EndLoop, DeleteEntry, Resubscribe
<1>3. ASSUME NEW h \in Handlers, Handle(h)
      PROVE  \/ UNCHANGED app
             \/ AcceptTurn(h)
             \/ Respond(h) /\ \E r \in handler[h].request : Resolves(r)
  <2>1. CASE Respond(h)
    BY <2>1, RespondTyped
  <2>2. AcceptTurn(h) \/ Respond(h) \/ UNCHANGED app
    BY <1>3 DEF Handle, Open, CallFails, WriteTurn, WriteName, ResolveRead, RespondSubscribes,
                RespondFails, ResolveDelete
  <2> QED
    BY <2>1, <2>2
<1>4. CASE Time \/ UNCHANGED vars
  BY <1>4 DEF Time, Expire, Forget, vars
<1> QED
  BY <1>1, <1>2, <1>3, <1>4 DEF Next

(* A request that has been asked keeps its turn.                           *)
AskersKept == \A r \in Requests : app.asker[r] # 0 => app'.asker[r] = app.asker[r]

LEMMA StepAskers ==
  ASSUME SessionAssumption, Typed, [Next]_vars
  PROVE  AskersKept
<1>1. ASSUME NEW r \in Requests, Ask(r) PROVE AskersKept
  BY <1>1, AskApp DEF Ask, AskersKept
<1> QED
  BY <1>1, StepApp, EndTurnApp, ExitApp, AcceptApp, ResolveApp DEF AskersKept

LEMMA StepPending ==
  ASSUME SessionAssumption, Typed, [Next]_vars
  PROVE  \/ UNCHANGED pending
         \/ \E s \in Subs : TakeRequest(s) \/ Settle(s)
         \/ \E h \in Handlers : ResolveDelete(h)
         \/ \E r \in Requests : Expire(r)
<1>1. CASE AppServer
  BY <1>1 DEF AppServer, Ask, EndTurn, Exit, Repeat
<1>2. ASSUME NEW s \in Subs, NEW k \in Kinds, Work(s, k)
      PROVE  UNCHANGED pending \/ TakeRequest(s) \/ Settle(s)
  BY <1>2 DEF Work, TakeNote, ReadRecord, WriteRecord, Mark, AppendEvent,
              EndLoop, DeleteEntry, Resubscribe
<1>3. ASSUME NEW h \in Handlers, Handle(h) PROVE UNCHANGED pending \/ ResolveDelete(h)
  BY <1>3 DEF Handle, Open, CallFails, AcceptTurn, WriteTurn, WriteName, ResolveRead, Respond,
              RespondSubscribes, RespondFails
<1>4. CASE Time \/ UNCHANGED vars
  BY <1>4 DEF Time, Forget, vars
<1> QED
  BY <1>1, <1>2, <1>3, <1>4 DEF Next

(* What becomes of the handler g.                                          *)
HandlerStep(g) ==
  \/ handler'[g] = handler[g]
  \/ handler'[g] = Idle
  \/ /\ Open(g)
     /\ handler'[g].at = "call" /\ handler'[g].copy = record
     /\ handler'[g].request = handler[g].request
  \/ /\ AcceptTurn(g)
     /\ handler'[g].at = "answered" /\ handler'[g].copy = handler[g].copy
     /\ handler'[g].turn = app.turn + 1 /\ handler'[g].request = handler[g].request
  \/ \E r \in Requests :
       ResolveRead(g, r) /\ handler'[g].at = "respond" /\ handler'[g].request = {r}
  \/ /\ Respond(g)
     /\ handler'[g].at = "delete" /\ handler'[g].request = handler[g].request

LEMMA StepHandler ==
  ASSUME SessionAssumption, Typed, [Next]_vars, NEW g \in Handlers
  PROVE  HandlerStep(g)
<1>1. ASSUME UNCHANGED handler PROVE HandlerStep(g)
  BY <1>1 DEF HandlerStep
<1>2. CASE AppServer \/ Time \/ UNCHANGED vars
  BY <1>1, <1>2 DEF AppServer, Ask, EndTurn, Exit, Repeat, Time, Expire, Forget, vars
<1>3. CASE \E s \in Subs, k \in Kinds : Work(s, k)
  BY <1>1, <1>3 DEF Work, TakeRequest, TakeNote, ReadRecord, WriteRecord, Settle, Mark,
                    AppendEvent, EndLoop, DeleteEntry, Resubscribe
<1>4. ASSUME NEW h \in Handlers, Handle(h)
      PROVE  HandlerStep(g)
  <2>1. ASSUME NEW w, HandlerMoved(h, w), g # h
        PROVE  HandlerStep(g)
    BY <2>1 DEF HandlerMoved, HandlerStep
  <2>2. CASE CallFails(h) \/ WriteTurn(h) \/ WriteName(h) \/ RespondFails(h) \/ ResolveDelete(h)
    <3>1. HandlerMoved(h, Idle)
      BY <2>2, CallFailsTyped, WriteTurnTyped, WriteNameTyped, RespondFailsTyped, ResolveDeleteTyped
    <3> QED
      BY <2>1, <3>1 DEF HandlerMoved, HandlerStep
  <2>3. ASSUME NEW r \in Requests, ResolveRead(h, r) PROVE HandlerStep(g)
    <3>1. PICK w : /\ w = [at |-> "respond", copy |-> handler[h].copy, turn |-> handler[h].turn,
                           request |-> {r}]
                   /\ HandlerMoved(h, w)
      BY <2>3, ResolveReadTyped
    <3>2. w.at = "respond" /\ w.request = {r} /\ handler'[h] = w
      BY <3>1 DEF HandlerMoved
    <3> QED
      BY <2>1, <2>3, <3>1, <3>2 DEF HandlerStep
  <2>4. CASE Respond(h)
    <3>1. PICK w : /\ w = [at |-> "delete", copy |-> handler[h].copy, turn |-> handler[h].turn,
                           request |-> handler[h].request]
                   /\ HandlerMoved(h, w)
      BY <2>4, RespondTyped
    <3>2. w.at = "delete" /\ w.request = handler[h].request /\ handler'[h] = w
      BY <3>1 DEF HandlerMoved
    <3> QED
      BY <2>1, <2>4, <3>1, <3>2 DEF HandlerStep
  <2>5. CASE AcceptTurn(h)
    <3>1. PICK w : /\ w = [at |-> "answered", copy |-> handler[h].copy, turn |-> app.turn + 1,
                           request |-> handler[h].request]
                   /\ HandlerMoved(h, w)
      BY <2>5, AcceptTyped
    <3>2. /\ w.at = "answered" /\ w.copy = handler[h].copy /\ w.turn = app.turn + 1
          /\ w.request = handler[h].request /\ handler'[h] = w
      BY <3>1 DEF HandlerMoved
    <3> QED
      BY <2>1, <2>5, <3>1, <3>2 DEF HandlerStep
  <2>6. CASE Open(h)
    <3>1. PICK w : /\ w = [at |-> "call", copy |-> record, turn |-> handler[h].turn,
                           request |-> handler[h].request]
                   /\ HandlerMoved(h, w)
      BY <2>6, OpenTyped
    <3>2. /\ w.at = "call" /\ w.copy = record
          /\ w.request = handler[h].request /\ handler'[h] = w
      BY <3>1 DEF HandlerMoved
    <3> QED
      BY <2>1, <2>6, <3>1, <3>2 DEF HandlerStep
  <2>7. CASE RespondSubscribes(h)
    BY <1>1, <2>7 DEF RespondSubscribes
  <2> QED
    BY <1>4, <2>2, <2>3, <2>4, <2>5, <2>6, <2>7 DEF Handle
<1> QED
  BY <1>2, <1>3, <1>4 DEF Next

LEMMA AskedStep ==
  ASSUME SessionAssumption, Typed, Asked, Known, [Next]_vars
  PROVE  Asked'
<1>1. CASE UNCHANGED app
  BY <1>1 DEF Asked
<1>2. ASSUME NEW r \in Requests, Ask(r) PROVE Asked'
  <2>1. /\ app'.turn = app.turn /\ app'.running = app.running /\ app.running
        /\ app'.asked = app.asked \cup {r}
        /\ app'.asker[r] = app.turn /\ app.asker[r] = 0
        /\ \A q \in Requests : q # r => app'.asker[q] = app.asker[q]
        /\ app'.sent = app.sent \cup {<<"request", r>>}
    BY <1>2, AskApp DEF Ask
  <2>2. app.turn # 0 /\ app.asked \subseteq Requests
    BY <2>1 DEF Typed, AppTyped
  <2>3. \A q \in app'.asked : app'.running /\ app'.asker[q] = app'.turn
    BY <2>1, <2>2 DEF Asked
  <2>4. \A q \in Requests : <<"request", q>> \in app'.sent => app'.asker[q] # 0
    BY <2>1, <2>2 DEF Asked
  <2>5. \A q \in Requests : <<"resolved", q>> \in app'.sent => app'.asker[q] # 0 /\ q \notin app'.asked
    BY <2>1, <2>2 DEF Asked
  <2> QED
    BY <2>3, <2>4, <2>5 DEF Asked
<1>3. CASE EndTurn
  BY <1>3, EndTurnApp DEF Asked
<1>4. CASE Exit
  BY <1>4, ExitApp DEF Asked
<1>5. ASSUME NEW h \in Handlers, AcceptTurn(h) PROVE Asked'
  BY <1>5, AcceptApp DEF Asked
<1>6. ASSUME NEW h \in Handlers, NEW r \in handler[h].request, Resolves(r) PROVE Asked'
  <2>1. app.asker[r] # 0
    BY <1>6 DEF Known
  <2> QED
    BY <1>6, <2>1, ResolveApp DEF Asked
<1> QED
  BY <1>1, <1>2, <1>3, <1>4, <1>5, <1>6, StepApp

LEMMA KnownStep ==
  ASSUME SessionAssumption, Typed, Sent, Asked, Known, [Next]_vars
  PROVE  Known'
<1>1. AskersKept
  BY StepAskers
<1>2. Typed'
  BY TypedStep
<1>3. \A r \in pending' : app'.asker[r] # 0
  <2> SUFFICES ASSUME NEW r \in pending' PROVE app.asker[r] # 0 /\ r \in Requests
    BY <1>1 DEF AskersKept
  <2>1. r \in Requests
    BY <1>2 DEF Typed, StoreTyped
  <2>2. CASE r \in pending
    BY <2>1, <2>2 DEF Known
  <2>3. ASSUME NEW s \in Subs, TakeRequest(s), r \notin pending PROVE app.asker[r] # 0
    <3>1. PICK m \in Message : m = Next1(s, "request") /\ m = <<"request", m[2]>>
      BY <2>3, TakeRequestTyped DEF MessagesOf
    <3>2. r = m[2]
      BY <2>3, <3>1 DEF TakeRequest
    <3>3. m \in app.sent
      BY <2>3, <3>1, TakeRequestTyped, TakenSent DEF TakeRequest, Kinds
    <3>4. <<"request", r>> \in app.sent
      BY <3>1, <3>2, <3>3
    <3> QED
      BY <2>1, <3>4 DEF Asked
  <2>4. CASE pending' \subseteq pending
    BY <2>2, <2>4
  <2>5. ASSUME NEW s \in Subs, Settle(s) PROVE pending' \subseteq pending
    BY <2>5 DEF Settle, DropSettled
  <2>6. ASSUME NEW h \in Handlers, ResolveDelete(h) PROVE pending' \subseteq pending
    BY <2>6 DEF ResolveDelete
  <2>7. ASSUME NEW q \in Requests, Expire(q) PROVE pending' \subseteq pending
    BY <2>7 DEF Expire
  <2> QED
    BY <2>1, <2>2, <2>3, <2>4, <2>5, <2>6, <2>7, StepPending
<1>4. \A r \in Requests : app.asker[r] # 0 /\ r \in app'.asked => r \in app.asked
  <2> SUFFICES ASSUME NEW r \in Requests, app.asker[r] # 0, r \in app'.asked PROVE r \in app.asked
    OBVIOUS
  <2>1. ASSUME NEW q \in Requests, Ask(q) PROVE r \in app.asked
    BY <2>1, AskApp DEF Ask
  <2>2. CASE EndTurn \/ Exit
    BY <2>2, EndTurnApp, ExitApp
  <2>3. ASSUME NEW h \in Handlers, AcceptTurn(h) PROVE r \in app.asked
    BY <2>3, AcceptApp
  <2>4. ASSUME NEW q, Resolves(q) PROVE r \in app.asked
    BY <2>4, ResolveApp
  <2> QED
    BY <2>1, <2>2, <2>3, <2>4, StepApp
<1>5. ASSUME NEW h \in Handlers, NEW r \in handler'[h].request
      PROVE  /\ app'.asker[r] # 0
             /\ handler'[h].at = "delete" => r \notin app'.asked
             /\ handler'[h].request = {r}
  <2>1. r \in Requests
    BY <1>2, <1>5 DEF Typed, HandlerTyped, Calls
  <2>2. ASSUME r \in handler[h].request, handler'[h].request = handler[h].request,
               handler'[h].at = "delete" => handler[h].at = "delete"
        PROVE  /\ app'.asker[r] # 0
               /\ handler'[h].at = "delete" => r \notin app'.asked
               /\ handler'[h].request = {r}
    BY <1>1, <1>4, <2>1, <2>2 DEF Known, AskersKept
  <2>3. CASE handler'[h] = handler[h]
    BY <2>2, <2>3
  <2>4. CASE handler'[h] = Idle
    BY <1>5, <2>4 DEF Idle
  <2>5. CASE \/ Open(h) /\ handler'[h].at = "call" /\ handler'[h].request = handler[h].request
             \/ AcceptTurn(h) /\ handler'[h].at = "answered" /\ handler'[h].request = handler[h].request
    BY <1>5, <2>2, <2>5
  <2>6. ASSUME NEW q \in Requests, ResolveRead(h, q), handler'[h].at = "respond", handler'[h].request = {q}
        PROVE  /\ app'.asker[r] # 0
               /\ handler'[h].at = "delete" => r \notin app'.asked
               /\ handler'[h].request = {r}
    BY <1>1, <1>5, <2>1, <2>6 DEF ResolveRead, Known, AskersKept
  <2>7. CASE Respond(h) /\ handler'[h].at = "delete" /\ handler'[h].request = handler[h].request
    <3>1. r \in handler[h].request /\ handler[h].request = {r} /\ app.asker[r] # 0
      BY <1>5, <2>7 DEF Known
    <3>2. Resolves(r) \/ (r \notin app.asked /\ UNCHANGED app)
      BY <2>7, <3>1, RespondTyped
    <3>3. r \notin app'.asked
      BY <3>2, ResolveApp
    <3> QED
      BY <1>1, <2>1, <2>7, <3>1, <3>3 DEF AskersKept
  <2>8. HandlerStep(h)
    BY StepHandler
  <2> QED
    BY <2>3, <2>4, <2>5, <2>6, <2>7, <2>8 DEF HandlerStep
<1> QED
  BY <1>3, <1>5 DEF Known

LEMMA TurnsStep ==
  ASSUME SessionAssumption, Typed, Asked, TurnsInOrder, [Next]_vars
  PROVE  TurnsInOrder'
<1>0. app.turn \in Nat /\ \A t \in Turns : t \in Nat
  BY DEF Typed, AppTyped, Turns, SessionAssumption
<1>1. CASE UNCHANGED app
  BY <1>1 DEF TurnsInOrder
<1>2. ASSUME NEW r \in Requests, Ask(r) PROVE TurnsInOrder'
  BY <1>2, AskApp DEF TurnsInOrder
<1>3. CASE EndTurn
  <2>1. \A t \in Turns : <<"started", t>> \in app'.sent => t <= app'.turn
    BY <1>3, EndTurnApp DEF TurnsInOrder
  <2>2. \A t \in Turns : <<"ended", t>> \in app'.sent => <<"ended", t>> \in app.sent \/ t = app.turn
    BY <1>3, EndTurnApp
  <2>3. \A t \in Turns : <<"ended", t>> \in app'.sent => t <= app'.turn /\ (app'.running => t < app'.turn)
    BY <1>0, <1>3, <2>2, EndTurnApp DEF TurnsInOrder
  <2> QED
    BY <2>1, <2>3 DEF TurnsInOrder
<1>4. CASE Exit
  BY <1>4, ExitApp DEF TurnsInOrder
<1>5. ASSUME NEW h \in Handlers, AcceptTurn(h) PROVE TurnsInOrder'
  <2>1. \A t \in Turns : <<"started", t>> \in app'.sent => <<"started", t>> \in app.sent \/ t = app.turn + 1
    BY <1>5, AcceptApp
  <2>2. \A t \in Turns : <<"ended", t>> \in app'.sent => <<"ended", t>> \in app.sent
    BY <1>5, AcceptApp
  <2>3. app'.turn = app.turn + 1
    BY <1>5, AcceptApp
  <2>4. \A t \in Turns : <<"started", t>> \in app'.sent => t <= app'.turn
    BY <1>0, <2>1, <2>3 DEF TurnsInOrder
  <2>5. \A t \in Turns : <<"ended", t>> \in app'.sent => t <= app'.turn /\ t < app'.turn
    BY <1>0, <2>2, <2>3 DEF TurnsInOrder
  <2> QED
    BY <2>4, <2>5 DEF TurnsInOrder
<1>6. ASSUME NEW r, Resolves(r) PROVE TurnsInOrder'
  BY <1>6, ResolveApp DEF TurnsInOrder
<1> QED
  BY <1>1, <1>2, <1>3, <1>4, <1>5, <1>6, StepApp

LEMMA SentInvStep ==
  ASSUME SessionAssumption, Typed, SentInv, [Next]_vars
  PROVE  SentInv'
  BY SentStep, AskedStep, KnownStep, TurnsStep DEF SentInv

LEMMA InitSent ==
  ASSUME SessionAssumption, Init
  PROVE  SentInv
<1>1. /\ app.asked = {} /\ app.sent = {} /\ pending = {} /\ handled = {}
      /\ \A h \in Handlers : handler[h].request = {}
      /\ \A s \in Subs, k \in Kinds : chan[s][k].items = <<>>
  BY DEF Init, Idle, Closed
<1>2. ASSUME NEW s \in Subs, NEW k \in Kinds PROVE worker[s][k].at = "off"
  <2>1. worker[s][k] = [Reading EXCEPT !.at = "off"]
    BY DEF Init
  <2> QED
    BY <2>1 DEF Reading
<1>3. Len(<<>>) = 0 /\ 1..0 = {}
  OBVIOUS
<1>4. Sent
  BY <1>1, <1>2, <1>3 DEF Sent, Queued, Busy
<1> QED
  BY <1>1, <1>4 DEF SentInv, Asked, Known, TurnsInOrder

-----------------------------------------------------------------------------
(* Pending requests.                                                       *)

LEMMA WaitingQueued ==
  ASSUME SessionAssumption, Typed, NEW r \in Requests
  PROVE  /\ r \in Waiting => \E s \in Subs : Queued(s, "request", <<"request", r>>)
         /\ \A s \in Subs : Queued(s, "request", <<"request", r>>) => r \in Waiting
<1>1. ASSUME NEW s \in Subs
      PROVE  Len(chan[s]["request"].items) \in Nat /\ Len(chan[s]["request"].items) <= Buffer
  <2>1. PICK q : q = chan[s]["request"].items
    OBVIOUS
  <2>2. q \in Seq(MessagesOf("request")) /\ Len(q) <= Buffer
    BY <2>1 DEF Typed, ChanTyped, Kinds
  <2> QED
    BY <2>1, <2>2
<1>2. \A s \in Subs : \A i \in 1..Len(chan[s]["request"].items) :
        i \in 1..Buffer /\ i <= Len(chan[s]["request"].items)
  BY <1>1 DEF SessionAssumption
<1>3. \A s \in Subs : \A i \in 1..Buffer :
        i <= Len(chan[s]["request"].items) => i \in 1..Len(chan[s]["request"].items)
  BY <1>1 DEF SessionAssumption
<1> QED
  BY <1>2, <1>3 DEF Waiting, Queued

LEMMA WaitingQueuedNext ==
  ASSUME SessionAssumption, Typed', NEW r \in Requests
  PROVE  /\ r \in Waiting' => \E s \in Subs : Queued(s, "request", <<"request", r>>)'
         /\ \A s \in Subs : Queued(s, "request", <<"request", r>>)' => r \in Waiting'
<1>1. ASSUME NEW s \in Subs
      PROVE  Len(chan'[s]["request"].items) \in Nat /\ Len(chan'[s]["request"].items) <= Buffer
  <2>1. PICK q : q = chan'[s]["request"].items
    OBVIOUS
  <2>2. q \in Seq(MessagesOf("request")) /\ Len(q) <= Buffer
    BY <2>1 DEF Typed, ChanTyped, Kinds
  <2> QED
    BY <2>1, <2>2
<1>2. \A s \in Subs : \A i \in 1..Len(chan'[s]["request"].items) :
        i \in 1..Buffer /\ i <= Len(chan'[s]["request"].items)
  BY <1>1 DEF SessionAssumption
<1>3. \A s \in Subs : \A i \in 1..Buffer :
        i <= Len(chan'[s]["request"].items) => i \in 1..Len(chan'[s]["request"].items)
  BY <1>1 DEF SessionAssumption
<1> QED
  BY <1>2, <1>3 DEF Waiting, Queued

(* What a step does to the channels.                                       *)
ChanStep ==
  \/ UNCHANGED chan
  \/ \E r \in Requests : Ask(r) /\ Posted(<<"request", r>>)
  \/ \E m \in MessagesOf("note") : Posted(m)
  \/ \E s \in Subs : TakeRequest(s) \/ TakeNote(s)
  \/ \E s \in Subs, k \in Kinds : Stopping(s, k)
  \/ Joined

LEMMA StepChan ==
  ASSUME SessionAssumption, Typed, [Next]_vars
  PROVE  ChanStep
<1>1. CASE AppServer
  <2>1. CASE EndTurn
    <3>1. <<"ended", app.turn>> \in MessagesOf("note")
      BY <2>1, EndTurnTyped DEF MessagesOf, KindOf
    <3> QED
      BY <2>1, <3>1, EndTurnPosts DEF ChanStep
  <2>2. ASSUME NEW m \in Message, Repeat(m) PROVE ChanStep
    BY <2>2, RepeatPosts DEF ChanStep, MessagesOf
  <2> QED
    BY <1>1, <2>1, <2>2, AskPosts DEF AppServer, ChanStep, Exit
<1>2. ASSUME NEW s \in Subs, NEW k \in Kinds, Work(s, k) PROVE ChanStep
  BY <1>2 DEF Work, ReadRecord, WriteRecord, Settle, Mark, AppendEvent, Stopping, DeleteEntry, ChanStep
<1>3. ASSUME NEW h \in Handlers, Handle(h) PROVE ChanStep
  <2>1. CASE AcceptTurn(h)
    <3>1. PICK t \in Turns : t = app.turn + 1
      BY <2>1, AcceptApp
    <3>2. <<"started", t>> \in MessagesOf("note")
      BY DEF MessagesOf, Message, KindOf
    <3> QED
      BY <2>1, <3>1, <3>2, AcceptPosts DEF ChanStep
  <2>2. CASE Respond(h)
    <3>1. PICK r \in handler[h].request :
            Resolves(r) \/ (r \notin app.asked /\ UNCHANGED <<app, chan, faults>>)
      BY <2>2, RespondTyped
    <3>2. ASSUME Resolves(r) PROVE <<"resolved", r>> \in MessagesOf("note")
      BY <3>2, MessageKinds DEF Resolves, Typed, AppTyped
    <3> QED
      BY <2>2, <3>1, <3>2, RespondPosts DEF ChanStep
  <2>3. CASE Open(h)
    BY <2>3, OpenTyped DEF ChanStep
  <2>4. CASE RespondSubscribes(h)
    BY <2>4, RespondSubscribesTyped DEF ChanStep
  <2>5. \/ AcceptTurn(h) \/ Respond(h) \/ Open(h) \/ RespondSubscribes(h) \/ UNCHANGED chan
    BY <1>3 DEF Handle, CallFails, WriteTurn, WriteName, ResolveRead, RespondFails, ResolveDelete
  <2> QED
    BY <2>1, <2>2, <2>3, <2>4, <2>5 DEF ChanStep
<1>4. CASE Time \/ UNCHANGED vars
  BY <1>4 DEF Time, Expire, Forget, vars, ChanStep
<1> QED
  BY <1>1, <1>2, <1>3, <1>4 DEF Next

(* A request that waits has just been asked or waited before; it waits on, *)
(* or is taken into the map.                                               *)
LEMMA StepWaiting ==
  ASSUME SessionAssumption, Typed, SubsInv, Listening, [Next]_vars, NEW r \in Requests
  PROVE  /\ r \in Waiting' => r \in Waiting \/ Ask(r)
         /\ r \in Waiting => r \in Waiting' \/ r \in pending'
<1> DEFINE m == <<"request", r>>
<1>0. Typed' /\ ChanTyped /\ m \in Message /\ "request" \in Kinds /\ "note" \in Kinds
  BY TypedStep DEF Typed, Message, Kinds
<1>1. ASSUME \A s \in Subs : Queued(s, "request", m)' <=> Queued(s, "request", m)
      PROVE  r \in Waiting' <=> r \in Waiting
  BY <1>0, <1>1, WaitingQueued, WaitingQueuedNext
<1>2. CASE UNCHANGED chan
  BY <1>2 DEF Waiting
<1>3. ASSUME NEW q \in Requests, Ask(q), Posted(<<"request", q>>)
      PROVE  (r \in Waiting' => r \in Waiting \/ Ask(r)) /\ (r \in Waiting => r \in Waiting')
  <2>1. <<"request", q>> \in Message /\ Delivered(<<"request", q>>)
    BY <1>3 DEF Posted
  <2>2. \A s \in Subs : Queued(s, "request", m)' => Queued(s, "request", m) \/ q = r
    BY <1>0, <2>1, DeliveredQueued
  <2>3. \A s \in Subs : Queued(s, "request", m) => Queued(s, "request", m)'
    BY <1>0, <2>1, DeliveredQueued
  <2> QED
    BY <1>0, <1>3, <2>2, <2>3, WaitingQueued, WaitingQueuedNext
<1>4. ASSUME NEW n \in MessagesOf("note"), Posted(n)
      PROVE  r \in Waiting' <=> r \in Waiting
  <2>1. n \in Message /\ Delivered(n) /\ KindOf(n) # "request"
    BY <1>4 DEF Posted, MessagesOf
  <2>2. \A s \in Subs : Queued(s, "request", m)' <=> Queued(s, "request", m)
    BY <1>0, <2>1, DeliveredQueued
  <2> QED
    BY <1>1, <2>2
<1>5. ASSUME NEW s \in Subs, TakeRequest(s)
      PROVE  (r \in Waiting' => r \in Waiting) /\ (r \in Waiting => r \in Waiting' \/ r \in pending')
  <2>1. /\ Took(s, "request") /\ chan[s]["request"].items # <<>>
        /\ pending' = pending \cup {Next1(s, "request")[2]}
    BY <1>5, TakeRequestTyped DEF TakeRequest, HasNext
  <2>2. \A t \in Subs : Queued(t, "request", m) <=> Queued(t, "request", m)' \/ (t = s /\ m = Next1(s, "request"))
    BY <1>0, <2>1, TookQueued
  <2>3. m = Next1(s, "request") => r \in pending'
    BY <2>1
  <2> QED
    BY <1>0, <2>2, <2>3, WaitingQueued, WaitingQueuedNext
<1>6. ASSUME NEW s \in Subs, TakeNote(s)
      PROVE  r \in Waiting' <=> r \in Waiting
  <2>1. Took(s, "note") /\ chan[s]["note"].items # <<>>
    BY <1>6, TakeNoteTyped DEF TakeNote, HasNext
  <2>2. \A t \in Subs : Queued(t, "request", m) <=> Queued(t, "request", m)'
    BY <1>0, <2>1, TookQueued
  <2> QED
    BY <1>1, <2>2
<1>7. \A s \in Subs, k \in Kinds : ~Stopping(s, k)
  BY ListeningNeverStops
<1>8. ASSUME Joined
      PROVE  r \in Waiting' <=> r \in Waiting
  <2>1. PICK n \in Subs : n = subs + 1 /\ Opened(n)
    BY <1>8 DEF Joined
  <2>2. chan[n]["request"] = Closed
    BY <1>0, <2>1, SubsNumbers DEF SubsInv, OnlyCurrent
  <2>3. ~Queued(n, "request", m)
    <3>1. chan[n]["request"].items = <<>>
      BY <2>2 DEF Closed
    <3>2. Len(<<>>) = 0 /\ 1..0 = {}
      OBVIOUS
    <3> QED
      BY <3>1, <3>2 DEF Queued
  <2>4. \A s \in Subs : Queued(s, "request", m)' <=> Queued(s, "request", m)
    BY <1>0, <2>1, <2>3, OpenedQueued
  <2> QED
    BY <1>1, <2>4
<1> QED
  BY <1>2, <1>3, <1>4, <1>5, <1>6, <1>7, <1>8, StepChan DEF ChanStep

(* A request that is asked is on its way or in the map.                    *)
AskedKnown == \A r \in app.asked : r \in Waiting \/ r \in pending

(* One that has been settled is in neither.                                *)
SettledGone == \A m \in handled : Settles(m) \cap (pending \cup Waiting) = {}

(* What is handled settles requests.                                       *)
HandledEnds == handled \subseteq ({"ended"} \X Turns) \cup ({"resolved"} \X Requests)

PendingInv ==
  /\ HandledEnds
  /\ ~raced /\ faults["overflow"] = 0 /\ faults["expire"] = 0 => AskedKnown /\ SettledGone

LEMMA StepHandled ==
  ASSUME SessionAssumption, Typed, [Next]_vars
  PROVE  UNCHANGED <<handled, raced>> \/ \E s \in Subs : Settle(s)
<1>1. CASE AppServer
  BY <1>1 DEF AppServer, Ask, EndTurn, Exit, Repeat, ghosts
<1>2. ASSUME NEW s \in Subs, NEW k \in Kinds, Work(s, k)
      PROVE  UNCHANGED <<handled, raced>> \/ Settle(s)
  BY <1>2 DEF Work, TakeRequest, TakeNote, ReadRecord, WriteRecord, Mark, AppendEvent,
              EndLoop, DeleteEntry, Resubscribe, ghosts
<1>3. ASSUME NEW h \in Handlers, Handle(h) PROVE UNCHANGED <<handled, raced>>
  BY <1>3 DEF Handle, Open, CallFails, AcceptTurn, WriteTurn, WriteName, ResolveRead, Respond,
              RespondSubscribes, RespondFails, ResolveDelete, ghosts
<1>4. CASE Time \/ UNCHANGED vars
  BY <1>4 DEF Time, Expire, Forget, vars, ghosts
<1> QED
  BY <1>1, <1>2, <1>3, <1>4 DEF Next

LEMMA AskedKnownStep ==
  ASSUME SessionAssumption, Typed, SubsInv, Listening, SentInv, AskedKnown, [Next]_vars,
         ~raced', faults'["overflow"] = 0, faults'["expire"] = 0
  PROVE  AskedKnown'
<1> SUFFICES ASSUME NEW r \in app'.asked PROVE r \in Waiting' \/ r \in pending'
  BY DEF AskedKnown
<1>0. Typed' /\ Asked' /\ r \in Requests
  BY TypedStep, AskedStep DEF SentInv, Typed, AppTyped
<1>1. CASE Ask(r)
  <2>1. Posted(<<"request", r>>) /\ KindOf(<<"request", r>>) = "request"
    BY <1>0, <1>1, AskPosts DEF KindOf
  <2>2. PICK s \in Subs : s = subs
    BY <1>1, <1>0 DEF Ask, Listening, Typed, AppTyped, SubsTyped, Subs, SessionAssumption
  <2>3. chan[s]["request"].open /\ ~Full(s, "request")
    BY <2>1, <2>2, SubsNumbers DEF Posted, Listening, Kinds
  <2>4. Queued(s, "request", <<"request", r>>)'
    BY <2>1, <2>3, DeliveredQueued DEF Posted, Typed, Kinds
  <2> QED
    BY <1>0, <2>4, WaitingQueuedNext
<1>2. ASSUME ~Ask(r) PROVE r \in app.asked
  <2>1. ASSUME NEW q \in Requests, Ask(q) PROVE r \in app.asked
    BY <1>2, <2>1, AskApp
  <2>2. CASE EndTurn \/ Exit
    BY <2>2, EndTurnApp, ExitApp
  <2>3. ASSUME NEW h \in Handlers, AcceptTurn(h) PROVE r \in app.asked
    BY <2>3, AcceptApp
  <2>4. ASSUME NEW q, Resolves(q) PROVE r \in app.asked
    BY <2>4, ResolveApp
  <2> QED
    BY <2>1, <2>2, <2>3, <2>4, StepApp
<1>3. ASSUME r \in app.asked, r \in Waiting PROVE r \in Waiting' \/ r \in pending'
  BY <1>0, <1>3, StepWaiting
<1>4. ASSUME r \in app.asked, r \in pending, r \notin pending' PROVE FALSE
  <2>1. app.running /\ app.asker[r] = app.turn
    BY <1>4 DEF SentInv, Asked
  <2>2. ASSUME NEW s \in Subs, Settle(s) PROVE FALSE
    <3>1. PICK m : m = worker[s]["note"].message
      OBVIOUS
    <3>2. /\ m \in ({"ended"} \X Turns) \cup ({"resolved"} \X Requests)
          /\ ~Raced(m) /\ pending' = DropSettled(m)
      BY <2>2, <3>1, SettleTyped DEF Settle
    <3>3. m \in app.sent
      BY <2>2, <3>1 DEF Settle, Busy, SentInv, Sent, Kinds
    <3>4. CASE m[1] = "resolved"
      <4>1. m[2] = r /\ m = <<"resolved", r>>
        BY <1>4, <3>2, <3>4 DEF DropSettled
      <4> QED
        BY <1>0, <1>4, <3>3, <4>1 DEF SentInv, Asked
    <3>5. CASE m[1] # "resolved"
      <4>1. PICK t \in Turns : m = <<"ended", t>>
        BY <3>2, <3>5
      <4>2. pending \subseteq Settles(m)
        BY <3>2, <4>1 DEF Raced
      <4>3. app.turn \in 1..t
        BY <1>4, <2>1, <4>1, <4>2 DEF Settles
      <4>4. t < app.turn
        BY <2>1, <3>3, <4>1 DEF SentInv, TurnsInOrder
      <4> QED
        BY <4>3, <4>4 DEF Turns
    <3> QED
      BY <3>4, <3>5
  <2>3. ASSUME NEW s \in Subs, TakeRequest(s) PROVE FALSE
    BY <1>4, <2>3 DEF TakeRequest
  <2>4. ASSUME NEW h \in Handlers, ResolveDelete(h) PROVE FALSE
    BY <1>4, <2>4 DEF ResolveDelete, SentInv, Known
  <2>5. ASSUME NEW q \in Requests, Expire(q) PROVE FALSE
    BY <2>5, FaultEffect, FaultNames DEF Expire, Typed
  <2> QED
    BY <1>4, <2>2, <2>3, <2>4, <2>5, StepPending
<1> QED
  BY <1>1, <1>2, <1>3, <1>4 DEF AskedKnown

LEMMA SettledGoneStep ==
  ASSUME SessionAssumption, Typed, SubsInv, Listening, SentInv, HandledEnds, SettledGone, [Next]_vars,
         ~raced'
  PROVE  SettledGone' /\ HandledEnds'
<1>0. /\ app.turn \in Nat /\ \A t \in Turns : t \in Nat
      /\ pending \subseteq Requests /\ Waiting \subseteq Requests
      /\ pending' \subseteq Requests /\ Waiting' \subseteq Requests
  BY TypedStep DEF Typed, AppTyped, StoreTyped, Waiting, Turns, SessionAssumption
<1>1. ASSUME NEW s \in Subs, Settle(s)
      PROVE  SettledGone' /\ HandledEnds'
  <2>1. PICK n : n = worker[s]["note"].message
    OBVIOUS
  <2>2. /\ n \in ({"ended"} \X Turns) \cup ({"resolved"} \X Requests)
        /\ ~Raced(n) /\ pending' = DropSettled(n) /\ handled' = handled \cup {n}
        /\ UNCHANGED <<app, chan>>
    BY <1>1, <2>1, SettleTyped DEF Settle
  <2>3. /\ \A m : Settles(m)' = Settles(m)
        /\ Waiting' = Waiting
    BY <2>2 DEF Settles, Waiting
  <2>4. Settles(n) \cap (pending' \cup Waiting) = {}
    BY <2>2 DEF Raced, DropSettled, Settles
  <2>5. pending' \subseteq pending
    BY <2>2 DEF DropSettled
  <2> QED
    BY <2>2, <2>3, <2>4, <2>5 DEF SettledGone, HandledEnds
<1>2. ASSUME UNCHANGED handled
      PROVE  SettledGone' /\ HandledEnds'
  <2> SUFFICES ASSUME NEW m \in handled, NEW r \in Settles(m)', r \in pending' \cup Waiting'
               PROVE  FALSE
    BY <1>2 DEF SettledGone, HandledEnds
  <2>1. r \in Requests
    BY <1>0
  <2>2. m \in app.sent
    BY DEF SentInv, Sent
  <2>3. ~Ask(r)
    <3> SUFFICES ASSUME Ask(r) PROVE FALSE
      OBVIOUS
    <3>1. app.running /\ app.asker[r] = 0 /\ app'.asker[r] = app.turn
      BY <2>1, AskApp DEF Ask
    <3>2. CASE m[1] = "resolved"
      <4>1. m = <<"resolved", r>>
        BY <3>2 DEF Settles, HandledEnds
      <4> QED
        BY <2>1, <2>2, <3>1, <4>1 DEF SentInv, Asked
    <3>3. CASE m[1] # "resolved"
      <4>1. PICK t \in Turns : m = <<"ended", t>>
        BY <3>3 DEF HandledEnds
      <4>2. app.turn \in 1..t
        BY <3>1, <4>1 DEF Settles
      <4>3. t < app.turn
        BY <2>2, <3>1, <4>1 DEF SentInv, TurnsInOrder
      <4> QED
        BY <1>0, <4>2, <4>3
    <3> QED
      BY <3>2, <3>3
  <2>4. r \in Waiting' => r \in Waiting
    BY <2>1, <2>3, StepWaiting
  <2>5. r \in pending' => r \in pending \cup Waiting
    <3> SUFFICES ASSUME r \in pending', r \notin pending PROVE r \in Waiting
      OBVIOUS
    <3>1. ASSUME NEW s \in Subs, TakeRequest(s) PROVE r \in Waiting
      <4>1. PICK n \in Message : n = Next1(s, "request") /\ n = <<"request", n[2]>>
        BY <3>1, TakeRequestTyped DEF MessagesOf
      <4>2. n[2] = r
        BY <3>1, <4>1 DEF TakeRequest
      <4>3. Took(s, "request") /\ chan[s]["request"].items # <<>> /\ "request" \in Kinds
        BY <3>1, TakeRequestTyped DEF TakeRequest, HasNext, Kinds
      <4>4. Queued(s, "request", n)
        BY <4>1, <4>3, TookQueued DEF Typed
      <4> QED
        BY <2>1, <4>1, <4>2, <4>4, WaitingQueued
    <3>2. ASSUME NEW s \in Subs, Settle(s) PROVE FALSE
      BY <3>2 DEF Settle, DropSettled
    <3>3. ASSUME NEW h \in Handlers, ResolveDelete(h) PROVE FALSE
      BY <3>3 DEF ResolveDelete
    <3>4. ASSUME NEW q \in Requests, Expire(q) PROVE FALSE
      BY <3>4 DEF Expire
    <3> QED
      BY <3>1, <3>2, <3>3, <3>4, StepPending
  <2>6. r \in Settles(m)
    <3>1. CASE m[1] = "resolved"
      BY <3>1 DEF Settles
    <3>2. CASE m[1] # "resolved"
      <4>1. r \in Requests /\ app'.asker[r] \in 1..m[2]
        BY <2>1, <3>2 DEF Settles
      <4>2. app.asker[r] # 0
        BY <2>4, <2>5, <2>2, <2>1, <1>0, WaitingQueued, <4>1 DEF SentInv, Known, Sent, Asked, Message, Kinds
      <4>3. app'.asker[r] = app.asker[r]
        BY <2>1, <4>2, StepAskers DEF AskersKept
      <4> QED
        BY <2>1, <3>2, <4>1, <4>3 DEF Settles
    <3> QED
      BY <3>1, <3>2
  <2> QED
    BY <2>4, <2>5, <2>6 DEF SettledGone
<1> QED
  BY <1>1, <1>2, StepHandled

LEMMA PendingStep ==
  ASSUME SessionAssumption, Typed, SubsInv, ListenInv, SentInv, PendingInv, [Next]_vars
  PROVE  PendingInv'
<1>1. FaultsGrow
  BY StepFaults
<1>2. CASE ~(~raced' /\ faults'["overflow"] = 0 /\ faults'["expire"] = 0)
  <2>1. HandledEnds'
    <3>1. ASSUME NEW s \in Subs, Settle(s) PROVE HandledEnds'
      BY <3>1, SettleTyped DEF Settle, HandledEnds, PendingInv
    <3> QED
      BY <3>1, StepHandled DEF HandledEnds, PendingInv
  <2> QED
    BY <1>2, <2>1 DEF PendingInv
<1>3. CASE ~raced' /\ faults'["overflow"] = 0 /\ faults'["expire"] = 0
  <2>1. faults["overflow"] = 0 /\ faults["expire"] = 0
    BY <1>1, <1>3, FaultNames DEF FaultsGrow
  <2>2. ~raced
    BY <1>3, StepHandled DEF Settle
  <2>3. Listening
    BY <2>1 DEF ListenInv
  <2>4. AskedKnown /\ SettledGone /\ HandledEnds
    BY <2>1, <2>2 DEF PendingInv
  <2> QED
    BY <1>3, <2>3, <2>4, AskedKnownStep, SettledGoneStep DEF PendingInv
<1> QED
  BY <1>2, <1>3

LEMMA InitPending ==
  ASSUME SessionAssumption, Init
  PROVE  PendingInv
  BY DEF Init, PendingInv, HandledEnds, AskedKnown, SettledGone

(* A request that the app-server waits for and that has been taken off its *)
(* channel is in codexPending, and one whose resolution or whose turn's    *)
(* end has been handled is not, as long as the two channels are read in    *)
(* the order of the lines, none overflows and no time to live ends.        *)
THEOREM PendingRequestsAgree == Spec => []PendingAgrees
<1>. DEFINE Inv == Typed /\ SubsInv /\ ListenInv /\ SentInv /\ PendingInv
<1>1. Init => Inv
  BY SessionAssumption, InitTyped, InitSubs, InitListen, InitSent, InitPending
<1>2. Inv /\ [Next]_vars => Inv'
  BY SessionAssumption, TypedStep, SubsStep, ListenStep, SentInvStep, PendingStep
<1>3. Inv => PendingAgrees
  BY DEF PendingInv, AskedKnown, SettledGone, PendingAgrees
<1> QED
  BY <1>1, <1>2, <1>3, PTL DEF Spec

-----------------------------------------------------------------------------
(* The record.                                                             *)

(* What the app-server says first of two turns, or of one.                 *)
Before(l, m) == l[2] < m[2] \/ (l[2] = m[2] /\ l[1] = "started" /\ m[1] = "ended")

(* It has said l, and says l before m.                                     *)
Precedes(l, m) == l \in app.sent /\ Before(l, m)

Handling == {"append", "read", "write", "settle"}

Notes(s) == chan[s]["note"].items

Marking(s, m) == worker[s]["note"].at = "mark" /\ worker[s]["note"].message = m

(* All it has said has been seen, or is on its way to the subscription.    *)
NothingLost ==
  \A s \in Subs : s = subs =>
    \A m \in Lifecycle : m \in app.sent => m \in seen \/ Marking(s, m) \/ Queued(s, "note", m)

(* What comes first has been seen, or is ahead.                            *)
QueueInOrder ==
  \A s \in Subs : s = subs =>
    \A i \in 1..Len(Notes(s)) : \A l \in Lifecycle :
      Notes(s)[i] \in Lifecycle /\ Precedes(l, Notes(s)[i]) =>
        l \in seen \/ Marking(s, l) \/ \E j \in 1..(i - 1) : Notes(s)[j] = l

MarkInOrder ==
  \A s \in Subs : \A l, m \in Lifecycle : Marking(s, m) /\ Precedes(l, m) => l \in seen

SeenInOrder == \A l, m \in Lifecycle : m \in seen /\ Precedes(l, m) => l \in seen

(* What is being handled is the last of what has been seen.                *)
Newest ==
  \A s \in Subs : worker[s]["note"].at \in Handling =>
    /\ worker[s]["note"].message \in seen
    /\ worker[s]["note"].message \in Lifecycle =>
         \A l \in Lifecycle : l \in seen => ~Before(worker[s]["note"].message, l)

InOrder == NothingLost /\ QueueInOrder /\ MarkInOrder /\ SeenInOrder /\ Newest

(* A session shows the turn that has been written last; one whose end has  *)
(* been written is not shown as running, and no later one is forgotten.    *)
Done(t) ==
  \/ <<"ended", t>> \in handled
  \/ \E s \in Subs : worker[s]["note"].at = "settle" /\ worker[s]["note"].message = <<"ended", t>>

RecordFollows ==
  /\ record.turn <= app.turn
  /\ \A t \in Turns : Done(t) => t <= record.turn /\ (t = record.turn => record.status # "running")
  /\ \A h \in Handlers :
       /\ handler[h].at \in {"call", "answered"} => handler[h].copy.turn <= app.turn
       /\ handler[h].at = "answered" =>
            handler[h].copy.turn < handler[h].turn /\ handler[h].turn <= app.turn

Ordered == InOrder /\ handled \subseteq seen

StatusInv ==
  /\ seen \subseteq app.sent
  /\ faults["overflow"] = 0 /\ faults["forget"] = 0 => Ordered
  /\ ~stale /\ faults["overflow"] = 0 /\ faults["forget"] = 0 => RecordFollows

LEMMA LifecycleNumbers ==
  ASSUME SessionAssumption
  PROVE  /\ \A m \in Lifecycle : /\ m \in Message /\ KindOf(m) = "note"
                                 /\ m[2] \in Turns /\ m[2] \in Nat /\ m[1] \in {"started", "ended"}
                                 /\ m = <<m[1], m[2]>> /\ ~Before(m, m)
         /\ \A r : <<"request", r>> \notin Lifecycle /\ <<"resolved", r>> \notin Lifecycle
         /\ \A m \in MessagesOf("request") : m \notin Lifecycle
  BY DEF Lifecycle, Message, MessagesOf, KindOf, Before, Turns, SessionAssumption

(* Goroutines of notifications go on with what they have.                  *)
NotesGoOn ==
  \A s \in Subs :
    /\ worker[s]["note"].at = "mark" \/ worker'[s]["note"].at = "mark" =>
         worker'[s]["note"] = worker[s]["note"]
    /\ worker'[s]["note"].at \in Handling =>
         /\ worker[s]["note"].at \in Handling
         /\ worker'[s]["note"].message = worker[s]["note"].message

(* A step that says, takes and marks nothing of a turn.                    *)
Proceeds ==
  /\ UNCHANGED <<subs, seen>>
  /\ app'.sent = app.sent
  /\ \A s \in Subs : chan'[s]["note"] = chan[s]["note"]
  /\ NotesGoOn

LEMMA ProceedsInOrder ==
  ASSUME InOrder, Proceeds
  PROVE  InOrder'
<1>1. \A s \in Subs : /\ Notes(s)' = Notes(s)
                      /\ \A m : Marking(s, m)' <=> Marking(s, m)
                      /\ \A m : Queued(s, "note", m)' <=> Queued(s, "note", m)
  BY DEF Proceeds, NotesGoOn, Notes, Marking, Queued
<1>2. \A l, m : Precedes(l, m)' <=> Precedes(l, m)
  BY DEF Proceeds, Precedes
<1>3. NothingLost'
  BY <1>1 DEF InOrder, NothingLost, Proceeds
<1>4. QueueInOrder'
  BY <1>1, <1>2 DEF InOrder, QueueInOrder, Proceeds
<1>5. MarkInOrder' /\ SeenInOrder'
  BY <1>1, <1>2 DEF InOrder, MarkInOrder, SeenInOrder, Proceeds
<1>6. Newest'
  BY DEF InOrder, Newest, Proceeds, NotesGoOn
<1> QED
  BY <1>3, <1>4, <1>5, <1>6 DEF InOrder

(* The app-server says no more of a turn before what it has said.          *)
Says(m) ==
  /\ Posted(m)
  /\ m \in Lifecycle /\ m \notin app.sent =>
       \A x \in Lifecycle : x \in app.sent => ~Before(m, x)

LEMMA SaysInOrder ==
  ASSUME SessionAssumption, Typed, Sent, Listening, seen \subseteq app.sent, InOrder,
         NEW m \in Message, Says(m), faults'["overflow"] = 0
  PROVE  InOrder'
<1>1. /\ app'.sent = app.sent \cup {m} /\ Delivered(m)
      /\ \A s \in Subs : ~(chan[s][KindOf(m)].open /\ Full(s, KindOf(m)))
      /\ UNCHANGED <<subs, worker, seen>>
      /\ m \in Lifecycle /\ m \notin app.sent => \A x \in Lifecycle : x \in app.sent => ~Before(m, x)
  BY DEF Says, Posted, subVars
<1>2. ChanTyped /\ WorkerTyped /\ "note" \in Kinds
  BY DEF Typed, Kinds
<1>3. ASSUME NEW l \in Lifecycle, NEW x \in Lifecycle, x \in app.sent, Precedes(l, x)'
      PROVE  Precedes(l, x)
  <2>1. l = m /\ l \notin app.sent => ~Before(l, x)
    BY <1>1, <1>3
  <2> QED
    BY <1>1, <1>3, <2>1 DEF Precedes
<1>4. \A x : \A s \in Subs : Marking(s, x)' <=> Marking(s, x)
  BY <1>1 DEF Marking
<1>5. NothingLost'
  <2> SUFFICES ASSUME NEW s \in Subs, s = subs, NEW x \in Lifecycle, x \in app.sent \cup {m}
               PROVE  x \in seen \/ Marking(s, x) \/ Queued(s, "note", x)'
    BY <1>1, <1>4 DEF NothingLost
  <2>1. CASE x \in app.sent
    BY <1>1, <1>2, <2>1, DeliveredQueued DEF InOrder, NothingLost
  <2>2. CASE x = m
    <3>1. KindOf(m) = "note" /\ chan[s]["note"].open
      BY <2>2, SubsNumbers, LifecycleNumbers DEF Listening, Kinds
    <3> QED
      BY <1>1, <1>2, <2>2, <3>1, DeliveredQueued
  <2> QED
    BY <2>1, <2>2
<1>6. QueueInOrder'
  <2> SUFFICES ASSUME NEW s \in Subs, s = subs, NEW p, p = chan'[s]["note"].items,
                      NEW i \in 1..Len(p), NEW l \in Lifecycle,
                      p[i] \in Lifecycle, l \in app'.sent, Before(l, p[i])
               PROVE  l \in seen \/ Marking(s, l) \/ \E j \in 1..(i - 1) : p[j] = l
    BY <1>1, <1>4 DEF QueueInOrder, Notes, Precedes
  <2>1. PICK q \in Seq(Message) : q = Notes(s)
    BY <1>2 DEF ChanTyped, Channels, Notes
  <2>2. \A j \in 1..Len(q) : q[j] \in Message /\ Queued(s, "note", q[j])
    BY <2>1 DEF Queued, Notes
  <2>3. \A j \in 1..Len(q) : q[j] \in app.sent
    BY <1>2, <2>2 DEF Sent
  <2>4. ASSUME i \in 1..Len(q), \A j \in 1..Len(q) : p[j] = q[j]
        PROVE  l \in seen \/ Marking(s, l) \/ \E j \in 1..(i - 1) : p[j] = l
    <3>1. Precedes(l, q[i])
      <4>1. q[i] \in Lifecycle /\ q[i] \in app.sent /\ Before(l, q[i])
        BY <2>3, <2>4
      <4>2. l = m /\ l \notin app.sent => ~Before(l, q[i])
        BY <1>1, <4>1
      <4> QED
        BY <1>1, <4>1, <4>2 DEF Precedes
    <3>2. l \in seen \/ Marking(s, l) \/ \E j \in 1..(i - 1) : q[j] = l
      BY <2>1, <2>4, <3>1 DEF InOrder, QueueInOrder
    <3>3. \A j \in 1..(i - 1) : j \in 1..Len(q)
      BY <2>4
    <3> QED
      BY <2>4, <3>2, <3>3
  <2>5. CASE KindOf(m) # "note"
    <3>1. chan'[s]["note"] = chan[s]["note"]
      BY <1>1, <1>2, <2>5 DEF Delivered
    <3>2. p = q
      BY <2>1, <3>1 DEF Notes
    <3> QED
      BY <2>4, <3>2
  <2>6. CASE KindOf(m) = "note"
    <3>1. chan[s]["note"].open /\ ~Full(s, "note")
      BY <1>1, <1>2, <2>6, SubsNumbers DEF Listening
    <3>2. chan'[s]["note"] = [open |-> TRUE, items |-> Append(chan[s]["note"].items, m)]
      BY <1>1, <1>2, <2>6, <3>1 DEF Delivered
    <3>3. p = Append(q, m)
      BY <2>1, <3>2 DEF Notes
    <3>4. /\ Len(p) = Len(q) + 1 /\ Len(q) \in Nat
          /\ \A j \in 1..Len(q) : p[j] = q[j]
          /\ p[Len(q) + 1] = m
      BY <3>3, AppendItems
    <3>5. CASE i \in 1..Len(q)
      BY <2>4, <3>4, <3>5
    <3>6. CASE i = Len(q) + 1
      <4>1. m \in Lifecycle /\ Before(l, m) /\ l \in app.sent \cup {m}
        BY <1>1, <3>4, <3>6
      <4>2. l \in app.sent
        BY <4>1, LifecycleNumbers
      <4>3. l \in seen \/ Marking(s, l) \/ Queued(s, "note", l)
        BY <4>2 DEF InOrder, NothingLost
      <4>4. Queued(s, "note", l) => \E j \in 1..Len(q) : q[j] = l
        BY <2>1 DEF Queued, Notes
      <4>5. i - 1 = Len(q)
        BY <3>4, <3>6
      <4> QED
        BY <3>4, <4>3, <4>4, <4>5
    <3>7. i \in 1..Len(q) \/ i = Len(q) + 1
      BY <3>4
    <3> QED
      BY <3>5, <3>6, <3>7
  <2> QED
    BY <2>5, <2>6
<1>7. MarkInOrder'
  <2> SUFFICES ASSUME NEW s \in Subs, NEW l \in Lifecycle, NEW x \in Lifecycle, Marking(s, x), Precedes(l, x)'
               PROVE  l \in seen
    BY <1>1, <1>4 DEF MarkInOrder
  <2>1. x \in app.sent
    BY <1>2 DEF Marking, Sent, Busy
  <2> QED
    BY <1>3, <2>1 DEF InOrder, MarkInOrder
<1>8. SeenInOrder'
  BY <1>1, <1>3 DEF InOrder, SeenInOrder
<1>9. Newest'
  BY <1>1 DEF InOrder, Newest
<1> QED
  BY <1>5, <1>6, <1>7, <1>8, <1>9 DEF InOrder

LEMMA OnlyOne ==
  ASSUME SessionAssumption, Typed, SubsInv, Listening, NEW s \in Subs, NEW k \in Kinds,
         worker[s][k].at # "off"
  PROVE  /\ s = subs
         /\ \A t \in Subs : t # s => worker[t]["note"].at = "off"
<1>1. \A t \in Subs, l \in Kinds : worker[t][l].at # "off" => t = subs
  <2> SUFFICES ASSUME NEW t \in Subs, NEW l \in Kinds, worker[t][l].at # "off", t # subs
               PROVE  FALSE
    OBVIOUS
  <2>1. CASE t > subs
    BY <2>1 DEF SubsInv, OnlyCurrent
  <2>2. CASE t < subs
    <3>1. Replaced(t)
      BY <2>2 DEF SubsInv, OnlyCurrent
    <3>2. t <= subs
      BY <2>2, SubsNumbers
    <3> QED
      BY <3>1, <3>2 DEF Listening, Replaced
  <2> QED
    BY <2>1, <2>2, SubsNumbers
<1> QED
  BY <1>1 DEF Kinds

LEMMA TakeNoteInOrder ==
  ASSUME SessionAssumption, Typed, SubsInv, Listening, InOrder, NEW s \in Subs, TakeNote(s)
  PROVE  InOrder'
<1>1. /\ "note" \in Kinds /\ ChanTyped
      /\ worker[s]["note"].at = "loop" /\ chan[s]["note"].items # <<>>
      /\ Took(s, "note") /\ UNCHANGED <<app, subs, seen>>
  BY TakeNoteTyped DEF TakeNote, HasNext, Typed, Kinds, subVars
<1>2. s = subs /\ \A t \in Subs : t # s => worker[t]["note"].at = "off"
  BY <1>1, OnlyOne
<1>3. PICK m \in Message : m = Next1(s, "note")
  BY TakeNoteTyped DEF MessagesOf
<1>4. /\ worker'[s]["note"].at = "mark" /\ worker'[s]["note"].message = m
      /\ \A t \in Subs : t # s => worker'[t]["note"] = worker[t]["note"]
  <2>1. PICK w : w = AtMark(m) /\ Moved(s, "note", w)
    BY <1>3, TakeNoteTyped
  <2>2. w.at = "mark" /\ w.message = m
    BY <2>1 DEF AtMark
  <2> QED
    BY <1>1, <2>1, <2>2 DEF Moved
<1>5. /\ \A x : Marking(s, x)' <=> x = m
      /\ \A x : ~Marking(s, x)
      /\ \A x : \A t \in Subs : t # s => ~Marking(t, x)'
  BY <1>1, <1>2, <1>4 DEF Marking
<1>6. PICK q \in Seq(Message) : q = chan[s]["note"].items
  BY <1>1 DEF ChanTyped, Channels
<1>7. PICK p : p = Tail(q)
  OBVIOUS
<1>8. /\ Len(p) = Len(q) - 1 /\ Len(q) \in Nat /\ Len(q) > 0
      /\ \A i \in 1..Len(p) : p[i] = q[i + 1]
      /\ Head(q) = q[1]
  BY <1>1, <1>6, <1>7, TailItems
<1>9. chan'[s]["note"].items = p /\ m = q[1]
  BY <1>1, <1>3, <1>6, <1>7, <1>8 DEF Took, Next1
<1>10. NothingLost'
  <2>1. \A x : Queued(s, "note", x) <=> Queued(s, "note", x)' \/ x = m
    BY <1>1, <1>3, TookQueued
  <2> QED
    BY <1>1, <1>2, <1>5, <2>1 DEF InOrder, NothingLost
<1>11. ASSUME NEW i \in 1..Len(q), NEW l \in Lifecycle, q[i] \in Lifecycle, l \in app.sent, Before(l, q[i])
       PROVE  l \in seen \/ \E j \in 1..(i - 1) : q[j] = l
  BY <1>2, <1>5, <1>6, <1>11 DEF InOrder, QueueInOrder, Notes, Precedes
<1>12. QueueInOrder'
  <2> SUFFICES ASSUME NEW i \in 1..Len(p), NEW l \in Lifecycle, p[i] \in Lifecycle,
                      l \in app.sent, Before(l, p[i])
               PROVE  l \in seen \/ l = m \/ \E j \in 1..(i - 1) : p[j] = l
    BY <1>1, <1>2, <1>5, <1>9 DEF QueueInOrder, Notes, Precedes
  <2>1. i + 1 \in 1..Len(q) /\ p[i] = q[i + 1] /\ (i + 1) - 1 = i
    BY <1>8
  <2>2. l \in seen \/ \E j \in 1..i : q[j] = l
    BY <1>11, <2>1
  <2>3. ASSUME NEW j \in 1..i, q[j] = l PROVE l = m \/ \E n \in 1..(i - 1) : p[n] = l
    <3>1. CASE j = 1
      BY <1>9, <2>3, <3>1
    <3>2. CASE j # 1
      <4>1. j - 1 \in 1..(i - 1) /\ j - 1 \in 1..Len(p) /\ (j - 1) + 1 = j
        BY <3>2
      <4>2. p[j - 1] = q[j]
        BY <1>8, <4>1
      <4> QED
        BY <2>3, <4>1, <4>2
    <3> QED
      BY <3>1, <3>2
  <2> QED
    BY <2>2, <2>3
<1>13. MarkInOrder'
  <2> SUFFICES ASSUME NEW l \in Lifecycle, m \in Lifecycle, l \in app.sent, Before(l, m)
               PROVE  l \in seen
    BY <1>1, <1>5 DEF MarkInOrder, Precedes
  <2>1. 1 \in 1..Len(q) /\ 1..(1 - 1) = {}
    BY <1>8
  <2> QED
    BY <1>9, <1>11, <2>1
<1>14. SeenInOrder'
  BY <1>1 DEF InOrder, SeenInOrder, Precedes
<1>15. Newest'
  BY <1>1, <1>4 DEF InOrder, Newest, Handling
<1> QED
  BY <1>10, <1>12, <1>13, <1>14, <1>15 DEF InOrder

LEMMA MarkMoves ==
  ASSUME SessionAssumption, Typed, NEW s \in Subs, NEW k \in Kinds, Mark(s, k)
  PROVE  /\ \A t \in Subs, l \in Kinds : (t # s \/ l # k) => worker'[t][l] = worker[t][l]
         /\ \/ worker[s][k].message \in seen /\ worker'[s][k] = Reading
            \/ /\ worker[s][k].message \notin seen
               /\ worker'[s][k].at = "append" /\ worker'[s][k].message = worker[s][k].message
<1>1. CASE worker[s][k].message \in seen
  <2>1. Moved(s, k, Reading)
    BY <1>1, MarkTyped
  <2> QED
    BY <1>1, <2>1 DEF Moved
<1>2. CASE worker[s][k].message \notin seen
  <2>1. Went(s, k, "append")
    BY <1>2, MarkTyped
  <2> QED
    BY <1>2, <2>1 DEF Went
<1> QED
  BY <1>1, <1>2

LEMMA MarkKeepsOrder ==
  ASSUME SessionAssumption, Typed, SubsInv, Listening, Sent, InOrder,
         NEW s \in Subs, NEW k \in Kinds, Mark(s, k)
  PROVE  InOrder'
<1> DEFINE m == worker[s][k].message
<1>1. /\ "note" \in Kinds /\ m \in MessagesOf(k) /\ m \in Message
      /\ worker[s][k].at = "mark" /\ seen' = seen \cup {m}
      /\ UNCHANGED <<app, subs, chan>>
  BY MarkTyped DEF Mark, Kinds, MessagesOf, subVars
<1>2. s = subs /\ \A t \in Subs : t # s => worker[t]["note"].at = "off"
  BY <1>1, OnlyOne
<1>3. \A t \in Subs : t # s => worker'[t]["note"] = worker[t]["note"]
  BY <1>1, MarkMoves
<1>4. m \in app.sent
  BY <1>1 DEF Sent, Busy
<1>5. CASE k = "request"
  <2>1. m \notin Lifecycle
    BY <1>1, <1>5, LifecycleNumbers
  <2>2. worker'[s]["note"] = worker[s]["note"]
    BY <1>1, <1>5, MarkMoves
  <2>3. \A x : \A t \in Subs : Marking(t, x)' <=> Marking(t, x)
    BY <1>3, <2>2 DEF Marking
  <2>4. NothingLost' /\ QueueInOrder'
    BY <1>1, <2>3 DEF InOrder, NothingLost, QueueInOrder, Queued, Notes, Precedes
  <2>5. MarkInOrder' /\ SeenInOrder'
    BY <1>1, <2>1, <2>3 DEF InOrder, MarkInOrder, SeenInOrder, Precedes
  <2>6. Newest'
    BY <1>1, <1>3, <2>1, <2>2 DEF InOrder, Newest
  <2> QED
    BY <2>4, <2>5, <2>6 DEF InOrder
<1>6. CASE k = "note"
  <2>1. \A x : Marking(s, x) <=> x = m
    BY <1>1, <1>6 DEF Marking
  <2>2. \/ m \in seen /\ worker'[s]["note"] = Reading
        \/ m \notin seen /\ worker'[s]["note"].at = "append" /\ worker'[s]["note"].message = m
    BY <1>6, MarkMoves
  <2>3. \A x : \A t \in Subs : ~Marking(t, x)'
    BY <1>2, <1>3, <2>2, ReadingHolds DEF Marking
  <2>4. NothingLost' /\ QueueInOrder'
    BY <1>1, <1>2, <2>1, <2>3, SMTT(30) DEF InOrder, NothingLost, QueueInOrder, Queued, Notes, Precedes
  <2>5. MarkInOrder'
    BY <2>3 DEF MarkInOrder
  <2>6. SeenInOrder'
    BY <1>1, <2>1 DEF InOrder, MarkInOrder, SeenInOrder, Precedes
  <2>7. Newest'
    <3> SUFFICES ASSUME NEW t \in Subs, worker'[t]["note"].at \in Handling
                 PROVE  /\ worker'[t]["note"].message \in seen'
                        /\ worker'[t]["note"].message \in Lifecycle =>
                             \A l \in Lifecycle : l \in seen' => ~Before(worker'[t]["note"].message, l)
      BY DEF Newest
    <3>1. t = s /\ m \notin seen /\ worker'[s]["note"].message = m
      BY <1>2, <1>3, <2>2, ReadingHolds DEF Handling
    <3>2. ASSUME m \in Lifecycle, NEW l \in Lifecycle, l \in seen', Before(m, l) PROVE FALSE
      <4>1. l # m
        BY <3>2, LifecycleNumbers
      <4>2. l \in seen
        BY <1>1, <3>2, <4>1
      <4> QED
        BY <1>4, <3>1, <3>2, <4>2 DEF InOrder, SeenInOrder, Precedes
    <3> QED
      BY <1>1, <3>1, <3>2
  <2> QED
    BY <2>4, <2>5, <2>6, <2>7 DEF InOrder
<1> QED
  BY <1>5, <1>6 DEF Kinds

LEMMA JoinedInOrder ==
  ASSUME SessionAssumption, Typed, SubsInv, Listening, TurnsInOrder, InOrder,
         Joined, \A t \in Subs : Started(t, subs + 1), UNCHANGED <<app, seen>>
  PROVE  InOrder'
<1>1. subs = 0 /\ app.turn = 0
  BY SubsNumbers DEF Joined, Listening, Typed, AppTyped
<1>2. \A m \in Lifecycle : m \notin app.sent
  <2> SUFFICES ASSUME NEW m \in Lifecycle, m \in app.sent PROVE FALSE
    OBVIOUS
  <2>1. m = <<m[1], m[2]>> /\ m[1] \in {"started", "ended"} /\ m[2] \in Turns
    BY LifecycleNumbers
  <2>2. m[2] <= app.turn
    BY <2>1 DEF TurnsInOrder
  <2> QED
    BY <1>1, <2>1, <2>2 DEF Turns, SessionAssumption
<1>3. NothingLost' /\ QueueInOrder' /\ MarkInOrder' /\ SeenInOrder'
  BY <1>2 DEF NothingLost, QueueInOrder, MarkInOrder, SeenInOrder, Precedes
<1>4. Newest'
  <2>1. \A t \in Subs : worker[t]["note"].at = "off"
    BY <1>1, SubsNumbers DEF SubsInv, OnlyCurrent, Kinds
  <2>2. \A t \in Subs : worker'[t]["note"].at \notin Handling
    BY <2>1, ReadingHolds DEF Started, Kinds, Handling
  <2> QED
    BY <2>2 DEF Newest
<1> QED
  BY <1>3, <1>4 DEF InOrder

LEMMA MovedNotes ==
  ASSUME NEW s \in Subs, NEW k \in Kinds, NEW w, Moved(s, k, w),
         k = "note" => /\ worker[s]["note"].at \in Handling /\ w.at # "mark"
                       /\ w.at \in Handling => w.message = worker[s]["note"].message
  PROVE  NotesGoOn
  BY DEF Moved, NotesGoOn, Handling, Kinds

LEMMA WentNotes ==
  ASSUME NEW s \in Subs, NEW k \in Kinds, NEW at, Went(s, k, at),
         k = "note" => worker[s]["note"].at \in Handling /\ at # "mark"
  PROVE  NotesGoOn
  BY DEF Went, NotesGoOn, Handling, Kinds

LEMMA WorkNotes ==
  ASSUME SessionAssumption, Typed, NEW s \in Subs, NEW k \in Kinds, Work(s, k)
  PROVE  Proceeds \/ TakeNote(s) \/ Mark(s, k) \/ Stopping(s, k)
<1>1. "note" \in Kinds /\ "request" \in Kinds /\ Reading.at \notin {"mark", "append", "read", "write", "settle"}
  BY DEF Kinds, Reading
<1>2. CASE TakeRequest(s)
  <2>1. Took(s, "request") /\ Moved(s, "request", AtMark(Next1(s, "request")))
    BY <1>2, TakeRequestTyped
  <2> QED
    BY <1>1, <1>2, <2>1, MovedNotes DEF Proceeds, TakeRequest, Took, subVars
<1>3. ASSUME NotesGoOn, UNCHANGED <<app, subs, seen, chan>> PROVE Proceeds
  BY <1>3 DEF Proceeds
<1>4. CASE AppendEvent(s, k)
  <2>1. Moved(s, k, Reading) \/ Went(s, k, "settle") \/ Went(s, k, "read")
    BY <1>4, AppendTyped
  <2>2. worker[s][k].at \in Handling
    BY <1>4 DEF AppendEvent, Handling
  <2>3. ASSUME Moved(s, k, Reading) PROVE NotesGoOn
    <3>1. k = "note" => /\ worker[s]["note"].at \in Handling /\ Reading.at # "mark"
                        /\ Reading.at \notin Handling
      BY <1>1, <2>2 DEF Handling
    <3> QED
      BY <2>3, <3>1, MovedNotes
  <2>4. ASSUME Went(s, k, "settle") \/ Went(s, k, "read") PROVE NotesGoOn
    <3>1. k = "note" => worker[s]["note"].at \in Handling
      BY <2>2
    <3> QED
      BY <2>4, <3>1, WentNotes
  <2> QED
    BY <1>3, <1>4, <2>1, <2>3, <2>4 DEF AppendEvent, subVars
<1>5. CASE ReadRecord(s)
  <2>1. PICK w : /\ w = [at |-> "write", message |-> worker[s]["note"].message, copy |-> record]
                 /\ Moved(s, "note", w)
    BY <1>5, ReadTyped
  <2>2. w.message = worker[s]["note"].message /\ w.at = "write" /\ worker[s]["note"].at \in Handling
    BY <1>5, <2>1 DEF ReadRecord, Handling
  <2>3. NotesGoOn
    BY <1>1, <2>1, <2>2, MovedNotes
  <2> QED
    BY <1>3, <1>5, <2>3 DEF ReadRecord, subVars
<1>6. CASE WriteRecord(s)
  <2>1. PICK w : /\ \/ w = [at |-> "settle", message |-> worker[s]["note"].message, copy |-> <<>>]
                    \/ w = Reading
                 /\ Moved(s, "note", w)
    BY <1>6, WriteRecordTyped
  <2>2. /\ w.message = worker[s]["note"].message \/ w.at \notin Handling
        /\ w.at # "mark" /\ worker[s]["note"].at \in Handling
    BY <1>1, <1>6, <2>1 DEF WriteRecord, Handling
  <2>3. NotesGoOn
    BY <1>1, <2>1, <2>2, MovedNotes
  <2> QED
    BY <1>3, <1>6, <2>3 DEF WriteRecord, subVars
<1>7. CASE Settle(s)
  <2>1. Moved(s, "note", Reading) /\ worker[s]["note"].at \in Handling
    BY <1>7, SettleTyped DEF Settle, Handling
  <2>2. NotesGoOn
    BY <1>1, <2>1, MovedNotes DEF Handling
  <2> QED
    BY <1>3, <1>7, <2>2 DEF Settle, subVars
<1> QED
  BY <1>2, <1>4, <1>5, <1>6, <1>7 DEF Work, Stopping

JoinsNow == Joined /\ (\A t \in Subs : Started(t, subs + 1)) /\ UNCHANGED <<app, seen>>

LEMMA StepNotes ==
  ASSUME SessionAssumption, Typed, SubsInv, Listening, TurnsInOrder, [Next]_vars
  PROVE  \/ Proceeds
         \/ \E m \in Message : Says(m)
         \/ \E s \in Subs : TakeNote(s)
         \/ \E s \in Subs, k \in Kinds : Mark(s, k)
         \/ \E m \in Message : Forget(m)
         \/ JoinsNow
<1>1. ASSUME UNCHANGED <<subs, seen, chan, worker>>, app'.sent = app.sent PROVE Proceeds
  BY <1>1 DEF Proceeds, NotesGoOn
<1>2. ASSUME NEW m, Posted(m), m \notin Lifecycle \/ m \in app.sent
      PROVE  m \in Message /\ Says(m)
  BY <1>2 DEF Says, Posted
<1>3. \A x \in Lifecycle : /\ x = <<x[1], x[2]>> /\ x[1] \in {"started", "ended"}
                           /\ x[2] \in Turns /\ x[2] \in Nat
  BY LifecycleNumbers
<1>4. app.turn \in Nat
  BY DEF Typed, AppTyped, SessionAssumption
<1>5. \A x \in Lifecycle : x \in app.sent => x[2] <= app.turn
  <2> SUFFICES ASSUME NEW x \in Lifecycle, x \in app.sent PROVE x[2] <= app.turn
    OBVIOUS
  <2>1. x = <<"started", x[2]>> \/ x = <<"ended", x[2]>>
    BY <1>3
  <2> QED
    BY <1>3, <2>1 DEF TurnsInOrder
<1>6. CASE AppServer
  <2>1. CASE EndTurn
    <3>1. Posted(<<"ended", app.turn>>)
      BY <2>1, EndTurnPosts
    <3>2. \A x \in Lifecycle : x \in app.sent => ~Before(<<"ended", app.turn>>, x)
      BY <1>3, <1>4, <1>5 DEF Before
    <3> QED
      BY <3>1, <3>2 DEF Says, Posted
  <2>2. CASE Exit
    BY <1>1, <2>2, ExitApp DEF Exit, subVars
  <2>3. ASSUME NEW r \in Requests, Ask(r) PROVE \E m \in Message : Says(m)
    BY <1>2, <2>3, AskPosts, LifecycleNumbers
  <2>4. ASSUME NEW m \in Message, Repeat(m) PROVE Says(m)
    BY <1>2, <2>4, RepeatPosts
  <2> QED
    BY <1>6, <2>1, <2>2, <2>3, <2>4 DEF AppServer
<1>7. CASE \E s \in Subs, k \in Kinds : Work(s, k)
  BY <1>7, WorkNotes, ListeningNeverStops
<1>8. ASSUME NEW h \in Handlers, Handle(h)
      PROVE  Proceeds \/ (\E m \in Message : Says(m)) \/ JoinsNow
  <2>1. CASE AcceptTurn(h)
    <3>1. Posted(<<"started", app.turn + 1>>)
      BY <2>1, AcceptPosts
    <3>2. \A x \in Lifecycle : x \in app.sent => ~Before(<<"started", app.turn + 1>>, x)
      BY <1>3, <1>4, <1>5 DEF Before
    <3> QED
      BY <3>1, <3>2 DEF Says, Posted
  <2>2. CASE Respond(h)
    <3>1. PICK r \in handler[h].request :
            Resolves(r) \/ (r \notin app.asked /\ UNCHANGED <<app, chan, faults>>)
      BY <2>2, RespondTyped
    <3>2. CASE Resolves(r)
      BY <1>2, <2>2, <3>2, RespondPosts, LifecycleNumbers
    <3>3. CASE UNCHANGED <<app, chan, faults>>
      BY <1>1, <2>2, <3>3 DEF Respond, subVars
    <3> QED
      BY <3>1, <3>2, <3>3
  <2>3. CASE Open(h)
    BY <1>1, <2>3, OpenTyped DEF Open, JoinsNow
  <2>4. CASE RespondSubscribes(h)
    BY <2>4, RespondSubscribesTyped DEF RespondSubscribes, JoinsNow
  <2>5. \/ AcceptTurn(h) \/ Respond(h) \/ Open(h) \/ RespondSubscribes(h)
        \/ UNCHANGED <<app, subs, seen, chan, worker>>
    BY <1>8 DEF Handle, CallFails, WriteTurn, WriteName, ResolveRead, RespondFails, ResolveDelete, subVars
  <2> QED
    BY <1>1, <2>1, <2>2, <2>3, <2>4, <2>5
<1>9. CASE Time \/ UNCHANGED vars
  BY <1>1, <1>9 DEF Time, Expire, Forget, vars, subVars
<1> QED
  BY <1>6, <1>7, <1>8, <1>9 DEF Next

LEMMA StepSeen ==
  ASSUME SessionAssumption, Typed, Sent, seen \subseteq app.sent, [Next]_vars
  PROVE  /\ seen' \subseteq app'.sent
         /\ seen \subseteq seen' \/ \E m \in Message : Forget(m)
<1>1. app.sent \subseteq app'.sent
  BY StepApp, AskApp, EndTurnApp, ExitApp, AcceptApp, ResolveApp
<1>2. CASE UNCHANGED seen
  BY <1>1, <1>2
<1>3. ASSUME NEW s \in Subs, NEW k \in Kinds, Mark(s, k)
      PROVE  seen' \subseteq app'.sent /\ seen \subseteq seen'
  BY <1>1, <1>3 DEF Mark, Sent, Busy
<1>4. ASSUME NEW m \in Message, Forget(m) PROVE seen' \subseteq app'.sent
  BY <1>1, <1>4 DEF Forget
<1>5. CASE AppServer
  BY <1>2, <1>5 DEF AppServer, Ask, EndTurn, Exit, Repeat
<1>6. ASSUME NEW s \in Subs, NEW k \in Kinds, Work(s, k) PROVE UNCHANGED seen \/ Mark(s, k)
  BY <1>6 DEF Work, TakeRequest, TakeNote, ReadRecord, WriteRecord, Settle, AppendEvent,
              EndLoop, DeleteEntry, Resubscribe
<1>7. ASSUME NEW h \in Handlers, Handle(h) PROVE UNCHANGED seen
  BY <1>7 DEF Handle, Open, CallFails, AcceptTurn, WriteTurn, WriteName, ResolveRead, Respond,
              RespondSubscribes, RespondFails, ResolveDelete
<1>8. CASE Time \/ UNCHANGED vars
  BY <1>2, <1>4, <1>8 DEF Time, Expire, vars
<1> QED
  BY <1>2, <1>3, <1>4, <1>5, <1>6, <1>7, <1>8 DEF Next

LEMMA OrderedStep ==
  ASSUME SessionAssumption, Typed, SubsInv, Listening, SentInv, seen \subseteq app.sent, Ordered, [Next]_vars,
         faults'["overflow"] = 0, faults'["forget"] = 0
  PROVE  Ordered'
<1>1. \A m \in Message : ~Forget(m)
  BY FaultEffect, FaultNames DEF Forget, Typed
<1>2. InOrder'
  BY <1>1, StepNotes, ProceedsInOrder, SaysInOrder, TakeNoteInOrder, MarkKeepsOrder, JoinedInOrder
  DEF Ordered, SentInv, JoinsNow
<1>3. seen \subseteq seen'
  BY <1>1, StepSeen DEF SentInv
<1>4. ASSUME NEW s \in Subs, Settle(s) PROVE handled' \subseteq seen
  BY <1>4 DEF Settle, Ordered, InOrder, Newest, Handling
<1> QED
  BY <1>2, <1>3, <1>4, StepHandled DEF Ordered

LEMMA StepRecord ==
  ASSUME SessionAssumption, Typed, [Next]_vars
  PROVE  \/ UNCHANGED <<record, stale>>
         \/ \E s \in Subs : WriteRecord(s)
         \/ \E h \in Handlers : WriteTurn(h) \/ WriteName(h)
<1>1. CASE AppServer
  BY <1>1 DEF AppServer, Ask, EndTurn, Exit, Repeat, ghosts
<1>2. ASSUME NEW s \in Subs, NEW k \in Kinds, Work(s, k)
      PROVE  UNCHANGED <<record, stale>> \/ WriteRecord(s)
  BY <1>2 DEF Work, TakeRequest, TakeNote, ReadRecord, Settle, Mark, AppendEvent,
              EndLoop, DeleteEntry, Resubscribe, ghosts
<1>3. ASSUME NEW h \in Handlers, Handle(h)
      PROVE  UNCHANGED <<record, stale>> \/ WriteTurn(h) \/ WriteName(h)
  BY <1>3 DEF Handle, Open, CallFails, AcceptTurn, ResolveRead, Respond,
              RespondSubscribes, RespondFails, ResolveDelete, ghosts
<1>4. CASE Time \/ UNCHANGED vars
  BY <1>4 DEF Time, Expire, Forget, vars, ghosts
<1> QED
  BY <1>1, <1>2, <1>3, <1>4 DEF Next

(* A turn is done when its end has been written, and stays so.             *)
LEMMA StepDone ==
  ASSUME SessionAssumption, Typed, SubsInv, [Next]_vars, NEW t \in Turns, Done(t)'
  PROVE  \/ Done(t)
         \/ \E s \in Subs : WriteRecord(s) /\ worker[s]["note"].message = <<"ended", t>>
<1> DEFINE m == <<"ended", t>>
<1>0. "note" \in Kinds /\ m[1] = "ended" /\ m[1] # "resolved" /\ m[1] # "request"
  BY DEF Kinds
<1>1. ASSUME m \in handled' PROVE Done(t)
  <2>1. ASSUME NEW s \in Subs, Settle(s) PROVE Done(t)
    BY <1>1, <2>1 DEF Settle, Done
  <2> QED
    BY <1>1, <2>1, StepHandled DEF Done
<1>2. ASSUME NEW s \in Subs, worker'[s]["note"].at = "settle", worker'[s]["note"].message = m
      PROVE  \/ worker[s]["note"].at = "settle" /\ worker[s]["note"].message = m
             \/ WriteRecord(s) /\ worker[s]["note"].message = m
  <2> DEFINE Kept == worker[s]["note"].at = "settle" /\ worker[s]["note"].message = m
  <2>1. CASE UNCHANGED worker
    BY <1>2, <2>1
  <2>2. ASSUME NEW u \in Subs, NEW k \in Kinds, NEW w, Moved(u, k, w), w.at # "settle"
        PROVE  Kept
    BY <1>0, <1>2, <2>2 DEF Moved
  <2>3. ASSUME NEW u \in Subs, NEW k \in Kinds, NEW at, Went(u, k, at), at # "settle"
        PROVE  Kept
    BY <1>0, <1>2, <2>3 DEF Went
  <2>4. Reading.at # "settle"
    BY DEF Reading
  <2>5. ASSUME NEW u \in Subs, NEW k \in Kinds, Work(u, k)
        PROVE  Kept \/ (WriteRecord(s) /\ worker[s]["note"].message = m)
    <3>1. CASE TakeRequest(u)
      <4>1. PICK w : w = AtMark(Next1(u, "request")) /\ Moved(u, "request", w)
        BY <3>1, TakeRequestTyped
      <4> QED
        BY <2>2, <4>1 DEF AtMark, Kinds
    <3>2. CASE TakeNote(u)
      <4>1. PICK w : w = AtMark(Next1(u, "note")) /\ Moved(u, "note", w)
        BY <3>2, TakeNoteTyped
      <4> QED
        BY <2>2, <4>1 DEF AtMark, Kinds
    <3>3. CASE Mark(u, k)
      BY <2>2, <2>3, <2>4, <3>3, MarkTyped
    <3>4. CASE AppendEvent(u, k)
      <4>1. CASE Moved(u, k, Reading) \/ Went(u, k, "read")
        BY <2>2, <2>3, <2>4, <4>1
      <4>2. CASE Went(u, k, "settle") /\ ~(u = s /\ k = "note")
        BY <1>0, <1>2, <4>2 DEF Went
      <4>3. CASE Went(u, k, "settle") /\ u = s /\ k = "note"
        <5>1. worker[s]["note"].message = m
          BY <1>2, <4>3 DEF Went
        <5>2. Finish(s, "note") \/ Goto(s, "note", "read")
          BY <1>0, <3>4, <4>3, <5>1 DEF AppendEvent
        <5>3. worker'[s]["note"].at # "settle"
          <6>1. CASE Finish(s, "note")
            BY <1>0, <2>4, <6>1, FinishEffect DEF Typed, Moved
          <6>2. CASE Goto(s, "note", "read")
            BY <1>0, <6>2 DEF Goto, Typed, WorkerTyped, Goroutines
          <6> QED
            BY <5>2, <6>1, <6>2
        <5> QED
          BY <1>2, <5>3
      <4> QED
        BY <3>4, <4>1, <4>2, <4>3, AppendTyped
    <3>5. CASE ReadRecord(u)
      <4>1. PICK w : /\ w = [at |-> "write", message |-> worker[u]["note"].message, copy |-> record]
                     /\ Moved(u, "note", w)
        BY <3>5, ReadTyped
      <4>2. w.at # "settle"
        BY <4>1
      <4> QED
        BY <1>0, <2>2, <4>1, <4>2
    <3>6. CASE WriteRecord(u)
      <4>1. PICK w : /\ \/ w = [at |-> "settle", message |-> worker[u]["note"].message, copy |-> <<>>]
                        \/ w = Reading
                     /\ Moved(u, "note", w)
        BY <3>6, WriteRecordTyped
      <4>2. CASE u # s \/ w = Reading
        BY <1>0, <1>2, <2>4, <4>1, <4>2 DEF Moved
      <4>3. CASE u = s /\ w = [at |-> "settle", message |-> worker[u]["note"].message, copy |-> <<>>]
        <5>1. w.message = worker[s]["note"].message /\ worker'[s]["note"] = w
          BY <4>1, <4>3 DEF Moved
        <5> QED
          BY <1>2, <3>6, <4>3, <5>1
      <4> QED
        BY <4>1, <4>2, <4>3
    <3>7. CASE Settle(u)
      BY <1>0, <2>2, <2>4, <3>7, SettleTyped
    <3>8. CASE EndLoop(u, k)
      BY <2>3, <3>8, EndLoopTyped
    <3>9. CASE DeleteEntry(u, k)
      BY <2>3, <3>9, DeleteEntryTyped
    <3>10. CASE Resubscribe(u, k)
      <4>1. /\ worker'[u][k].at = "off"
            /\ \A l \in Kinds : l # k => worker'[u][l] = worker[u][l]
            /\ \A v \in Subs : v # u => Started(v, IF entry THEN 0 ELSE subs + 1)
        BY <3>10, ResubscribeTyped
      <4> QED
        BY <1>0, <1>2, <2>4, <4>1 DEF Started
    <3> QED
      BY <2>5, <3>1, <3>2, <3>3, <3>4, <3>5, <3>6, <3>7, <3>8, <3>9, <3>10 DEF Work
  <2>6. CASE \A v \in Subs : Started(v, subs + 1)
    BY <1>0, <1>2, <2>4, <2>6 DEF Started
  <2>7. CASE AppServer \/ Time \/ UNCHANGED vars
    BY <2>1, <2>7 DEF AppServer, Ask, EndTurn, Exit, Repeat, Time, Expire, Forget, vars
  <2>8. ASSUME NEW h \in Handlers, Handle(h) PROVE UNCHANGED worker \/ \A v \in Subs : Started(v, subs + 1)
    <3>1. CASE Open(h)
      BY <3>1, OpenTyped
    <3>2. CASE RespondSubscribes(h)
      BY <3>2, RespondSubscribesTyped
    <3>3. Open(h) \/ RespondSubscribes(h) \/ UNCHANGED worker
      BY <2>8 DEF Handle, CallFails, AcceptTurn, WriteTurn, WriteName, ResolveRead, Respond,
                  RespondFails, ResolveDelete
    <3> QED
      BY <3>1, <3>2, <3>3
  <2> QED
    BY <2>1, <2>5, <2>6, <2>7, <2>8 DEF Next
<1> QED
  BY <1>1, <1>2 DEF Done

LEMMA WriteRecordFollows ==
  ASSUME SessionAssumption, Typed, SubsInv, Listening, Ordered, [Next]_vars,
         NEW s \in Subs, WriteRecord(s), NEW t \in Turns, Done(t)'
  PROVE  t <= record'.turn /\ (t = record'.turn => record'.status # "running")
<1>1. PICK m \in Lifecycle : m = worker[s]["note"].message
  BY WriteRecordTyped
<1>2. /\ m = <<m[1], m[2]>> /\ m[1] \in {"started", "ended"} /\ m[2] \in Nat /\ t \in Nat
      /\ <<"ended", t>> \in Lifecycle
  BY LifecycleNumbers, MessageKinds DEF Turns, SessionAssumption
<1>3. record'.turn = m[2] /\ (m[1] = "ended" => record'.status = "succeeded")
  <2>1. PICK r : r = record' /\ r = [turn |-> m[2], status |-> StatusAfter(m)]
    BY <1>1, WriteRecordTyped DEF RecordAfter
  <2>2. r.turn = m[2] /\ r.status = StatusAfter(m)
    BY <2>1
  <2> QED
    BY <2>1, <2>2 DEF StatusAfter
<1>4. worker[s]["note"].at = "write" /\ "note" \in Kinds
  BY DEF WriteRecord, Kinds
<1>5. \A u \in Subs : worker[u]["note"].at # "off" => u = s
  BY <1>4, OnlyOne
<1>6. \A l \in Lifecycle : l \in seen => ~Before(m, l)
  BY <1>1, <1>4 DEF Ordered, InOrder, Newest, Handling
<1>7. CASE m = <<"ended", t>>
  BY <1>2, <1>3, <1>7
<1>8. CASE <<"ended", t>> \in seen
  <2>1. ~Before(m, <<"ended", t>>)
    BY <1>2, <1>6, <1>8
  <2>2. ~(m[2] < t) /\ ~(m[2] = t /\ m[1] = "started")
    BY <2>1 DEF Before
  <2>3. t <= m[2] /\ (t = m[2] => m[1] = "ended")
    BY <1>2, <2>2
  <2> QED
    BY <1>3, <2>3
<1>9. Done(t) => <<"ended", t>> \in seen
  BY <1>4, <1>5 DEF Done, Ordered
<1>10. Done(t) \/ m = <<"ended", t>>
  <2>1. ASSUME NEW u \in Subs, WriteRecord(u), worker[u]["note"].message = <<"ended", t>>
        PROVE  m = <<"ended", t>>
    <3>1. u = s
      BY <1>5, <2>1 DEF WriteRecord
    <3> QED
      BY <1>1, <2>1, <3>1
  <2> QED
    BY <2>1, StepDone
<1> QED
  BY <1>7, <1>8, <1>9, <1>10

LEMMA RecordStep ==
  ASSUME SessionAssumption, Typed, SubsInv, Listening, SentInv, Ordered, RecordFollows, [Next]_vars, ~stale'
  PROVE  RecordFollows'
<1>1. /\ app.turn \in Nat /\ app'.turn \in Nat /\ app.turn <= app'.turn
      /\ record.turn \in Nat
      /\ \A h \in Handlers : /\ handler[h].turn \in Nat
                             /\ handler[h].at \in {"call", "answered"} => handler[h].copy.turn \in Nat
  <2>1. app.turn \in Nat /\ record.turn \in Nat
    BY DEF Typed, AppTyped, StoreTyped, Record, SessionAssumption
  <2>2. app'.turn = app.turn \/ app'.turn = app.turn + 1
    BY StepTurn, AcceptApp
  <2>3. \A h \in Handlers : handler[h].turn \in Nat
    BY DEF Typed, HandlerTyped, Calls, SessionAssumption
  <2>4. \A h \in Handlers : handler[h].at \in {"call", "answered"} => handler[h].copy.turn \in Nat
    BY DEF Typed, HandlerTyped, Record, SessionAssumption
  <2> QED
    BY <2>1, <2>2, <2>3, <2>4
<1>2. /\ record'.turn <= app'.turn
      /\ \A t \in Turns : Done(t)' =>
           t <= record'.turn /\ (t = record'.turn => record'.status # "running")
  <2>1. ASSUME NEW s \in Subs, WriteRecord(s) PROVE record'.turn <= app'.turn
    <3>1. PICK m \in Lifecycle : m = worker[s]["note"].message
      BY <2>1, WriteRecordTyped
    <3>2. m = <<m[1], m[2]>> /\ m[1] \in {"started", "ended"} /\ m[2] \in Turns /\ m[2] \in Nat
      BY LifecycleNumbers
    <3>3. m \in app.sent
      BY <2>1, <3>1 DEF WriteRecord, SentInv, Sent, Busy, Kinds
    <3>4. m[2] <= app.turn
      <4>1. m = <<"started", m[2]>> \/ m = <<"ended", m[2]>>
        BY <3>2
      <4> QED
        BY <3>2, <3>3, <4>1 DEF SentInv, TurnsInOrder
    <3>5. record'.turn = m[2]
      <4>1. PICK r : r = record' /\ r = [turn |-> m[2], status |-> StatusAfter(m)]
        BY <2>1, <3>1, WriteRecordTyped DEF RecordAfter
      <4> QED
        BY <4>1
    <3> QED
      BY <1>1, <3>2, <3>4, <3>5
  <2>2. ASSUME \A s \in Subs : ~WriteRecord(s) PROVE \A t \in Turns : Done(t)' => Done(t)
    BY <2>2, StepDone
  <2>3. ASSUME NEW h \in Handlers, WriteTurn(h), \A s \in Subs : ~WriteRecord(s)
        PROVE  /\ record'.turn <= app'.turn
               /\ \A t \in Turns : Done(t)' =>
                    t <= record'.turn /\ (t = record'.turn => record'.status # "running")
    <3>1. PICK r : r = record' /\ r = [turn |-> handler[h].turn, status |-> "running"]
      BY <2>3, WriteTurnTyped
    <3>2. record'.turn = handler[h].turn
      BY <3>1
    <3>3. record = handler[h].copy /\ handler[h].at = "answered"
      BY <2>3 DEF WriteTurn, WriteBack
    <3>4. record.turn < handler[h].turn /\ handler[h].turn <= app.turn
      BY <3>3 DEF RecordFollows
    <3>5. \A t \in Turns : Done(t)' => t <= record.turn
      BY <2>2, <2>3 DEF RecordFollows
    <3>6. \A t \in Turns : t \in Nat
      BY DEF Turns, SessionAssumption
    <3> QED
      BY <1>1, <3>2, <3>4, <3>5, <3>6
  <2>4. ASSUME NEW h \in Handlers, WriteName(h) PROVE UNCHANGED record
    BY <2>4 DEF WriteName, WriteBack
  <2>5. ASSUME UNCHANGED record, \A s \in Subs : ~WriteRecord(s)
        PROVE  /\ record'.turn <= app'.turn
               /\ \A t \in Turns : Done(t)' =>
                    t <= record'.turn /\ (t = record'.turn => record'.status # "running")
    BY <1>1, <2>2, <2>5 DEF RecordFollows
  <2>6. CASE \E s \in Subs : WriteRecord(s)
    BY <2>1, <2>6, WriteRecordFollows
  <2>7. CASE \A s \in Subs : ~WriteRecord(s)
    BY <2>3, <2>4, <2>5, <2>7, StepRecord
  <2> QED
    BY <2>6, <2>7
<1>3. ASSUME NEW h \in Handlers
      PROVE  /\ handler'[h].at \in {"call", "answered"} => handler'[h].copy.turn <= app'.turn
             /\ handler'[h].at = "answered" =>
                  handler'[h].copy.turn < handler'[h].turn /\ handler'[h].turn <= app'.turn
  <2>1. CASE handler'[h] = handler[h]
    BY <1>1, <2>1 DEF RecordFollows
  <2>2. CASE handler'[h] = Idle
    BY <2>2 DEF Idle
  <2>3. CASE handler'[h].at = "call" /\ handler'[h].copy = record
    BY <1>1, <2>3 DEF RecordFollows
  <2>4. CASE /\ AcceptTurn(h)
             /\ handler'[h].at = "answered" /\ handler'[h].copy = handler[h].copy
             /\ handler'[h].turn = app.turn + 1
    <3>1. handler[h].at = "call" /\ app'.turn = app.turn + 1
      BY <2>4, AcceptApp DEF AcceptTurn
    <3>2. handler[h].copy.turn <= app.turn
      BY <3>1 DEF RecordFollows
    <3> QED
      BY <1>1, <2>4, <3>1, <3>2
  <2>5. CASE handler'[h].at = "respond" \/ handler'[h].at = "delete"
    BY <2>5
  <2> QED
    BY <2>1, <2>2, <2>3, <2>4, <2>5, StepHandler DEF HandlerStep
<1> QED
  BY <1>2, <1>3 DEF RecordFollows

LEMMA StatusStep ==
  ASSUME SessionAssumption, Typed, SubsInv, ListenInv, SentInv, StatusInv, [Next]_vars
  PROVE  StatusInv'
<1>1. FaultsGrow
  BY StepFaults
<1>2. seen \subseteq app.sent /\ seen' \subseteq app'.sent
  BY StepSeen DEF SentInv, StatusInv
<1>3. ASSUME faults'["overflow"] = 0, faults'["forget"] = 0
      PROVE  Ordered' /\ (~stale' => RecordFollows')
  <2>1. faults["overflow"] = 0 /\ faults["forget"] = 0
    BY <1>1, <1>3, FaultNames DEF FaultsGrow
  <2>2. Listening /\ Ordered
    BY <2>1 DEF ListenInv, StatusInv
  <2>3. Ordered'
    BY <1>2, <1>3, <2>2, OrderedStep
  <2>4. ASSUME ~stale' PROVE RecordFollows'
    <3>1. ~stale
      BY <2>4, StepRecord DEF WriteRecord, WriteTurn, WriteName, WriteBack
    <3> QED
      BY <2>1, <2>2, <2>4, <3>1, RecordStep DEF StatusInv
  <2> QED
    BY <2>3, <2>4
<1> QED
  BY <1>2, <1>3 DEF StatusInv

LEMMA InitStatus ==
  ASSUME SessionAssumption, Init
  PROVE  StatusInv
<1>1. /\ app.turn = 0 /\ app.sent = {} /\ seen = {} /\ handled = {} /\ subs = 0
      /\ \A h \in Handlers : handler[h].at = "idle"
  BY DEF Init, Idle
<1>2. record.turn = 0
  BY DEF Init
<1>3. \A s \in Subs : worker[s]["note"].at = "off"
  <2>1. \A s \in Subs : worker[s]["note"] = [Reading EXCEPT !.at = "off"]
    BY DEF Init, Kinds
  <2> QED
    BY <2>1 DEF Reading
<1>4. InOrder
  BY <1>1, <1>3 DEF InOrder, NothingLost, QueueInOrder, MarkInOrder, SeenInOrder, Newest, Precedes, Handling
<1>5. RecordFollows
  BY <1>1, <1>2, <1>3 DEF RecordFollows, Done
<1> QED
  BY <1>1, <1>4, <1>5 DEF StatusInv, Ordered

(* A session whose last turn is known to have ended is not shown as        *)
(* running, whatever handlers start turns and rename the session meanwhile,*)
(* as long as no record is written back over a change, no channel          *)
(* overflows and the dedupe table keeps its keys.                          *)
THEOREM StatusFollowsTurns == Spec => []StatusSettles
<1>. DEFINE Inv == Typed /\ SubsInv /\ ListenInv /\ SentInv /\ StatusInv
<1>1. Init => Inv
  BY SessionAssumption, InitTyped, InitSubs, InitListen, InitSent, InitStatus
<1>2. Inv /\ [Next]_vars => Inv'
  BY SessionAssumption, TypedStep, SubsStep, ListenStep, SentInvStep, StatusStep
<1>3. Inv => StatusSettles
  <2> SUFFICES ASSUME Inv, ~stale, faults["overflow"] = 0, faults["forget"] = 0,
                      <<"ended", record.turn>> \in handled
               PROVE  record.status # "running"
    BY DEF StatusSettles, EndedNotRunning
  <2>1. record.turn \in Turns
    BY DEF Typed, StoreTyped, Message
  <2>2. Done(record.turn)
    BY DEF Done
  <2> QED
    BY <2>1, <2>2 DEF StatusInv, RecordFollows
<1> QED
  BY <1>1, <1>2, <1>3, PTL DEF Spec

=============================================================================
