--------------------------- MODULE SessionStream ---------------------------
(***************************************************************************)
(* The session event pipeline of the server: the append-only event log in  *)
(* the store (internal/store), the publication of each appended event to   *)
(* the subscribed streams (internal/api/server.go), the SSE and WebSocket  *)
(* stream handlers that replay the log and then follow the publications    *)
(* (server.go, codex_v2_stream.go), and the cursor a client keeps and      *)
(* reconnects with (web session-stream-controller).                        *)
(*                                                                         *)
(* Goroutines are the units of interleaving.  An appender (a job worker, a *)
(* host of a fan-out, a codex notification loop) appends under the store's *)
(* lock and publishes under the server's lock: two steps.  A stream        *)
(* handler subscribes, reads the log batch by batch, and then drains its   *)
(* channel.  Frames are in flight until the client receives them, and a    *)
(* lost connection loses them.                                             *)
(***************************************************************************)
EXTENDS Naturals, Sequences, FiniteSets

CONSTANTS
  Sessions,      (* session ids                                              *)
  Streams,       (* client streams: one web or terminal client, one session  *)
  SessionOf,     (* the session each stream watches                          *)
  Appenders,     (* goroutines that append session events                    *)
  Deletable,     (* the sessions somebody deletes in this instance           *)
  StreamBuffer,  (* capacity of a subscriber's channel (256 in the code)     *)
  ReplayBatch,   (* events read per replay query (1000 in the code)          *)
  EventsMax,     (* RetentionPolicy.SessionEventsMax                         *)
  MaxEvents,     (* bound: events appended in a behaviour                    *)
  MaxFaults,     (* bound: how often each kind of fault happens              *)
  MaxKinds,      (* bound: kinds of fault in one behaviour                   *)
  NoEvent        (* what an appender with nothing to publish holds           *)

(* overtake: an event is published before one appended earlier.            *)
FaultKinds == {"save", "restart", "drop", "overtake"}

Event == [sid : Sessions, seq : Nat \ {0}, id : Nat \ {0}]

ASSUME StreamAssumption ==
  /\ SessionOf \in [Streams -> Sessions]
  /\ Deletable \subseteq Sessions
  /\ StreamBuffer \in Nat \ {0}
  /\ ReplayBatch \in Nat \ {0}
  /\ EventsMax \in Nat \ {0}
  /\ MaxEvents \in Nat
  /\ MaxFaults \in [FaultKinds -> Nat]
  /\ MaxKinds \in Nat
  /\ NoEvent \notin Event

VARIABLES
  (* the store: what is in memory, and what the last save wrote            *)
  sessions, log, seqOf, disk,
  (* appenders: the event appended and not yet published                    *)
  pending,
  (* the server's subscriptions: a channel, open, closed or not subscribed  *)
  sub, buf,
  (* stream handlers: where they are, the batch being written, lastSeq      *)
  phase, batch, lastSeq,
  (* frames in flight, the client's persisted cursor, what it has rendered  *)
  net, cursor, rendered,
  (* deletions between the store's step and the closing of the streams      *)
  closing,
  (* ghosts: events appended so far, faults so far                          *)
  lastID, faults

storeVars   == <<sessions, log, seqOf, disk>>
hubVars     == <<sub, buf>>
handlerVars == <<phase, batch, lastSeq>>
clientVars  == <<net, cursor, rendered>>
vars == <<storeVars, pending, hubVars, handlerVars, clientVars, closing, lastID, faults>>

-----------------------------------------------------------------------------
(* The store.                                                              *)

EventsOf(S, s) == {e \in S : e.sid = s}

(* Mutation: numbering by the events kept instead of by the counter.       *)
NextSeqFromLog(s) == Cardinality(EventsOf(log, s)) + 1

NextSeq(s) == seqOf[s] + 1

(* capTail over the events of all sessions: the newest EventsMax of them.  *)
CapTail(S) == {e \in S : Cardinality({f \in S : f.id > e.id}) < EventsMax}

(* Mutation: a query that returns the newest events after the cursor.      *)
ListNewestEvents(s, after) ==
  LET newer == {e \in EventsOf(log, s) : e.seq > after}
  IN {e \in newer : Cardinality({f \in newer : f.id > e.id}) < ReplayBatch}

(* ListSessionEvents: the first ReplayBatch events of s after a cursor.    *)
ListSessionEvents(s, after) ==
  LET newer == {e \in EventsOf(log, s) : e.seq > after}
  IN {e \in newer : Cardinality({f \in newer : f.id < e.id}) < ReplayBatch}

Snapshot == [sessions |-> sessions', log |-> log', seqOf |-> seqOf']

(* saveLocked writes a temporary file and renames it: it replaces the file *)
(* or, when it fails, leaves the previous one.                             *)
SaveSucceeds == disk' = Snapshot /\ UNCHANGED faults

Fault(kind) ==
  /\ faults[kind] < MaxFaults[kind]
  /\ Cardinality({k \in FaultKinds \ {kind} : faults[k] > 0}) < MaxKinds
  /\ faults' = [faults EXCEPT ![kind] = @ + 1]

SaveFails == Fault("save") /\ UNCHANGED disk

-----------------------------------------------------------------------------
(* Appenders.                                                              *)

(* AppendSessionEvent: the sequence number, the log and its retention      *)
(* change in memory before the save; when the save fails the caller gets   *)
(* an error and never publishes, but the event stays in memory.            *)
AppendEvent(a, s) ==
  LET e == [sid |-> s, seq |-> NextSeq(s), id |-> lastID + 1]
  IN /\ pending[a] = NoEvent
     /\ lastID < MaxEvents
     /\ lastID' = lastID + 1
     /\ seqOf' = [seqOf EXCEPT ![s] = e.seq]
     /\ log' = CapTail(log \cup {e})
     /\ UNCHANGED <<sessions, hubVars, handlerVars, clientVars, closing>>
     /\ \/ SaveSucceeds /\ pending' = [pending EXCEPT ![a] = e]
        \/ SaveFails /\ UNCHANGED pending

Subscribers(s) == {c \in Streams : sub[c] = "open" /\ SessionOf[c] = s}

(* Mutation: one event more than the channel holds.                        *)
HasRoomForOneMore(c) == Len(buf[c]) <= StreamBuffer

HasRoom(c) == Len(buf[c]) < StreamBuffer

(* Mutation: a full subscriber misses the event and stays subscribed.      *)
NeverClosed(c) == FALSE

ClosedWhenFull(c) == ~HasRoom(c)

(* An older event of the session has been appended and not yet published.  *)
Overtakes(e) ==
  \E b \in Appenders :
    pending[b] # NoEvent /\ pending[b].sid = e.sid /\ pending[b].id < e.id

(* publishSessionEvent: a non-blocking send to every subscriber of the     *)
(* session; one whose buffer is full is closed and forgotten.              *)
PublishEvent(a) ==
  LET e == pending[a]
      S == Subscribers(e.sid)
  IN /\ pending[a] # NoEvent
     /\ buf' = [c \in Streams |->
                  IF c \in S /\ HasRoom(c) THEN Append(buf[c], e) ELSE buf[c]]
     /\ sub' = [c \in Streams |->
                  IF c \in S /\ ClosedWhenFull(c) THEN "closed" ELSE sub[c]]
     /\ pending' = [pending EXCEPT ![a] = NoEvent]
     /\ IF Overtakes(e) THEN Fault("overtake") ELSE UNCHANGED faults
     /\ UNCHANGED <<storeVars, handlerVars, clientVars, closing, lastID>>

-----------------------------------------------------------------------------
(* Stream handlers.  A frame carries the cursor it moves the client to.    *)

Frame ==
  [kind : {"session.event"}, event : Event, cursor : Nat]
    \cup [kind : {"session.ready", "session.reset"}, event : {NoEvent}, cursor : Nat]

EventFrame(e) == [kind |-> "session.event", event |-> e, cursor |-> e.seq]

CursorFrame(kind, n) == [kind |-> kind, event |-> NoEvent, cursor |-> n]

Send(c, frame) == net' = [net EXCEPT ![c] = Append(@, frame)]

(* Mutation: a handler that writes whatever it takes off its channel.      *)
AnyEvent(c, e) == TRUE

(* The guard of every write: the event is above lastSeq.                   *)
IsNew(c, e) == lastSeq[c] < e.seq

WriteEvent(c, e) ==
  /\ lastSeq' = [lastSeq EXCEPT ![c] = e.seq]
  /\ Send(c, EventFrame(e))

(* A client connects with its cursor as "after"; the handler subscribes    *)
(* before it reads the log.  A client opens a stream only when the         *)
(* previous one has ended and its frames are consumed.  The WebSocket      *)
(* handler also wants the session record to exist; the client falls back   *)
(* on the SSE handler, which does not.                                     *)
Connect(c) ==
  /\ phase[c] = "off"
  /\ net[c] = <<>>
  /\ phase' = [phase EXCEPT ![c] = "replay"]
  /\ lastSeq' = [lastSeq EXCEPT ![c] = cursor[c]]
  /\ sub' = [sub EXCEPT ![c] = "open"]
  /\ UNCHANGED <<storeVars, pending, buf, batch, clientVars, closing, lastID, faults>>

(* One query of the replay loop.  An empty answer ends the replay with     *)
(* session.ready; a short one is the last batch.                           *)
ReplayRead(c) ==
  LET events == ListSessionEvents(SessionOf[c], lastSeq[c])
  IN /\ phase[c] = "replay"
     /\ batch[c] = {}
     /\ events # {}
     /\ batch' = [batch EXCEPT ![c] = events]
     /\ phase' = [phase EXCEPT ![c] =
                    IF Cardinality(events) < ReplayBatch THEN "tail" ELSE "replay"]
     /\ UNCHANGED <<storeVars, pending, hubVars, lastSeq, clientVars, closing, lastID, faults>>

(* Writing the oldest event of the batch.                                  *)
ReplayWrite(c) ==
  \E e \in batch[c] :
    /\ \A f \in batch[c] : e.seq <= f.seq
    /\ batch' = [batch EXCEPT ![c] = @ \ {e}]
    /\ IF IsNew(c, e)
       THEN WriteEvent(c, e)
       ELSE UNCHANGED <<lastSeq, net>>
    /\ UNCHANGED <<storeVars, pending, hubVars, phase, cursor, rendered, closing, lastID, faults>>

Ready(c) ==
  /\ batch[c] = {}
  /\ \/ phase[c] = "tail"
     \/ phase[c] = "replay" /\ ListSessionEvents(SessionOf[c], lastSeq[c]) = {}
  /\ phase' = [phase EXCEPT ![c] = "live"]
  /\ Send(c, CursorFrame("session.ready", lastSeq[c]))
  /\ UNCHANGED <<storeVars, pending, hubVars, batch, lastSeq, cursor, rendered, closing, lastID, faults>>

(* The live loop takes an event off the channel and skips it when its      *)
(* number is not above lastSeq.                                            *)
LiveWrite(c) ==
  /\ phase[c] = "live"
  /\ buf[c] # <<>>
  /\ buf' = [buf EXCEPT ![c] = Tail(@)]
  /\ LET e == Head(buf[c])
     IN IF IsNew(c, e)
        THEN WriteEvent(c, e)
        ELSE UNCHANGED <<lastSeq, net>>
  /\ UNCHANGED <<storeVars, pending, sub, phase, batch, cursor, rendered, closing, lastID, faults>>

(* The channel is closed and drained: session.reset, and the handler       *)
(* returns (its unsubscribe finds nothing to remove).                      *)
Reset(c) ==
  /\ phase[c] = "live"
  /\ sub[c] = "closed"
  /\ buf[c] = <<>>
  /\ Send(c, CursorFrame("session.reset", lastSeq[c]))
  /\ phase' = [phase EXCEPT ![c] = "off"]
  /\ sub' = [sub EXCEPT ![c] = "none"]
  /\ UNCHANGED <<storeVars, pending, buf, batch, lastSeq, cursor, rendered, closing, lastID, faults>>

(* The connection of stream c is gone at any point of the handler: it      *)
(* unsubscribes and the frames in flight are lost.                         *)
Drop(c) ==
  /\ Fault("drop")
  /\ phase[c] # "off" \/ net[c] # <<>>
  /\ phase' = [phase EXCEPT ![c] = "off"]
  /\ batch' = [batch EXCEPT ![c] = {}]
  /\ sub' = [sub EXCEPT ![c] = "none"]
  /\ buf' = [buf EXCEPT ![c] = <<>>]
  /\ net' = [net EXCEPT ![c] = <<>>]
  /\ UNCHANGED <<storeVars, pending, lastSeq, cursor, rendered, closing, lastID>>

-----------------------------------------------------------------------------
(* The client: handleSessionStreamFrame and the monotone, persisted        *)
(* cursor.  session.ready and session.reset move the cursor as well.       *)
Receive(c) ==
  /\ net[c] # <<>>
  /\ net' = [net EXCEPT ![c] = Tail(@)]
  /\ LET frame == Head(net[c])
     IN IF frame.cursor <= cursor[c]
        THEN UNCHANGED <<cursor, rendered>>
        ELSE /\ cursor' = [cursor EXCEPT ![c] = frame.cursor]
             /\ rendered' = IF frame.kind = "session.event"
                            THEN [rendered EXCEPT ![c] = Append(@, frame.event)]
                            ELSE rendered
  /\ UNCHANGED <<storeVars, pending, hubVars, handlerVars, closing, lastID, faults>>

-----------------------------------------------------------------------------
(* Deletion of a session and restart of the server.                        *)

(* store.DeleteSession forgets the record, its events and its sequence     *)
(* counter.  When the save fails the handler answers 500 before it closes  *)
(* the streams.                                                            *)
DeleteSession(s) ==
  /\ s \in sessions \cap Deletable
  /\ sessions' = sessions \ {s}
  /\ log' = log \ EventsOf(log, s)
  /\ seqOf' = [seqOf EXCEPT ![s] = 0]
  /\ \/ SaveSucceeds /\ closing' = closing \cup {s}
     \/ SaveFails /\ UNCHANGED closing
  /\ UNCHANGED <<pending, hubVars, handlerVars, clientVars, lastID>>

CloseStreams(s) ==
  /\ s \in closing
  /\ closing' = closing \ {s}
  /\ sub' = [c \in Streams |-> IF c \in Subscribers(s) THEN "closed" ELSE sub[c]]
  /\ UNCHANGED <<storeVars, pending, buf, handlerVars, clientVars, lastID, faults>>

(* The sequence counters load() rebuilds: the saved ones, raised to the    *)
(* newest event kept.                                                      *)
LoadedSeq(s, kept) ==
  LET seqs == {disk.seqOf[s]} \cup {e.seq : e \in EventsOf(kept, s)}
  IN CHOOSE n \in seqs : \A m \in seqs : m <= n

(* The process ends, every connection and goroutine with it, and a new one *)
(* loads the file of the last successful save.                             *)
Restart ==
  /\ Fault("restart")
  /\ sessions' = disk.sessions
  /\ log' = CapTail(disk.log)
  /\ seqOf' = [s \in Sessions |-> LoadedSeq(s, CapTail(disk.log))]
  /\ pending' = [a \in Appenders |-> NoEvent]
  /\ sub' = [c \in Streams |-> "none"]
  /\ buf' = [c \in Streams |-> <<>>]
  /\ phase' = [c \in Streams |-> "off"]
  /\ batch' = [c \in Streams |-> {}]
  /\ net' = [c \in Streams |-> <<>>]
  /\ closing' = {}
  /\ UNCHANGED <<disk, lastSeq, cursor, rendered, lastID>>

-----------------------------------------------------------------------------
Init ==
  /\ sessions = Sessions
  /\ log = {}
  /\ seqOf = [s \in Sessions |-> 0]
  /\ disk = [sessions |-> Sessions, log |-> {}, seqOf |-> [s \in Sessions |-> 0]]
  /\ pending = [a \in Appenders |-> NoEvent]
  /\ sub = [c \in Streams |-> "none"]
  /\ buf = [c \in Streams |-> <<>>]
  /\ phase = [c \in Streams |-> "off"]
  /\ batch = [c \in Streams |-> {}]
  /\ lastSeq = [c \in Streams |-> 0]
  /\ net = [c \in Streams |-> <<>>]
  /\ cursor = [c \in Streams |-> 0]
  /\ rendered = [c \in Streams |-> <<>>]
  /\ closing = {}
  /\ lastID = 0
  /\ faults = [k \in FaultKinds |-> 0]

Handler(c) == ReplayRead(c) \/ ReplayWrite(c) \/ Ready(c) \/ LiveWrite(c) \/ Reset(c)

Next ==
  \/ \E a \in Appenders, s \in Sessions : AppendEvent(a, s)
  \/ \E a \in Appenders : PublishEvent(a)
  \/ \E c \in Streams : \/ Connect(c)
                        \/ ReplayRead(c)
                        \/ ReplayWrite(c)
                        \/ Ready(c)
                        \/ LiveWrite(c)
                        \/ Reset(c)
                        \/ Drop(c)
                        \/ Receive(c)
  \/ \E s \in Sessions : DeleteSession(s) \/ CloseStreams(s)
  \/ Restart

Spec == Init /\ [][Next]_vars

(* The Go scheduler runs every runnable goroutine, the client's loop       *)
(* reconnects after a bounded backoff, and TCP delivers the frames of a    *)
(* live connection.  Nothing obliges anybody to append, delete or fail.    *)
Fairness ==
  /\ \A a \in Appenders : WF_vars(PublishEvent(a))
  /\ \A c \in Streams : WF_vars(Connect(c)) /\ WF_vars(Handler(c)) /\ WF_vars(Receive(c))
  /\ \A s \in Sessions : WF_vars(CloseStreams(s))

FairSpec == Spec /\ Fairness

-----------------------------------------------------------------------------
(* Properties.                                                             *)

(* Every variable has the type of the Go or TypeScript state it stands     *)
(* for, and no channel or replay batch exceeds its capacity.               *)
TypeOK ==
  /\ sessions \subseteq Sessions
  /\ log \subseteq Event
  /\ seqOf \in [Sessions -> Nat]
  /\ disk.sessions \subseteq Sessions
  /\ disk.log \subseteq Event
  /\ disk.seqOf \in [Sessions -> Nat]
  /\ pending \in [Appenders -> Event \cup {NoEvent}]
  /\ sub \in [Streams -> {"none", "open", "closed"}]
  /\ buf \in [Streams -> Seq(Event)]
  /\ \A c \in Streams : Len(buf[c]) <= StreamBuffer
  /\ phase \in [Streams -> {"off", "replay", "tail", "live"}]
  /\ batch \in [Streams -> SUBSET Event]
  /\ lastSeq \in [Streams -> Nat]
  /\ net \in [Streams -> Seq(Frame)]
  /\ cursor \in [Streams -> Nat]
  /\ rendered \in [Streams -> Seq(Event)]
  /\ closing \subseteq Sessions
  /\ lastID \in Nat
  /\ faults \in [FaultKinds -> Nat]

(* The events of a session that the store holds have distinct numbers that *)
(* grow in the order they were appended, and the counter the next number   *)
(* comes from is never below one of them; the same of the file.  Deletion, *)
(* retention, failed saves and restarts all touch both.                    *)
NumbersGrow(S, counters) ==
  \A e \in S : /\ e.seq <= counters[e.sid]
               /\ \A f \in EventsOf(S, e.sid) : e.id < f.id => e.seq < f.seq

LogOrdered == NumbersGrow(log, seqOf) /\ NumbersGrow(disk.log, disk.seqOf)

(* On every connection the events go out in strictly increasing order,     *)
(* all of them above the client's cursor and none above the handler's      *)
(* lastSeq: neither the overlap of replay and subscription nor a           *)
(* reconnect makes the server send an event twice or backwards.            *)
WireOrdered ==
  \A c \in Streams :
    /\ phase[c] # "off" => cursor[c] <= lastSeq[c]
    /\ \A i \in 1..Len(net[c]) :
         LET frame == net[c][i]
         IN /\ frame.cursor <= lastSeq[c]
            /\ frame.kind = "session.event" => cursor[c] < frame.cursor
            /\ \A j \in 1..(i - 1) :
                 /\ net[c][j].cursor <= frame.cursor
                 /\ frame.kind = "session.event" => net[c][j].cursor < frame.cursor

Elements(seq) == {seq[i] : i \in 1..Len(seq)}

(* An event still in the store whose number the client's cursor has passed *)
(* has been rendered; reconnecting with that cursor loses nothing.         *)
NothingSkipped ==
  \A c \in Streams : \A e \in EventsOf(log, SessionOf[c]) :
    e.seq <= cursor[c] => e \in Elements(rendered[c])

(* Replay safety: nothing is skipped, through resets, lost connections,    *)
(* restarts and retention, as long as events are published in the order    *)
(* they were appended, every save succeeds and no session is deleted.      *)
ReplaySafe ==
  faults["overtake"] = 0 /\ faults["save"] = 0 /\ sessions = Sessions => NothingSkipped

(* What a client sees refines the feed the contract promises.              *)
Feed == INSTANCE EventFeed WITH
          top <- seqOf,
          seen <- [c \in Streams |->
                     [i \in 1..Len(rendered[c]) |-> rendered[c][i].seq]]

ImplementsFeed == Feed!Spec

(* With the fairness above, every event is eventually rendered by every    *)
(* stream of its session, through resets, restarts and lost connections.   *)
ImplementsFairFeed == Feed!FairSpec
=============================================================================
