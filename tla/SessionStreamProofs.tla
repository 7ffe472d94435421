------------------------ MODULE SessionStreamProofs ------------------------
(***************************************************************************)
(* Proofs about SessionStream for every set of sessions, streams and       *)
(* appenders, every capacity and every number of faults.                   *)
(***************************************************************************)
EXTENDS SessionStream, SequenceTheorems, FiniteSetTheorems, WellFoundedInduction, TLAPS

(* Removing the head of a non-empty sequence and appending to one: the     *)
(* facts the steps on buf and net use.                                     *)
LEMMA QueueFacts ==
  ASSUME NEW S, NEW q \in Seq(S)
  PROVE  /\ Len(q) \in Nat
         /\ \A i \in 1..Len(q) : q[i] \in S
         /\ \A x \in S : /\ Append(q, x) \in Seq(S)
                         /\ Len(Append(q, x)) = Len(q) + 1
                         /\ \A i \in 1..Len(q) : Append(q, x)[i] = q[i]
                         /\ Append(q, x)[Len(q) + 1] = x
         /\ q # <<>> => /\ Head(q) \in S
                        /\ Head(q) = q[1]
                        /\ Len(q) > 0
                        /\ Tail(q) \in Seq(S)
                        /\ Len(Tail(q)) = Len(q) - 1
                        /\ \A i \in 1..(Len(q) - 1) : Tail(q)[i] = q[i + 1]
  BY HeadTailProperties, AppendProperties

(* The same for a family of queues, one per stream.                       *)
LEMMA EnqueueType ==
  ASSUME NEW S, NEW Q \in [Streams -> Seq(S)], NEW c \in Streams, NEW x \in S
  PROVE  [Q EXCEPT ![c] = Append(@, x)] \in [Streams -> Seq(S)]
  BY QueueFacts

LEMMA DequeueType ==
  ASSUME NEW S, NEW Q \in [Streams -> Seq(S)], NEW c \in Streams, Q[c] # <<>>
  PROVE  /\ [Q EXCEPT ![c] = Tail(@)] \in [Streams -> Seq(S)]
         /\ Head(Q[c]) \in S
  BY QueueFacts

-----------------------------------------------------------------------------
(* Type correctness.                                                       *)

LEMMA EventFrameType ==
  ASSUME NEW e \in Event
  PROVE  EventFrame(e) \in Frame
  BY DEF EventFrame, Frame, Event

LEMMA CursorFrameType ==
  ASSUME NEW n \in Nat, NEW kind \in {"session.ready", "session.reset"}
  PROVE  CursorFrame(kind, n) \in Frame
  BY DEF CursorFrame, Frame

LEMMA InitTypeOK == Init => TypeOK
  BY StreamAssumption DEF Init, TypeOK, Event, FaultKinds

LEMMA FaultType ==
  ASSUME TypeOK, NEW kind \in FaultKinds, Fault(kind)
  PROVE  faults' \in [FaultKinds -> Nat]
  BY DEF Fault, TypeOK

LEMMA AppendEventType ==
  ASSUME TypeOK, NEW a \in Appenders, NEW s \in Sessions, AppendEvent(a, s)
  PROVE  TypeOK'
<1> DEFINE e == [sid |-> s, seq |-> NextSeq(s), id |-> lastID + 1]
<1>1. e \in Event
  BY DEF TypeOK, Event, NextSeq
<1>2. log' \subseteq Event /\ seqOf' \in [Sessions -> Nat] /\ lastID' \in Nat
  BY <1>1 DEF AppendEvent, TypeOK, CapTail, NextSeq
<1>3. CASE SaveSucceeds /\ pending' = [pending EXCEPT ![a] = e]
  BY <1>1, <1>2, <1>3 DEF AppendEvent, SaveSucceeds, Snapshot, TypeOK,
     hubVars, handlerVars, clientVars
<1>4. CASE SaveFails /\ UNCHANGED pending
  BY <1>2, <1>4, FaultType DEF AppendEvent, SaveFails, TypeOK, FaultKinds,
     hubVars, handlerVars, clientVars
<1> QED
  BY <1>3, <1>4 DEF AppendEvent

LEMMA PublishEventType ==
  ASSUME TypeOK, NEW a \in Appenders, PublishEvent(a)
  PROVE  TypeOK'
<1>1. pending[a] \in Event
  BY DEF TypeOK, PublishEvent
<1>2. buf' \in [Streams -> Seq(Event)] /\ \A c \in Streams : Len(buf'[c]) <= StreamBuffer
  BY <1>1, QueueFacts, StreamAssumption DEF TypeOK, PublishEvent, HasRoom
<1>3. sub' \in [Streams -> {"none", "open", "closed"}]
  BY DEF TypeOK, PublishEvent
<1>4. pending' \in [Appenders -> Event \cup {NoEvent}]
  BY DEF TypeOK, PublishEvent
<1>5. faults' \in [FaultKinds -> Nat]
  <2>1. CASE Overtakes(pending[a])
    BY <2>1, FaultType DEF PublishEvent, FaultKinds
  <2>2. CASE ~Overtakes(pending[a])
    BY <2>2 DEF PublishEvent, TypeOK
  <2> QED
    BY <2>1, <2>2
<1> QED
  BY <1>2, <1>3, <1>4, <1>5 DEF PublishEvent, TypeOK, storeVars, handlerVars, clientVars

LEMMA ReplayWriteType ==
  ASSUME TypeOK, NEW c \in Streams, ReplayWrite(c)
  PROVE  TypeOK'
<1>1. PICK e \in batch[c] :
        /\ batch' = [batch EXCEPT ![c] = @ \ {e}]
        /\ \/ IsNew(c, e) /\ WriteEvent(c, e)
           \/ ~IsNew(c, e) /\ UNCHANGED <<lastSeq, net>>
  BY DEF ReplayWrite
<1>2. e \in Event /\ EventFrame(e) \in Frame
  BY EventFrameType DEF TypeOK
<1>3. batch' \in [Streams -> SUBSET Event] /\ lastSeq' \in [Streams -> Nat]
  BY <1>1, <1>2 DEF TypeOK, WriteEvent, Event
<1>4. net' \in [Streams -> Seq(Frame)]
  <2>1. net \in [Streams -> Seq(Frame)]
    BY DEF TypeOK
  <2>2. [net EXCEPT ![c] = Append(@, EventFrame(e))] \in [Streams -> Seq(Frame)]
    BY <1>2, <2>1, EnqueueType
  <2> QED
    BY <1>1, <2>1, <2>2 DEF WriteEvent, Send
<1> QED
  BY <1>3, <1>4 DEF ReplayWrite, TypeOK, storeVars, hubVars

LEMMA LiveWriteType ==
  ASSUME TypeOK, NEW c \in Streams, LiveWrite(c)
  PROVE  TypeOK'
<1> DEFINE e == Head(buf[c])
<1>1. e \in Event /\ EventFrame(e) \in Frame
  BY QueueFacts, EventFrameType DEF TypeOK, LiveWrite
<1>2. buf' \in [Streams -> Seq(Event)] /\ \A d \in Streams : Len(buf'[d]) <= StreamBuffer
  BY QueueFacts, StreamAssumption DEF TypeOK, LiveWrite
<1>3. lastSeq' \in [Streams -> Nat]
  BY <1>1 DEF TypeOK, LiveWrite, WriteEvent, Event
<1>4. net' \in [Streams -> Seq(Frame)]
  <2>1. net \in [Streams -> Seq(Frame)]
    BY DEF TypeOK
  <2>2. [net EXCEPT ![c] = Append(@, EventFrame(e))] \in [Streams -> Seq(Frame)]
    BY <1>1, <2>1, EnqueueType
  <2> QED
    BY <2>1, <2>2 DEF LiveWrite, WriteEvent, Send
<1> QED
  BY <1>2, <1>3, <1>4 DEF LiveWrite, TypeOK, storeVars

LEMMA ReceiveType ==
  ASSUME TypeOK, NEW c \in Streams, Receive(c)
  PROVE  TypeOK'
<1> DEFINE frame == Head(net[c])
<1>1. frame \in Frame
  BY QueueFacts DEF TypeOK, Receive
<1>11. frame.cursor \in Nat /\ (frame.kind = "session.event" => frame.event \in Event)
  BY <1>1 DEF Frame
<1>2. net' \in [Streams -> Seq(Frame)]
  BY QueueFacts DEF TypeOK, Receive
<1>3. cursor' \in [Streams -> Nat]
  BY <1>11 DEF TypeOK, Receive
<1>4. rendered' \in [Streams -> Seq(Event)]
  <2>1. rendered \in [Streams -> Seq(Event)]
    BY DEF TypeOK
  <2>2. CASE frame.kind = "session.event"
    <3>1. [rendered EXCEPT ![c] = Append(@, frame.event)] \in [Streams -> Seq(Event)]
      BY <1>11, <2>1, <2>2, EnqueueType
    <3> QED
      BY <2>1, <2>2, <3>1 DEF Receive
  <2>3. CASE frame.kind # "session.event"
    BY <2>1, <2>3 DEF Receive
  <2> QED
    BY <2>2, <2>3
<1> QED
  BY <1>2, <1>3, <1>4 DEF Receive, TypeOK, storeVars, hubVars, handlerVars

-----------------------------------------------------------------------------
(* The inductive invariant.  TypeOK alone is not inductive: the counters   *)
(* that load() rebuilds exist because the saved ones bound the saved       *)
(* events, which is LogOrdered, and that needs the order in which events   *)
(* were appended.  WireOrdered needs to know that a handler with replay    *)
(* left to write is still connected.                                       *)

IDsBounded == \A e \in log \cup disk.log : e.id <= lastID

BatchConnected == \A c \in Streams : batch[c] # {} => phase[c] \in {"replay", "tail"}

StoreInv == TypeOK /\ LogOrdered /\ IDsBounded

IInv == StoreInv /\ BatchConnected /\ WireOrdered

LEMMA LoadedSeqIsSaved ==
  ASSUME StoreInv, NEW s \in Sessions, NEW kept \in SUBSET disk.log
  PROVE  LoadedSeq(s, kept) = disk.seqOf[s]
<1> DEFINE seqs == {disk.seqOf[s]} \cup {e.seq : e \in EventsOf(kept, s)}
<1>1. \A m \in seqs : m \in Nat /\ m <= disk.seqOf[s]
  <2>1. disk.seqOf[s] \in Nat
    BY DEF StoreInv, TypeOK
  <2>2. \A e \in disk.log : e.seq \in Nat /\ e.seq <= disk.seqOf[e.sid]
    <3>1. \A e \in disk.log : e.seq \in Nat
      BY DEF StoreInv, TypeOK, Event
    <3>2. \A e \in disk.log : e.seq <= disk.seqOf[e.sid]
      BY DEF StoreInv, LogOrdered, NumbersGrow
    <3> QED
      BY <3>1, <3>2
  <2>3. \A e \in EventsOf(kept, s) : e \in disk.log /\ e.sid = s
    BY DEF EventsOf
  <2> QED
    BY <2>1, <2>2, <2>3
<1>2. disk.seqOf[s] \in seqs
  OBVIOUS
<1> HIDE DEF seqs
<1>3. \A n \in seqs : (\A m \in seqs : m <= n) <=> n = disk.seqOf[s]
  BY <1>1, <1>2
<1>4. (CHOOSE n \in seqs : \A m \in seqs : m <= n) = disk.seqOf[s]
  BY <1>2, <1>3
<1> QED
  BY <1>4 DEF LoadedSeq, seqs

LEMMA RestartType ==
  ASSUME StoreInv, Restart
  PROVE  TypeOK'
<1>1. CapTail(disk.log) \subseteq disk.log
  BY DEF CapTail
<1>2. \A s \in Sessions : LoadedSeq(s, CapTail(disk.log)) \in Nat
  <2>1. \A s \in Sessions : LoadedSeq(s, CapTail(disk.log)) = disk.seqOf[s]
    BY <1>1, LoadedSeqIsSaved
  <2> QED
    BY <2>1 DEF StoreInv, TypeOK
<1>3. seqOf' \in [Sessions -> Nat]
  BY <1>2 DEF Restart
<1>4. log' \subseteq Event /\ sessions' \subseteq Sessions
  BY <1>1 DEF Restart, StoreInv, TypeOK
<1>5. faults' \in [FaultKinds -> Nat]
  BY FaultType DEF Restart, StoreInv, FaultKinds
<1>6. buf' \in [Streams -> Seq(Event)] /\ \A c \in Streams : Len(buf'[c]) <= StreamBuffer
  BY StreamAssumption DEF Restart
<1> QED
  BY <1>3, <1>4, <1>5, <1>6 DEF Restart, StoreInv, TypeOK

LEMMA DeleteSessionType ==
  ASSUME TypeOK, NEW s \in Sessions, DeleteSession(s)
  PROVE  TypeOK'
<1>1. sessions' \subseteq Sessions /\ log' \subseteq Event /\ seqOf' \in [Sessions -> Nat]
  BY DEF DeleteSession, TypeOK
<1>2. CASE SaveSucceeds /\ closing' = closing \cup {s}
  BY <1>1, <1>2 DEF DeleteSession, SaveSucceeds, Snapshot, TypeOK,
     hubVars, handlerVars, clientVars
<1>3. CASE SaveFails /\ UNCHANGED closing
  <2>1. faults' \in [FaultKinds -> Nat] /\ UNCHANGED disk
    BY <1>3, FaultType DEF SaveFails, FaultKinds
  <2> QED
    BY <1>1, <1>3, <2>1 DEF DeleteSession, TypeOK, hubVars, handlerVars, clientVars
<1> QED
  BY <1>2, <1>3 DEF DeleteSession

LEMMA DropType ==
  ASSUME TypeOK, NEW c \in Streams, Drop(c)
  PROVE  TypeOK'
<1>1. faults' \in [FaultKinds -> Nat]
  BY FaultType DEF Drop, FaultKinds
<1>2. buf' \in [Streams -> Seq(Event)] /\ \A d \in Streams : Len(buf'[d]) <= StreamBuffer
  BY StreamAssumption DEF Drop, TypeOK
<1> QED
  BY <1>1, <1>2 DEF Drop, TypeOK, storeVars

LEMMA CursorSendType ==
  ASSUME TypeOK, NEW c \in Streams, NEW kind \in {"session.ready", "session.reset"},
         Send(c, CursorFrame(kind, lastSeq[c]))
  PROVE  net' \in [Streams -> Seq(Frame)]
<1>1. net \in [Streams -> Seq(Frame)] /\ lastSeq[c] \in Nat
  BY DEF TypeOK
<1>2. CursorFrame(kind, lastSeq[c]) \in Frame
  BY <1>1, CursorFrameType
<1> QED
  BY <1>1, <1>2, EnqueueType DEF Send

LEMMA StepTypeOK == StoreInv /\ [Next]_vars => TypeOK'
<1> SUFFICES ASSUME StoreInv, [Next]_vars PROVE TypeOK'
  OBVIOUS
<1> USE DEF StoreInv
<1>1. ASSUME NEW a \in Appenders, NEW s \in Sessions, AppendEvent(a, s) PROVE TypeOK'
  BY <1>1, AppendEventType
<1>2. ASSUME NEW a \in Appenders, PublishEvent(a) PROVE TypeOK'
  BY <1>2, PublishEventType
<1>3. ASSUME NEW c \in Streams, Connect(c) PROVE TypeOK'
  BY <1>3 DEF Connect, TypeOK, storeVars, clientVars
<1>4. ASSUME NEW c \in Streams, ReplayRead(c) PROVE TypeOK'
  BY <1>4 DEF ReplayRead, ListSessionEvents, EventsOf, TypeOK, storeVars, hubVars, clientVars
<1>5. ASSUME NEW c \in Streams, ReplayWrite(c) PROVE TypeOK'
  BY <1>5, ReplayWriteType
<1>6. ASSUME NEW c \in Streams, Ready(c) PROVE TypeOK'
  <2>1. net' \in [Streams -> Seq(Frame)]
    BY <1>6, CursorSendType DEF Ready
  <2> QED
    BY <1>6, <2>1 DEF Ready, TypeOK, storeVars, hubVars
<1>7. ASSUME NEW c \in Streams, LiveWrite(c) PROVE TypeOK'
  BY <1>7, LiveWriteType
<1>8. ASSUME NEW c \in Streams, Reset(c) PROVE TypeOK'
  <2>1. net' \in [Streams -> Seq(Frame)]
    BY <1>8, CursorSendType DEF Reset
  <2> QED
    BY <1>8, <2>1 DEF Reset, TypeOK, storeVars
<1>9. ASSUME NEW c \in Streams, Drop(c) PROVE TypeOK'
  BY <1>9, DropType
<1>10. ASSUME NEW c \in Streams, Receive(c) PROVE TypeOK'
  BY <1>10, ReceiveType
<1>11. ASSUME NEW s \in Sessions, DeleteSession(s) PROVE TypeOK'
  BY <1>11, DeleteSessionType
<1>12. ASSUME NEW s \in Sessions, CloseStreams(s) PROVE TypeOK'
  BY <1>12 DEF CloseStreams, TypeOK, storeVars, handlerVars, clientVars
<1>13. CASE Restart
  BY <1>13, RestartType
<1>14. CASE UNCHANGED vars
  BY <1>14 DEF vars, storeVars, hubVars, handlerVars, clientVars, TypeOK
<1> QED
  BY <1>1, <1>2, <1>3, <1>4, <1>5, <1>6, <1>7, <1>8, <1>9, <1>10, <1>11, <1>12, <1>13, <1>14
     DEF Next

THEOREM InitIInv == Init => IInv
<1> SUFFICES ASSUME Init PROVE IInv
  OBVIOUS
<1>1. TypeOK
  BY InitTypeOK
<1>2. LogOrdered /\ IDsBounded /\ BatchConnected
  BY DEF Init, LogOrdered, NumbersGrow, IDsBounded, BatchConnected
<1>3. WireOrdered
  BY DEF Init, WireOrdered
<1> QED
  BY <1>1, <1>2, <1>3 DEF IInv, StoreInv

-----------------------------------------------------------------------------
(* The store: numbers grow in the order of appending.                      *)

LEMMA NumbersGrowSubset ==
  ASSUME NEW S, NEW T \in SUBSET S, NEW counters, NumbersGrow(S, counters)
  PROVE  NumbersGrow(T, counters)
  BY DEF NumbersGrow, EventsOf

LEMMA NumbersGrowAppend ==
  ASSUME NEW S \in SUBSET Event, NEW counters \in [Sessions -> Nat], NEW e \in Event,
         NumbersGrow(S, counters),
         \A f \in S : f.id < e.id,
         e.seq = counters[e.sid] + 1
  PROVE  NumbersGrow(S \cup {e}, [counters EXCEPT ![e.sid] = @ + 1])
<1> DEFINE next == [counters EXCEPT ![e.sid] = @ + 1]
<1>1. \A s \in Sessions : next[s] \in Nat /\ counters[s] <= next[s]
  OBVIOUS
<1>2. \A f \in S \cup {e} : f.seq <= next[f.sid]
  BY <1>1 DEF NumbersGrow, Event
<1>3. \A f \in S \cup {e} : \A g \in EventsOf(S \cup {e}, f.sid) : f.id < g.id => f.seq < g.seq
  <2> SUFFICES ASSUME NEW f \in S \cup {e}, NEW g \in S \cup {e}, g.sid = f.sid, f.id < g.id
               PROVE  f.seq < g.seq
    BY DEF EventsOf
  <2>1. CASE f \in S /\ g \in S
    BY <2>1 DEF NumbersGrow, EventsOf
  <2>2. CASE f \in S /\ g = e
    BY <2>2 DEF NumbersGrow, Event
  <2>3. CASE f = e
    BY <2>3 DEF Event
  <2> QED
    BY <2>1, <2>2, <2>3
<1> QED
  BY <1>2, <1>3 DEF NumbersGrow

LEMMA AppendEventStore ==
  ASSUME StoreInv, NEW a \in Appenders, NEW s \in Sessions, AppendEvent(a, s)
  PROVE  LogOrdered' /\ IDsBounded'
<1> DEFINE e == [sid |-> s, seq |-> NextSeq(s), id |-> lastID + 1]
<1>1. e \in Event /\ e.sid = s /\ e.seq = seqOf[s] + 1 /\ e.id = lastID + 1
  BY DEF StoreInv, TypeOK, Event, NextSeq
<1>2. log \subseteq Event /\ seqOf \in [Sessions -> Nat] /\ lastID \in Nat
  BY DEF StoreInv, TypeOK
<1>3. \A f \in log : f.id < e.id
  BY <1>1, <1>2 DEF StoreInv, IDsBounded, Event
<1>4. NumbersGrow(log, seqOf)
  BY DEF StoreInv, LogOrdered
<1>5. NumbersGrow(log \cup {e}, [seqOf EXCEPT ![s] = @ + 1])
  <2> HIDE DEF e
  <2> QED
    BY <1>1, <1>2, <1>3, <1>4, NumbersGrowAppend
<1>6. log' \subseteq log \cup {e} /\ seqOf' = [seqOf EXCEPT ![s] = @ + 1]
  BY DEF AppendEvent, CapTail, NextSeq
<1>7. NumbersGrow(log', seqOf')
  BY <1>5, <1>6, NumbersGrowSubset
<1>8. \/ disk'.log = disk.log /\ disk'.seqOf = disk.seqOf
      \/ disk'.log = log' /\ disk'.seqOf = seqOf'
  <2>1. CASE SaveSucceeds
    BY <2>1 DEF SaveSucceeds, Snapshot
  <2>2. CASE SaveFails
    BY <2>2 DEF SaveFails
  <2> QED
    BY <2>1, <2>2 DEF AppendEvent
<1>9. NumbersGrow(disk'.log, disk'.seqOf)
  BY <1>7, <1>8 DEF StoreInv, LogOrdered
<1>10. lastID' = lastID + 1
  BY DEF AppendEvent
<1>11. IDsBounded'
  <2> SUFFICES ASSUME NEW f \in log' \cup disk'.log PROVE f.id <= lastID'
    BY DEF IDsBounded
  <2>1. f \in log \cup disk.log \cup {e}
    BY <1>6, <1>8
  <2>2. CASE f \in log \cup disk.log
    <3>1. f \in Event
      BY <2>2 DEF StoreInv, TypeOK
    <3> QED
      BY <1>2, <1>10, <2>2, <3>1 DEF StoreInv, IDsBounded, Event
  <2>3. CASE f = e
    BY <1>1, <1>2, <1>10, <2>3
  <2> QED
    BY <2>1, <2>2, <2>3
<1> QED
  BY <1>7, <1>9, <1>11 DEF LogOrdered

LEMMA DeleteSessionStore ==
  ASSUME StoreInv, NEW s \in Sessions, DeleteSession(s)
  PROVE  LogOrdered' /\ IDsBounded'
<1>1. log \subseteq Event /\ seqOf \in [Sessions -> Nat]
  BY DEF StoreInv, TypeOK
<1>2. log' = log \ EventsOf(log, s) /\ seqOf' = [seqOf EXCEPT ![s] = 0] /\ lastID' = lastID
  BY DEF DeleteSession
<1>3. \A f \in log' : f \in log /\ f.sid # s /\ f \in Event
  BY <1>1, <1>2 DEF EventsOf
<1>4. \A f \in log' : seqOf'[f.sid] = seqOf[f.sid]
  BY <1>1, <1>2, <1>3 DEF Event
<1>5. NumbersGrow(log, seqOf)
  BY DEF StoreInv, LogOrdered
<1>6. NumbersGrow(log', seqOf)
  BY <1>3, <1>5, NumbersGrowSubset
<1>7. NumbersGrow(log', seqOf')
  BY <1>4, <1>6 DEF NumbersGrow
<1>8. \/ disk'.log = disk.log /\ disk'.seqOf = disk.seqOf
      \/ disk'.log = log' /\ disk'.seqOf = seqOf'
  <2>1. CASE SaveSucceeds
    BY <2>1 DEF SaveSucceeds, Snapshot
  <2>2. CASE SaveFails
    BY <2>2 DEF SaveFails
  <2> QED
    BY <2>1, <2>2 DEF DeleteSession
<1>9. NumbersGrow(disk'.log, disk'.seqOf)
  BY <1>7, <1>8 DEF StoreInv, LogOrdered
<1>10. IDsBounded'
  BY <1>2, <1>3, <1>8 DEF StoreInv, IDsBounded
<1> QED
  BY <1>7, <1>9, <1>10 DEF LogOrdered

LEMMA RestartStore ==
  ASSUME StoreInv, Restart
  PROVE  LogOrdered' /\ IDsBounded'
<1>1. log' \subseteq disk.log /\ disk' = disk /\ lastID' = lastID
  BY DEF Restart, CapTail
<1>2. \A s \in Sessions : LoadedSeq(s, CapTail(disk.log)) = disk.seqOf[s]
  BY LoadedSeqIsSaved DEF CapTail
<1>3. seqOf' = disk.seqOf
  BY <1>2 DEF Restart, StoreInv, TypeOK
<1>4. NumbersGrow(disk.log, disk.seqOf)
  BY DEF StoreInv, LogOrdered
<1>5. NumbersGrow(log', seqOf')
  BY <1>1, <1>3, <1>4, NumbersGrowSubset
<1>6. IDsBounded'
  BY <1>1 DEF StoreInv, IDsBounded
<1> QED
  BY <1>1, <1>4, <1>5, <1>6 DEF LogOrdered

LEMMA StepStoreInv == StoreInv /\ [Next]_vars => StoreInv'
<1> SUFFICES ASSUME StoreInv, [Next]_vars PROVE StoreInv'
  OBVIOUS
<1>1. TypeOK'
  BY StepTypeOK
<1>2. ASSUME UNCHANGED <<storeVars, lastID>> PROVE LogOrdered' /\ IDsBounded'
  BY <1>2 DEF storeVars, StoreInv, LogOrdered, IDsBounded
<1>3. ASSUME NEW a \in Appenders, NEW s \in Sessions, AppendEvent(a, s)
      PROVE  LogOrdered' /\ IDsBounded'
  BY <1>3, AppendEventStore
<1>4. ASSUME NEW s \in Sessions, DeleteSession(s) PROVE LogOrdered' /\ IDsBounded'
  BY <1>4, DeleteSessionStore
<1>5. CASE Restart
  BY <1>1, <1>5, RestartStore DEF StoreInv
<1>6. ASSUME NEW a \in Appenders, PublishEvent(a) PROVE UNCHANGED <<storeVars, lastID>>
  BY <1>6 DEF PublishEvent
<1>7. ASSUME NEW c \in Streams,
             \/ Connect(c) \/ ReplayRead(c) \/ ReplayWrite(c) \/ Ready(c)
             \/ LiveWrite(c) \/ Reset(c) \/ Drop(c) \/ Receive(c)
      PROVE  UNCHANGED <<storeVars, lastID>>
  BY <1>7 DEF Connect, ReplayRead, ReplayWrite, Ready, LiveWrite, Reset, Drop, Receive
<1>8. ASSUME NEW s \in Sessions, CloseStreams(s) PROVE UNCHANGED <<storeVars, lastID>>
  BY <1>8 DEF CloseStreams
<1>9. CASE UNCHANGED vars
  <2>1. UNCHANGED <<storeVars, lastID>>
    BY <1>9 DEF vars
  <2> QED
    BY <1>1, <1>2, <2>1 DEF StoreInv
<1> QED
  BY <1>1, <1>2, <1>3, <1>4, <1>5, <1>6, <1>7, <1>8, <1>9 DEF Next, StoreInv

(* The types of all the state, for any instance.                           *)
THEOREM TypeCorrect == Spec => []TypeOK
<1>1. Init => StoreInv
  BY InitIInv DEF IInv
<1>2. StoreInv => TypeOK
  BY DEF StoreInv
<1> QED
  BY <1>1, <1>2, StepStoreInv, PTL DEF Spec

(* The store never holds two events of a session with the same number, nor *)
(* a number above the counter, in memory or in the file, whatever is       *)
(* deleted, evicted, not saved or reloaded.                                *)
THEOREM LogStaysOrdered == Spec => []LogOrdered
<1>1. Init => StoreInv
  BY InitIInv DEF IInv
<1>2. StoreInv => LogOrdered
  BY DEF StoreInv
<1> QED
  BY <1>1, <1>2, StepStoreInv, PTL DEF Spec

-----------------------------------------------------------------------------
(* The wire.                                                               *)

FrameOrdered(q, low, high) ==
  \A i \in 1..Len(q) :
    /\ q[i].cursor <= high
    /\ q[i].kind = "session.event" => low < q[i].cursor
    /\ \A j \in 1..(i - 1) :
         /\ q[j].cursor <= q[i].cursor
         /\ q[i].kind = "session.event" => q[j].cursor < q[i].cursor

LEMMA WireOrderedDef ==
  WireOrdered <=> \A c \in Streams :
                    /\ phase[c] # "off" => cursor[c] <= lastSeq[c]
                    /\ FrameOrdered(net[c], cursor[c], lastSeq[c])
  BY DEF WireOrdered, FrameOrdered

LEMMA FrameOrderedEnqueue ==
  ASSUME NEW q \in Seq(Frame), NEW low \in Nat, NEW high \in Nat, NEW frame \in Frame,
         FrameOrdered(q, low, high), low <= high, high <= frame.cursor,
         frame.kind = "session.event" => high < frame.cursor
  PROVE  FrameOrdered(Append(q, frame), low, frame.cursor)
<1>1. Len(q) \in Nat /\ \A i \in 1..Len(q) : q[i].cursor \in Nat
  BY QueueFacts DEF Frame
<1>2. frame.cursor \in Nat
  BY DEF Frame
<1>3. Len(Append(q, frame)) = Len(q) + 1 /\ Append(q, frame)[Len(q) + 1] = frame
      /\ \A i \in 1..Len(q) : Append(q, frame)[i] = q[i]
  BY QueueFacts
<1>4. \A i \in 1..Len(q) : q[i].cursor <= high
  BY DEF FrameOrdered
<1> SUFFICES ASSUME NEW i \in 1..(Len(q) + 1)
             PROVE  LET r == Append(q, frame)
                    IN /\ r[i].cursor <= frame.cursor
                       /\ r[i].kind = "session.event" => low < r[i].cursor
                       /\ \A j \in 1..(i - 1) :
                            /\ r[j].cursor <= r[i].cursor
                            /\ r[i].kind = "session.event" => r[j].cursor < r[i].cursor
  BY <1>3 DEF FrameOrdered
<1>5. CASE i \in 1..Len(q)
  <2>1. \A j \in 1..(i - 1) : j \in 1..Len(q)
    BY <1>1, <1>5
  <2>2. Append(q, frame)[i] = q[i] /\ \A j \in 1..(i - 1) : Append(q, frame)[j] = q[j]
    BY <1>3, <1>5, <2>1
  <2>3. q[i].cursor <= frame.cursor
    BY <1>1, <1>2, <1>4, <1>5
  <2> QED
    BY <1>5, <2>2, <2>3 DEF FrameOrdered
<1>6. CASE i = Len(q) + 1
  <2>1. \A j \in 1..(i - 1) : /\ Append(q, frame)[j] = q[j]
                              /\ q[j].cursor \in Nat
                              /\ q[j].cursor <= high
    BY <1>1, <1>3, <1>4, <1>6
  <2>2. Append(q, frame)[i] = frame
    BY <1>3, <1>6
  <2> QED
    BY <1>2, <2>1, <2>2
<1> QED
  BY <1>1, <1>5, <1>6

LEMMA FrameOrderedDequeue ==
  ASSUME NEW q \in Seq(Frame), q # <<>>, NEW low \in Nat, NEW high \in Nat,
         FrameOrdered(q, low, high)
  PROVE  /\ Head(q) \in Frame
         /\ Head(q).cursor <= high
         /\ FrameOrdered(Tail(q), low, high)
         /\ FrameOrdered(Tail(q), Head(q).cursor, high)
<1>1. /\ Head(q) \in Frame /\ Head(q) = q[1] /\ Len(q) \in Nat /\ Len(q) > 0
      /\ Len(Tail(q)) = Len(q) - 1
      /\ \A i \in 1..(Len(q) - 1) : Tail(q)[i] = q[i + 1]
  BY QueueFacts
<1>2. Head(q).cursor <= high
  BY <1>1 DEF FrameOrdered
<1>3. ASSUME NEW i \in 1..(Len(q) - 1)
      PROVE  /\ Tail(q)[i].cursor <= high
             /\ Tail(q)[i].kind = "session.event" =>
                  low < Tail(q)[i].cursor /\ Head(q).cursor < Tail(q)[i].cursor
             /\ \A j \in 1..(i - 1) :
                  /\ Tail(q)[j].cursor <= Tail(q)[i].cursor
                  /\ Tail(q)[i].kind = "session.event" => Tail(q)[j].cursor < Tail(q)[i].cursor
  <2>1. i + 1 \in 1..Len(q) /\ 1 \in 1..((i + 1) - 1) /\ Tail(q)[i] = q[i + 1]
    BY <1>1, <1>3
  <2>2. \A j \in 1..(i - 1) : j + 1 \in 1..((i + 1) - 1) /\ Tail(q)[j] = q[j + 1]
    BY <1>1, <1>3
  <2> QED
    BY <1>1, <2>1, <2>2 DEF FrameOrdered
<1> QED
  BY <1>1, <1>2, <1>3 DEF FrameOrdered

(* A handler that is connected writes a frame at or above lastSeq.         *)
LEMMA SendKeepsOrder ==
  ASSUME TypeOK, WireOrdered, NEW c \in Streams, phase[c] # "off",
         NEW frame \in Frame, Send(c, frame),
         lastSeq[c] <= frame.cursor,
         frame.kind = "session.event" => lastSeq[c] < frame.cursor,
         lastSeq' = [lastSeq EXCEPT ![c] = frame.cursor],
         cursor' = cursor,
         \A d \in Streams : phase'[d] # "off" => phase[d] # "off"
  PROVE  WireOrdered'
<1> SUFFICES ASSUME NEW d \in Streams
             PROVE  /\ phase'[d] # "off" => cursor'[d] <= lastSeq'[d]
                    /\ FrameOrdered(net'[d], cursor'[d], lastSeq'[d])
  BY DEF WireOrdered, FrameOrdered
<1>1. /\ phase[d] # "off" => cursor[d] <= lastSeq[d]
      /\ FrameOrdered(net[d], cursor[d], lastSeq[d])
  BY WireOrderedDef
<1>2. CASE d # c
  BY <1>1, <1>2 DEF Send, TypeOK
<1>3. CASE d = c
  <2>1. net[c] \in Seq(Frame) /\ cursor[c] \in Nat /\ lastSeq[c] \in Nat /\ frame.cursor \in Nat
    BY DEF TypeOK, Frame
  <2>2. cursor[c] <= lastSeq[c] /\ FrameOrdered(net[c], cursor[c], lastSeq[c])
    BY <1>1, <1>3
  <2>3. FrameOrdered(Append(net[c], frame), cursor[c], frame.cursor)
    BY <2>1, <2>2, FrameOrderedEnqueue
  <2>4. net'[c] = Append(net[c], frame) /\ lastSeq'[c] = frame.cursor
    BY DEF Send, TypeOK
  <2> QED
    BY <1>3, <2>1, <2>2, <2>3, <2>4
<1> QED
  BY <1>2, <1>3

LEMMA CursorSendKeepsOrder ==
  ASSUME TypeOK, WireOrdered, NEW c \in Streams, phase[c] # "off",
         NEW kind \in {"session.ready", "session.reset"},
         Send(c, CursorFrame(kind, lastSeq[c])),
         UNCHANGED <<lastSeq, cursor>>,
         \A d \in Streams : phase'[d] # "off" => phase[d] # "off"
  PROVE  WireOrdered'
<1> DEFINE frame == CursorFrame(kind, lastSeq[c])
<1>1. lastSeq \in [Streams -> Nat]
  BY DEF TypeOK
<1>2. frame \in Frame
  BY <1>1, CursorFrameType
<1>3. frame.cursor = lastSeq[c] /\ frame.kind # "session.event"
  BY DEF CursorFrame
<1>4. lastSeq' = [lastSeq EXCEPT ![c] = frame.cursor] /\ lastSeq[c] <= frame.cursor
  BY <1>1, <1>3
<1> HIDE DEF frame
<1> QED
  BY <1>2, <1>3, <1>4, SendKeepsOrder DEF frame

LEMMA ReplayWriteOrder ==
  ASSUME TypeOK, BatchConnected, WireOrdered, NEW c \in Streams, ReplayWrite(c)
  PROVE  WireOrdered'
<1>1. PICK e \in batch[c] :
        /\ \/ IsNew(c, e) /\ WriteEvent(c, e)
           \/ ~IsNew(c, e) /\ UNCHANGED <<lastSeq, net>>
        /\ UNCHANGED <<phase, cursor>>
  BY DEF ReplayWrite
<1>2. phase[c] # "off" /\ e \in Event /\ lastSeq[c] \in Nat
  BY <1>1 DEF BatchConnected, TypeOK
<1>3. CASE ~IsNew(c, e)
  BY <1>1, <1>3 DEF WireOrdered
<1>4. CASE IsNew(c, e)
  <2>1. EventFrame(e) \in Frame /\ EventFrame(e).cursor = e.seq /\ e.seq \in Nat
    BY <1>2, EventFrameType DEF EventFrame, Event
  <2> QED
    BY <1>1, <1>2, <1>4, <2>1, SendKeepsOrder DEF IsNew, WriteEvent
<1> QED
  BY <1>3, <1>4

LEMMA LiveWriteOrder ==
  ASSUME TypeOK, WireOrdered, NEW c \in Streams, LiveWrite(c)
  PROVE  WireOrdered'
<1> DEFINE e == Head(buf[c])
<1>1. phase[c] # "off" /\ e \in Event /\ lastSeq[c] \in Nat
  BY QueueFacts DEF TypeOK, LiveWrite
<1>2. /\ \/ IsNew(c, e) /\ WriteEvent(c, e)
         \/ ~IsNew(c, e) /\ UNCHANGED <<lastSeq, net>>
      /\ UNCHANGED <<phase, cursor>>
  BY DEF LiveWrite
<1> HIDE DEF e
<1>3. CASE ~IsNew(c, e)
  BY <1>2, <1>3 DEF WireOrdered
<1>4. CASE IsNew(c, e)
  <2>1. EventFrame(e) \in Frame /\ EventFrame(e).cursor = e.seq /\ e.seq \in Nat
    BY <1>1, EventFrameType DEF EventFrame, Event
  <2> QED
    BY <1>1, <1>2, <1>4, <2>1, SendKeepsOrder DEF IsNew, WriteEvent
<1> QED
  BY <1>3, <1>4

LEMMA ReceiveOrder ==
  ASSUME TypeOK, WireOrdered, NEW c \in Streams, Receive(c)
  PROVE  WireOrdered'
<1> SUFFICES ASSUME NEW d \in Streams
             PROVE  /\ phase'[d] # "off" => cursor'[d] <= lastSeq'[d]
                    /\ FrameOrdered(net'[d], cursor'[d], lastSeq'[d])
  BY DEF WireOrdered, FrameOrdered
<1>1. /\ phase[d] # "off" => cursor[d] <= lastSeq[d]
      /\ FrameOrdered(net[d], cursor[d], lastSeq[d])
  BY WireOrderedDef
<1>2. phase' = phase /\ lastSeq' = lastSeq
  BY DEF Receive, handlerVars
<1>3. CASE d # c
  <2>1. net'[d] = net[d] /\ cursor'[d] = cursor[d]
    BY <1>3 DEF Receive, TypeOK
  <2> QED
    BY <1>1, <1>2, <2>1
<1>4. CASE d = c
  <2>1. /\ net[c] \in Seq(Frame) /\ net[c] # <<>>
        /\ cursor[c] \in Nat /\ lastSeq[c] \in Nat
    BY DEF TypeOK, Receive
  <2>2. FrameOrdered(net[c], cursor[c], lastSeq[c])
    BY <1>1, <1>4
  <2>3. /\ Head(net[c]).cursor <= lastSeq[c]
        /\ FrameOrdered(Tail(net[c]), cursor[c], lastSeq[c])
        /\ FrameOrdered(Tail(net[c]), Head(net[c]).cursor, lastSeq[c])
    BY <2>1, <2>2, FrameOrderedDequeue
  <2>4. /\ net'[c] = Tail(net[c])
        /\ cursor'[c] = cursor[c] \/ cursor'[c] = Head(net[c]).cursor
    BY DEF Receive, TypeOK
  <2> QED
    BY <1>1, <1>2, <1>4, <2>3, <2>4
<1> QED
  BY <1>3, <1>4

LEMMA StepWireOrdered == IInv /\ [Next]_vars => WireOrdered'
<1> SUFFICES ASSUME IInv, [Next]_vars PROVE WireOrdered'
  OBVIOUS
<1> USE DEF IInv, StoreInv
<1>1. ASSUME UNCHANGED <<phase, net, cursor, lastSeq>> PROVE WireOrdered'
  BY <1>1 DEF WireOrdered
<1>2. ASSUME NEW a \in Appenders, NEW s \in Sessions, AppendEvent(a, s) PROVE WireOrdered'
  BY <1>1, <1>2 DEF AppendEvent, handlerVars, clientVars
<1>3. ASSUME NEW a \in Appenders, PublishEvent(a) PROVE WireOrdered'
  BY <1>1, <1>3 DEF PublishEvent, handlerVars, clientVars
<1>4. ASSUME NEW c \in Streams, Connect(c) PROVE WireOrdered'
  <2> SUFFICES ASSUME NEW d \in Streams
               PROVE  /\ phase'[d] # "off" => cursor'[d] <= lastSeq'[d]
                      /\ FrameOrdered(net'[d], cursor'[d], lastSeq'[d])
    BY DEF WireOrdered, FrameOrdered
  <2>1. CASE d = c
    BY <1>4, <2>1 DEF Connect, TypeOK, FrameOrdered, clientVars
  <2>2. CASE d # c
    <3>1. /\ phase'[d] = phase[d] /\ lastSeq'[d] = lastSeq[d]
          /\ net'[d] = net[d] /\ cursor'[d] = cursor[d]
      BY <1>4, <2>2 DEF Connect, TypeOK, clientVars
    <3> QED
      BY <3>1, WireOrderedDef
  <2> QED
    BY <2>1, <2>2
<1>5. ASSUME NEW c \in Streams, ReplayRead(c) PROVE WireOrdered'
  BY <1>5 DEF ReplayRead, WireOrdered, TypeOK, clientVars
<1>6. ASSUME NEW c \in Streams, ReplayWrite(c) PROVE WireOrdered'
  BY <1>6, ReplayWriteOrder
<1>7. ASSUME NEW c \in Streams, Ready(c) PROVE WireOrdered'
  <2>1. phase[c] # "off" /\ \A d \in Streams : phase'[d] # "off" => phase[d] # "off"
    BY <1>7 DEF Ready, TypeOK
  <2> QED
    BY <1>7, <2>1, CursorSendKeepsOrder DEF Ready
<1>8. ASSUME NEW c \in Streams, LiveWrite(c) PROVE WireOrdered'
  BY <1>8, LiveWriteOrder
<1>9. ASSUME NEW c \in Streams, Reset(c) PROVE WireOrdered'
  <2>1. phase[c] # "off" /\ \A d \in Streams : phase'[d] # "off" => phase[d] # "off"
    BY <1>9 DEF Reset, TypeOK
  <2> QED
    BY <1>9, <2>1, CursorSendKeepsOrder DEF Reset
<1>10. ASSUME NEW c \in Streams, Drop(c) PROVE WireOrdered'
  BY <1>10 DEF Drop, WireOrdered, TypeOK
<1>11. ASSUME NEW c \in Streams, Receive(c) PROVE WireOrdered'
  BY <1>11, ReceiveOrder
<1>12. ASSUME NEW s \in Sessions, DeleteSession(s) PROVE WireOrdered'
  BY <1>1, <1>12 DEF DeleteSession, handlerVars, clientVars
<1>13. ASSUME NEW s \in Sessions, CloseStreams(s) PROVE WireOrdered'
  BY <1>1, <1>13 DEF CloseStreams, handlerVars, clientVars
<1>14. CASE Restart
  BY <1>14 DEF Restart, WireOrdered
<1>15. CASE UNCHANGED vars
  BY <1>1, <1>15 DEF vars, handlerVars, clientVars
<1> QED
  BY <1>2, <1>3, <1>4, <1>5, <1>6, <1>7, <1>8, <1>9, <1>10, <1>11, <1>12, <1>13, <1>14, <1>15
     DEF Next

LEMMA StepBatchConnected == IInv /\ [Next]_vars => BatchConnected'
<1> SUFFICES ASSUME IInv, [Next]_vars PROVE BatchConnected'
  OBVIOUS
<1> USE DEF IInv, StoreInv, TypeOK, BatchConnected
<1>1. ASSUME UNCHANGED <<phase, batch>> PROVE BatchConnected'
  BY <1>1
<1>2. ASSUME NEW a \in Appenders, NEW s \in Sessions, AppendEvent(a, s) PROVE BatchConnected'
  BY <1>2, <1>1 DEF AppendEvent, handlerVars
<1>3. ASSUME NEW a \in Appenders, PublishEvent(a) PROVE BatchConnected'
  BY <1>3, <1>1 DEF PublishEvent, handlerVars
<1>4. ASSUME NEW c \in Streams, Connect(c) PROVE BatchConnected'
  BY <1>4 DEF Connect
<1>5. ASSUME NEW c \in Streams, ReplayRead(c) PROVE BatchConnected'
  BY <1>5 DEF ReplayRead
<1>6. ASSUME NEW c \in Streams, ReplayWrite(c) PROVE BatchConnected'
  BY <1>6 DEF ReplayWrite
<1>7. ASSUME NEW c \in Streams, Ready(c) PROVE BatchConnected'
  BY <1>7 DEF Ready
<1>8. ASSUME NEW c \in Streams, LiveWrite(c) PROVE BatchConnected'
  BY <1>8, <1>1 DEF LiveWrite
<1>9. ASSUME NEW c \in Streams, Reset(c) PROVE BatchConnected'
  BY <1>9 DEF Reset
<1>10. ASSUME NEW c \in Streams, Drop(c) PROVE BatchConnected'
  BY <1>10 DEF Drop
<1>11. ASSUME NEW c \in Streams, Receive(c) PROVE BatchConnected'
  BY <1>11, <1>1 DEF Receive, handlerVars
<1>12. ASSUME NEW s \in Sessions, DeleteSession(s) \/ CloseStreams(s) PROVE BatchConnected'
  BY <1>12, <1>1 DEF DeleteSession, CloseStreams, handlerVars
<1>13. CASE Restart
  BY <1>13 DEF Restart
<1>14. CASE UNCHANGED vars
  BY <1>14, <1>1 DEF vars, handlerVars
<1> QED
  BY <1>2, <1>3, <1>4, <1>5, <1>6, <1>7, <1>8, <1>9, <1>10, <1>11, <1>12, <1>13, <1>14
     DEF Next

(* No connection ever carries an event twice, out of order or below the    *)
(* client's cursor, for any number of concurrent appenders and faults.     *)
THEOREM WireStaysOrdered == Spec => []WireOrdered
<1>1. IInv /\ [Next]_vars => IInv'
  BY StepStoreInv, StepBatchConnected, StepWireOrdered DEF IInv
<1>2. IInv => WireOrdered
  BY DEF IInv
<1> QED
  BY InitIInv, <1>1, <1>2, PTL DEF Spec

-----------------------------------------------------------------------------
(* Replay safety.  NothingSkipped speaks of what the client has rendered;  *)
(* an event of the log that it has not rendered must be somewhere on the   *)
(* way to it, and in order: published and not sent, read and not written,  *)
(* in flight.  The invariant says so place by place.                       *)

Safe == faults["overtake"] = 0 /\ faults["save"] = 0 /\ sessions = Sessions

(* The file holds what memory holds, as long as no save has failed; the    *)
(* log it would be read back as is no longer than the one in memory.       *)
DiskCurrent ==
  /\ disk.sessions = sessions
  /\ disk.seqOf = seqOf
  /\ CapTail(disk.log) \subseteq log

FiniteLogs == IsFiniteSet(log) /\ IsFiniteSet(disk.log)

(* The events the server holds: in the log, not yet published, read for a  *)
(* replay, in a channel.                                                   *)
Known ==
  {e \in Event : \/ e \in log
                 \/ \E a \in Appenders : e = pending[a]
                 \/ \E c \in Streams : e \in batch[c]
                 \/ \E c \in Streams : \E k \in 1..Len(buf[c]) : e = buf[c][k]}

(* They have one order, by id and, in a session, by number.                *)
OneOrder ==
  \A e \in Known :
    /\ e.id <= lastID
    /\ e.seq <= seqOf[e.sid]
    /\ \A f \in Known : /\ e.id = f.id => e = f
                        /\ e.sid = f.sid /\ e.id < f.id => e.seq < f.seq

Routed ==
  \A c \in Streams :
    /\ \A e \in batch[c] : e.sid = SessionOf[c]
    /\ \A k \in 1..Len(buf[c]) : buf[c][k].sid = SessionOf[c]

NotAhead ==
  \A c \in Streams : /\ cursor[c] <= seqOf[SessionOf[c]]
                     /\ lastSeq[c] <= seqOf[SessionOf[c]]

Sent(c, e) == \E k \in 1..Len(net[c]) : net[c][k].event = e

Seen(c, e) == e \in Elements(rendered[c])

(* What the cursor of a frame in flight has passed is before it.           *)
NetCovers(c) ==
  \A e \in EventsOf(log, SessionOf[c]) : \A i \in 1..Len(net[c]) :
    e.seq <= net[c][i].cursor => \/ Seen(c, e)
                                 \/ \E k \in 1..i : net[c][k].event = e

(* What the handler has passed is rendered or in flight.                   *)
HandlerCovers(c) ==
  phase[c] # "off" =>
    \A e \in EventsOf(log, SessionOf[c]) :
      e.seq <= lastSeq[c] => Seen(c, e) \/ Sent(c, e)

(* A batch leaves nothing out below its newest event.                      *)
BatchCovers(c) ==
  \A e \in EventsOf(log, SessionOf[c]) : \A b \in batch[c] :
    lastSeq[c] < e.seq /\ e.seq <= b.seq => e \in batch[c]

Queued(c, e, n) == \E k \in 1..n : buf[c][k] = e

(* Once the log has been read to its end, what is still to come is in the  *)
(* channel or about to be published to it, and in the order of the log.    *)
TailCovers(c) ==
  phase[c] \in {"tail", "live"} =>
    \A e \in EventsOf(log, SessionOf[c]) :
      lastSeq[c] < e.seq =>
        /\ sub[c] = "open" => \/ e \in batch[c]
                              \/ Queued(c, e, Len(buf[c]))
                              \/ \E a \in Appenders : pending[a] = e
        /\ \A k \in 1..Len(buf[c]) :
             e.seq <= buf[c][k].seq => e \in batch[c] \/ Queued(c, e, k)

LiveRead(c) == phase[c] = "live" => batch[c] = {}

Covers(c) == NetCovers(c) /\ HandlerCovers(c) /\ BatchCovers(c) /\ TailCovers(c) /\ LiveRead(c)

Path == OneOrder /\ Routed /\ NotAhead /\ NothingSkipped /\ \A c \in Streams : Covers(c)

SafeInv ==
  /\ IInv
  /\ FiniteLogs
  /\ faults["save"] = 0 => DiskCurrent
  /\ Safe => Path
LEMMA FaultsGrow ==
  ASSUME TypeOK, NEW kind \in FaultKinds, Fault(kind)
  PROVE  \A k \in FaultKinds : faults[k] <= faults'[k] /\ (k = kind => faults'[k] > 0)
<1>1. faults \in [FaultKinds -> Nat] /\ faults' = [faults EXCEPT ![kind] = @ + 1]
  BY DEF TypeOK, Fault
<1> QED
  BY <1>1

LEMMA FaultsStay ==
  ASSUME TypeOK, [Next]_vars
  PROVE  \A k \in FaultKinds : faults'[k] = 0 => faults[k] = 0
<1>1. faults \in [FaultKinds -> Nat]
  BY DEF TypeOK
<1>2. ASSUME NEW kind \in FaultKinds, Fault(kind)
      PROVE  \A k \in FaultKinds : faults'[k] = 0 => faults[k] = 0
  <2>1. \A k \in FaultKinds : faults[k] <= faults'[k]
    BY <1>2, FaultsGrow
  <2>2. faults' \in [FaultKinds -> Nat]
    BY <1>2, FaultType
  <2> QED
    BY <1>1, <2>1, <2>2
<1>3. UNCHANGED faults \/ \E kind \in FaultKinds : Fault(kind)
  BY DEF Next, vars, FaultKinds, AppendEvent, SaveSucceeds, SaveFails, PublishEvent, Connect,
     ReplayRead, ReplayWrite, Ready, LiveWrite, Reset, Drop, Receive, DeleteSession,
     CloseStreams, Restart
<1> QED
  BY <1>2, <1>3

(* A save that fails is counted; one that succeeds leaves a current file.  *)
LEMMA SaveFailsCounted ==
  ASSUME TypeOK, SaveFails
  PROVE  faults'["save"] # 0
<1>1. faults' \in [FaultKinds -> Nat] /\ faults'["save"] > 0
  BY FaultType, FaultsGrow DEF SaveFails, FaultKinds
<1> QED
  BY <1>1

LEMMA StepDiskCurrent ==
  ASSUME SafeInv, [Next]_vars, faults'["save"] = 0
  PROVE  DiskCurrent'
<1> USE DEF SafeInv, IInv, StoreInv
<1>1. DiskCurrent
  BY FaultsStay DEF FaultKinds
<1>2. ASSUME UNCHANGED storeVars PROVE DiskCurrent'
  BY <1>1, <1>2 DEF DiskCurrent, storeVars, CapTail
<1>3. ASSUME SaveSucceeds PROVE DiskCurrent'
  BY <1>3 DEF SaveSucceeds, Snapshot, DiskCurrent, CapTail
<1>4. ASSUME NEW a \in Appenders, NEW s \in Sessions, AppendEvent(a, s) PROVE DiskCurrent'
  BY <1>3, <1>4, SaveFailsCounted DEF AppendEvent
<1>5. ASSUME NEW s \in Sessions, DeleteSession(s) PROVE DiskCurrent'
  BY <1>3, <1>5, SaveFailsCounted DEF DeleteSession
<1>6. CASE Restart
  <2>1. \A s \in Sessions : LoadedSeq(s, CapTail(disk.log)) = disk.seqOf[s]
    BY LoadedSeqIsSaved DEF CapTail
  <2>2. seqOf' = disk.seqOf
    BY <1>6, <2>1 DEF Restart, TypeOK
  <2>3. disk' = disk /\ sessions' = disk.sessions /\ log' = CapTail(disk.log)
    BY <1>6 DEF Restart
  <2> QED
    BY <2>2, <2>3 DEF DiskCurrent, CapTail
<1>7. ASSUME NEW a \in Appenders, PublishEvent(a) PROVE UNCHANGED storeVars
  BY <1>7 DEF PublishEvent
<1>8. ASSUME NEW c \in Streams,
             \/ Connect(c) \/ ReplayRead(c) \/ ReplayWrite(c) \/ Ready(c)
             \/ LiveWrite(c) \/ Reset(c) \/ Drop(c) \/ Receive(c)
      PROVE  UNCHANGED storeVars
  BY <1>8 DEF Connect, ReplayRead, ReplayWrite, Ready, LiveWrite, Reset, Drop, Receive
<1>9. ASSUME NEW s \in Sessions, CloseStreams(s) PROVE UNCHANGED storeVars
  BY <1>9 DEF CloseStreams
<1>10. CASE UNCHANGED vars
  BY <1>2, <1>10 DEF vars
<1> QED
  BY <1>2, <1>4, <1>5, <1>6, <1>7, <1>8, <1>9, <1>10 DEF Next

LEMMA StepFiniteLogs ==
  ASSUME FiniteLogs, [Next]_vars
  PROVE  FiniteLogs'
<1> USE DEF FiniteLogs
<1>1. ASSUME UNCHANGED storeVars PROVE FiniteLogs'
  BY <1>1 DEF storeVars
<1>2. ASSUME NEW S, IsFiniteSet(S) PROVE IsFiniteSet(CapTail(S))
  BY <1>2, FS_Subset DEF CapTail
<1>3. ASSUME IsFiniteSet(log'), SaveSucceeds \/ SaveFails PROVE FiniteLogs'
  BY <1>3 DEF SaveSucceeds, SaveFails, Snapshot
<1>4. ASSUME NEW a \in Appenders, NEW s \in Sessions, AppendEvent(a, s) PROVE FiniteLogs'
  <2>1. PICK e : log' = CapTail(log \cup {e})
    BY <1>4 DEF AppendEvent
  <2>2. IsFiniteSet(log \cup {e})
    BY FS_AddElement
  <2> QED
    BY <1>2, <1>3, <1>4, <2>1, <2>2 DEF AppendEvent
<1>5. ASSUME NEW s \in Sessions, DeleteSession(s) PROVE FiniteLogs'
  <2>1. IsFiniteSet(log')
    BY <1>5, FS_Subset DEF DeleteSession
  <2> QED
    BY <1>3, <1>5, <2>1 DEF DeleteSession
<1>6. CASE Restart
  BY <1>2, <1>6 DEF Restart
<1>7. ASSUME NEW a \in Appenders, PublishEvent(a) PROVE UNCHANGED storeVars
  BY <1>7 DEF PublishEvent
<1>8. ASSUME NEW c \in Streams,
             \/ Connect(c) \/ ReplayRead(c) \/ ReplayWrite(c) \/ Ready(c)
             \/ LiveWrite(c) \/ Reset(c) \/ Drop(c) \/ Receive(c)
      PROVE  UNCHANGED storeVars
  BY <1>8 DEF Connect, ReplayRead, ReplayWrite, Ready, LiveWrite, Reset, Drop, Receive
<1>9. ASSUME NEW s \in Sessions, CloseStreams(s) PROVE UNCHANGED storeVars
  BY <1>9 DEF CloseStreams
<1>10. CASE UNCHANGED vars
  BY <1>1, <1>10 DEF vars
<1> QED
  BY <1>1, <1>4, <1>5, <1>6, <1>7, <1>8, <1>9, <1>10 DEF Next

(* A safe state comes from a safe state, by a step that deletes nothing.   *)
LEMMA SafeBefore ==
  ASSUME SafeInv, [Next]_vars, Safe'
  PROVE  Safe /\ DiskCurrent /\ ~\E s \in Sessions : DeleteSession(s)
<1> USE DEF SafeInv, IInv, StoreInv
<1>1. faults["overtake"] = 0 /\ faults["save"] = 0
  BY FaultsStay DEF Safe, FaultKinds
<1>2. DiskCurrent
  BY <1>1
<1>3. ASSUME NEW s \in Sessions, DeleteSession(s) PROVE FALSE
  BY <1>3 DEF DeleteSession, Safe
<1>4. sessions = Sessions
  <2>1. CASE Restart
    BY <1>2, <2>1 DEF Restart, DiskCurrent, Safe
  <2>2. CASE ~Restart
    <3>1. UNCHANGED sessions
      BY <1>3, <2>2 DEF Next, vars, storeVars, AppendEvent, PublishEvent, Connect,
         ReplayRead, ReplayWrite, Ready, LiveWrite, Reset, Drop, Receive, CloseStreams
    <3> QED
      BY <3>1 DEF Safe
  <2> QED
    BY <2>1, <2>2
<1> QED
  BY <1>1, <1>2, <1>3, <1>4 DEF Safe

(* Every step but an append can only forget events.                        *)
LEMMA OneOrderKept ==
  ASSUME OneOrder, Known' \subseteq Known, UNCHANGED <<seqOf, lastID>>
  PROVE  OneOrder'
  BY DEF OneOrder

LEMMA KnownKept ==
  ASSUME log' \subseteq log,
         \A a \in Appenders : pending'[a] = pending[a] \/ pending'[a] = NoEvent,
         \A c \in Streams : \A e \in batch'[c] : e \in batch[c] \/ e \in log,
         \A c \in Streams : \A k \in 1..Len(buf'[c]) :
           \/ \E j \in 1..Len(buf[c]) : buf'[c][k] = buf[c][j]
           \/ \E a \in Appenders : buf'[c][k] = pending[a]
  PROVE  Known' \subseteq Known
<1> SUFFICES ASSUME NEW e \in Event,
                    \/ e \in log'
                    \/ \E a \in Appenders : e = pending'[a]
                    \/ \E c \in Streams : e \in batch'[c]
                    \/ \E c \in Streams : \E k \in 1..Len(buf'[c]) : e = buf'[c][k]
             PROVE  e \in Known
  BY DEF Known
<1>1. CASE e \in log'
  BY <1>1 DEF Known
<1>2. CASE \E a \in Appenders : e = pending'[a]
  BY <1>2, StreamAssumption DEF Known
<1>3. CASE \E c \in Streams : e \in batch'[c]
  BY <1>3 DEF Known
<1>4. CASE \E c \in Streams : \E k \in 1..Len(buf'[c]) : e = buf'[c][k]
  BY <1>4 DEF Known
<1> QED
  BY <1>1, <1>2, <1>3, <1>4

LEMMA KnownFacts ==
  ASSUME TypeOK, OneOrder, NEW e \in Known, NEW f \in Known
  PROVE  /\ e \in Event /\ f \in Event
         /\ e.id \in Nat /\ e.seq \in Nat /\ f.id \in Nat /\ f.seq \in Nat
         /\ e.id <= lastID /\ e.seq <= seqOf[e.sid]
         /\ e.sid = f.sid => /\ e.seq = f.seq => e = f
                             /\ e.seq < f.seq => e.id < f.id
                             /\ e.seq <= f.seq => e.id <= f.id
<1>1. e \in Event /\ f \in Event
  BY DEF Known
<1>2. e.id \in Nat /\ e.seq \in Nat /\ f.id \in Nat /\ f.seq \in Nat
  BY <1>1 DEF Event
<1>3. /\ e.id <= lastID
      /\ e.seq <= seqOf[e.sid]
      /\ e.id = f.id => e = f
      /\ e.sid = f.sid /\ e.id < f.id => e.seq < f.seq
      /\ e.sid = f.sid /\ f.id < e.id => f.seq < e.seq
  BY DEF OneOrder
<1> QED
  BY <1>1, <1>2, <1>3

(* What the places of the path hold is known.                              *)
LEMMA PlacesKnown ==
  ASSUME TypeOK
  PROVE  /\ log \subseteq Known
         /\ \A c \in Streams : batch[c] \subseteq Known
         /\ \A c \in Streams : \A k \in 1..Len(buf[c]) : buf[c][k] \in Known
         /\ \A a \in Appenders : pending[a] # NoEvent => pending[a] \in Known
<1>1. log \subseteq Known
  BY DEF Known, TypeOK
<1>2. \A c \in Streams : batch[c] \subseteq Known
  BY DEF Known, TypeOK
<1>3. \A c \in Streams : \A k \in 1..Len(buf[c]) : buf[c][k] \in Known
  <2>1. \A c \in Streams : buf[c] \in Seq(Event)
    BY DEF TypeOK
  <2>2. \A c \in Streams : \A k \in 1..Len(buf[c]) : buf[c][k] \in Event
    BY <2>1, QueueFacts
  <2> QED
    BY <2>2 DEF Known
<1>4. \A a \in Appenders : pending[a] # NoEvent => pending[a] \in Known
  BY DEF Known, TypeOK
<1> QED
  BY <1>1, <1>2, <1>3, <1>4

LEMMA AppendEventOrder ==
  ASSUME TypeOK, OneOrder, NEW a \in Appenders, NEW s \in Sessions, AppendEvent(a, s)
  PROVE  OneOrder'
<1>1. PICK e : /\ e = [sid |-> s, seq |-> NextSeq(s), id |-> lastID + 1]
               /\ log' = CapTail(log \cup {e})
               /\ pending' = [pending EXCEPT ![a] = e] \/ pending' = pending
  BY DEF AppendEvent
<1>2. /\ UNCHANGED <<batch, buf>> /\ lastID' = lastID + 1
      /\ seqOf' = [seqOf EXCEPT ![s] = NextSeq(s)]
  BY DEF AppendEvent, handlerVars, hubVars
<1>3. /\ seqOf \in [Sessions -> Nat] /\ lastID \in Nat
      /\ e.sid = s /\ e.seq = seqOf[s] + 1 /\ e.id = lastID + 1
  BY <1>1 DEF TypeOK, NextSeq
<1>4. \A f \in Known' : f \in Known \/ f = e
  <2>1. log' \subseteq log \cup {e}
    BY <1>1 DEF CapTail
  <2>2. \A b \in Appenders : pending'[b] = pending[b] \/ pending'[b] = e
    BY <1>1 DEF TypeOK
  <2> QED
    BY <1>2, <2>1, <2>2 DEF Known
<1>5. \A t \in Sessions : seqOf'[t] \in Nat /\ seqOf[t] \in Nat /\ seqOf[t] <= seqOf'[t]
  BY <1>2, <1>3 DEF NextSeq
<1>6. \A f \in Known : /\ f.sid \in Sessions /\ f.id \in Nat /\ f.seq \in Nat
                       /\ f.id <= lastID /\ f.seq <= seqOf[f.sid]
  <2>1. \A f \in Known : f \in Event
    BY DEF Known
  <2> QED
    BY <2>1 DEF OneOrder, Event
<1>7. \A f \in Known : f.id <= lastID' /\ f.seq <= seqOf'[f.sid] /\ f.id < e.id
                       /\ (f.sid = s => f.seq < e.seq)
  <2> SUFFICES ASSUME NEW f \in Known
               PROVE  f.id <= lastID' /\ f.seq <= seqOf'[f.sid] /\ f.id < e.id
                       /\ (f.sid = s => f.seq < e.seq)
    OBVIOUS
  <2>1. f.id <= lastID' /\ f.id < e.id
    BY <1>2, <1>3, <1>6
  <2>2. f.seq <= seqOf'[f.sid]
    BY <1>5, <1>6
  <2>3. f.sid = s => f.seq < e.seq
    BY <1>3, <1>6
  <2> QED
    BY <2>1, <2>2, <2>3
<1>8. e.id <= lastID' /\ e.seq <= seqOf'[e.sid]
  <2>1. seqOf'[s] = seqOf[s] + 1
    BY <1>2, <1>3 DEF NextSeq
  <2> QED
    BY <1>2, <1>3, <2>1
<1>9. ASSUME NEW f \in Known', NEW g \in Known'
      PROVE  /\ f.id <= lastID' /\ f.seq <= seqOf'[f.sid]
             /\ f.id = g.id => f = g
             /\ f.sid = g.sid /\ f.id < g.id => f.seq < g.seq
  <2>1. CASE f \in Known /\ g \in Known
    BY <1>7, <2>1 DEF OneOrder
  <2>2. CASE f = e /\ g = e
    BY <1>3, <1>8, <2>2
  <2>3. CASE f \in Known /\ g = e
    BY <1>3, <1>6, <1>7, <2>3
  <2>4. CASE f = e /\ g \in Known
    <3>1. g.id < f.id /\ g.id \in Nat /\ f.id \in Nat
      BY <1>3, <1>6, <1>7, <2>4
    <3> QED
      BY <1>8, <2>4, <3>1
  <2> QED
    BY <1>4, <2>1, <2>2, <2>3, <2>4
<1> QED
  BY <1>9 DEF OneOrder

-----------------------------------------------------------------------------
(* The replay query.                                                       *)

(* A set of numbers that is not empty has a smallest element.  The         *)
(* library's induction over Nat takes a predicate as its argument; what it *)
(* says of the relation < can be cited.                                    *)
LEMMA Smallest ==
  ASSUME NEW T \in SUBSET Nat, T # {}
  PROVE  \E n \in T : \A m \in T : n <= m
<1>1. IsWellFoundedOn(OpToRel(<, Nat), Nat)
  BY NatLessThanWellFounded, Zenon
<1>2. OpToRel(<, Nat) = {ss \in Nat \X Nat : ss[1] < ss[2]}
  BY Zenon DEF OpToRel
<1>3. IsWellFoundedOn({ss \in Nat \X Nat : ss[1] < ss[2]}, Nat)
  BY ONLY <1>1, <1>2, Zenon
<1>4. PICK n \in T : \A m \in T : ~(<<m, n>> \in {ss \in Nat \X Nat : ss[1] < ss[2]})
  BY <1>3, WFMin
<1>5. ASSUME NEW m \in T PROVE n <= m
  <2>1. n \in Nat /\ m \in Nat
    OBVIOUS
  <2>2. <<m, n>> \in Nat \X Nat
    BY <2>1
  <2>3. PICK p : p = <<m, n>>
    OBVIOUS
  <2>4. p[1] = m /\ p[2] = n
    BY <2>3
  <2>5. m < n => p \in {ss \in Nat \X Nat : ss[1] < ss[2]}
    BY <2>2, <2>3, <2>4
  <2>6. ~(m < n)
    BY <1>4, <2>3, <2>5
  <2> QED
    BY <2>1, <2>6
<1> QED
  BY <1>5

(* The first n elements by id: they include the predecessors of each of    *)
(* them, and if there are fewer than n of them, they are all.              *)
FirstOf(S, n) == {e \in S : Cardinality({f \in S : f.id < e.id}) < n}

LEMMA FirstOfIsPrefix ==
  ASSUME NEW S \in SUBSET Event, IsFiniteSet(S), NEW n \in Nat,
         NEW e \in FirstOf(S, n), NEW f \in S, f.id <= e.id
  PROVE  f \in FirstOf(S, n)
<1> DEFINE F == {g \in S : g.id < f.id}
           E == {g \in S : g.id < e.id}
<1>1. \A g \in S : g.id \in Nat
  BY DEF Event
<1>2. e \in S
  BY DEF FirstOf
<1>3. F \subseteq E
  BY <1>1, <1>2
<1>4. IsFiniteSet(E)
  BY FS_Subset
<1>5. Cardinality(F) <= Cardinality(E)
  BY <1>3, <1>4, FS_Subset
<1>6. IsFiniteSet(F)
  BY FS_Subset
<1>7. Cardinality(F) \in Nat /\ Cardinality(E) \in Nat
  BY <1>4, <1>6, FS_CardinalityType
<1>8. Cardinality(E) < n
  BY DEF FirstOf
<1>9. Cardinality(F) < n
  BY <1>5, <1>7, <1>8
<1> QED
  BY <1>9 DEF FirstOf

LEMMA FirstOfAll ==
  ASSUME NEW S \in SUBSET Event, IsFiniteSet(S), NEW n \in Nat,
         Cardinality(FirstOf(S, n)) < n
  PROVE  FirstOf(S, n) = S
<1>1. FirstOf(S, n) \subseteq S
  BY DEF FirstOf
<1> SUFFICES ASSUME S \ FirstOf(S, n) # {}
             PROVE  FALSE
  BY <1>1
<1> DEFINE T == {e.id : e \in S \ FirstOf(S, n)}
<1>2. T \in SUBSET Nat /\ T # {}
  BY DEF Event
<1>3. PICK m \in T : \A k \in T : m <= k
  BY <1>2, Smallest
<1>4. PICK e \in S \ FirstOf(S, n) : e.id = m
  OBVIOUS
<1> DEFINE E == {f \in S : f.id < e.id}
<1>5. E \subseteq FirstOf(S, n)
  <2>1. ASSUME NEW f \in S, f.id < e.id, f \notin FirstOf(S, n) PROVE FALSE
    <3>1. f.id \in T /\ f.id \in Nat /\ e.id \in Nat
      BY <2>1 DEF Event
    <3> QED
      BY <1>3, <1>4, <2>1, <3>1
  <2> QED
    BY <2>1
<1>6. IsFiniteSet(FirstOf(S, n))
  BY <1>1, FS_Subset
<1>7. Cardinality(E) <= Cardinality(FirstOf(S, n)) /\ IsFiniteSet(E)
  BY <1>5, <1>6, FS_Subset
<1>8. Cardinality(E) \in Nat /\ Cardinality(FirstOf(S, n)) \in Nat
  BY <1>6, <1>7, FS_CardinalityType
<1>9. Cardinality(E) < n
  BY <1>7, <1>8
<1> QED
  BY <1>4, <1>9 DEF FirstOf

Newer(s, after) == {e \in EventsOf(log, s) : e.seq > after}

LEMMA QueryIsFirst ==
  ASSUME TypeOK, FiniteLogs, NEW s, NEW after
  PROVE  /\ ListSessionEvents(s, after) = FirstOf(Newer(s, after), ReplayBatch)
         /\ Newer(s, after) \in SUBSET Event
         /\ IsFiniteSet(Newer(s, after))
<1>1. Newer(s, after) \subseteq log
  BY DEF Newer, EventsOf
<1>2. IsFiniteSet(Newer(s, after))
  BY <1>1, FS_Subset DEF FiniteLogs
<1> QED
  BY <1>1, <1>2 DEF TypeOK, ListSessionEvents, FirstOf, Newer

-----------------------------------------------------------------------------
(* A stream whose part of the state a step leaves alone stays covered.     *)

SameHub(c) == sub'[c] = sub[c] /\ buf'[c] = buf[c]

SameHandler(c) == phase'[c] = phase[c] /\ batch'[c] = batch[c] /\ lastSeq'[c] = lastSeq[c]

SameClient(c) == net'[c] = net[c] /\ cursor'[c] = cursor[c] /\ rendered'[c] = rendered[c]

(* NothingSkipped, stream by stream.                                       *)
CursorCovers(c) ==
  \A e \in EventsOf(log, SessionOf[c]) : e.seq <= cursor[c] => Seen(c, e)

LEMMA NothingSkippedDef == NothingSkipped <=> \A c \in Streams : CursorCovers(c)
  BY DEF NothingSkipped, CursorCovers, Seen

LEMMA CursorCoversKept ==
  ASSUME NEW c \in Streams, CursorCovers(c), log' \subseteq log,
         cursor'[c] = cursor[c], rendered'[c] = rendered[c]
  PROVE  CursorCovers(c)'
  BY DEF CursorCovers, Seen, EventsOf

LEMMA NetCoversKept ==
  ASSUME NEW c \in Streams, NetCovers(c), log' \subseteq log,
         net'[c] = net[c], rendered'[c] = rendered[c]
  PROVE  NetCovers(c)'
  BY DEF NetCovers, Seen, EventsOf

LEMMA HandlerCoversKept ==
  ASSUME NEW c \in Streams, HandlerCovers(c), log' \subseteq log,
         phase'[c] # "off" => phase[c] # "off",
         lastSeq'[c] = lastSeq[c], net'[c] = net[c], rendered'[c] = rendered[c]
  PROVE  HandlerCovers(c)'
  BY DEF HandlerCovers, Seen, Sent, EventsOf

LEMMA BatchCoversKept ==
  ASSUME NEW c \in Streams, BatchCovers(c), log' \subseteq log,
         batch'[c] = batch[c], lastSeq'[c] = lastSeq[c]
  PROVE  BatchCovers(c)'
  BY DEF BatchCovers, EventsOf

LEMMA TailCoversKept ==
  ASSUME NEW c \in Streams, TailCovers(c), log' \subseteq log, pending' = pending,
         sub'[c] = "open" => sub[c] = "open", buf'[c] = buf[c], SameHandler(c)
  PROVE  TailCovers(c)'
  BY DEF TailCovers, Queued, EventsOf, SameHandler

LEMMA CoversKept ==
  ASSUME NEW c \in Streams, Covers(c), log' \subseteq log, pending' = pending,
         sub'[c] = "open" => sub[c] = "open", buf'[c] = buf[c],
         SameHandler(c), SameClient(c)
  PROVE  Covers(c)'
<1>1. NetCovers(c)'
  BY NetCoversKept DEF Covers, SameClient
<1>2. HandlerCovers(c)'
  BY HandlerCoversKept DEF Covers, SameClient, SameHandler
<1>3. BatchCovers(c)'
  BY BatchCoversKept DEF Covers, SameHandler
<1>4. TailCovers(c)'
  BY TailCoversKept DEF Covers
<1>5. LiveRead(c)'
  BY DEF Covers, LiveRead, SameHandler
<1> QED
  BY <1>1, <1>2, <1>3, <1>4, <1>5 DEF Covers

(* A step of one stream: the log, the counters and the appenders stay, and *)
(* so does the part of every other stream.                                 *)
StepOf(c) ==
  /\ UNCHANGED <<log, seqOf, pending, lastID>>
  /\ \A d \in Streams \ {c} : SameHub(d) /\ SameHandler(d) /\ SameClient(d)

(* What the step of stream c must see to itself.                           *)
LEMMA OwnPath ==
  ASSUME TypeOK, Path, NEW c \in Streams, StepOf(c),
         \A e \in batch'[c] : (e \in batch[c] \/ e \in log) /\ e.sid = SessionOf[c],
         \A k \in 1..Len(buf'[c]) : \E j \in 1..Len(buf[c]) : buf'[c][k] = buf[c][j],
         cursor'[c] <= seqOf[SessionOf[c]],
         lastSeq'[c] <= seqOf[SessionOf[c]],
         CursorCovers(c)',
         Covers(c)'
  PROVE  Path'
<1>1. OneOrder'
  <2>1. Known' \subseteq Known
    BY KnownKept DEF StepOf, SameHub, SameHandler
  <2> QED
    BY <2>1, OneOrderKept DEF Path, StepOf
<1>2. Routed'
  <2>1. ASSUME NEW d \in Streams
        PROVE  /\ \A e \in batch'[d] : e.sid = SessionOf[d]
               /\ \A k \in 1..Len(buf'[d]) : buf'[d][k].sid = SessionOf[d]
    BY SMTT(30) DEF Path, Routed, StepOf, SameHub, SameHandler
  <2> QED
    BY <2>1 DEF Routed
<1>3. NotAhead'
  <2>1. ASSUME NEW d \in Streams
        PROVE  cursor'[d] <= seqOf'[SessionOf[d]] /\ lastSeq'[d] <= seqOf'[SessionOf[d]]
    BY DEF Path, NotAhead, StepOf, SameClient, SameHandler
  <2> QED
    BY <2>1 DEF NotAhead
<1>4. \A d \in Streams : CursorCovers(d)'
  <2>1. ASSUME NEW d \in Streams \ {c} PROVE CursorCovers(d)'
    BY <2>1, CursorCoversKept, NothingSkippedDef DEF Path, StepOf, SameClient
  <2> QED
    BY <2>1
<1>5. NothingSkipped'
  BY <1>4 DEF NothingSkipped, CursorCovers, Seen
<1>6. \A d \in Streams : Covers(d)'
  <2>1. ASSUME NEW d \in Streams \ {c} PROVE Covers(d)'
    <3>1. Covers(d) /\ SameHub(d) /\ SameHandler(d) /\ SameClient(d)
      BY DEF Path, StepOf
    <3> QED
      BY <3>1, CoversKept DEF StepOf, SameHub
  <2> QED
    BY <2>1
<1> QED
  BY <1>1, <1>2, <1>3, <1>5, <1>6 DEF Path

LEMMA PathFacts ==
  ASSUME TypeOK, Path, NEW c \in Streams
  PROVE  /\ SessionOf[c] \in Sessions
         /\ seqOf[SessionOf[c]] \in Nat /\ cursor[c] \in Nat /\ lastSeq[c] \in Nat
         /\ cursor[c] <= seqOf[SessionOf[c]] /\ lastSeq[c] <= seqOf[SessionOf[c]]
         /\ \A e \in batch[c] : e.sid = SessionOf[c]
         /\ CursorCovers(c)
         /\ NetCovers(c) /\ HandlerCovers(c) /\ BatchCovers(c) /\ TailCovers(c) /\ LiveRead(c)
  BY StreamAssumption, NothingSkippedDef DEF TypeOK, Path, NotAhead, Routed, Covers

(* Events of the session of c, in the places of its path, are compared by  *)
(* number.                                                                 *)
LEMMA SessionEvents ==
  ASSUME TypeOK, OneOrder, Routed, NEW c \in Streams, NEW e \in EventsOf(log, SessionOf[c])
  PROVE  /\ e \in log /\ e \in Known /\ e.sid = SessionOf[c]
         /\ e.seq \in Nat /\ e.id \in Nat /\ e.seq <= seqOf[SessionOf[c]]
         /\ \A f \in batch[c] : e.seq = f.seq => e = f
         /\ \A k \in 1..Len(buf[c]) : e.seq = buf[c][k].seq => e = buf[c][k]
<1>1. e \in log /\ e.sid = SessionOf[c]
  BY DEF EventsOf
<1>2. e \in Known
  BY <1>1, PlacesKnown
<1>3. e.seq \in Nat /\ e.id \in Nat /\ e.seq <= seqOf[SessionOf[c]]
  BY <1>1, <1>2, KnownFacts
<1>4. \A f \in batch[c] : f \in Known /\ f.sid = e.sid
  BY <1>1, PlacesKnown DEF Routed
<1>5. \A k \in 1..Len(buf[c]) : buf[c][k] \in Known /\ buf[c][k].sid = e.sid
  BY <1>1, PlacesKnown DEF Routed
<1> QED
  BY <1>1, <1>2, <1>3, <1>4, <1>5, KnownFacts

LEMMA ConnectPath ==
  ASSUME IInv, Path, NEW c \in Streams, Connect(c)
  PROVE  Path'
<1> USE DEF IInv, StoreInv
<1>1. /\ phase[c] = "off" /\ net[c] = <<>> /\ batch[c] = {}
      /\ phase'[c] = "replay" /\ lastSeq'[c] = cursor[c]
      /\ net' = net /\ cursor' = cursor /\ rendered' = rendered
      /\ batch' = batch /\ buf' = buf /\ log' = log /\ seqOf' = seqOf
  BY DEF Connect, TypeOK, BatchConnected, storeVars, clientVars
<1>2. StepOf(c)
  BY DEF Connect, StepOf, SameHub, SameHandler, SameClient, TypeOK, storeVars, clientVars
<1>3. CursorCovers(c)'
  BY <1>1, PathFacts, CursorCoversKept
<1>4. NetCovers(c)'
  BY <1>1, PathFacts, NetCoversKept
<1>5. HandlerCovers(c)'
  BY <1>1, PathFacts DEF HandlerCovers, CursorCovers, Seen, EventsOf
<1>6. BatchCovers(c)' /\ TailCovers(c)' /\ LiveRead(c)'
  BY <1>1 DEF BatchCovers, TailCovers, LiveRead
<1> QED
  BY <1>1, <1>2, <1>3, <1>4, <1>5, <1>6, PathFacts, OwnPath DEF Covers

LEMMA DropPath ==
  ASSUME IInv, Path, NEW c \in Streams, Drop(c)
  PROVE  Path'
<1> USE DEF IInv, StoreInv
<1>1. /\ phase'[c] = "off" /\ net'[c] = <<>> /\ batch'[c] = {} /\ buf'[c] = <<>>
      /\ cursor' = cursor /\ rendered' = rendered /\ lastSeq' = lastSeq
      /\ log' = log /\ seqOf' = seqOf
  BY DEF Drop, TypeOK, storeVars
<1>2. StepOf(c)
  BY DEF Drop, StepOf, SameHub, SameHandler, SameClient, TypeOK, storeVars
<1>3. CursorCovers(c)'
  BY <1>1, PathFacts, CursorCoversKept
<1>4. Covers(c)'
  BY <1>1 DEF Covers, NetCovers, HandlerCovers, BatchCovers, TailCovers, LiveRead
<1> QED
  BY <1>1, <1>2, <1>3, <1>4, PathFacts, OwnPath

(* A frame covers what its cursor passes: what the handler had passed      *)
(* before, and no other event than its own.                                *)
LEMMA SendCovers ==
  ASSUME TypeOK, Path, NEW c \in Streams, phase[c] # "off",
         NEW frame \in Frame, Send(c, frame),
         \A e \in EventsOf(log, SessionOf[c]) :
           lastSeq[c] < e.seq /\ e.seq <= frame.cursor => frame.event = e,
         log' = log, rendered' = rendered, lastSeq'[c] = frame.cursor
  PROVE  NetCovers(c)' /\ HandlerCovers(c)'
<1> DEFINE n == Len(net[c])
<1>1. net[c] \in Seq(Frame)
  BY DEF TypeOK
<1>2. net'[c] = Append(net[c], frame)
  BY DEF Send, TypeOK
<1>3. /\ n \in Nat /\ Len(net'[c]) = n + 1 /\ net'[c][n + 1] = frame
      /\ \A i \in 1..n : net'[c][i] = net[c][i]
  BY <1>1, <1>2, QueueFacts
<1>4. \A e \in EventsOf(log, SessionOf[c]) :
        e.seq <= frame.cursor => Seen(c, e) \/ Sent(c, e) \/ frame.event = e
  <2> SUFFICES ASSUME NEW e \in EventsOf(log, SessionOf[c]), e.seq <= frame.cursor
               PROVE  Seen(c, e) \/ Sent(c, e) \/ frame.event = e
    OBVIOUS
  <2>1. e.seq \in Nat /\ lastSeq[c] \in Nat
    BY PathFacts, SessionEvents DEF Path
  <2>2. CASE e.seq <= lastSeq[c]
    BY <2>2, PathFacts DEF HandlerCovers
  <2> QED
    BY <2>1, <2>2
<1>5. \A e : Sent(c, e) \/ frame.event = e => \E k \in 1..(n + 1) : net'[c][k].event = e
  <2>1. n + 1 \in 1..(n + 1) /\ \A k \in 1..n : k \in 1..(n + 1)
    BY <1>3
  <2> QED
    BY <1>3, <2>1 DEF Sent
<1>6. HandlerCovers(c)'
  BY <1>3, <1>4, <1>5 DEF HandlerCovers, Seen, Sent, EventsOf
<1>7. NetCovers(c)'
  <2> SUFFICES ASSUME NEW e \in EventsOf(log, SessionOf[c]), NEW i \in 1..(n + 1),
                      e.seq <= net'[c][i].cursor
               PROVE  \/ Seen(c, e)
                      \/ \E k \in 1..i : net'[c][k].event = e
    BY <1>3 DEF NetCovers, Seen, EventsOf
  <2>1. CASE i \in 1..n
    <3>1. Seen(c, e) \/ \E k \in 1..i : net[c][k].event = e
      BY <1>3, <2>1, PathFacts DEF NetCovers
    <3>2. \A k \in 1..i : k \in 1..n
      BY <1>3, <2>1
    <3> QED
      BY <1>3, <3>1, <3>2
  <2>2. CASE i = n + 1
    BY <1>3, <1>4, <1>5, <2>2
  <2> QED
    BY <1>3, <2>1, <2>2
<1> QED
  BY <1>6, <1>7

LEMMA CursorSendCovers ==
  ASSUME TypeOK, Path, NEW c \in Streams, phase[c] # "off",
         NEW kind \in {"session.ready", "session.reset"},
         Send(c, CursorFrame(kind, lastSeq[c])),
         log' = log, rendered' = rendered, lastSeq' = lastSeq
  PROVE  NetCovers(c)' /\ HandlerCovers(c)'
<1>0. CursorFrame(kind, lastSeq[c]) \in Frame /\ CursorFrame(kind, lastSeq[c]).cursor = lastSeq[c]
  <2>1. lastSeq[c] \in Nat
    BY DEF TypeOK
  <2>2. CursorFrame(kind, lastSeq[c]) \in Frame
    BY <2>1, CursorFrameType
  <2>3. CursorFrame(kind, lastSeq[c]).cursor = lastSeq[c]
    BY DEF CursorFrame
  <2> QED
    BY <2>2, <2>3
<1>1. PICK frame \in Frame : frame = CursorFrame(kind, lastSeq[c]) /\ frame.cursor = lastSeq[c]
  BY <1>0
<1>2. ASSUME NEW e \in EventsOf(log, SessionOf[c]), lastSeq[c] < e.seq, e.seq <= frame.cursor
      PROVE  FALSE
  <2>1. lastSeq[c] \in Nat /\ e.seq \in Nat
    BY PathFacts, SessionEvents DEF Path
  <2> QED
    BY <1>1, <1>2, <2>1
<1> QED
  BY <1>1, <1>2, SendCovers

(* An event is written in its turn: the log holds no other event between   *)
(* lastSeq and its number.                                                 *)
InTurn(c, e) ==
  \A f \in EventsOf(log, SessionOf[c]) : lastSeq[c] < f.seq /\ f.seq <= e.seq => f = e

LEMMA WriteEventCovers ==
  ASSUME TypeOK, Path, NEW c \in Streams, phase[c] # "off", NEW e \in Event,
         InTurn(c, e), WriteEvent(c, e), log' = log, rendered' = rendered
  PROVE  NetCovers(c)' /\ HandlerCovers(c)'
<1>1. PICK frame \in Frame : frame = EventFrame(e) /\ frame.cursor = e.seq /\ frame.event = e
  BY EventFrameType DEF EventFrame
<1>2. Send(c, frame) /\ lastSeq'[c] = frame.cursor
  BY <1>1 DEF WriteEvent, TypeOK
<1> QED
  BY <1>1, <1>2, SendCovers DEF InTurn

LEMMA ReadyPath ==
  ASSUME IInv, FiniteLogs, Path, NEW c \in Streams, Ready(c)
  PROVE  Path'
<1> USE DEF IInv, StoreInv
<1>1. /\ phase[c] # "off" /\ batch[c] = {} /\ phase'[c] = "live"
      /\ batch' = batch /\ buf' = buf /\ sub' = sub /\ pending' = pending
      /\ cursor' = cursor /\ rendered' = rendered /\ lastSeq' = lastSeq
      /\ log' = log /\ seqOf' = seqOf
  BY DEF Ready, TypeOK, storeVars, hubVars
<1>2. StepOf(c)
  BY DEF Ready, Send, StepOf, SameHub, SameHandler, SameClient, TypeOK, storeVars, hubVars
<1>3. CursorCovers(c)'
  BY <1>1, PathFacts, CursorCoversKept
<1>4. NetCovers(c)' /\ HandlerCovers(c)'
  BY <1>1, CursorSendCovers DEF Ready
<1>5. BatchCovers(c)'
  BY <1>1, PathFacts, BatchCoversKept
<1>6. TailCovers(c)'
  <2>1. CASE phase[c] = "tail"
    BY <1>1, <2>1, PathFacts DEF TailCovers, Queued, EventsOf
  <2>2. CASE ListSessionEvents(SessionOf[c], lastSeq[c]) = {}
    <3>1. Newer(SessionOf[c], lastSeq[c]) = {}
      <4> DEFINE S == Newer(SessionOf[c], lastSeq[c])
      <4>1. S \in SUBSET Event /\ IsFiniteSet(S) /\ FirstOf(S, ReplayBatch) = {}
        BY <2>2, QueryIsFirst
      <4>2. ReplayBatch \in Nat /\ 0 < ReplayBatch
        BY StreamAssumption
      <4>3. Cardinality(FirstOf(S, ReplayBatch)) < ReplayBatch
        BY <4>1, <4>2, FS_EmptySet
      <4> HIDE DEF S
      <4>4. FirstOf(S, ReplayBatch) = S
        BY <4>1, <4>2, <4>3, FirstOfAll
      <4> QED
        BY <4>1, <4>4 DEF S
    <3>2. \A e \in EventsOf(log, SessionOf[c]) : ~(lastSeq[c] < e.seq)
      BY <3>1, PathFacts, SessionEvents DEF Path, Newer
    <3> QED
      BY <1>1, <3>2 DEF TailCovers, EventsOf
  <2> QED
    BY <2>1, <2>2 DEF Ready
<1>7. LiveRead(c)'
  BY <1>1 DEF LiveRead
<1> QED
  BY <1>1, <1>2, <1>3, <1>4, <1>5, <1>6, <1>7, PathFacts, OwnPath DEF Covers

LEMMA ResetPath ==
  ASSUME IInv, Path, NEW c \in Streams, Reset(c)
  PROVE  Path'
<1> USE DEF IInv, StoreInv
<1>1. /\ phase[c] # "off" /\ phase'[c] = "off"
      /\ batch' = batch /\ buf' = buf
      /\ cursor' = cursor /\ rendered' = rendered /\ lastSeq' = lastSeq
      /\ log' = log /\ seqOf' = seqOf
  BY DEF Reset, TypeOK, storeVars
<1>2. StepOf(c)
  BY DEF Reset, Send, StepOf, SameHub, SameHandler, SameClient, TypeOK, storeVars
<1>3. CursorCovers(c)'
  BY <1>1, PathFacts, CursorCoversKept
<1>4. NetCovers(c)' /\ HandlerCovers(c)'
  BY <1>1, CursorSendCovers DEF Reset
<1>5. BatchCovers(c)'
  BY <1>1, PathFacts, BatchCoversKept
<1>6. TailCovers(c)' /\ LiveRead(c)'
  BY <1>1 DEF TailCovers, LiveRead
<1> QED
  BY <1>1, <1>2, <1>3, <1>4, <1>5, <1>6, PathFacts, OwnPath DEF Covers

LEMMA ReplayReadPath ==
  ASSUME IInv, FiniteLogs, Path, NEW c \in Streams, ReplayRead(c)
  PROVE  Path'
<1> USE DEF IInv, StoreInv
<1> DEFINE S == Newer(SessionOf[c], lastSeq[c])
           B == FirstOf(S, ReplayBatch)
<1>1. /\ phase[c] = "replay" /\ batch[c] = {} /\ batch'[c] = B
      /\ phase'[c] = IF Cardinality(B) < ReplayBatch THEN "tail" ELSE "replay"
      /\ buf' = buf /\ cursor' = cursor /\ rendered' = rendered /\ lastSeq' = lastSeq
      /\ net' = net /\ log' = log /\ seqOf' = seqOf
  <2>1. ListSessionEvents(SessionOf[c], lastSeq[c]) = B
    BY QueryIsFirst
  <2> QED
    BY <2>1 DEF ReplayRead, TypeOK, storeVars, hubVars, clientVars
<1>2. StepOf(c)
  BY DEF ReplayRead, StepOf, SameHub, SameHandler, SameClient, TypeOK, storeVars, hubVars,
     clientVars
<1>3. S \in SUBSET Event /\ IsFiniteSet(S) /\ ReplayBatch \in Nat
  BY QueryIsFirst, StreamAssumption
<1>4. \A e : e \in S <=> e \in EventsOf(log, SessionOf[c]) /\ e.seq > lastSeq[c]
  BY DEF Newer
<1>5. \A e \in B : e \in S /\ e \in log /\ e.sid = SessionOf[c]
  BY DEF FirstOf, Newer, EventsOf
<1>6. CursorCovers(c)'
  BY <1>1, PathFacts, CursorCoversKept
<1>7. NetCovers(c)'
  BY <1>1, PathFacts, NetCoversKept
<1>8. HandlerCovers(c)'
  BY <1>1, PathFacts, HandlerCoversKept
<1> HIDE DEF S, B
<1>9. BatchCovers(c)'
  <2> SUFFICES ASSUME NEW e \in EventsOf(log, SessionOf[c]), NEW b \in B,
                      lastSeq[c] < e.seq, e.seq <= b.seq
               PROVE  e \in B
    BY <1>1 DEF BatchCovers, EventsOf
  <2>1. e \in S
    BY <1>4, PathFacts, SessionEvents DEF Path
  <2>2. e.id <= b.id
    <3>1. e \in Known /\ e.sid = SessionOf[c]
      BY SessionEvents DEF Path
    <3>2. b \in Known /\ b.sid = SessionOf[c]
      BY <1>5, PlacesKnown
    <3> QED
      BY <3>1, <3>2, KnownFacts DEF Path
  <2>3. b \in FirstOf(S, ReplayBatch)
    BY DEF B
  <2>4. e \in FirstOf(S, ReplayBatch)
    BY <1>3, <2>1, <2>2, <2>3, FirstOfIsPrefix
  <2> QED
    BY <2>4 DEF B
<1>10. TailCovers(c)'
  <2>1. CASE Cardinality(B) < ReplayBatch
    <3>1. B = S
      BY <1>3, <2>1, FirstOfAll DEF B
    <3>2. \A e \in EventsOf(log, SessionOf[c]) : lastSeq[c] < e.seq => e \in batch'[c]
      BY <1>1, <1>4, <3>1, PathFacts, SessionEvents DEF Path
    <3> QED
      BY <1>1, <3>2 DEF TailCovers, EventsOf
  <2>2. CASE ~(Cardinality(B) < ReplayBatch)
    BY <1>1, <2>2 DEF TailCovers
  <2> QED
    BY <2>1, <2>2
<1>11. LiveRead(c)'
  BY <1>1 DEF LiveRead
<1>12. \A e \in batch'[c] : (e \in batch[c] \/ e \in log) /\ e.sid = SessionOf[c]
  BY <1>1, <1>5
<1>13. \A k \in 1..Len(buf'[c]) : \E j \in 1..Len(buf[c]) : buf'[c][k] = buf[c][j]
  BY <1>1
<1>14. cursor'[c] <= seqOf[SessionOf[c]] /\ lastSeq'[c] <= seqOf[SessionOf[c]]
  BY <1>1, PathFacts
<1>15. Covers(c)'
  BY <1>7, <1>8, <1>9, <1>10, <1>11 DEF Covers
<1> QED
  BY <1>2, <1>6, <1>12, <1>13, <1>14, <1>15, OwnPath

LEMMA ReplayWritePath ==
  ASSUME IInv, Path, NEW c \in Streams, ReplayWrite(c)
  PROVE  Path'
<1> USE DEF IInv, StoreInv
<1>1. PICK e \in batch[c] :
        /\ \A f \in batch[c] : e.seq <= f.seq
        /\ batch' = [batch EXCEPT ![c] = @ \ {e}]
        /\ \/ IsNew(c, e) /\ WriteEvent(c, e)
           \/ ~IsNew(c, e) /\ UNCHANGED <<lastSeq, net>>
        /\ UNCHANGED <<storeVars, pending, hubVars, phase, cursor, rendered, lastID>>
  BY DEF ReplayWrite
<1>2. /\ batch'[c] = batch[c] \ {e} /\ phase[c] \in {"replay", "tail"} /\ phase' = phase
      /\ buf' = buf /\ sub' = sub /\ pending' = pending
      /\ cursor' = cursor /\ rendered' = rendered
      /\ log' = log /\ seqOf' = seqOf /\ lastID' = lastID
  BY <1>1 DEF TypeOK, BatchConnected, storeVars, hubVars
<1>3. /\ e \in Event /\ e.seq \in Nat /\ e.sid = SessionOf[c] /\ e.seq <= seqOf[SessionOf[c]]
      /\ lastSeq[c] \in Nat
  BY PlacesKnown, KnownFacts, PathFacts DEF Path
<1>4. StepOf(c)
  BY <1>1, <1>2 DEF StepOf, SameHub, SameHandler, SameClient, WriteEvent, Send, TypeOK
<1>5. \/ IsNew(c, e) /\ WriteEvent(c, e) /\ lastSeq'[c] = e.seq
      \/ ~IsNew(c, e) /\ lastSeq' = lastSeq /\ net' = net
  BY <1>1 DEF WriteEvent, TypeOK
<1>6. lastSeq'[c] \in Nat /\ lastSeq[c] <= lastSeq'[c] /\ e.seq <= lastSeq'[c]
  BY <1>3, <1>5 DEF IsNew
<1>7. CursorCovers(c)'
  BY <1>2, PathFacts, CursorCoversKept
<1>8. NetCovers(c)' /\ HandlerCovers(c)'
  <2>1. CASE IsNew(c, e)
    <3>1. InTurn(c, e)
      <4> SUFFICES ASSUME NEW f \in EventsOf(log, SessionOf[c]),
                          lastSeq[c] < f.seq, f.seq <= e.seq
                   PROVE  f = e
        BY DEF InTurn
      <4>1. f \in batch[c]
        BY PathFacts DEF BatchCovers
      <4>2. f.seq \in Nat /\ e.seq <= f.seq
        BY <1>1, <4>1, SessionEvents DEF Path
      <4>3. f.seq = e.seq
        BY <1>3, <4>2
      <4> QED
        BY <4>3, SessionEvents DEF Path
    <3> QED
      BY <1>2, <1>3, <1>5, <2>1, <3>1, WriteEventCovers
  <2>2. CASE ~IsNew(c, e)
    BY <1>2, <1>5, <2>2, PathFacts, NetCoversKept, HandlerCoversKept
  <2> QED
    BY <2>1, <2>2
(* An event above the new lastSeq was above the old one, and is not e.     *)
<1>9. ASSUME NEW f \in EventsOf(log, SessionOf[c]), lastSeq'[c] < f.seq
      PROVE  lastSeq[c] < f.seq /\ f # e
  <2>1. f.seq \in Nat
    BY SessionEvents DEF Path
  <2> QED
    BY <1>3, <1>6, <1>9, <2>1
<1>10. BatchCovers(c)'
  <2> SUFFICES ASSUME NEW f \in EventsOf(log, SessionOf[c]), NEW b \in batch'[c],
                      lastSeq'[c] < f.seq, f.seq <= b.seq
               PROVE  f \in batch'[c]
    BY <1>2 DEF BatchCovers, EventsOf
  <2> QED
    BY <1>2, <1>9, PathFacts DEF BatchCovers
<1>11. TailCovers(c)'
  <2> SUFFICES ASSUME phase[c] \in {"tail", "live"},
                      NEW f \in EventsOf(log, SessionOf[c]), lastSeq'[c] < f.seq
               PROVE  /\ sub[c] = "open" => \/ f \in batch'[c]
                                            \/ Queued(c, f, Len(buf[c]))
                                            \/ \E a \in Appenders : pending[a] = f
                      /\ \A k \in 1..Len(buf[c]) :
                           f.seq <= buf[c][k].seq => f \in batch'[c] \/ Queued(c, f, k)
    BY <1>2 DEF TailCovers, Queued, EventsOf
  <2>1. lastSeq[c] < f.seq /\ (f \in batch[c] => f \in batch'[c])
    BY <1>2, <1>9
  <2> QED
    BY <2>1, PathFacts DEF TailCovers
<1>12. LiveRead(c)'
  BY <1>2 DEF LiveRead
<1>13. \A f \in batch'[c] : (f \in batch[c] \/ f \in log) /\ f.sid = SessionOf[c]
  BY <1>2, PathFacts
<1>14. \A k \in 1..Len(buf'[c]) : \E j \in 1..Len(buf[c]) : buf'[c][k] = buf[c][j]
  BY <1>2
<1>15. cursor'[c] <= seqOf[SessionOf[c]] /\ lastSeq'[c] <= seqOf[SessionOf[c]]
  BY <1>2, <1>3, <1>5, PathFacts
<1>16. Covers(c)'
  BY <1>8, <1>10, <1>11, <1>12 DEF Covers
<1> QED
  BY <1>4, <1>7, <1>13, <1>14, <1>15, <1>16, OwnPath

LEMMA Predecessor ==
  ASSUME NEW n \in Nat, n > 0
  PROVE  \E i \in 0..(n - 1) : i = n - 1 /\ i + 1 = n
  OBVIOUS

LEMMA LiveWritePath ==
  ASSUME IInv, Path, NEW c \in Streams, LiveWrite(c)
  PROVE  Path'
<1> USE DEF IInv, StoreInv
<1> DEFINE n == Len(buf[c])
<1>1. PICK e \in Event :
        /\ e = Head(buf[c]) /\ e = buf[c][1] /\ n > 0 /\ n \in Nat
        /\ Len(Tail(buf[c])) = n - 1
        /\ \A k \in 1..(n - 1) : Tail(buf[c])[k] = buf[c][k + 1]
  BY QueueFacts DEF LiveWrite, TypeOK
<1>2. /\ phase[c] = "live" /\ phase' = phase /\ batch' = batch /\ buf'[c] = Tail(buf[c])
      /\ sub' = sub /\ pending' = pending /\ cursor' = cursor /\ rendered' = rendered
      /\ log' = log /\ seqOf' = seqOf /\ lastID' = lastID
  BY DEF LiveWrite, TypeOK, storeVars
<1>3. batch[c] = {} /\ 1 \in 1..n
  BY <1>1, <1>2, PathFacts DEF LiveRead
<1>4. Len(buf'[c]) = n - 1 /\ \A k \in 1..(n - 1) : k + 1 \in 1..n /\ buf'[c][k] = buf[c][k + 1]
  BY <1>1, <1>2
<1>5. e \in Known
  BY <1>1, <1>3, PlacesKnown
<1>6. e.sid = SessionOf[c]
  BY <1>1, <1>3 DEF Path, Routed
<1>7. e.seq \in Nat /\ e.seq <= seqOf[SessionOf[c]] /\ lastSeq[c] \in Nat
  BY <1>5, <1>6, KnownFacts, PathFacts DEF Path
<1>8. StepOf(c)
  BY <1>2 DEF LiveWrite, StepOf, SameHub, SameHandler, SameClient, WriteEvent, Send, TypeOK
<1>9. \/ IsNew(c, e) /\ WriteEvent(c, e) /\ lastSeq'[c] = e.seq
      \/ ~IsNew(c, e) /\ lastSeq' = lastSeq /\ net' = net
  BY <1>1 DEF LiveWrite, WriteEvent, TypeOK
<1>10. lastSeq'[c] \in Nat /\ lastSeq[c] <= lastSeq'[c] /\ e.seq <= lastSeq'[c]
  BY <1>7, <1>9 DEF IsNew
<1>11. CursorCovers(c)'
  BY <1>2, PathFacts, CursorCoversKept
<1>12. NetCovers(c)' /\ HandlerCovers(c)'
  <2>1. CASE IsNew(c, e)
    <3>1. InTurn(c, e)
      <4> SUFFICES ASSUME NEW f \in EventsOf(log, SessionOf[c]),
                          lastSeq[c] < f.seq, f.seq <= e.seq
                   PROVE  f = e
        BY DEF InTurn
      <4>1. Queued(c, f, 1)
        BY <1>1, <1>2, <1>3, PathFacts DEF TailCovers
      <4> QED
        BY <1>1, <4>1 DEF Queued
    <3> QED
      BY <1>2, <1>9, <2>1, <3>1, WriteEventCovers
  <2>2. CASE ~IsNew(c, e)
    BY <1>2, <1>9, <2>2, PathFacts, NetCoversKept, HandlerCoversKept
  <2> QED
    BY <2>1, <2>2
<1>13. BatchCovers(c)' /\ LiveRead(c)'
  BY <1>2, <1>3 DEF BatchCovers, LiveRead
<1>14. TailCovers(c)'
  <2> SUFFICES ASSUME NEW f \in EventsOf(log, SessionOf[c]), lastSeq'[c] < f.seq
               PROVE  /\ sub[c] = "open" => \/ \E j \in 1..(n - 1) : buf'[c][j] = f
                                            \/ \E a \in Appenders : pending[a] = f
                      /\ \A k \in 1..(n - 1) :
                           f.seq <= buf'[c][k].seq => \E j \in 1..k : buf'[c][j] = f
    BY <1>2, <1>3, <1>4 DEF TailCovers, Queued, EventsOf
  <2>1. f.seq \in Nat
    BY SessionEvents DEF Path
  <2>2. lastSeq[c] < f.seq /\ f # e
    BY <1>7, <1>10, <2>1
(* In a prefix of the channel the event is not at its head.                *)
  <2>3. ASSUME NEW k \in 0..(n - 1), Queued(c, f, k + 1)
        PROVE  \E j \in 1..k : buf'[c][j] = f
    <3>1. PICK i \in 1..(k + 1) : buf[c][i] = f
      BY <2>3 DEF Queued
    <3>2. i # 1
      BY <1>1, <2>2, <3>1
    <3>3. PICK j \in 1..k : i = j + 1
      BY <3>2
    <3>4. j \in 1..(n - 1)
      BY <1>1, <3>3
    <3> QED
      BY <1>4, <3>1, <3>3, <3>4
  <2>4. sub[c] = "open" => \/ \E j \in 1..(n - 1) : buf'[c][j] = f
                           \/ \E a \in Appenders : pending[a] = f
    <3>1. sub[c] = "open" => Queued(c, f, n) \/ \E a \in Appenders : pending[a] = f
      BY <1>2, <1>3, <2>2, PathFacts DEF TailCovers
    <3>2. n \in Nat /\ n > 0
      BY <1>1
    <3>3. PICK k \in 0..(n - 1) : k = n - 1 /\ k + 1 = n
      BY <3>2, Predecessor
    <3> QED
      BY <2>3, <3>1, <3>3
  <2>5. ASSUME NEW k \in 1..(n - 1), f.seq <= buf'[c][k].seq
        PROVE  \E j \in 1..k : buf'[c][j] = f
    <3>1. Queued(c, f, k + 1)
      BY <1>2, <1>3, <1>4, <2>2, <2>5, PathFacts DEF TailCovers
    <3>2. k \in 0..(n - 1)
      BY <1>1
    <3> QED
      BY <2>3, <3>1, <3>2
  <2> QED
    BY <2>4, <2>5
<1>15. \A f \in batch'[c] : (f \in batch[c] \/ f \in log) /\ f.sid = SessionOf[c]
  BY <1>2, <1>3
<1>16. \A k \in 1..Len(buf'[c]) : \E j \in 1..Len(buf[c]) : buf'[c][k] = buf[c][j]
  BY <1>4
<1>17. cursor'[c] <= seqOf[SessionOf[c]] /\ lastSeq'[c] <= seqOf[SessionOf[c]]
  BY <1>2, <1>7, <1>9, PathFacts
<1>18. Covers(c)'
  BY <1>12, <1>13, <1>14 DEF Covers
<1> QED
  BY <1>8, <1>11, <1>15, <1>16, <1>17, <1>18, OwnPath

LEMMA ReceivePath ==
  ASSUME IInv, Path, NEW c \in Streams, Receive(c)
  PROVE  Path'
<1> USE DEF IInv, StoreInv
<1> DEFINE n == Len(net[c])
<1>1. PICK frame \in Frame :
        /\ frame = Head(net[c]) /\ frame = net[c][1] /\ n > 0 /\ n \in Nat
        /\ Len(Tail(net[c])) = n - 1
        /\ \A k \in 1..(n - 1) : Tail(net[c])[k] = net[c][k + 1]
  BY QueueFacts DEF Receive, TypeOK
<1>2. /\ net'[c] = Tail(net[c]) /\ batch' = batch /\ buf' = buf /\ sub' = sub
      /\ phase' = phase /\ lastSeq' = lastSeq /\ pending' = pending
      /\ log' = log /\ seqOf' = seqOf /\ lastID' = lastID
  BY DEF Receive, TypeOK, storeVars, hubVars, handlerVars
<1>3. StepOf(c)
  BY <1>2 DEF Receive, StepOf, SameHub, SameHandler, SameClient, TypeOK
<1>4. 1 \in 1..n /\ Len(net'[c]) = n - 1
      /\ \A k \in 1..(n - 1) : k + 1 \in 1..n /\ net'[c][k] = net[c][k + 1]
  BY <1>1, <1>2
<1>5. frame.cursor \in Nat /\ cursor[c] \in Nat /\ frame.cursor <= lastSeq[c]
      /\ lastSeq[c] \in Nat /\ lastSeq[c] <= seqOf[SessionOf[c]] /\ seqOf[SessionOf[c]] \in Nat
  <2>1. frame.cursor \in Nat
    BY DEF Frame
  <2>2. frame.cursor <= lastSeq[c]
    BY <1>1, <1>4 DEF WireOrdered
  <2> QED
    BY <2>1, <2>2, PathFacts
<1>6. frame.kind = "session.event" => cursor[c] < frame.cursor
  BY <1>1, <1>4 DEF WireOrdered
(* The event of the frame, if it has one, is rendered.                     *)
<1>7. \A e \in Event : Seen(c, e) \/ frame.event = e => Seen(c, e)'
  <2>1. rendered[c] \in Seq(Event) /\ Len(rendered[c]) \in Nat
    BY QueueFacts DEF TypeOK
  <2>2. CASE frame.kind = "session.event"
    <3>1. frame.event \in Event /\ ~(frame.cursor <= cursor[c])
      BY <1>5, <1>6, <2>2 DEF Frame
    <3>2. rendered'[c] = Append(rendered[c], frame.event)
      BY <1>1, <2>2, <3>1 DEF Receive, TypeOK
    <3>3. /\ Len(rendered'[c]) = Len(rendered[c]) + 1
          /\ rendered'[c][Len(rendered[c]) + 1] = frame.event
          /\ \A i \in 1..Len(rendered[c]) : rendered'[c][i] = rendered[c][i]
      BY <2>1, <3>1, <3>2, QueueFacts
    <3>4. /\ Len(rendered[c]) + 1 \in 1..Len(rendered'[c])
          /\ \A i \in 1..Len(rendered[c]) : i \in 1..Len(rendered'[c])
      BY <2>1, <3>3
    <3> QED
      BY <3>3, <3>4 DEF Seen, Elements
  <2>3. CASE frame.kind # "session.event"
    <3>1. frame.event \notin Event /\ rendered' = rendered
      BY <1>1, <2>3, StreamAssumption DEF Frame, Receive
    <3> QED
      BY <3>1 DEF Seen
  <2> QED
    BY <2>2, <2>3
<1>8. cursor'[c] \in {cursor[c], frame.cursor}
  BY <1>1 DEF Receive, TypeOK
<1>9. \A e \in EventsOf(log, SessionOf[c]) : e \in Event
  BY DEF EventsOf, TypeOK
<1>10. CursorCovers(c)'
  <2> SUFFICES ASSUME NEW e \in EventsOf(log, SessionOf[c]), e.seq <= cursor'[c]
               PROVE  Seen(c, e)'
    BY <1>2 DEF CursorCovers, EventsOf
  <2>1. CASE e.seq <= cursor[c]
    BY <1>7, <1>9, <2>1, PathFacts DEF CursorCovers
  <2>2. CASE e.seq <= frame.cursor
    <3>1. Seen(c, e) \/ \E k \in 1..1 : net[c][k].event = e
      BY <1>1, <1>4, <2>2, PathFacts DEF NetCovers
    <3> QED
      BY <1>1, <1>7, <1>9, <3>1
  <2> QED
    BY <1>8, <2>1, <2>2
(* In a prefix of the frames in flight the event is at the head, and then  *)
(* it is rendered now, or it is still in flight.                           *)
<1>11. ASSUME NEW e \in Event, NEW i \in 0..(n - 1),
              Seen(c, e) \/ \E k \in 1..(i + 1) : net[c][k].event = e
       PROVE  Seen(c, e)' \/ \E k \in 1..i : net'[c][k].event = e
  <2>1. CASE Seen(c, e)
    BY <1>7, <2>1
  <2>2. CASE \E k \in 1..(i + 1) : net[c][k].event = e
    <3>1. PICK k \in 1..(i + 1) : net[c][k].event = e
      BY <2>2
    <3>2. CASE k = 1
      BY <1>1, <1>7, <3>1, <3>2
    <3>3. CASE k # 1
      <4>1. PICK j \in 1..i : k = j + 1
        BY <3>3
      <4>2. j \in 1..(n - 1)
        BY <1>1, <4>1
      <4> QED
        BY <1>4, <3>1, <4>1, <4>2
    <3> QED
      BY <3>2, <3>3
  <2> QED
    BY <1>11, <2>1, <2>2
<1>12. NetCovers(c)'
  <2> SUFFICES ASSUME NEW e \in EventsOf(log, SessionOf[c]), NEW i \in 1..(n - 1),
                      e.seq <= net'[c][i].cursor
               PROVE  Seen(c, e)' \/ \E k \in 1..i : net'[c][k].event = e
    BY <1>2, <1>4 DEF NetCovers, EventsOf
  <2>1. Seen(c, e) \/ \E k \in 1..(i + 1) : net[c][k].event = e
    BY <1>4, PathFacts DEF NetCovers
  <2>2. i \in 0..(n - 1)
    BY <1>1
  <2> QED
    BY <1>9, <1>11, <2>1, <2>2
<1>13. HandlerCovers(c)'
  <2> SUFFICES ASSUME phase[c] # "off",
                      NEW e \in EventsOf(log, SessionOf[c]), e.seq <= lastSeq[c]
               PROVE  Seen(c, e)' \/ \E k \in 1..(n - 1) : net'[c][k].event = e
    BY <1>2, <1>4 DEF HandlerCovers, Sent, EventsOf
  <2>1. Seen(c, e) \/ \E k \in 1..n : net[c][k].event = e
    BY PathFacts DEF HandlerCovers, Sent
  <2>2. n \in Nat /\ n > 0
    BY <1>1
  <2>3. PICK i \in 0..(n - 1) : i = n - 1 /\ i + 1 = n
    BY <2>2, Predecessor
  <2> QED
    BY <1>9, <1>11, <2>1, <2>3
<1>14. BatchCovers(c)' /\ TailCovers(c)' /\ LiveRead(c)'
  BY <1>2, PathFacts, BatchCoversKept, TailCoversKept DEF LiveRead, SameHandler
<1>15. \A f \in batch'[c] : (f \in batch[c] \/ f \in log) /\ f.sid = SessionOf[c]
  BY <1>2, PathFacts
<1>16. \A k \in 1..Len(buf'[c]) : \E j \in 1..Len(buf[c]) : buf'[c][k] = buf[c][j]
  BY <1>2
<1>17. cursor'[c] <= seqOf[SessionOf[c]] /\ lastSeq'[c] <= seqOf[SessionOf[c]]
  BY <1>2, <1>5, <1>8, PathFacts
<1>18. Covers(c)'
  BY <1>12, <1>13, <1>14 DEF Covers
<1> QED
  BY <1>3, <1>10, <1>15, <1>16, <1>17, <1>18, OwnPath

(* A publication in order: no appender still holds an older event of the   *)
(* session, so what a subscriber of it lacks is the event itself.          *)
LEMMA PublishEventPath ==
  ASSUME IInv, Path, NEW a \in Appenders, PublishEvent(a), ~Overtakes(pending[a])
  PROVE  Path'
<1> USE DEF IInv, StoreInv
<1>1. PICK e \in Known : e = pending[a] /\ e # NoEvent
  BY PlacesKnown DEF PublishEvent
<1>2. /\ \A d \in Streams :
           /\ phase'[d] = phase[d] /\ batch'[d] = batch[d] /\ lastSeq'[d] = lastSeq[d]
           /\ net'[d] = net[d] /\ cursor'[d] = cursor[d] /\ rendered'[d] = rendered[d]
      /\ log' = log /\ seqOf' = seqOf /\ lastID' = lastID
      /\ \A b \in Appenders : b # a => pending'[b] = pending[b]
      /\ pending'[a] = NoEvent
  BY DEF PublishEvent, TypeOK, storeVars, handlerVars, clientVars
<1>3. ASSUME NEW d \in Streams
      PROVE  \/ /\ sub[d] = "open" /\ SessionOf[d] = e.sid
                /\ buf'[d] = Append(buf[d], e) /\ sub'[d] = sub[d]
             \/ /\ sub[d] = "open" /\ SessionOf[d] = e.sid
                /\ buf'[d] = buf[d] /\ sub'[d] = "closed"
             \/ /\ ~(sub[d] = "open" /\ SessionOf[d] = e.sid)
                /\ buf'[d] = buf[d] /\ sub'[d] = sub[d]
  BY <1>1 DEF PublishEvent, Subscribers, ClosedWhenFull
<1>4. e \in Event /\ e.seq \in Nat
  BY <1>1, KnownFacts DEF Path
<1>5. ASSUME NEW d \in Streams, buf'[d] = Append(buf[d], e)
      PROVE  /\ Len(buf[d]) \in Nat /\ Len(buf'[d]) = Len(buf[d]) + 1
             /\ buf'[d][Len(buf[d]) + 1] = e
             /\ \A k \in 1..Len(buf[d]) : buf'[d][k] = buf[d][k]
  BY <1>4, <1>5, QueueFacts DEF TypeOK
<1>6. ASSUME NEW d \in Streams, NEW k \in 1..Len(buf'[d])
      PROVE  \/ \E j \in 1..Len(buf[d]) : buf'[d][k] = buf[d][j]
             \/ buf'[d][k] = e /\ SessionOf[d] = e.sid
  <2>1. CASE buf'[d] = Append(buf[d], e)
    BY <1>3, <1>5, <2>1
  <2>2. CASE buf'[d] = buf[d]
    BY <2>2
  <2> QED
    BY <1>3, <2>1, <2>2
<1>7. OneOrder'
  <2>1. \A b \in Appenders : pending'[b] = pending[b] \/ pending'[b] = NoEvent
    BY <1>2
  <2>2. \A d \in Streams : \A k \in 1..Len(buf'[d]) :
          \/ \E j \in 1..Len(buf[d]) : buf'[d][k] = buf[d][j]
          \/ \E b \in Appenders : buf'[d][k] = pending[b]
    BY <1>1, <1>6
  <2>3. Known' \subseteq Known
    BY <1>2, <2>1, <2>2, KnownKept
  <2> QED
    BY <1>2, <2>3, OneOrderKept DEF Path
<1>8. Routed'
  <2>1. ASSUME NEW d \in Streams, NEW k \in 1..Len(buf'[d]) PROVE buf'[d][k].sid = SessionOf[d]
    BY <1>6, <2>1 DEF Path, Routed
  <2> QED
    BY <1>2, <2>1 DEF Path, Routed
<1>9. NotAhead'
  BY <1>2 DEF Path, NotAhead
<1>10. NothingSkipped'
  BY <1>2, CursorCoversKept, NothingSkippedDef DEF Path, NothingSkipped, EventsOf
(* An event the subscriber lacks and that is not newer than e is e, or has *)
(* been put in the channel before.                                         *)
<1>11. ASSUME NEW d \in Streams, sub[d] = "open", SessionOf[d] = e.sid,
              phase[d] \in {"tail", "live"},
              NEW f \in EventsOf(log, SessionOf[d]), lastSeq[d] < f.seq, f.seq <= e.seq
       PROVE  f \in batch[d] \/ Queued(d, f, Len(buf[d])) \/ f = e
  <2>1. \/ f \in batch[d] \/ Queued(d, f, Len(buf[d]))
        \/ \E b \in Appenders : pending[b] = f
    BY <1>11, PathFacts DEF TailCovers
  <2>2. ASSUME NEW b \in Appenders, pending[b] = f, f # e PROVE FALSE
    <3>1. f \in Known /\ f.sid = e.sid /\ f.id \in Nat /\ e.id \in Nat
      BY <1>1, <1>11, SessionEvents, KnownFacts DEF Path
    <3>2. f.id <= e.id
      BY <1>1, <1>11, <3>1, KnownFacts DEF Path
    <3>3. f.id # e.id
      BY <1>1, <2>2, <3>1 DEF Path, OneOrder
    <3>4. f.id < e.id /\ f # NoEvent
      BY <3>1, <3>2, <3>3, StreamAssumption DEF Known
    <3> QED
      BY <1>1, <2>2, <3>1, <3>4 DEF Overtakes
  <2> QED
    BY <2>1, <2>2
<1>12. ASSUME NEW d \in Streams PROVE TailCovers(d)'
  <2> SUFFICES ASSUME phase[d] \in {"tail", "live"},
                      NEW f \in EventsOf(log, SessionOf[d]), lastSeq[d] < f.seq
               PROVE  /\ sub'[d] = "open" => \/ f \in batch[d]
                                             \/ \E j \in 1..Len(buf'[d]) : buf'[d][j] = f
                                             \/ \E b \in Appenders : pending'[b] = f
                      /\ \A k \in 1..Len(buf'[d]) :
                           f.seq <= buf'[d][k].seq =>
                             f \in batch[d] \/ \E j \in 1..k : buf'[d][j] = f
    BY <1>2 DEF TailCovers, Queued, EventsOf
  <2>1. /\ sub[d] = "open" => \/ f \in batch[d]
                              \/ Queued(d, f, Len(buf[d]))
                              \/ \E b \in Appenders : pending[b] = f
        /\ \A k \in 1..Len(buf[d]) :
             f.seq <= buf[d][k].seq => f \in batch[d] \/ Queued(d, f, k)
    BY PathFacts DEF TailCovers
  <2>2. \A b \in Appenders : pending[b] = f => f = e \/ pending'[b] = f
    BY <1>1, <1>2
  <2>3. CASE sub[d] = "open" /\ SessionOf[d] = e.sid /\ buf'[d] = Append(buf[d], e)
    <3> DEFINE n == Len(buf[d])
    <3>1. /\ n \in Nat /\ Len(buf'[d]) = n + 1 /\ buf'[d][n + 1] = e
          /\ \A k \in 1..n : buf'[d][k] = buf[d][k]
      BY <1>5, <2>3
    <3>2. n + 1 \in 1..(n + 1) /\ \A k \in 1..n : k \in 1..(n + 1)
      BY <3>1
    <3>3. Queued(d, f, n) \/ f = e => \E j \in 1..(n + 1) : buf'[d][j] = f
      BY <3>1, <3>2 DEF Queued
    <3>4. \/ f \in batch[d]
          \/ \E j \in 1..Len(buf'[d]) : buf'[d][j] = f
          \/ \E b \in Appenders : pending'[b] = f
      BY <2>1, <2>2, <2>3, <3>1, <3>3
    <3>5. ASSUME NEW k \in 1..(n + 1), f.seq <= buf'[d][k].seq
          PROVE  f \in batch[d] \/ \E j \in 1..k : buf'[d][j] = f
      <4>1. CASE k \in 1..n
        <5>1. f \in batch[d] \/ \E j \in 1..k : buf[d][j] = f
          BY <2>1, <3>1, <3>5, <4>1 DEF Queued
        <5>2. \A j \in 1..k : j \in 1..n
          BY <3>1, <4>1
        <5> QED
          BY <3>1, <5>1, <5>2
      <4>2. CASE k = n + 1
        <5>1. f \in batch[d] \/ Queued(d, f, n) \/ f = e
          BY <1>11, <2>3, <3>1, <3>5, <4>2
        <5> QED
          BY <3>3, <4>2, <5>1
      <4> QED
        BY <3>1, <4>1, <4>2
    <3> QED
      BY <3>1, <3>4, <3>5
  <2>4. CASE buf'[d] = buf[d] /\ sub'[d] = "closed"
    BY <2>1, <2>4 DEF Queued
  <2>5. CASE buf'[d] = buf[d] /\ sub'[d] = sub[d] /\ ~(sub[d] = "open" /\ SessionOf[d] = e.sid)
    <3>1. f.sid = SessionOf[d]
      BY SessionEvents DEF Path
    <3>2. sub[d] = "open" => \/ f \in batch[d]
                             \/ \E j \in 1..Len(buf[d]) : buf[d][j] = f
                             \/ \E b \in Appenders : pending'[b] = f
      BY <2>1, <2>2, <2>5, <3>1 DEF Queued
    <3> QED
      BY <2>1, <2>5, <3>2 DEF Queued
  <2> QED
    BY <1>3, <2>3, <2>4, <2>5
<1>13. \A d \in Streams : Covers(d)'
  <2> SUFFICES ASSUME NEW d \in Streams PROVE Covers(d)'
    OBVIOUS
  <2>1. NetCovers(d)' /\ HandlerCovers(d)' /\ BatchCovers(d)' /\ LiveRead(d)'
    BY <1>2, PathFacts, NetCoversKept, HandlerCoversKept, BatchCoversKept DEF LiveRead
  <2> QED
    BY <1>12, <2>1 DEF Covers
<1> QED
  BY <1>7, <1>8, <1>9, <1>10, <1>13 DEF Path

(* A new event is above every number on the path, and about to be          *)
(* published.                                                              *)
LEMMA AppendEventPath ==
  ASSUME IInv, Path, NEW a \in Appenders, NEW s \in Sessions, AppendEvent(a, s), ~SaveFails
  PROVE  Path'
<1> USE DEF IInv, StoreInv
<1>1. PICK e : /\ e = [sid |-> s, seq |-> NextSeq(s), id |-> lastID + 1]
               /\ log' = CapTail(log \cup {e})
               /\ pending' = [pending EXCEPT ![a] = e]
  BY DEF AppendEvent
<1>2. /\ phase' = phase /\ batch' = batch /\ lastSeq' = lastSeq /\ sub' = sub /\ buf' = buf
      /\ net' = net /\ cursor' = cursor /\ rendered' = rendered /\ pending[a] = NoEvent
      /\ seqOf' = [seqOf EXCEPT ![s] = NextSeq(s)]
  BY DEF AppendEvent, handlerVars, hubVars, clientVars
<1>3. /\ seqOf \in [Sessions -> Nat] /\ e.sid = s /\ e.seq = seqOf[s] + 1
  BY <1>1 DEF TypeOK, NextSeq
<1>4. /\ pending'[a] = e
      /\ \A b \in Appenders : pending[b] # NoEvent => pending'[b] = pending[b]
  BY <1>1, <1>2 DEF TypeOK
<1>5. ASSUME NEW d \in Streams, NEW f \in EventsOf(log', SessionOf[d])
      PROVE  f \in EventsOf(log, SessionOf[d]) \/ (f = e /\ SessionOf[d] = s)
  BY <1>1, <1>3, <1>5 DEF EventsOf, CapTail
(* Nothing on the path of a stream is numbered like the new event.         *)
<1>6. ASSUME NEW d \in Streams, SessionOf[d] = s, NEW n \in Nat, n <= seqOf[s]
      PROVE  ~(e.seq <= n)
  BY <1>3, <1>6
<1>7. OneOrder'
  BY AppendEventOrder DEF Path
<1>8. Routed'
  BY <1>2 DEF Path, Routed
<1>9. NotAhead'
  <2>1. ASSUME NEW d \in Streams
        PROVE  cursor[d] <= seqOf'[SessionOf[d]] /\ lastSeq[d] <= seqOf'[SessionOf[d]]
    <3>1. SessionOf[d] = s => seqOf'[SessionOf[d]] = seqOf[SessionOf[d]] + 1
      BY <1>2, <1>3, PathFacts DEF NextSeq
    <3>2. SessionOf[d] # s => seqOf'[SessionOf[d]] = seqOf[SessionOf[d]]
      BY <1>2, <1>3, PathFacts
    <3>3. /\ cursor[d] \in Nat /\ lastSeq[d] \in Nat /\ seqOf[SessionOf[d]] \in Nat
          /\ cursor[d] <= seqOf[SessionOf[d]] /\ lastSeq[d] <= seqOf[SessionOf[d]]
      BY PathFacts
    <3> QED
      BY <3>1, <3>2, <3>3
  <2> QED
    BY <1>2, <2>1 DEF NotAhead
<1>10. NothingSkipped'
  <2> SUFFICES ASSUME NEW d \in Streams, NEW f \in EventsOf(log', SessionOf[d]),
                      f.seq <= cursor[d]
               PROVE  Seen(d, f)
    BY <1>2 DEF NothingSkipped, Seen, EventsOf
  <2>1. f \in EventsOf(log, SessionOf[d])
    BY <1>5, <1>6, PathFacts
  <2> QED
    BY <2>1, PathFacts DEF CursorCovers
<1>11. \A d \in Streams : Covers(d)'
  <2> SUFFICES ASSUME NEW d \in Streams PROVE Covers(d)'
    OBVIOUS
  <2>1. NetCovers(d)'
    <3> SUFFICES ASSUME NEW f \in EventsOf(log', SessionOf[d]), NEW i \in 1..Len(net[d]),
                        f.seq <= net[d][i].cursor
                 PROVE  Seen(d, f) \/ \E k \in 1..i : net[d][k].event = f
      BY <1>2 DEF NetCovers, Seen, EventsOf
    <3>1. net[d][i].cursor \in Nat /\ net[d][i].cursor <= lastSeq[d]
      BY QueueFacts DEF TypeOK, Frame, WireOrdered
    <3>2. net[d][i].cursor <= seqOf[SessionOf[d]]
      BY <3>1, PathFacts
    <3>3. f \in EventsOf(log, SessionOf[d])
      BY <1>5, <1>6, <3>1, <3>2
    <3> QED
      BY <3>3, PathFacts DEF NetCovers
  <2>2. HandlerCovers(d)'
    <3> SUFFICES ASSUME phase[d] # "off", NEW f \in EventsOf(log', SessionOf[d]),
                        f.seq <= lastSeq[d]
                 PROVE  Seen(d, f) \/ Sent(d, f)
      BY <1>2 DEF HandlerCovers, Seen, Sent, EventsOf
    <3>1. f \in EventsOf(log, SessionOf[d])
      BY <1>5, <1>6, PathFacts
    <3> QED
      BY <3>1, PathFacts DEF HandlerCovers
  <2>3. BatchCovers(d)'
    <3> SUFFICES ASSUME NEW f \in EventsOf(log', SessionOf[d]), NEW b \in batch[d],
                        lastSeq[d] < f.seq, f.seq <= b.seq
                 PROVE  f \in batch[d]
      BY <1>2 DEF BatchCovers, EventsOf
    <3>1. b.seq \in Nat /\ b.seq <= seqOf[SessionOf[d]]
      BY PlacesKnown, KnownFacts, PathFacts DEF Path
    <3>2. f \in EventsOf(log, SessionOf[d])
      BY <1>5, <1>6, <3>1
    <3> QED
      BY <3>2, PathFacts DEF BatchCovers
  <2>4. TailCovers(d)'
    <3> SUFFICES ASSUME phase[d] \in {"tail", "live"},
                        NEW f \in EventsOf(log', SessionOf[d]), lastSeq[d] < f.seq
                 PROVE  /\ sub[d] = "open" => \/ f \in batch[d]
                                              \/ Queued(d, f, Len(buf[d]))
                                              \/ \E b \in Appenders : pending'[b] = f
                        /\ \A k \in 1..Len(buf[d]) :
                             f.seq <= buf[d][k].seq => f \in batch[d] \/ Queued(d, f, k)
      BY <1>2 DEF TailCovers, Queued, EventsOf
    <3>1. CASE f \in EventsOf(log, SessionOf[d])
      <4>1. f # NoEvent
        BY <3>1, StreamAssumption DEF EventsOf, TypeOK
      <4>2. \A b \in Appenders : pending[b] = f => pending'[b] = f
        BY <1>4, <4>1
      <4> QED
        BY <3>1, <4>2, PathFacts DEF TailCovers
    <3>2. CASE f = e /\ SessionOf[d] = s
      <4>1. ASSUME NEW k \in 1..Len(buf[d]) PROVE ~(f.seq <= buf[d][k].seq)
        <5>1. buf[d][k] \in Known /\ buf[d][k].sid = SessionOf[d]
          BY PlacesKnown DEF Path, Routed
        <5>2. buf[d][k].seq \in Nat /\ buf[d][k].seq <= seqOf[s]
          BY <3>2, <5>1, KnownFacts DEF Path
        <5> QED
          BY <1>6, <3>2, <5>2
      <4> QED
        BY <1>4, <3>2, <4>1
    <3> QED
      BY <1>5, <3>1, <3>2
  <2>5. LiveRead(d)'
    BY <1>2, PathFacts DEF LiveRead
  <2> QED
    BY <2>1, <2>2, <2>3, <2>4, <2>5 DEF Covers
<1> QED
  BY <1>7, <1>8, <1>9, <1>10, <1>11 DEF Path

(* A restart loses every connection and reads the current file.            *)
LEMMA RestartPath ==
  ASSUME IInv, DiskCurrent, Path, Restart
  PROVE  Path'
<1> USE DEF IInv, StoreInv
<1>1. /\ log' \subseteq log /\ lastID' = lastID
      /\ cursor' = cursor /\ rendered' = rendered /\ lastSeq' = lastSeq
      /\ \A a \in Appenders : pending'[a] = NoEvent
      /\ \A c \in Streams : /\ phase'[c] = "off" /\ batch'[c] = {}
                            /\ buf'[c] = <<>> /\ net'[c] = <<>>
  BY DEF Restart, DiskCurrent
<1>2. seqOf' = seqOf
  <2>1. \A s \in Sessions : LoadedSeq(s, CapTail(disk.log)) = disk.seqOf[s]
    BY LoadedSeqIsSaved DEF CapTail
  <2> QED
    BY <2>1 DEF Restart, TypeOK, DiskCurrent
<1>3. OneOrder'
  <2>1. \A c \in Streams : \A k \in 1..Len(buf'[c]) : FALSE
    BY <1>1
  <2>2. Known' \subseteq Known
    BY <1>1, <2>1, KnownKept
  <2> QED
    BY <1>1, <1>2, <2>2, OneOrderKept DEF Path
<1>4. Routed' /\ NotAhead'
  BY <1>1, <1>2 DEF Path, Routed, NotAhead
<1>5. NothingSkipped'
  BY <1>1 DEF Path, NothingSkipped, EventsOf
<1>6. \A c \in Streams : Covers(c)'
  BY <1>1 DEF Covers, NetCovers, HandlerCovers, BatchCovers, TailCovers, LiveRead
<1> QED
  BY <1>3, <1>4, <1>5, <1>6 DEF Path

LEMMA CloseStreamsPath ==
  ASSUME IInv, Path, NEW s \in Sessions, CloseStreams(s)
  PROVE  Path'
<1>1. /\ log' = log /\ seqOf' = seqOf /\ lastID' = lastID /\ pending' = pending
      /\ phase' = phase /\ batch' = batch /\ lastSeq' = lastSeq /\ buf' = buf
      /\ net' = net /\ cursor' = cursor /\ rendered' = rendered
      /\ \A c \in Streams : sub'[c] = "open" => sub[c] = "open"
  BY DEF CloseStreams, storeVars, handlerVars, clientVars
<1>2. OneOrder' /\ Routed' /\ NotAhead' /\ NothingSkipped'
  BY <1>1 DEF Path, OneOrder, Known, Routed, NotAhead, NothingSkipped
<1>3. \A c \in Streams : Covers(c)'
  BY <1>1, CoversKept DEF Path, SameHandler, SameClient
<1> QED
  BY <1>2, <1>3 DEF Path

LEMMA StutterPath ==
  ASSUME Path, UNCHANGED vars
  PROVE  Path'
<1>1. /\ log' = log /\ seqOf' = seqOf /\ lastID' = lastID /\ pending' = pending
      /\ phase' = phase /\ batch' = batch /\ lastSeq' = lastSeq /\ buf' = buf /\ sub' = sub
      /\ net' = net /\ cursor' = cursor /\ rendered' = rendered
  BY DEF vars, storeVars, hubVars, handlerVars, clientVars
<1>2. OneOrder' /\ Routed' /\ NotAhead' /\ NothingSkipped'
  BY <1>1 DEF Path, OneOrder, Known, Routed, NotAhead, NothingSkipped
<1>3. \A c \in Streams : Covers(c)'
  BY <1>1, CoversKept DEF Path, SameHandler, SameClient
<1> QED
  BY <1>2, <1>3 DEF Path

LEMMA StepPath ==
  ASSUME SafeInv, [Next]_vars, Safe'
  PROVE  Path'
<1>1. Path /\ DiskCurrent /\ IInv /\ FiniteLogs /\ ~\E s \in Sessions : DeleteSession(s)
  BY SafeBefore DEF SafeInv
<1>2. TypeOK
  BY <1>1 DEF IInv, StoreInv
<1>3. ~SaveFails
  BY <1>2, SaveFailsCounted DEF Safe
<1>4. ASSUME NEW a \in Appenders, NEW s \in Sessions, AppendEvent(a, s) PROVE Path'
  BY <1>1, <1>3, <1>4, AppendEventPath
<1>5. ASSUME NEW a \in Appenders, PublishEvent(a) PROVE Path'
  <2>1. CASE Overtakes(pending[a])
    <3>1. Fault("overtake")
      BY <1>5, <2>1 DEF PublishEvent
    <3>2. faults' \in [FaultKinds -> Nat] /\ faults'["overtake"] > 0
      BY <1>2, <3>1, FaultType, FaultsGrow DEF FaultKinds
    <3> QED
      BY <3>2 DEF Safe
  <2> QED
    BY <1>1, <1>5, <2>1, PublishEventPath
<1>6. ASSUME NEW c \in Streams, Connect(c) PROVE Path'
  BY <1>1, <1>6, ConnectPath
<1>7. ASSUME NEW c \in Streams, ReplayRead(c) PROVE Path'
  BY <1>1, <1>7, ReplayReadPath
<1>8. ASSUME NEW c \in Streams, ReplayWrite(c) PROVE Path'
  BY <1>1, <1>8, ReplayWritePath
<1>9. ASSUME NEW c \in Streams, Ready(c) PROVE Path'
  BY <1>1, <1>9, ReadyPath
<1>10. ASSUME NEW c \in Streams, LiveWrite(c) PROVE Path'
  BY <1>1, <1>10, LiveWritePath
<1>11. ASSUME NEW c \in Streams, Reset(c) PROVE Path'
  BY <1>1, <1>11, ResetPath
<1>12. ASSUME NEW c \in Streams, Drop(c) PROVE Path'
  BY <1>1, <1>12, DropPath
<1>13. ASSUME NEW c \in Streams, Receive(c) PROVE Path'
  BY <1>1, <1>13, ReceivePath
<1>14. ASSUME NEW s \in Sessions, CloseStreams(s) PROVE Path'
  BY <1>1, <1>14, CloseStreamsPath
<1>15. CASE Restart
  BY <1>1, <1>15, RestartPath
<1>16. CASE UNCHANGED vars
  BY <1>1, <1>16, StutterPath
<1> QED
  BY <1>1, <1>4, <1>5, <1>6, <1>7, <1>8, <1>9, <1>10, <1>11, <1>12, <1>13, <1>14, <1>15, <1>16
     DEF Next

LEMMA InitSafeInv == Init => SafeInv
<1> SUFFICES ASSUME Init PROVE SafeInv
  OBVIOUS
<1>1. IInv
  BY InitIInv
<1>2. FiniteLogs
  BY FS_EmptySet DEF Init, FiniteLogs
<1>3. DiskCurrent
  BY DEF Init, DiskCurrent, CapTail
<1>4. Known = {}
  BY StreamAssumption DEF Init, Known
<1>5. OneOrder
  BY <1>4 DEF OneOrder
<1>6. Routed /\ NotAhead /\ NothingSkipped
  BY StreamAssumption DEF Init, Routed, NotAhead, NothingSkipped, EventsOf
<1>7. \A c \in Streams : Covers(c)
  BY DEF Init, Covers, NetCovers, HandlerCovers, BatchCovers, TailCovers, LiveRead, EventsOf
<1> QED
  BY <1>1, <1>2, <1>3, <1>5, <1>6, <1>7 DEF SafeInv, Path

LEMMA StepSafeInv == SafeInv /\ [Next]_vars => SafeInv'
<1> SUFFICES ASSUME SafeInv, [Next]_vars PROVE SafeInv'
  OBVIOUS
<1>1. IInv'
  BY StepStoreInv, StepBatchConnected, StepWireOrdered DEF SafeInv, IInv
<1>2. FiniteLogs'
  BY StepFiniteLogs DEF SafeInv
<1>3. (faults["save"] = 0 => DiskCurrent)'
  BY StepDiskCurrent
<1>4. (Safe => Path)'
  BY StepPath
<1> QED
  BY <1>1, <1>2, <1>3, <1>4 DEF SafeInv

(* A client that reconnects with its cursor has seen every event of the    *)
(* log below it, and no connection, reset, restart or eviction makes it    *)
(* skip one: whatever the size of the channels, of a replay query and of   *)
(* the log, as long as events are published in the order of their numbers, *)
(* every save succeeds and no session is deleted.                          *)
THEOREM NothingIsSkipped == Spec => []ReplaySafe
<1>1. SafeInv => ReplaySafe
  BY DEF SafeInv, Safe, Path, ReplaySafe
<1> QED
  BY <1>1, InitSafeInv, StepSafeInv, PTL DEF Spec

-----------------------------------------------------------------------------
(* The event feed.  Where nothing is deleted or evicted, every save        *)
(* succeeds and events are published in order, the log has every number up *)
(* to the counter, and what a client has rendered is 1, 2, 3, ... up to    *)
(* its cursor.                                                             *)

Undisturbed ==
  /\ Deletable = {}
  /\ MaxFaults["save"] = 0
  /\ MaxFaults["overtake"] = 0
  /\ MaxEvents <= EventsMax

NoDisturbance == faults["save"] = 0 /\ faults["overtake"] = 0 /\ sessions = Sessions

(* Nothing is evicted: the log is what was appended, and so is the file.   *)
LogWhole ==
  /\ disk.log = log
  /\ Cardinality(log) <= lastID
  /\ lastID <= MaxEvents
  /\ \A s \in Sessions : \A n \in 1..seqOf[s] : \E e \in EventsOf(log, s) : e.seq = n

FramesHonest ==
  \A c \in Streams : \A i \in 1..Len(net[c]) :
    net[c][i].kind = "session.event" => net[c][i].event.seq = net[c][i].cursor

InStep(c) ==
  /\ cursor[c] = Len(rendered[c])
  /\ \A i \in 1..Len(rendered[c]) : rendered[c][i].seq = i

FeedInv ==
  /\ SafeInv
  /\ NoDisturbance
  /\ LogWhole
  /\ FramesHonest
  /\ \A c \in Streams : InStep(c)

(* The prefix 1..n of the naturals as a sequence.                          *)
CountTo(n) == [i \in 1..n |-> i]

LEMMA CountToIsSeq ==
  ASSUME NEW n \in Nat
  PROVE  /\ CountTo(n) \in Seq(Nat) /\ Len(CountTo(n)) = n
         /\ \A i \in 1..n : CountTo(n)[i] = i
  BY DEF CountTo

LEMMA CountToNext ==
  ASSUME NEW n \in Nat
  PROVE  Append(CountTo(n), n + 1) = CountTo(n + 1)
<1> DEFINE s == Append(CountTo(n), n + 1)
           t == CountTo(n + 1)
<1>1. /\ CountTo(n) \in Seq(Nat) /\ Len(CountTo(n)) = n
      /\ \A i \in 1..n : CountTo(n)[i] = i
  BY CountToIsSeq
<1>2. /\ t \in Seq(Nat) /\ Len(t) = n + 1 /\ \A i \in 1..(n + 1) : t[i] = i
  BY CountToIsSeq
<1>3. /\ s \in Seq(Nat) /\ Len(s) = n + 1 /\ s[n + 1] = n + 1
      /\ \A i \in 1..n : s[i] = CountTo(n)[i]
  BY <1>1, QueueFacts
<1> HIDE DEF s, t
<1>4. \A i \in 1..Len(s) : s[i] = t[i]
  BY <1>1, <1>2, <1>3
<1>5. s = t
  BY <1>2, <1>3, <1>4, SeqEqual
<1> QED
  BY <1>5 DEF s, t

LEMMA CountToZero == CountTo(0) = <<>>
<1>1. CountTo(0) \in Seq(Nat) /\ Len(CountTo(0)) = 0
  BY CountToIsSeq
<1> QED
  BY <1>1, EmptySeq

(* A log that is not longer than the retention allows loses nothing.       *)
LEMMA CapTailWhole ==
  ASSUME NEW S \in SUBSET Event, IsFiniteSet(S), Cardinality(S) <= EventsMax
  PROVE  CapTail(S) = S
<1> SUFFICES ASSUME NEW e \in S
             PROVE  Cardinality({f \in S : f.id > e.id}) < EventsMax
  BY DEF CapTail
<1> DEFINE T == {f \in S : f.id > e.id}
<1>1. e \notin T
  BY DEF Event
<1>2. T \in SUBSET S /\ T # S
  BY <1>1
<1>3. IsFiniteSet(T) /\ Cardinality(T) <= Cardinality(S) /\ Cardinality(T) # Cardinality(S)
  BY <1>2, FS_Subset
<1>4. Cardinality(T) \in Nat /\ Cardinality(S) \in Nat /\ EventsMax \in Nat
  BY <1>3, FS_CardinalityType, StreamAssumption
<1> HIDE DEF T
<1>5. Cardinality(T) < EventsMax
  BY <1>3, <1>4
<1> QED
  BY <1>5 DEF T

LEMMA FeedFacts ==
  ASSUME FeedInv
  PROVE  /\ IInv /\ TypeOK /\ FiniteLogs /\ DiskCurrent /\ Safe /\ Path
  BY DEF FeedInv, NoDisturbance, Safe, SafeInv, IInv, StoreInv

LEMMA NoSuchFault ==
  ASSUME TypeOK, Undisturbed, NEW kind \in {"save", "overtake"}, Fault(kind)
  PROVE  FALSE
<1>1. faults[kind] \in Nat /\ MaxFaults[kind] = 0
  BY DEF TypeOK, Undisturbed, FaultKinds
<1> QED
  BY <1>1 DEF Fault

LEMMA StepNoDisturbance ==
  ASSUME Undisturbed, FeedInv, [Next]_vars
  PROVE  NoDisturbance'
<1> USE FeedFacts
<1>1. ASSUME NEW kind \in FaultKinds, Fault(kind)
      PROVE  faults'["save"] = faults["save"] /\ faults'["overtake"] = faults["overtake"]
  <2>1. kind # "save" /\ kind # "overtake"
    BY <1>1, NoSuchFault
  <2> QED
    BY <1>1, <2>1 DEF Fault, TypeOK, FaultKinds
<1>2. UNCHANGED faults \/ \E kind \in FaultKinds : Fault(kind)
  BY DEF Next, vars, FaultKinds, AppendEvent, SaveSucceeds, SaveFails, PublishEvent, Connect,
     ReplayRead, ReplayWrite, Ready, LiveWrite, Reset, Drop, Receive, DeleteSession,
     CloseStreams, Restart
<1>3. faults'["save"] = faults["save"] /\ faults'["overtake"] = faults["overtake"]
  BY <1>1, <1>2
<1>4. UNCHANGED sessions
  <2>1. CASE Restart
    BY <2>1 DEF Restart, DiskCurrent
  <2>2. CASE ~Restart
    BY <2>2 DEF Undisturbed, Next, vars, storeVars, AppendEvent, PublishEvent, Connect,
       ReplayRead, ReplayWrite, Ready, LiveWrite, Reset, Drop, Receive, DeleteSession,
       CloseStreams
  <2> QED
    BY <2>1, <2>2
<1> QED
  BY <1>3, <1>4 DEF FeedInv, NoDisturbance

LEMMA AppendLogWhole ==
  ASSUME Undisturbed, FeedInv, NEW a \in Appenders, NEW s \in Sessions, AppendEvent(a, s)
  PROVE  LogWhole'
<1> USE FeedFacts
<1>1. PICK e : /\ e = [sid |-> s, seq |-> NextSeq(s), id |-> lastID + 1]
               /\ log' = CapTail(log \cup {e})
               /\ lastID < MaxEvents /\ lastID' = lastID + 1
               /\ seqOf' = [seqOf EXCEPT ![s] = NextSeq(s)]
  BY DEF AppendEvent
<1>2. disk' = Snapshot
  <2>1. ~SaveFails
    BY NoSuchFault DEF SaveFails
  <2> QED
    BY <2>1 DEF AppendEvent, SaveSucceeds
<1>3. seqOf \in [Sessions -> Nat] /\ lastID \in Nat /\ MaxEvents \in Nat /\ EventsMax \in Nat
  BY StreamAssumption DEF TypeOK
<1>4. e \in Event /\ e.sid = s /\ e.seq = seqOf[s] + 1
  BY <1>1, <1>3 DEF Event, NextSeq
<1>5. Cardinality(log) <= lastID /\ Cardinality(log) \in Nat /\ lastID <= MaxEvents
  BY FS_CardinalityType DEF FeedInv, LogWhole, FiniteLogs
<1>6. IsFiniteSet(log \cup {e})
  BY FS_AddElement DEF FiniteLogs
<1>7. Cardinality(log \cup {e}) \in {Cardinality(log), Cardinality(log) + 1}
  BY FS_AddElement DEF FiniteLogs
<1>8. Cardinality(log \cup {e}) <= lastID + 1
  BY <1>3, <1>5, <1>7
<1>9. Cardinality(log \cup {e}) <= EventsMax
  BY <1>1, <1>3, <1>5, <1>7 DEF Undisturbed
<1>10. log' = log \cup {e}
  BY <1>1, <1>4, <1>6, <1>9, CapTailWhole DEF TypeOK
<1>11. Cardinality(log') <= lastID' /\ lastID' <= MaxEvents
  <2>1. lastID + 1 <= MaxEvents
    BY <1>1, <1>3
  <2> QED
    BY <1>1, <1>8, <1>10, <2>1
<1>12. ASSUME NEW t \in Sessions, NEW n \in 1..seqOf'[t]
       PROVE  \E f \in EventsOf(log', t) : f.seq = n
  <2>1. CASE n \in 1..seqOf[t]
    BY <1>10, <2>1 DEF FeedInv, LogWhole, EventsOf
  <2>2. CASE n \notin 1..seqOf[t]
    <3>1. t = s /\ seqOf'[t] = seqOf[t] + 1
      BY <1>1, <1>3, <2>2 DEF NextSeq
    <3>2. n = seqOf[s] + 1
      BY <1>3, <2>2, <3>1
    <3> QED
      BY <1>4, <1>10, <3>1, <3>2 DEF EventsOf
  <2> QED
    BY <2>1, <2>2
<1> QED
  BY <1>2, <1>11, <1>12 DEF LogWhole, Snapshot

LEMMA StepLogWhole ==
  ASSUME Undisturbed, FeedInv, [Next]_vars
  PROVE  LogWhole'
<1> USE FeedFacts
<1>1. ASSUME UNCHANGED <<storeVars, lastID>> PROVE LogWhole'
  BY <1>1 DEF FeedInv, LogWhole, storeVars, EventsOf
<1>2. ASSUME NEW a \in Appenders, NEW s \in Sessions, AppendEvent(a, s) PROVE LogWhole'
  BY <1>2, AppendLogWhole
<1>3. ASSUME NEW s \in Sessions, DeleteSession(s) PROVE FALSE
  BY <1>3 DEF DeleteSession, Undisturbed
<1>4. CASE Restart
  <2>1. log' = log /\ disk' = disk /\ lastID' = lastID
    <3>1. disk.log = log /\ Cardinality(log) <= lastID /\ lastID <= MaxEvents
      BY DEF FeedInv, LogWhole
    <3>2. /\ Cardinality(log) \in Nat /\ lastID \in Nat /\ MaxEvents \in Nat
          /\ EventsMax \in Nat /\ MaxEvents <= EventsMax
      BY FS_CardinalityType, StreamAssumption DEF FiniteLogs, TypeOK, Undisturbed
    <3>3. Cardinality(log) <= EventsMax
      BY <3>1, <3>2
    <3>4. CapTail(log) = log
      BY <3>3, CapTailWhole DEF TypeOK, FiniteLogs
    <3> QED
      BY <1>4, <3>1, <3>4 DEF Restart
  <2>2. seqOf' = seqOf
    <3>1. \A s \in Sessions : LoadedSeq(s, CapTail(disk.log)) = disk.seqOf[s]
      BY LoadedSeqIsSaved DEF CapTail, IInv
    <3> QED
      BY <1>4, <3>1 DEF Restart, TypeOK, DiskCurrent
  <2> QED
    BY <2>1, <2>2 DEF FeedInv, LogWhole, EventsOf
<1>5. ASSUME NEW a \in Appenders, PublishEvent(a) PROVE UNCHANGED <<storeVars, lastID>>
  BY <1>5 DEF PublishEvent
<1>6. ASSUME NEW c \in Streams,
             \/ Connect(c) \/ ReplayRead(c) \/ ReplayWrite(c) \/ Ready(c)
             \/ LiveWrite(c) \/ Reset(c) \/ Drop(c) \/ Receive(c)
      PROVE  UNCHANGED <<storeVars, lastID>>
  BY <1>6 DEF Connect, ReplayRead, ReplayWrite, Ready, LiveWrite, Reset, Drop, Receive
<1>7. ASSUME NEW s \in Sessions, CloseStreams(s) PROVE UNCHANGED <<storeVars, lastID>>
  BY <1>7 DEF CloseStreams
<1>8. CASE UNCHANGED vars
  BY <1>1, <1>8 DEF vars
<1> QED
  BY <1>1, <1>2, <1>3, <1>4, <1>5, <1>6, <1>7, <1>8 DEF Next

Honest(frame) == frame.kind = "session.event" => frame.event.seq = frame.cursor

LEMMA SendHonest ==
  ASSUME TypeOK, FramesHonest, NEW c \in Streams, NEW frame \in Frame, Honest(frame),
         Send(c, frame)
  PROVE  FramesHonest'
<1>1. net[c] \in Seq(Frame)
  BY DEF TypeOK
<1>2. /\ net'[c] = Append(net[c], frame)
      /\ \A d \in Streams \ {c} : net'[d] = net[d]
  BY DEF Send, TypeOK
<1>3. /\ Len(net[c]) \in Nat /\ Len(net'[c]) = Len(net[c]) + 1
      /\ net'[c][Len(net[c]) + 1] = frame
      /\ \A i \in 1..Len(net[c]) : net'[c][i] = net[c][i]
  BY <1>1, <1>2, QueueFacts
<1>4. ASSUME NEW i \in 1..Len(net'[c]) PROVE i \in 1..Len(net[c]) \/ net'[c][i] = frame
  BY <1>3
<1>5. \A i \in 1..Len(net'[c]) : Honest(net'[c][i])
  BY <1>3, <1>4 DEF FramesHonest, Honest
<1>6. ASSUME NEW d \in Streams, d # c PROVE \A i \in 1..Len(net'[d]) : Honest(net'[d][i])
  <2>1. net'[d] = net[d]
    BY <1>2, <1>6
  <2>2. \A i \in 1..Len(net[d]) : Honest(net[d][i])
    BY DEF FramesHonest, Honest
  <2> QED
    BY <2>1, <2>2
<1>7. \A d \in Streams : \A i \in 1..Len(net'[d]) : Honest(net'[d][i])
  BY <1>5, <1>6
<1> QED
  BY <1>7 DEF FramesHonest, Honest

LEMMA WriteEventHonest ==
  ASSUME TypeOK, FramesHonest, NEW c \in Streams, NEW e \in Event, WriteEvent(c, e)
  PROVE  FramesHonest'
<1>1. EventFrame(e) \in Frame /\ Honest(EventFrame(e))
  BY EventFrameType DEF EventFrame, Honest
<1> QED
  BY <1>1, SendHonest DEF WriteEvent

LEMMA CursorSendHonest ==
  ASSUME TypeOK, FramesHonest, NEW c \in Streams,
         NEW kind \in {"session.ready", "session.reset"},
         Send(c, CursorFrame(kind, lastSeq[c]))
  PROVE  FramesHonest'
<1>1. lastSeq[c] \in Nat
  BY DEF TypeOK
<1>2. CursorFrame(kind, lastSeq[c]) \in Frame
  BY <1>1, CursorFrameType
<1>3. Honest(CursorFrame(kind, lastSeq[c]))
  BY DEF CursorFrame, Honest
<1> QED
  BY <1>2, <1>3, SendHonest

LEMMA StepFramesHonest ==
  ASSUME IInv, FramesHonest, [Next]_vars
  PROVE  FramesHonest'
<1> USE DEF IInv, StoreInv
<1>1. ASSUME UNCHANGED net PROVE FramesHonest'
  BY <1>1 DEF FramesHonest
<1>2. ASSUME NEW a \in Appenders, NEW s \in Sessions, AppendEvent(a, s) PROVE FramesHonest'
  BY <1>1, <1>2 DEF AppendEvent, clientVars
<1>3. ASSUME NEW a \in Appenders, PublishEvent(a) PROVE FramesHonest'
  BY <1>1, <1>3 DEF PublishEvent, clientVars
<1>4. ASSUME NEW c \in Streams, Connect(c) \/ ReplayRead(c) PROVE FramesHonest'
  BY <1>1, <1>4 DEF Connect, ReplayRead, clientVars
<1>5. ASSUME NEW c \in Streams, ReplayWrite(c) PROVE FramesHonest'
  <2>1. PICK e \in batch[c] : WriteEvent(c, e) \/ UNCHANGED net
    BY <1>5 DEF ReplayWrite
  <2>2. e \in Event
    BY DEF TypeOK
  <2> QED
    BY <1>1, <2>1, <2>2, WriteEventHonest
<1>6. ASSUME NEW c \in Streams, Ready(c) \/ Reset(c) PROVE FramesHonest'
  BY <1>6, CursorSendHonest DEF Ready, Reset
<1>7. ASSUME NEW c \in Streams, LiveWrite(c) PROVE FramesHonest'
  <2>1. WriteEvent(c, Head(buf[c])) \/ UNCHANGED net
    BY <1>7 DEF LiveWrite
  <2>2. Head(buf[c]) \in Event
    BY <1>7, QueueFacts DEF LiveWrite, TypeOK
  <2> QED
    BY <1>1, <2>1, <2>2, WriteEventHonest
<1>8. ASSUME NEW c \in Streams, Drop(c) PROVE FramesHonest'
  <2>1. net'[c] = <<>> /\ \A d \in Streams \ {c} : net'[d] = net[d]
    BY <1>8 DEF Drop, TypeOK
  <2>2. \A i \in 1..Len(net'[c]) : FALSE
    BY <2>1
  <2> QED
    BY <2>1, <2>2 DEF FramesHonest
<1>9. ASSUME NEW c \in Streams, Receive(c) PROVE FramesHonest'
  <2>1. net[c] \in Seq(Frame) /\ net[c] # <<>>
    BY <1>9 DEF Receive, TypeOK
  <2>2. net'[c] = Tail(net[c]) /\ \A d \in Streams \ {c} : net'[d] = net[d]
    BY <1>9 DEF Receive, TypeOK
  <2>3. /\ Len(net[c]) \in Nat /\ Len(net'[c]) = Len(net[c]) - 1
        /\ \A i \in 1..(Len(net[c]) - 1) : net'[c][i] = net[c][i + 1]
    BY <2>1, <2>2, QueueFacts
  <2>4. \A i \in 1..Len(net'[c]) : i + 1 \in 1..Len(net[c]) /\ net'[c][i] = net[c][i + 1]
    BY <2>3
  <2>5. \A j \in 1..Len(net[c]) : Honest(net[c][j])
    BY DEF FramesHonest, Honest
  <2>6. \A i \in 1..Len(net'[c]) : Honest(net'[c][i])
    BY <2>4, <2>5
  <2>7. ASSUME NEW d \in Streams PROVE \A i \in 1..Len(net'[d]) : Honest(net'[d][i])
    <3>1. CASE d = c
      BY <2>6, <3>1
    <3>2. CASE d # c
      BY <2>2, <3>2 DEF FramesHonest, Honest
    <3> QED
      BY <3>1, <3>2
  <2> QED
    BY <2>7 DEF FramesHonest, Honest
<1>10. ASSUME NEW s \in Sessions, DeleteSession(s) \/ CloseStreams(s) PROVE FramesHonest'
  BY <1>1, <1>10 DEF DeleteSession, CloseStreams, clientVars
<1>11. CASE Restart
  BY <1>11 DEF Restart, FramesHonest
<1>12. CASE UNCHANGED vars
  BY <1>1, <1>12 DEF vars, clientVars
<1> QED
  BY <1>2, <1>3, <1>4, <1>5, <1>6, <1>7, <1>8, <1>9, <1>10, <1>11, <1>12 DEF Next

(* The client takes the event numbered one above its cursor, or nothing:   *)
(* that number is in the log, was not rendered, and is covered by the      *)
(* frame at the head, so it is the event of that frame.                    *)
Shows(c) ==
  /\ cursor' = [cursor EXCEPT ![c] = cursor[c] + 1]
  /\ \E e \in Event : /\ e.seq = cursor[c] + 1
                      /\ rendered' = [rendered EXCEPT ![c] = Append(rendered[c], e)]
  /\ cursor[c] + 1 <= seqOf[SessionOf[c]]

LEMMA ReceiveShowsNext ==
  ASSUME FeedInv, NEW c \in Streams, Receive(c)
  PROVE  Shows(c) \/ UNCHANGED <<cursor, rendered>>
<1> USE FeedFacts
<1>1. PICK frame \in Frame : frame = Head(net[c]) /\ frame = net[c][1] /\ 1 \in 1..Len(net[c])
  BY QueueFacts DEF Receive, TypeOK
<1>2. CASE frame.cursor <= cursor[c]
  BY <1>1, <1>2 DEF Receive
<1>3. CASE ~(frame.cursor <= cursor[c])
  <2>1. /\ frame.cursor \in Nat /\ cursor[c] \in Nat /\ lastSeq[c] \in Nat
        /\ seqOf[SessionOf[c]] \in Nat /\ SessionOf[c] \in Sessions
        /\ frame.cursor <= lastSeq[c] /\ lastSeq[c] <= seqOf[SessionOf[c]]
    BY <1>1, PathFacts DEF Frame, IInv, WireOrdered
  <2>2. PICK n \in Nat : n = cursor[c] + 1
    BY <2>1
  <2>3. n \in 1..seqOf[SessionOf[c]] /\ n <= frame.cursor
    BY <1>3, <2>1, <2>2
  <2>4. PICK f \in EventsOf(log, SessionOf[c]) : f.seq = n
    BY <2>1, <2>3 DEF FeedInv, LogWhole
  <2>5. ~Seen(c, f)
    <3> SUFFICES ASSUME NEW i \in 1..Len(rendered[c]), f = rendered[c][i] PROVE FALSE
      BY DEF Seen, Elements
    <3>1. f.seq = i /\ i <= cursor[c]
      BY DEF FeedInv, InStep
    <3> QED
      BY <2>1, <2>2, <2>4, <3>1
  <2>6. Seen(c, f) \/ \E k \in 1..1 : net[c][k].event = f
    BY <1>1, <2>3, <2>4, PathFacts DEF NetCovers
  <2>7. frame.event = f /\ f \in Event
    BY <1>1, <2>5, <2>6 DEF EventsOf, TypeOK
  <2>8. frame.kind = "session.event"
    BY <2>7, StreamAssumption DEF Frame
  <2>9. frame.cursor = n
    BY <1>1, <2>4, <2>7, <2>8 DEF FeedInv, FramesHonest
  <2>10. /\ cursor' = [cursor EXCEPT ![c] = n]
         /\ rendered' = [rendered EXCEPT ![c] = Append(rendered[c], f)]
    BY <1>1, <1>3, <2>7, <2>8, <2>9 DEF Receive
  <2>11. n <= seqOf[SessionOf[c]]
    BY <2>1, <2>3
  <2> QED
    BY <2>2, <2>4, <2>7, <2>10, <2>11 DEF Shows
<1> QED
  BY <1>2, <1>3

LEMMA ShowsInStep ==
  ASSUME TypeOK, NEW c \in Streams, Shows(c), InStep(c)
  PROVE  InStep(c)'
<1>1. PICK e \in Event : /\ e.seq = cursor[c] + 1
                         /\ rendered' = [rendered EXCEPT ![c] = Append(rendered[c], e)]
  BY DEF Shows
<1>2. rendered[c] \in Seq(Event) /\ cursor[c] \in Nat /\ cursor'[c] = cursor[c] + 1
  BY DEF TypeOK, Shows
<1>3. rendered'[c] = Append(rendered[c], e)
  BY <1>1 DEF TypeOK
<1>4. /\ Len(rendered[c]) \in Nat /\ Len(rendered'[c]) = Len(rendered[c]) + 1
      /\ rendered'[c][Len(rendered[c]) + 1] = e
      /\ \A i \in 1..Len(rendered[c]) : rendered'[c][i] = rendered[c][i]
  BY <1>2, <1>3, QueueFacts
<1>5. cursor[c] = Len(rendered[c]) /\ \A i \in 1..Len(rendered[c]) : rendered[c][i].seq = i
  BY DEF InStep
<1>6. ASSUME NEW i \in 1..Len(rendered'[c]) PROVE rendered'[c][i].seq = i
  <2>1. i \in 1..Len(rendered[c]) \/ i = Len(rendered[c]) + 1
    BY <1>4
  <2> QED
    BY <1>1, <1>4, <1>5, <2>1
<1>7. cursor'[c] = Len(rendered'[c])
  BY <1>2, <1>4, <1>5
<1> QED
  BY <1>6, <1>7 DEF InStep

LEMMA OnlyReceiveRenders ==
  ASSUME [Next]_vars, \A c \in Streams : ~Receive(c)
  PROVE  UNCHANGED <<cursor, rendered>>
  BY DEF Next, vars, clientVars, AppendEvent, PublishEvent, Connect, ReplayRead, ReplayWrite,
     Ready, LiveWrite, Reset, Drop, DeleteSession, CloseStreams, Restart

LEMMA StepInStep ==
  ASSUME FeedInv, [Next]_vars
  PROVE  \A c \in Streams : InStep(c)'
<1> USE FeedFacts
<1>1. ASSUME UNCHANGED <<cursor, rendered>> PROVE \A c \in Streams : InStep(c)'
  BY <1>1 DEF FeedInv, InStep
<1>2. ASSUME NEW c \in Streams, Shows(c) PROVE \A d \in Streams : InStep(d)'
  <2>1. InStep(c)'
    BY <1>2, ShowsInStep DEF FeedInv
  <2>2. ASSUME NEW d \in Streams \ {c} PROVE InStep(d)'
    <3>1. cursor'[d] = cursor[d] /\ rendered'[d] = rendered[d]
      BY <1>2 DEF Shows, TypeOK
    <3> QED
      BY <3>1 DEF FeedInv, InStep
  <2> QED
    BY <2>1, <2>2
<1> QED
  BY <1>1, <1>2, ReceiveShowsNext, OnlyReceiveRenders

LEMMA InitFeedInv == Init => FeedInv
<1> SUFFICES ASSUME Init PROVE FeedInv
  OBVIOUS
<1>1. SafeInv
  BY InitSafeInv
<1>2. NoDisturbance
  BY DEF Init, NoDisturbance, FaultKinds
<1>3. LogWhole
  <2>1. Cardinality(log) <= lastID
    BY FS_EmptySet DEF Init
  <2> QED
    BY <2>1, StreamAssumption DEF Init, LogWhole
<1>4. FramesHonest /\ \A c \in Streams : InStep(c)
  BY DEF Init, FramesHonest, InStep
<1> QED
  BY <1>1, <1>2, <1>3, <1>4 DEF FeedInv

LEMMA StepFeedInv ==
  ASSUME Undisturbed, FeedInv, [Next]_vars
  PROVE  FeedInv'
<1>1. SafeInv'
  BY StepSafeInv DEF FeedInv
<1>2. FramesHonest'
  BY StepFramesHonest, FeedFacts DEF FeedInv
<1> QED
  BY <1>1, <1>2, StepNoDisturbance, StepLogWhole, StepInStep DEF FeedInv

(* The mapping: what a client has rendered, by number.                     *)
Shown == [c \in Streams |-> [i \in 1..Len(rendered[c]) |-> rendered[c][i].seq]]

LEMMA ShownCounts ==
  ASSUME FeedInv
  PROVE  /\ cursor \in [Streams -> Nat]
         /\ Shown = [c \in Streams |-> CountTo(cursor[c])]
<1>1. \A c \in Streams : [i \in 1..Len(rendered[c]) |-> rendered[c][i].seq] = CountTo(cursor[c])
  BY DEF FeedInv, InStep, CountTo
<1> QED
  BY <1>1, FeedFacts DEF Shown, TypeOK

LEMMA MappedShow ==
  ASSUME FeedInv, FeedInv', NEW c \in Streams, Shows(c), UNCHANGED seqOf
  PROVE  /\ Len(Shown[c]) < seqOf[SessionOf[c]]
         /\ Shown' = [Shown EXCEPT ![c] = Append(Shown[c], Len(Shown[c]) + 1)]
<1>1. PICK cur : cur = cursor
  OBVIOUS
<1>2. PICK cur2 : cur2 = cursor'
  OBVIOUS
<1>3. cur \in [Streams -> Nat] /\ cur2 = [cur EXCEPT ![c] = cur[c] + 1]
  BY <1>1, <1>2, ShownCounts DEF Shows
<1>4. Shown = [d \in Streams |-> CountTo(cur[d])]
  BY <1>1, ShownCounts
<1>5. Shown' = [d \in Streams |-> CountTo(cur2[d])]
  <2>1. \A d \in Streams :
          [i \in 1..Len(rendered'[d]) |-> rendered'[d][i].seq] = CountTo(cursor'[d])
    BY DEF FeedInv, InStep, CountTo
  <2> QED
    BY <1>2, <2>1 DEF Shown
<1>6. Shown[c] = CountTo(cur[c]) /\ Len(Shown[c]) = cur[c]
  BY <1>3, <1>4, CountToIsSeq
<1>7. Append(Shown[c], Len(Shown[c]) + 1) = CountTo(cur[c] + 1)
  BY <1>3, <1>6, CountToNext
<1>8. [d \in Streams |-> CountTo(cur2[d])]
        = [[d \in Streams |-> CountTo(cur[d])] EXCEPT ![c] = CountTo(cur[c] + 1)]
  BY <1>3
<1>9. cur[c] < seqOf[SessionOf[c]]
  BY <1>1, <1>3, FeedFacts, PathFacts DEF Shows
<1> QED
  BY <1>4, <1>5, <1>6, <1>7, <1>8, <1>9

LEMMA InitMapped == Init => Feed!Init
<1> SUFFICES ASSUME Init PROVE Feed!Init
  OBVIOUS
<1>1. FeedInv
  BY InitFeedInv
<1>2. \A c \in Streams : CountTo(cursor[c]) = <<>>
  BY CountToZero DEF Init
<1>3. Shown = [c \in Streams |-> <<>>]
  BY <1>1, <1>2, ShownCounts
<1> QED
  BY <1>3 DEF Init, Feed!Init, Shown

LEMMA MappedStep ==
  ASSUME Undisturbed, FeedInv, FeedInv', [Next]_vars
  PROVE  [Feed!Next]_<<seqOf, Shown>>
<1> USE FeedFacts
<1>1. ASSUME UNCHANGED <<seqOf, rendered>> PROVE UNCHANGED <<seqOf, Shown>>
  BY <1>1 DEF Shown
<1>2. ASSUME NEW a \in Appenders, NEW s \in Sessions, AppendEvent(a, s) PROVE Feed!Next
  <2>1. seqOf' = [seqOf EXCEPT ![s] = seqOf[s] + 1] /\ rendered' = rendered
    BY <1>2 DEF AppendEvent, NextSeq, clientVars
  <2>2. Feed!Append1(s)
    BY <2>1 DEF Feed!Append1
  <2> QED
    BY <2>2 DEF Feed!Next
<1>3. ASSUME NEW c \in Streams, Receive(c) PROVE [Feed!Next]_<<seqOf, Shown>>
  <2>1. UNCHANGED seqOf
    BY <1>3 DEF Receive, storeVars
  <2>2. CASE Shows(c)
    <3>1. Feed!Show(c)
      BY <2>1, <2>2, MappedShow DEF Feed!Show, Shown
    <3> QED
      BY <3>1 DEF Feed!Next
  <2> QED
    BY <1>1, <1>3, <2>1, <2>2, ReceiveShowsNext
<1>4. CASE Restart
  <2>1. \A s \in Sessions : LoadedSeq(s, CapTail(disk.log)) = disk.seqOf[s]
    BY LoadedSeqIsSaved DEF CapTail, IInv
  <2>2. seqOf' = seqOf
    BY <1>4, <2>1 DEF Restart, TypeOK, DiskCurrent
  <2> QED
    BY <1>1, <1>4, <2>2 DEF Restart
<1>5. ASSUME NEW s \in Sessions, DeleteSession(s) PROVE FALSE
  BY <1>5 DEF DeleteSession, Undisturbed
<1>6. CASE /\ UNCHANGED <<seqOf, rendered>>
  BY <1>1, <1>6
<1>7. \/ \E a \in Appenders, s \in Sessions : AppendEvent(a, s)
      \/ \E c \in Streams : Receive(c)
      \/ \E s \in Sessions : DeleteSession(s)
      \/ Restart
      \/ UNCHANGED <<seqOf, rendered>>
  BY DEF Next, vars, storeVars, clientVars, PublishEvent, Connect, ReplayRead, ReplayWrite,
     Ready, LiveWrite, Reset, Drop, CloseStreams
<1> QED
  BY <1>2, <1>3, <1>4, <1>5, <1>6, <1>7

(* What every client sees is a behaviour of the feed the contract          *)
(* promises, for any number of clients, appenders, restarts and lost       *)
(* connections: 1, 2, 3, ..., each once.  The constants exclude what the   *)
(* code does not make up for: deletion, eviction, a failed save and a      *)
(* publication out of order.                                               *)
THEOREM StreamsImplementFeed ==
  ASSUME Deletable = {}, MaxFaults["save"] = 0, MaxFaults["overtake"] = 0,
         MaxEvents <= EventsMax
  PROVE  Spec => ImplementsFeed
<1>1. Undisturbed
  BY DEF Undisturbed
<1>2. Init => FeedInv /\ Feed!Init
  BY InitFeedInv, InitMapped
<1>3. FeedInv /\ [Next]_vars => FeedInv'
  BY <1>1, StepFeedInv
<1>4. FeedInv /\ FeedInv' /\ [Next]_vars => [Feed!Next]_(Feed!feedVars)
  BY <1>1, MappedStep DEF Feed!feedVars, Shown
<1> QED
  BY <1>2, <1>3, <1>4, PTL DEF Spec, ImplementsFeed, Feed!Spec
=============================================================================
