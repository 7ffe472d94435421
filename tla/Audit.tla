-------------------------------- MODULE Audit --------------------------------
(***************************************************************************)
(* The audit of requests: requestLogMiddleware, enqueueAuditEvent and      *)
(* startAuditWriter of src/server/internal/api/server.go, AddAuditEvents of*)
(* the store.  An event is its number, in the order in which they are      *)
(* offered to the queue.  The store changes memory and then writes the     *)
(* file, under one lock; a failed save leaves memory ahead of the file.    *)
(***************************************************************************)
EXTENDS Naturals, Sequences

CONSTANTS
  QueueSize,      (* auditQueueSize                                         *)
  BatchSize,      (* auditBatchSize                                         *)
  Retention,      (* AuditEventsMax                                         *)
  MaxEvents,      (* bound on requests                                      *)
  MaxFaults       (* bound on failed saves and on restarts                  *)

VARIABLES
  queue,      (* auditEvents                                                *)
  batch,      (* what the writer has taken and not stored                   *)
  stored,     (* the events of the store                                    *)
  saved,      (* those in the file                                          *)
  dropped,    (* droppedAudits                                              *)
  offered,    (* events so far                                              *)
  evicted,    (* ghost: events that made room for newer ones                *)
  failures, restarts

vars == <<queue, batch, stored, saved, dropped, offered, evicted, failures, restarts>>
faults == <<failures, restarts>>

CapTail(s) ==
  IF Len(s) > Retention THEN SubSeq(s, Len(s) - Retention + 1, Len(s)) ELSE s

(* AddAuditEvents with the events of a batch; the writer forgets them      *)
(* whether they could be saved or not.                                     *)
Flush(events) ==
  LET kept == CapTail(stored \o events)
  IN /\ batch' = <<>>
     /\ stored' = kept
     /\ evicted' = evicted + Len(stored) + Len(events) - Len(kept)
     /\ \/ saved' = kept /\ UNCHANGED failures
        \/ failures < MaxFaults /\ failures' = failures + 1 /\ UNCHANGED saved

(* A request was answered: enqueueAuditEvent.                              *)
EnqueueAuditEvent ==
  /\ offered < MaxEvents
  /\ offered' = offered + 1
  /\ IF Len(queue) < QueueSize
     THEN queue' = Append(queue, offered + 1) /\ UNCHANGED dropped
     ELSE dropped' = dropped + 1 /\ UNCHANGED queue
  /\ UNCHANGED <<batch, stored, saved, evicted, faults>>

(* Mutation: the events of a full batch are not taken out of it.           *)
TakeKeepingBatch ==
  /\ queue # <<>>
  /\ queue' = Tail(queue)
  /\ batch' = Append(batch, Head(queue))
  /\ IF Len(batch) + 1 >= BatchSize
     THEN stored' = CapTail(stored \o batch') /\ saved' = stored'
     ELSE UNCHANGED <<stored, saved>>
  /\ UNCHANGED <<dropped, offered, evicted, faults>>

Take ==
  /\ queue # <<>>
  /\ queue' = Tail(queue)
  /\ IF Len(batch) + 1 >= BatchSize
     THEN Flush(Append(batch, Head(queue))) /\ UNCHANGED restarts
     ELSE batch' = Append(batch, Head(queue)) /\ UNCHANGED <<stored, saved, evicted, faults>>
  /\ UNCHANGED <<dropped, offered>>

Tick ==
  /\ batch # <<>>
  /\ Flush(batch)
  /\ UNCHANGED <<queue, dropped, offered, restarts>>

(* Another operation of the store writes the file.                         *)
OtherSave ==
  /\ saved # stored
  /\ saved' = stored
  /\ UNCHANGED <<queue, batch, stored, dropped, offered, evicted, faults>>

(* The process ends and is started again with what the file holds.         *)
Restart ==
  /\ restarts < MaxFaults
  /\ restarts' = restarts + 1
  /\ queue' = <<>> /\ batch' = <<>>
  /\ stored' = saved
  /\ dropped' = 0
  /\ UNCHANGED <<saved, offered, evicted, failures>>

Init ==
  /\ queue = <<>> /\ batch = <<>> /\ stored = <<>> /\ saved = <<>>
  /\ dropped = 0 /\ offered = 0 /\ evicted = 0 /\ failures = 0 /\ restarts = 0

Next == EnqueueAuditEvent \/ Take \/ Tick \/ OtherSave \/ Restart

Spec == Init /\ [][Next]_vars

-----------------------------------------------------------------------------
(* Properties.                                                             *)

TypeOK ==
  /\ Len(queue) <= QueueSize
  /\ Len(stored) <= Retention /\ Len(saved) <= Retention
  /\ dropped <= offered

(* What is stored, taken and queued, in this order, is in the order of the *)
(* requests and holds none twice, after failed saves and restarts too; the *)
(* writer never holds a full batch; and while the process lives an event   *)
(* that is in none of these was counted as dropped, or made room for newer *)
(* ones in a store that is full, whatever saves failed.                    *)
AuditFaithful ==
  LET kept == stored \o batch \o queue
  IN /\ \A j, k \in DOMAIN kept : j < k => kept[j] < kept[k]
     /\ Len(batch) < BatchSize
     /\ restarts = 0 =>
          /\ offered = Len(kept) + dropped + evicted
          /\ evicted > 0 => Len(stored) = Retention
=============================================================================
