------------------------------ MODULE JobQueue ------------------------------
(***************************************************************************)
(* The asynchronous jobs of the server: requests that create and enqueue   *)
(* them, the workers that execute them, requests that cancel them, and the *)
(* recovery of the stored ones when the server starts                      *)
(* (internal/api/server.go, internal/api/session_binding.go and the job    *)
(* records of internal/store/store.go).                                    *)
(*                                                                         *)
(* A job is known in five places that are never locked together: its       *)
(* record, the channel of job ids, the worker executing it, the last run   *)
(* of its session, and the lifecycle events of the session.  The records,  *)
(* the sessions and the events are in the store: every write of the store  *)
(* saves all of it, so a later write also saves what an earlier failed     *)
(* save left in memory.                                                    *)
(***************************************************************************)
EXTENDS Naturals, Sequences, FiniteSets

CONSTANTS
  Jobs,         (* one job, and one enqueue request, each                   *)
  SyncJobs,     (* the jobs of type "sync"; the others are of type "run"    *)
  Sessions,     (* session ids                                              *)
  SessionOf,    (* the session of each run job                              *)
  Workers,      (* worker goroutines (3 in the code)                        *)
  Cancelers,    (* cancel requests                                          *)
  QueueSize,    (* capacity of the channel of job ids (512 in the code)     *)
  RunJobsMax,   (* RetentionPolicy.RunJobsMax                               *)
  RecoverMax,   (* job records recovery looks at (1000 in the code)         *)
  MaxFaults,    (* bound: failed saves and restarts                         *)
  NoJob

RunJobs == Jobs \ SyncJobs
FaultKinds == {"save", "restart"}
Final == {"succeeded", "failed", "canceled"}
Status == {"pending", "running"} \cup Final

ASSUME JobAssumption ==
  /\ IsFiniteSet(Jobs)
  /\ SyncJobs \subseteq Jobs
  /\ SessionOf \in [RunJobs -> Sessions]
  /\ QueueSize \in Nat \ {0}
  /\ RunJobsMax \in Nat \ {0}
  /\ RecoverMax \in Nat
  /\ MaxFaults \in [FaultKinds -> Nat]
  /\ NoJob \notin Jobs

VARIABLES
  mem, disk,    (* the store in memory and in its file: status, last, told  *)
  added,        (* ghost: the order in which records were added; 0: not yet *)
  enq,          (* where the request that creates each job is               *)
  queue,        (* the channel of job ids                                   *)
  worker,       (* what each worker is doing                                *)
  registered,   (* jobs whose cancel function is in Server.cancels          *)
  cancelRq,     (* jobs in Server.cancelRq                                  *)
  ctxDone,      (* jobs whose context has been canceled                     *)
  canceler,     (* where each cancel request is                             *)
  recovery,     (* records recovery has still to treat, and where it is     *)
  starts,       (* ghost: how often a job has begun to execute              *)
  answers,      (* ghost: what cancel requests have answered                *)
  faults        (* ghost: faults so far                                     *)

storeVars  == <<mem, disk, faults>>
cancelVars == <<cancelRq, ctxDone>>
ghostVars  == <<starts, answers>>
vars == <<storeVars, added, enq, queue, worker, registered, cancelVars, canceler,
          recovery, ghostVars>>

-----------------------------------------------------------------------------
(* The store.  status[j] is "none" while there is no record of j; last[s]  *)
(* is LastRunID and LastStatus of session s; told[j] are the final events  *)
(* (job.succeeded, job.failed, job.canceled) in the log of j's session.    *)

Fault(kind) ==
  /\ faults[kind] < MaxFaults[kind]
  /\ faults' = [faults EXCEPT ![kind] = @ + 1]

Saves(state) == mem' = state /\ disk' = state /\ UNCHANGED faults

SaveFails(state) == mem' = state /\ UNCHANGED disk /\ Fault("save")

(* A write whose error the caller ignores.                                 *)
Put(state) == Saves(state) \/ SaveFails(state)

Stored(j) == mem.status[j] # "none"

WithStatus(j, status) == [mem EXCEPT !.status[j] = status]

(* UpdateRunJob with the error ignored; nothing is written when there is   *)
(* no record to update.                                                    *)
UpdateRunJob(j, status) ==
  IF Stored(j) THEN Put(WithStatus(j, status)) ELSE UNCHANGED storeVars

(* updateSessionRunState: the session of a sync job does not exist.        *)
UpdateSessionRunState(j, status) ==
  IF j \in RunJobs
  THEN Put([mem EXCEPT !.last[SessionOf[j]] = [run |-> j, status |-> status]])
  ELSE UNCHANGED storeVars

AppendFinalEvent(j, status) == Put([mem EXCEPT !.told[j] = @ \cup {status}])

Newer(j, S) == {k \in S : added[k] > added[j]}

(* The records capTail keeps when one more is added.                       *)
Kept ==
  LET stored == {j \in Jobs : Stored(j)}
  IN {j \in stored : Cardinality(Newer(j, stored)) + 1 < RunJobsMax}

-----------------------------------------------------------------------------
(* The requests that create jobs: handleEnqueueRunJob, handleEnqueueSyncJob *)

Serving == recovery.todo = {} /\ recovery.at = "next"

(* ensureSessionBinding: the session shows the job before its record       *)
(* exists.  An error answers 500.                                          *)
BindSession(j) ==
  LET bound == [mem EXCEPT !.last[SessionOf[j]] = [run |-> j, status |-> "pending"]]
  IN /\ Serving
     /\ j \in RunJobs
     /\ enq[j] = "new"
     /\ \/ Saves(bound) /\ enq' = [enq EXCEPT ![j] = "bound"]
        \/ SaveFails(bound) /\ enq' = [enq EXCEPT ![j] = "refused"]
     /\ UNCHANGED <<added, queue, worker, registered, cancelVars, canceler, recovery, ghostVars>>

(* AddRunJob appends the record and evicts the oldest ones, finished or    *)
(* not.                                                                    *)
AddRunJob(j) ==
  LET next == [mem EXCEPT !.status = [k \in Jobs |-> IF k \in Kept THEN @[k] ELSE "none"],
                          !.status[j] = "pending"]
  IN /\ Serving
     /\ enq[j] = IF j \in RunJobs THEN "bound" ELSE "new"
     /\ added' = [added EXCEPT ![j] = Cardinality({k \in Jobs : added[k] > 0}) + 1]
     /\ \/ Saves(next) /\ enq' = [enq EXCEPT ![j] = "added"]
        \/ SaveFails(next) /\ enq' = [enq EXCEPT ![j] = "refused"]
     /\ UNCHANGED <<queue, worker, registered, cancelVars, canceler, recovery, ghostVars>>

(* Mutation: one id more than the channel holds.                           *)
HasRoomForOneMore == Len(queue) <= QueueSize

HasRoom == Len(queue) < QueueSize

(* enqueueStoredJob: a non-blocking send, then the answer 202.             *)
EnqueueStoredJob(j) ==
  /\ enq[j] = "added"
  /\ IF HasRoom
     THEN queue' = Append(queue, j) /\ enq' = [enq EXCEPT ![j] = "accepted"]
     ELSE UNCHANGED queue /\ enq' = [enq EXCEPT ![j] = "full"]
  /\ UNCHANGED <<storeVars, added, worker, registered, cancelVars, canceler, recovery, ghostVars>>

(* "job queue is full": the record, then the session, then the answer 503. *)
FailFullRecord(j) ==
  /\ enq[j] = "full"
  /\ enq' = [enq EXCEPT ![j] = "failed"]
  /\ UpdateRunJob(j, "failed")
  /\ UNCHANGED <<added, queue, worker, registered, cancelVars, canceler, recovery, ghostVars>>

FailFullSession(j) ==
  /\ enq[j] = "failed"
  /\ enq' = [enq EXCEPT ![j] = "rejected"]
  /\ UpdateSessionRunState(j, "failed")
  /\ UNCHANGED <<added, queue, worker, registered, cancelVars, canceler, recovery, ghostVars>>

-----------------------------------------------------------------------------
(* The workers: runJobWorker, executeQueuedJob, executeQueuedRunJob,       *)
(* executeQueuedSyncJob.                                                   *)

Idle == [at |-> "idle", job |-> NoJob, final |-> "none"]

Goto(w, at) == worker' = [worker EXCEPT ![w].at = at]

Executable(j) == mem.status[j] = "pending"

(* The record is read when the id leaves the channel.                      *)
Fetch(w) ==
  /\ worker[w].at = "idle"
  /\ queue # <<>>
  /\ queue' = Tail(queue)
  /\ worker' = [worker EXCEPT ![w] = IF Executable(Head(queue))
                                      THEN [Idle EXCEPT !.at = "fetched", !.job = Head(queue)]
                                      ELSE Idle]
  /\ UNCHANGED <<storeVars, added, enq, registered, cancelVars, canceler, recovery, ghostVars>>

(* Mutation: the worker goes on when the record could not be saved.        *)
StartIgnoringError(w, j) ==
  IF Stored(j) THEN Put(WithStatus(j, "running")) /\ Goto(w, "started")
  ELSE UNCHANGED storeVars /\ worker' = [worker EXCEPT ![w] = Idle]

(* The copy read by Fetch, now running, replaces the record.  The worker   *)
(* gives up when there is no record any more or the save fails.            *)
SaveRunning(w, j) ==
  \/ /\ Stored(j)
     /\ Saves(WithStatus(j, "running"))
     /\ Goto(w, "started")
  \/ /\ Stored(j)
     /\ SaveFails(WithStatus(j, "running"))
     /\ worker' = [worker EXCEPT ![w] = Idle]
  \/ /\ ~Stored(j)
     /\ UNCHANGED storeVars
     /\ worker' = [worker EXCEPT ![w] = Idle]

StartRecord(w) ==
  /\ worker[w].at = "fetched"
  /\ SaveRunning(w, worker[w].job)
  /\ UNCHANGED <<added, enq, queue, registered, cancelVars, canceler, recovery, ghostVars>>

StartSession(w) ==
  /\ worker[w].at = "started"
  /\ UpdateSessionRunState(worker[w].job, "running")
  /\ Goto(w, "announced")
  /\ UNCHANGED <<added, enq, queue, registered, cancelVars, canceler, recovery, ghostVars>>

(* registerRunningJob, after the event job.running; execution begins.      *)
Register(w) ==
  LET j == worker[w].job
  IN /\ worker[w].at = "announced"
     /\ Goto(w, "executing")
     /\ registered' = registered \cup {j}
     /\ starts' = [starts EXCEPT ![j] = @ + 1]
     /\ UNCHANGED <<storeVars, added, enq, queue, cancelVars, canceler, recovery, answers>>

(* The request cannot be prepared (its hosts are gone, its source path is  *)
(* invalid).  A run job fails without looking at cancelRq.                 *)
PrepareFails(w) ==
  LET j == worker[w].job
      canceled == j \in SyncJobs /\ j \in cancelRq
  IN /\ worker[w].at = "executing"
     /\ worker' = [worker EXCEPT ![w].at = IF j \in RunJobs THEN "unprepared" ELSE "settling",
                                 ![w].final = IF canceled THEN "canceled" ELSE "failed"]
     /\ cancelRq' = IF j \in SyncJobs THEN cancelRq \ {j} ELSE cancelRq
     /\ UNCHANGED <<storeVars, added, enq, queue, registered, ctxDone, canceler, recovery, ghostVars>>

(* The hosts have answered, timed out or been canceled, with whatever      *)
(* result; only takeJobCancelRequested decides how the job ends.           *)
Complete(w) ==
  LET j == worker[w].job
  IN /\ worker[w].at = "executing"
     /\ worker' = [worker EXCEPT ![w].at = IF j \in RunJobs THEN "completed" ELSE "settling",
                                 ![w].final = IF j \in cancelRq THEN "canceled" ELSE "succeeded"]
     /\ cancelRq' = cancelRq \ {j}
     /\ UNCHANGED <<storeVars, added, enq, queue, registered, ctxDone, canceler, recovery, ghostVars>>

(* A run job appends its final event before it updates its record.         *)
AnnounceFinal(w) ==
  /\ worker[w].at = "completed"
  /\ AppendFinalEvent(worker[w].job, worker[w].final)
  /\ Goto(w, "settling")
  /\ UNCHANGED <<added, enq, queue, registered, cancelVars, canceler, recovery, ghostVars>>

FinalRecord(w) == UpdateRunJob(worker[w].job, worker[w].final)

SettleRecord(w) ==
  /\ worker[w].at \in {"settling", "unprepared"}
  /\ FinalRecord(w)
  /\ Goto(w, IF worker[w].at = "settling" THEN "settled" ELSE "unpreparedSettled")
  /\ UNCHANGED <<added, enq, queue, registered, cancelVars, canceler, recovery, ghostVars>>

(* Mutation: the session keeps showing the job as running.                 *)
FinalSessionForgotten(w) == UNCHANGED storeVars

FinalSession(w) == UpdateSessionRunState(worker[w].job, worker[w].final)

Finish(w) ==
  /\ worker' = [worker EXCEPT ![w] = Idle]
  /\ registered' = registered \ {worker[w].job}

SettleSession(w) ==
  /\ FinalSession(w)
  /\ \/ worker[w].at = "settled" /\ Finish(w)
     \/ worker[w].at = "unpreparedSettled" /\ Goto(w, "unpreparedMarked") /\ UNCHANGED registered
  /\ UNCHANGED <<added, enq, queue, cancelVars, canceler, recovery, ghostVars>>

(* A run job that could not be prepared appends its event last.            *)
AnnounceUnprepared(w) ==
  /\ worker[w].at = "unpreparedMarked"
  /\ AppendFinalEvent(worker[w].job, worker[w].final)
  /\ Finish(w)
  /\ UNCHANGED <<added, enq, queue, cancelVars, canceler, recovery, ghostVars>>

-----------------------------------------------------------------------------
(* Cancel requests: handleCancelRunJob.                                    *)

(* The record is read and its status decides; a finished job is a          *)
(* conflict and changes nothing.                                           *)
CancelRead(k, j) ==
  /\ Serving
  /\ canceler[k].at = "new"
  /\ mem.status[j] \in {"pending", "running"}
  /\ canceler' = [canceler EXCEPT ![k] = [at |-> mem.status[j], job |-> j]]
  /\ UNCHANGED <<storeVars, added, enq, queue, worker, registered, cancelVars, recovery, ghostVars>>

CancelerTo(k, at) == canceler' = [canceler EXCEPT ![k].at = at]

CancelRecord(k) ==
  LET j == canceler[k].job
  IN /\ canceler[k].at = "pending"
     /\ \/ Stored(j) /\ Saves(WithStatus(j, "canceled")) /\ CancelerTo(k, "recorded")
        \/ Stored(j) /\ SaveFails(WithStatus(j, "canceled")) /\ CancelerTo(k, "done")
        \/ ~Stored(j) /\ UNCHANGED storeVars /\ CancelerTo(k, "done")
     /\ UNCHANGED <<added, enq, queue, worker, registered, cancelVars, recovery, ghostVars>>

CancelSession(k) ==
  /\ canceler[k].at = "recorded"
  /\ UpdateSessionRunState(canceler[k].job, "canceled")
  /\ CancelerTo(k, "marked")
  /\ UNCHANGED <<added, enq, queue, worker, registered, cancelVars, recovery, ghostVars>>

(* The event job.canceled and the answer 200, "canceled".                  *)
CancelAnswer(k) ==
  /\ canceler[k].at = "marked"
  /\ AppendFinalEvent(canceler[k].job, "canceled")
  /\ CancelerTo(k, "done")
  /\ answers' = [answers EXCEPT ![canceler[k].job] = @ \cup {"canceled"}]
  /\ UNCHANGED <<added, enq, queue, worker, registered, cancelVars, recovery, starts>>

(* requestJobCancel and the answer 202, "cancel_requested".                *)
CancelRequest(k) ==
  LET j == canceler[k].job
  IN /\ canceler[k].at = "running"
     /\ cancelRq' = cancelRq \cup {j}
     /\ ctxDone' = IF j \in registered THEN ctxDone \cup {j} ELSE ctxDone
     /\ CancelerTo(k, "done")
     /\ answers' = [answers EXCEPT ![j] = @ \cup {"cancel_requested"}]
     /\ UNCHANGED <<storeVars, added, enq, queue, worker, registered, recovery, starts>>

-----------------------------------------------------------------------------
(* Restart and recovery.                                                   *)

(* Any other write of the store also saves what is in memory.              *)
OtherSave ==
  /\ disk # mem
  /\ disk' = mem
  /\ UNCHANGED <<mem, faults, added, enq, queue, worker, registered, cancelVars,
                 canceler, recovery, ghostVars>>

Answered == {"accepted", "rejected", "refused"}

(* Mutation: recovery looks at one record less.                            *)
RecoverableButOldest ==
  LET stored == {j \in Jobs : disk.status[j] # "none"}
  IN {j \in stored : Cardinality(Newer(j, stored)) + 1 < RecoverMax}

(* ListRunJobs of the file loaded: its newest RecoverMax records.          *)
Recoverable ==
  LET stored == {j \in Jobs : disk.status[j] # "none"}
  IN {j \in stored : Cardinality(Newer(j, stored)) < RecoverMax}

(* The process ends and a new one loads the file.  Requests still without  *)
(* an answer never get one.                                                *)
Restart ==
  /\ Fault("restart")
  /\ mem' = disk
  /\ enq' = [j \in Jobs |-> IF enq[j] \in Answered \cup {"new"} THEN enq[j] ELSE "lost"]
  /\ queue' = <<>>
  /\ worker' = [w \in Workers |-> Idle]
  /\ registered' = {}
  /\ cancelRq' = {}
  /\ ctxDone' = {}
  /\ canceler' = [k \in Cancelers |-> IF canceler[k].at = "new" THEN canceler[k]
                                      ELSE [canceler[k] EXCEPT !.at = "done"]]
  /\ recovery' = [todo |-> Recoverable, at |-> "next", job |-> NoJob]
  /\ UNCHANGED <<disk, added, ghostVars>>

RecoverTo(at) == recovery' = [recovery EXCEPT !.at = at]

Oldest == {j \in recovery.todo : \A k \in recovery.todo : added[j] <= added[k]}

(* Mutation: recovery leaves the jobs that were running as they are.       *)
NeverInterrupted(j) == FALSE

Interrupted(j) == mem.status[j] = "running"

(* recoverRunJobs, oldest record first: a pending job goes back to the     *)
(* queue, or fails when the queue is full; a running one fails.            *)
RecoverNext ==
  \E j \in Oldest :
    LET rest == recovery.todo \ {j}
    IN /\ recovery.at = "next"
       /\ \/ /\ mem.status[j] = "pending" /\ HasRoom
             /\ queue' = Append(queue, j)
             /\ recovery' = [recovery EXCEPT !.todo = rest]
          \/ /\ mem.status[j] = "pending" /\ ~HasRoom
             /\ recovery' = [todo |-> rest, at |-> "full", job |-> j]
             /\ UNCHANGED queue
          \/ /\ Interrupted(j)
             /\ recovery' = [todo |-> rest, at |-> "interrupted", job |-> j]
             /\ UNCHANGED queue
          \/ /\ mem.status[j] # "pending" /\ ~Interrupted(j)
             /\ recovery' = [recovery EXCEPT !.todo = rest]
             /\ UNCHANGED queue
       /\ UNCHANGED <<storeVars, added, enq, worker, registered, cancelVars, canceler, ghostVars>>

(* The two ways to fail a job differ when the save fails, which only the   *)
(* interrupted one heeds, and in the event, which only it appends.         *)
RecoverRecord ==
  LET failed == WithStatus(recovery.job, "failed")
  IN /\ \/ recovery.at = "full" /\ Put(failed) /\ RecoverTo("fullSession")
        \/ recovery.at = "interrupted" /\ Saves(failed) /\ RecoverTo("session")
        \/ recovery.at = "interrupted" /\ SaveFails(failed) /\ RecoverTo("next")
     /\ UNCHANGED <<added, enq, queue, worker, registered, cancelVars, canceler, ghostVars>>

RecoverSession ==
  /\ \/ recovery.at = "fullSession" /\ RecoverTo("next")
     \/ recovery.at = "session" /\ RecoverTo("event")
  /\ UpdateSessionRunState(recovery.job, "failed")
  /\ UNCHANGED <<added, enq, queue, worker, registered, cancelVars, canceler, ghostVars>>

RecoverEvent ==
  /\ recovery.at = "event"
  /\ AppendFinalEvent(recovery.job, "failed")
  /\ RecoverTo("next")
  /\ UNCHANGED <<added, enq, queue, worker, registered, cancelVars, canceler, ghostVars>>

-----------------------------------------------------------------------------
EmptyStore ==
  [status |-> [j \in Jobs |-> "none"],
   last   |-> [s \in Sessions |-> [run |-> NoJob, status |-> "none"]],
   told   |-> [j \in Jobs |-> {}]]

Init ==
  /\ mem = EmptyStore
  /\ disk = EmptyStore
  /\ added = [j \in Jobs |-> 0]
  /\ enq = [j \in Jobs |-> "new"]
  /\ queue = <<>>
  /\ worker = [w \in Workers |-> Idle]
  /\ registered = {}
  /\ cancelRq = {}
  /\ ctxDone = {}
  /\ canceler = [k \in Cancelers |-> [at |-> "new", job |-> NoJob]]
  /\ recovery = [todo |-> {}, at |-> "next", job |-> NoJob]
  /\ starts = [j \in Jobs |-> 0]
  /\ answers = [j \in Jobs |-> {}]
  /\ faults = [k \in FaultKinds |-> 0]

Request(j) ==
  \/ BindSession(j)
  \/ AddRunJob(j)
  \/ EnqueueStoredJob(j)
  \/ FailFullRecord(j)
  \/ FailFullSession(j)

Work(w) ==
  \/ Fetch(w)
  \/ StartRecord(w)
  \/ StartSession(w)
  \/ Register(w)
  \/ PrepareFails(w)
  \/ Complete(w)
  \/ AnnounceFinal(w)
  \/ SettleRecord(w)
  \/ SettleSession(w)
  \/ AnnounceUnprepared(w)

Cancel(k) ==
  \/ \E j \in Jobs : CancelRead(k, j)
  \/ CancelRecord(k)
  \/ CancelSession(k)
  \/ CancelAnswer(k)
  \/ CancelRequest(k)

Recover ==
  \/ RecoverNext
  \/ RecoverRecord
  \/ RecoverSession
  \/ RecoverEvent

Next ==
  \/ \E j \in Jobs : Request(j)
  \/ \E w \in Workers : Work(w)
  \/ \E k \in Cancelers : Cancel(k)
  \/ Recover
  \/ OtherSave
  \/ Restart

Spec == Init /\ [][Next]_vars

(* Goroutines that can run do; an execution ends because its context has a *)
(* timeout.  Nothing obliges anybody to submit or to cancel a job.         *)
Fairness ==
  /\ \A j \in Jobs : WF_vars(EnqueueStoredJob(j) \/ FailFullRecord(j) \/ FailFullSession(j))
  /\ \A w \in Workers : WF_vars(Work(w))
  /\ WF_vars(Recover)

FairSpec == Spec /\ Fairness

-----------------------------------------------------------------------------
(* Properties.                                                             *)

State ==
  [status : [Jobs -> Status \cup {"none"}],
   last   : [Sessions -> [run : Jobs \cup {NoJob}, status : Status \cup {"none"}]],
   told   : [Jobs -> SUBSET Final]]

Ending == {"completed", "settling", "settled", "unprepared", "unpreparedSettled",
           "unpreparedMarked"}

WorkerAt == {"idle", "fetched", "started", "announced", "executing"} \cup Ending

(* The states of requests, workers, cancel requests and recovery are those *)
(* of the code, and the channel of job ids never exceeds its capacity.     *)
TypeOK ==
  /\ mem \in State
  /\ disk \in State
  /\ added \in [Jobs -> Nat]
  /\ enq \in [Jobs -> Answered \cup {"new", "bound", "added", "full", "failed", "lost"}]
  /\ queue \in Seq(Jobs)
  /\ Len(queue) <= QueueSize
  /\ worker \in [Workers -> [at : WorkerAt, job : Jobs \cup {NoJob}, final : Final \cup {"none"}]]
  /\ \A w \in Workers : /\ worker[w].at # "idle" => worker[w].job \in Jobs
                        /\ worker[w].at \in Ending => worker[w].final \in Final
  /\ registered \subseteq Jobs
  /\ cancelRq \subseteq Jobs
  /\ ctxDone \subseteq Jobs
  /\ canceler \in [Cancelers -> [at : {"new", "pending", "running", "recorded", "marked", "done"},
                                 job : Jobs \cup {NoJob}]]
  /\ \A k \in Cancelers : canceler[k].at \notin {"new", "done"} => canceler[k].job \in Jobs
  /\ recovery \in [todo : SUBSET Jobs,
                    at : {"next", "full", "fullSession", "interrupted", "session", "event"},
                    job : Jobs \cup {NoJob}]
  /\ recovery.at # "next" => recovery.job \in Jobs
  /\ starts \in [Jobs -> Nat]
  /\ answers \in [Jobs -> SUBSET {"canceled", "cancel_requested"}]
  /\ faults \in [FaultKinds -> Nat]

(* A job executes at most once, whatever fails: not again after a restart, *)
(* not twice because recovery and a request both enqueued it, not after a  *)
(* record that could not be saved.                                         *)
StartedOnce == \A j \in Jobs : starts[j] <= 1

InQueue(j) == \E i \in 1..Len(queue) : queue[i] = j

HeldBy(j, at) == \E w \in Workers : worker[w].job = j /\ worker[w].at \in at

Recovering(j, at) == j \in recovery.todo \/ (recovery.job = j /\ recovery.at = at)

(* As long as the file can be written, every record that is not final has  *)
(* somebody who will make it so: a pending one is on its way through the   *)
(* queue, a running one is in the hands of a worker, or recovery has yet   *)
(* to see it.                                                              *)
NoOrphan ==
  faults["save"] = 0 =>
    \A j \in Jobs :
      /\ mem.status[j] = "pending" => \/ InQueue(j)
                                      \/ enq[j] \in {"added", "full"}
                                      \/ HeldBy(j, {"fetched"})
                                      \/ Recovering(j, "full")
      /\ mem.status[j] = "running" => \/ HeldBy(j, {"started", "announced", "executing", "completed",
                                                    "settling", "unprepared"})
                                      \/ Recovering(j, "interrupted")

Quiet ==
  /\ queue = <<>>
  /\ Serving
  /\ \A w \in Workers : worker[w].at = "idle"
  /\ \A j \in Jobs : enq[j] \notin {"bound", "added", "full", "failed"}
  /\ \A k \in Cancelers : canceler[k].at \in {"new", "done"}

Undisturbed ==
  /\ \A kind \in FaultKinds : faults[kind] = 0
  /\ \A k \in Cancelers : canceler[k].at = "new"

(* Once nothing is going on, and without faults and cancel requests, the   *)
(* session shows the final status of the run it shows, and the only final  *)
(* event of a run that executed is that of its status.                     *)
SessionsAgree ==
  Quiet /\ Undisturbed =>
    /\ \A s \in Sessions :
         LET last == mem.last[s]
         IN last.run # NoJob => mem.status[last.run] \in {last.status, "none"}
    /\ \A j \in RunJobs : Stored(j) /\ starts[j] > 0 => mem.told[j] = {mem.status[j]}

(* A cancel request answered "canceled" means what its record says,        *)
(* "canceled before execution": the job never executes.                    *)
CanceledNeverRuns == \A j \in Jobs : "canceled" \in answers[j] => starts[j] = 0

(* The records alone are a plain life cycle.                               *)
Life == INSTANCE JobLife WITH
          life <- [j \in Jobs |->
                     IF mem.status[j] \in Final THEN "done"
                     ELSE IF mem.status[j] = "none" /\ added[j] > 0 THEN "evicted"
                     ELSE mem.status[j]]

(* Without failed saves and cancel requests, the records follow that life  *)
(* cycle through restarts and full queues, and every job that has a record *)
(* is eventually done or evicted.                                          *)
ImplementsJobLife == Life!FairSpec
=============================================================================
