--------------------------- MODULE JobQueueProofs ---------------------------
(***************************************************************************)
(* Proofs about JobQueue for every set of jobs, workers and cancel         *)
(* requests, every capacity and every number of faults.                    *)
(***************************************************************************)
EXTENDS JobQueue, SequenceTheorems, FiniteSetTheorems, TLAPS

-----------------------------------------------------------------------------
(* Type correctness.                                                       *)

(* The writes of the store keep the type of its state.                     *)
LEMMA PutType ==
  ASSUME TypeOK, NEW state \in State, Put(state)
  PROVE  mem' \in State /\ disk' \in State /\ faults' \in [FaultKinds -> Nat]
  BY DEF Put, Saves, SaveFails, Fault, TypeOK, FaultKinds

LEMMA WithStatusType ==
  ASSUME mem \in State, NEW j \in Jobs, NEW status \in Status
  PROVE  WithStatus(j, status) \in State
  BY DEF WithStatus, State

LEMMA UpdateRunJobType ==
  ASSUME TypeOK, NEW j \in Jobs, NEW status \in Status, UpdateRunJob(j, status)
  PROVE  mem' \in State /\ disk' \in State /\ faults' \in [FaultKinds -> Nat]
<1>1. mem \in State
  BY DEF TypeOK
<1>2. WithStatus(j, status) \in State
  BY <1>1, WithStatusType
<1>3. CASE Stored(j)
  BY <1>2, <1>3, PutType DEF UpdateRunJob
<1>4. CASE ~Stored(j)
  BY <1>4 DEF UpdateRunJob, TypeOK, storeVars
<1> QED
  BY <1>3, <1>4

LEMMA WithLastType ==
  ASSUME mem \in State, NEW j \in RunJobs, NEW status \in Status
  PROVE  [mem EXCEPT !.last[SessionOf[j]] = [run |-> j, status |-> status]] \in State
  BY JobAssumption DEF State, RunJobs

LEMMA UpdateSessionRunStateType ==
  ASSUME TypeOK, NEW j \in Jobs, NEW status \in Status, UpdateSessionRunState(j, status)
  PROVE  mem' \in State /\ disk' \in State /\ faults' \in [FaultKinds -> Nat]
<1>1. mem \in State
  BY DEF TypeOK
<1>2. CASE j \in RunJobs
  <2>1. [mem EXCEPT !.last[SessionOf[j]] = [run |-> j, status |-> status]] \in State
    BY <1>1, <1>2, WithLastType
  <2> QED
    BY <1>2, <2>1, PutType DEF UpdateSessionRunState
<1>3. CASE j \notin RunJobs
  BY <1>3 DEF UpdateSessionRunState, TypeOK, storeVars
<1> QED
  BY <1>2, <1>3

LEMMA AppendFinalEventType ==
  ASSUME TypeOK, NEW j \in Jobs, NEW status \in Final, AppendFinalEvent(j, status)
  PROVE  mem' \in State /\ disk' \in State /\ faults' \in [FaultKinds -> Nat]
<1>1. mem \in State
  BY DEF TypeOK
<1>2. [mem EXCEPT !.told[j] = @ \cup {status}] \in State
  BY <1>1 DEF State
<1> QED
  BY <1>2, PutType DEF AppendFinalEvent

LEMMA InitTypeOK == Init => TypeOK
  BY JobAssumption DEF Init, TypeOK, EmptyStore, State, Status, Final, Idle, WorkerAt, Ending, FaultKinds

LEMMA AppendType ==
  ASSUME NEW j \in Jobs, queue \in Seq(Jobs), HasRoom
  PROVE  Append(queue, j) \in Seq(Jobs) /\ Len(Append(queue, j)) <= QueueSize
  BY AppendProperties, JobAssumption DEF HasRoom

LEMMA TailType ==
  ASSUME queue \in Seq(Jobs), Len(queue) <= QueueSize, queue # <<>>
  PROVE  /\ Head(queue) \in Jobs
         /\ Tail(queue) \in Seq(Jobs)
         /\ Len(Tail(queue)) <= QueueSize
  BY HeadTailProperties, JobAssumption

LEMMA RequestType ==
  ASSUME TypeOK, NEW j \in Jobs, Request(j)
  PROVE  TypeOK'
<1> USE DEF cancelVars, ghostVars
<1>0. mem \in State
  BY DEF TypeOK
<1>1. CASE BindSession(j)
  <2> DEFINE bound == [mem EXCEPT !.last[SessionOf[j]] = [run |-> j, status |-> "pending"]]
  <2>1. bound \in State
    BY <1>0, <1>1, WithLastType DEF BindSession, Status
  <2>2. Put(bound)
    BY <1>1 DEF BindSession, Put
  <2>3. mem' \in State /\ disk' \in State /\ faults' \in [FaultKinds -> Nat]
    BY <2>1, <2>2, PutType
  <2> QED
    BY <1>1, <2>3 DEF BindSession, TypeOK, Answered
<1>2. CASE AddRunJob(j)
  <2> DEFINE next == [mem EXCEPT !.status = [k \in Jobs |-> IF k \in Kept THEN @[k] ELSE "none"],
                                 !.status[j] = "pending"]
  <2>1. next \in State
    BY <1>0 DEF State, Status
  <2>2. Put(next)
    BY <1>2 DEF AddRunJob, Put
  <2>3. mem' \in State /\ disk' \in State /\ faults' \in [FaultKinds -> Nat]
    BY <2>1, <2>2, PutType
  <2>4. added' \in [Jobs -> Nat]
    <3>1. Cardinality({k \in Jobs : added[k] > 0}) \in Nat
      BY JobAssumption, FS_Subset, FS_CardinalityType
    <3> QED
      BY <1>2, <3>1 DEF AddRunJob, TypeOK
  <2> QED
    BY <1>2, <2>3, <2>4 DEF AddRunJob, TypeOK, Answered
<1>3. CASE EnqueueStoredJob(j)
  BY <1>3, AppendType DEF EnqueueStoredJob, TypeOK, Answered, storeVars
<1>4. CASE FailFullRecord(j)
  <2>1. mem' \in State /\ disk' \in State /\ faults' \in [FaultKinds -> Nat]
    BY <1>4, UpdateRunJobType DEF FailFullRecord, Status, Final
  <2> QED
    BY <1>4, <2>1 DEF FailFullRecord, TypeOK, Answered
<1>5. CASE FailFullSession(j)
  <2>1. mem' \in State /\ disk' \in State /\ faults' \in [FaultKinds -> Nat]
    BY <1>5, UpdateSessionRunStateType DEF FailFullSession, Status, Final
  <2> QED
    BY <1>5, <2>1 DEF FailFullSession, TypeOK, Answered
<1> QED
  BY <1>1, <1>2, <1>3, <1>4, <1>5 DEF Request

(* The part of TypeOK about the workers.                                   *)
WorkersOK ==
  /\ worker \in [Workers -> [at : WorkerAt, job : Jobs \cup {NoJob}, final : Final \cup {"none"}]]
  /\ \A w \in Workers : /\ worker[w].at # "idle" => worker[w].job \in Jobs
                        /\ worker[w].at \in Ending => worker[w].final \in Final

LEMMA GotoType ==
  ASSUME WorkersOK, NEW w \in Workers, NEW at \in WorkerAt, Goto(w, at),
         worker[w].at # "idle",
         at \in Ending => worker[w].at \in Ending
  PROVE  WorkersOK'
  BY DEF WorkersOK, Goto

LEMMA IdleType ==
  ASSUME WorkersOK, NEW w \in Workers, worker' = [worker EXCEPT ![w] = Idle]
  PROVE  WorkersOK'
  BY DEF WorkersOK, Idle, WorkerAt, Ending

LEMMA EndType ==
  ASSUME WorkersOK, NEW w \in Workers, worker[w].at # "idle", NEW at \in Ending, NEW final \in Final,
         worker' = [worker EXCEPT ![w].at = at, ![w].final = final]
  PROVE  WorkersOK'
<1>1. at \in WorkerAt
  BY DEF WorkerAt
<1> QED
  BY <1>1 DEF WorkersOK

LEMMA WorkWorkers ==
  ASSUME TypeOK, NEW w \in Workers, Work(w)
  PROVE  WorkersOK'
<1>0. WorkersOK
  BY DEF TypeOK, WorkersOK
<1> USE <1>0, GotoType, IdleType DEF WorkerAt, Ending
<1>1. CASE Fetch(w)
  <2>1. Head(queue) \in Jobs
    BY <1>1, TailType DEF Fetch, TypeOK
  <2> QED
    BY <1>1, <2>1 DEF Fetch, WorkersOK, Idle
<1>2. CASE StartRecord(w)
  BY <1>2 DEF StartRecord, SaveRunning
<1>3. CASE StartSession(w)
  BY <1>3 DEF StartSession
<1>4. CASE Register(w)
  BY <1>4 DEF Register
<1>5. CASE PrepareFails(w)
  <2>1. PICK at \in Ending, final \in Final :
          worker' = [worker EXCEPT ![w].at = at, ![w].final = final]
    BY <1>5 DEF PrepareFails, Ending, Final
  <2> QED
    BY <1>5, <2>1, EndType DEF PrepareFails
<1>6. CASE Complete(w)
  <2>1. PICK at \in Ending, final \in Final :
          worker' = [worker EXCEPT ![w].at = at, ![w].final = final]
    BY <1>6 DEF Complete, Ending, Final
  <2> QED
    BY <1>6, <2>1, EndType DEF Complete
<1>7. CASE AnnounceFinal(w)
  BY <1>7 DEF AnnounceFinal
<1>8. CASE SettleRecord(w)
  BY <1>8 DEF SettleRecord
<1>9. CASE SettleSession(w)
  BY <1>9 DEF SettleSession, Finish
<1>10. CASE AnnounceUnprepared(w)
  BY <1>10 DEF AnnounceUnprepared, Finish
<1> QED
  BY <1>1, <1>2, <1>3, <1>4, <1>5, <1>6, <1>7, <1>8, <1>9, <1>10 DEF Work

LEMMA WorkStore ==
  ASSUME TypeOK, NEW w \in Workers, Work(w)
  PROVE  mem' \in State /\ disk' \in State /\ faults' \in [FaultKinds -> Nat]
<1> DEFINE j == worker[w].job
<1>0. /\ worker[w].at # "idle" => j \in Jobs
      /\ worker[w].at \in Ending => worker[w].final \in Final
      /\ mem \in State
  BY DEF TypeOK
<1>1. CASE UNCHANGED storeVars
  BY <1>1 DEF TypeOK, storeVars
<1>2. CASE StartRecord(w)
  <2>1. WithStatus(j, "running") \in State
    BY <1>0, <1>2, WithStatusType DEF StartRecord, Status
  <2>2. \/ Put(WithStatus(j, "running"))
        \/ UNCHANGED storeVars
    BY <1>2 DEF StartRecord, SaveRunning, Put
  <2> QED
    BY <1>1, <2>1, <2>2, PutType
<1>3. CASE StartSession(w)
  BY <1>0, <1>3, UpdateSessionRunStateType DEF StartSession, Status
<1>4. CASE Fetch(w) \/ Register(w) \/ PrepareFails(w) \/ Complete(w)
  BY <1>1, <1>4 DEF Fetch, Register, PrepareFails, Complete
<1>5. CASE AnnounceFinal(w)
  BY <1>0, <1>5, AppendFinalEventType DEF AnnounceFinal, Ending
<1>6. CASE SettleRecord(w)
  BY <1>0, <1>6, UpdateRunJobType DEF SettleRecord, FinalRecord, Status, Ending
<1>7. CASE SettleSession(w)
  BY <1>0, <1>7, UpdateSessionRunStateType DEF SettleSession, FinalSession, Status, Ending
<1>8. CASE AnnounceUnprepared(w)
  BY <1>0, <1>8, AppendFinalEventType DEF AnnounceUnprepared, Ending
<1> QED
  BY <1>2, <1>3, <1>4, <1>5, <1>6, <1>7, <1>8 DEF Work

LEMMA WorkType ==
  ASSUME TypeOK, NEW w \in Workers, Work(w)
  PROVE  TypeOK'
<1>1. /\ mem' \in State /\ disk' \in State /\ faults' \in [FaultKinds -> Nat]
      /\ WorkersOK'
  BY WorkStore, WorkWorkers
<1>2. UNCHANGED <<added, enq, canceler, recovery, answers>>
  BY DEF Work, Fetch, StartRecord, StartSession, Register, PrepareFails, Complete, AnnounceFinal,
     SettleRecord, SettleSession, AnnounceUnprepared, ghostVars
<1>3. queue' \in Seq(Jobs) /\ Len(queue') <= QueueSize
  <2>1. \/ queue' = queue
        \/ queue # <<>> /\ queue' = Tail(queue)
    BY DEF Work, Fetch, StartRecord, StartSession, Register, PrepareFails, Complete, AnnounceFinal,
       SettleRecord, SettleSession, AnnounceUnprepared
  <2> QED
    BY <2>1, TailType DEF TypeOK
<1>4. /\ registered' \subseteq registered \cup {worker[w].job}
      /\ registered' # registered => worker[w].at # "idle"
      /\ cancelRq' \subseteq cancelRq
      /\ ctxDone' = ctxDone
  BY DEF Work, Fetch, StartRecord, StartSession, Register, PrepareFails, Complete, AnnounceFinal,
     SettleRecord, SettleSession, AnnounceUnprepared, Finish, cancelVars
<1>5. \/ starts' = starts
      \/ /\ worker[w].at = "announced"
         /\ starts' = [starts EXCEPT ![worker[w].job] = @ + 1]
  BY DEF Work, Fetch, StartRecord, StartSession, Register, PrepareFails, Complete, AnnounceFinal,
     SettleRecord, SettleSession, AnnounceUnprepared, ghostVars
<1>6. registered' \subseteq Jobs /\ cancelRq' \subseteq Jobs /\ ctxDone' \subseteq Jobs
  BY <1>4 DEF TypeOK
<1>7. starts' \in [Jobs -> Nat]
  <2>1. CASE starts' = starts
    BY <2>1 DEF TypeOK
  <2>2. CASE starts' = [starts EXCEPT ![worker[w].job] = @ + 1] /\ worker[w].at = "announced"
    <3>1. worker[w].job \in Jobs
      BY <2>2 DEF TypeOK
    <3>2. starts[worker[w].job] + 1 \in Nat
      BY <3>1 DEF TypeOK
    <3> QED
      BY <2>2, <3>1, <3>2 DEF TypeOK
  <2> QED
    BY <1>5, <2>1, <2>2
<1> QED
  BY <1>1, <1>2, <1>3, <1>6, <1>7 DEF TypeOK, WorkersOK

(* The parts of TypeOK about cancel requests and about recovery.           *)
CancelersOK ==
  /\ canceler \in [Cancelers -> [at : {"new", "pending", "running", "recorded", "marked", "done"},
                                 job : Jobs \cup {NoJob}]]
  /\ \A k \in Cancelers : canceler[k].at \notin {"new", "done"} => canceler[k].job \in Jobs

RecoveryOK ==
  /\ recovery \in [todo : SUBSET Jobs,
                    at : {"next", "full", "fullSession", "interrupted", "session", "event"},
                    job : Jobs \cup {NoJob}]
  /\ recovery.at # "next" => recovery.job \in Jobs

LEMMA CancelerToType ==
  ASSUME CancelersOK, NEW k \in Cancelers, NEW at \in {"recorded", "marked", "done"},
         canceler[k].at \notin {"new", "done"}, CancelerTo(k, at)
  PROVE  CancelersOK'
  BY DEF CancelersOK, CancelerTo

LEMMA RecoverToType ==
  ASSUME RecoveryOK, NEW at \in {"next", "fullSession", "session", "event"},
         recovery.at # "next", RecoverTo(at)
  PROVE  RecoveryOK'
  BY DEF RecoveryOK, RecoverTo

LEMMA CancelType ==
  ASSUME TypeOK, NEW k \in Cancelers, Cancel(k)
  PROVE  TypeOK'
<1> DEFINE j == canceler[k].job
<1>0. /\ CancelersOK
      /\ mem \in State
      /\ canceler[k].at \notin {"new", "done"} => j \in Jobs
  BY DEF TypeOK, CancelersOK
<1>1. UNCHANGED <<added, enq, queue, worker, registered, recovery, starts>>
  BY DEF Cancel, CancelRead, CancelRecord, CancelSession, CancelAnswer, CancelRequest, ghostVars
<1>2. mem' \in State /\ disk' \in State /\ faults' \in [FaultKinds -> Nat]
  <2>1. CASE UNCHANGED storeVars
    BY <2>1 DEF TypeOK, storeVars
  <2>2. CASE CancelRecord(k)
    <3>1. WithStatus(j, "canceled") \in State
      BY <1>0, <2>2, WithStatusType DEF CancelRecord, Status, Final
    <3>2. Put(WithStatus(j, "canceled")) \/ UNCHANGED storeVars
      BY <2>2 DEF CancelRecord, Put
    <3> QED
      BY <2>1, <3>1, <3>2, PutType
  <2>3. CASE CancelSession(k)
    BY <1>0, <2>3, UpdateSessionRunStateType DEF CancelSession, Status, Final
  <2>4. CASE CancelAnswer(k)
    BY <1>0, <2>4, AppendFinalEventType DEF CancelAnswer, Final
  <2> QED
    BY <2>1, <2>2, <2>3, <2>4 DEF Cancel, CancelRead, CancelRequest
<1>3. CancelersOK'
  <2>1. ASSUME NEW i \in Jobs, CancelRead(k, i) PROVE CancelersOK'
    BY <1>0, <2>1 DEF CancelRead, CancelersOK
  <2>2. CASE \A i \in Jobs : ~CancelRead(k, i)
    <3>1. /\ canceler[k].at \notin {"new", "done"}
          /\ CancelerTo(k, "recorded") \/ CancelerTo(k, "marked") \/ CancelerTo(k, "done")
      BY <2>2 DEF Cancel, CancelRecord, CancelSession, CancelAnswer, CancelRequest
    <3> QED
      BY <1>0, <3>1, CancelerToType
  <2> QED
    BY <2>1, <2>2
<1>4. cancelRq' \subseteq Jobs /\ ctxDone' \subseteq Jobs
  <2>1. CASE UNCHANGED cancelVars
    BY <2>1 DEF TypeOK, cancelVars
  <2>2. CASE CancelRequest(k)
    BY <1>0, <2>2 DEF CancelRequest, TypeOK
  <2> QED
    BY <2>1, <2>2 DEF Cancel, CancelRead, CancelRecord, CancelSession, CancelAnswer
<1>5. answers' \in [Jobs -> SUBSET {"canceled", "cancel_requested"}]
  <2>1. CASE UNCHANGED answers
    BY <2>1 DEF TypeOK
  <2>2. CASE CancelRequest(k)
    BY <1>0, <2>2 DEF CancelRequest, TypeOK
  <2>3. CASE CancelAnswer(k)
    BY <1>0, <2>3 DEF CancelAnswer, TypeOK
  <2> QED
    BY <2>1, <2>2, <2>3 DEF Cancel, CancelRead, CancelRecord, CancelSession, ghostVars
<1> QED
  BY <1>1, <1>2, <1>3, <1>4, <1>5 DEF TypeOK, CancelersOK

LEMMA RecoverType ==
  ASSUME TypeOK, Recover
  PROVE  TypeOK'
<1>0. RecoveryOK /\ mem \in State
  BY DEF TypeOK, RecoveryOK
<1>1. UNCHANGED <<added, enq, worker, registered, cancelRq, ctxDone, canceler, starts, answers>>
  BY DEF Recover, RecoverNext, RecoverRecord, RecoverSession, RecoverEvent, cancelVars, ghostVars
<1>2. CASE RecoverNext
  <2>1. PICK j \in Oldest :
          /\ \/ queue' = queue
             \/ HasRoom /\ queue' = Append(queue, j)
          /\ \/ recovery' = [recovery EXCEPT !.todo = recovery.todo \ {j}]
             \/ recovery' = [todo |-> recovery.todo \ {j}, at |-> "full", job |-> j]
             \/ recovery' = [todo |-> recovery.todo \ {j}, at |-> "interrupted", job |-> j]
    BY <1>2 DEF RecoverNext
  <2>2. j \in Jobs
    BY <1>0 DEF Oldest, RecoveryOK
  <2>3. queue' \in Seq(Jobs) /\ Len(queue') <= QueueSize
    BY <2>1, <2>2, AppendType DEF TypeOK
  <2>4. RecoveryOK'
    BY <1>0, <2>1, <2>2 DEF RecoveryOK
  <2>5. UNCHANGED storeVars
    BY <1>2 DEF RecoverNext
  <2> QED
    BY <1>1, <2>3, <2>4, <2>5 DEF TypeOK, RecoveryOK, storeVars
<1>3. CASE RecoverRecord \/ RecoverSession \/ RecoverEvent
  <2>1. recovery.job \in Jobs /\ UNCHANGED queue
    BY <1>0, <1>3 DEF RecoveryOK, RecoverRecord, RecoverSession, RecoverEvent
  <2>2. mem' \in State /\ disk' \in State /\ faults' \in [FaultKinds -> Nat]
    <3>1. CASE RecoverRecord
      <4>1. WithStatus(recovery.job, "failed") \in State
        BY <1>0, <2>1, WithStatusType DEF Status, Final
      <4> QED
        BY <3>1, <4>1, PutType DEF RecoverRecord, Put
    <3>2. CASE RecoverSession
      BY <2>1, <3>2, UpdateSessionRunStateType DEF RecoverSession, Status, Final
    <3>3. CASE RecoverEvent
      BY <2>1, <3>3, AppendFinalEventType DEF RecoverEvent, Final
    <3> QED
      BY <1>3, <3>1, <3>2, <3>3
  <2>3. /\ recovery.at # "next"
        /\ \/ RecoverTo("next")
           \/ RecoverTo("fullSession")
           \/ RecoverTo("session")
           \/ RecoverTo("event")
    BY <1>3 DEF RecoverRecord, RecoverSession, RecoverEvent
  <2>4. RecoveryOK'
    BY <1>0, <2>3, RecoverToType
  <2> QED
    BY <1>1, <2>1, <2>2, <2>4 DEF TypeOK, RecoveryOK
<1> QED
  BY <1>2, <1>3 DEF Recover

LEMMA RestartType ==
  ASSUME TypeOK, Restart
  PROVE  TypeOK'
<1>1. faults' \in [FaultKinds -> Nat]
  BY DEF Restart, Fault, FaultKinds, TypeOK
<1>2. mem' \in State /\ disk' \in State /\ UNCHANGED <<added, starts, answers>>
  BY DEF Restart, TypeOK, ghostVars
<1>3. enq' \in [Jobs -> Answered \cup {"new", "bound", "added", "full", "failed", "lost"}]
  BY DEF Restart, TypeOK, Answered
<1>4. /\ queue' \in Seq(Jobs)
      /\ Len(queue') <= QueueSize
  BY JobAssumption DEF Restart
<1>5. WorkersOK'
  BY DEF Restart, WorkersOK, Idle, WorkerAt, Ending
<1>6. CancelersOK'
  BY DEF Restart, TypeOK, CancelersOK
<1>7. RecoveryOK'
  BY DEF Restart, Recoverable, RecoveryOK
<1>8. registered' \subseteq Jobs /\ cancelRq' \subseteq Jobs /\ ctxDone' \subseteq Jobs
  BY DEF Restart
<1> QED
  BY <1>1, <1>2, <1>3, <1>4, <1>5, <1>6, <1>7, <1>8 DEF TypeOK, WorkersOK, CancelersOK, RecoveryOK

LEMMA StepTypeOK == TypeOK /\ [Next]_vars => TypeOK'
<1> SUFFICES ASSUME TypeOK, [Next]_vars PROVE TypeOK'
  OBVIOUS
<1>1. CASE OtherSave
  BY <1>1 DEF OtherSave, TypeOK, cancelVars, ghostVars
<1>2. CASE UNCHANGED vars
  BY <1>2 DEF vars, storeVars, cancelVars, ghostVars, TypeOK
<1> QED
  BY <1>1, <1>2, RequestType, WorkType, CancelType, RecoverType, RestartType DEF Next

(* The queue never exceeds its capacity and every variable keeps its type. *)
THEOREM JobTypeCorrect == Spec => []TypeOK
  BY InitTypeOK, StepTypeOK, PTL DEF Spec

-----------------------------------------------------------------------------
(* A job executes at most once.  Before it executes it is in at most one   *)
(* place: with the request that creates it, in the queue, with one worker, *)
(* or among the records recovery has still to treat; and a record is       *)
(* pending, in memory or in the file, only while its job has not started.  *)

PreExecution == {"fetched", "started", "announced"}

Creating(j) == enq[j] \in {"new", "bound", "added"}

Pending(j) == mem.status[j] = "pending" \/ disk.status[j] = "pending"

Written(j) == mem.status[j] # "none" \/ disk.status[j] # "none"

NoRepeat == \A i, k \in 1..Len(queue) : queue[i] = queue[k] => i = k

OneHolder ==
  \A v, w \in Workers :
    /\ worker[v].at \in PreExecution
    /\ worker[w].at \in PreExecution
    /\ worker[v].job = worker[w].job
    => v = w

OnePlace ==
  \A j \in Jobs :
    /\ InQueue(j) => /\ ~Creating(j)
                     /\ ~HeldBy(j, PreExecution)
                     /\ j \notin recovery.todo
    /\ HeldBy(j, PreExecution) => ~Creating(j) /\ j \notin recovery.todo
    /\ j \in recovery.todo => ~Creating(j)

NotStarted ==
  \A j \in Jobs : Creating(j) \/ InQueue(j) \/ HeldBy(j, PreExecution) => starts[j] = 0

NotPending ==
  \A j \in Jobs : starts[j] > 0 \/ HeldBy(j, {"started", "announced"}) => ~Pending(j)

NewUnwritten ==
  /\ \A j \in Jobs : enq[j] = "new" => ~Written(j)
  /\ recovery.at # "next" => enq[recovery.job] # "new"

OnceInv ==
  /\ TypeOK
  /\ NoRepeat
  /\ OneHolder
  /\ OnePlace
  /\ NotStarted
  /\ NotPending
  /\ NewUnwritten
  /\ StartedOnce

(* No record becomes pending, and none appears of a job still to create.   *)
NoNewRecord ==
  \A j \in Jobs : /\ Pending(j)' => Pending(j)
                  /\ enq[j] = "new" => (Written(j)' => Written(j))

(* A step after which every job is where it was before, or in fewer places.*)
Narrows ==
  /\ NoNewRecord
  /\ UNCHANGED <<queue, starts>>
  /\ \A j \in Jobs : (enq'[j] = "new" => enq[j] = "new") /\ (Creating(j)' => Creating(j))
  /\ \A w \in Workers :
       worker'[w].at \in PreExecution =>
         /\ worker[w].at \in PreExecution
         /\ worker'[w].job = worker[w].job
         /\ worker'[w].at # "fetched" => worker[w].at # "fetched"
  /\ recovery'.todo \subseteq recovery.todo
  /\ recovery'.at # "next" => recovery'.job \in Jobs /\ enq'[recovery'.job] # "new"

LEMMA NarrowsOnce ==
  ASSUME OnceInv, TypeOK', Narrows
  PROVE  OnceInv'
<1> USE DEF PreExecution
<1>1. \A j \in Jobs : /\ InQueue(j)' = InQueue(j)
                      /\ HeldBy(j, PreExecution)' => HeldBy(j, PreExecution)
                      /\ HeldBy(j, {"started", "announced"})' => HeldBy(j, {"started", "announced"})
  BY DEF Narrows, InQueue, HeldBy
<1>2. NoRepeat'
  BY DEF OnceInv, NoRepeat, Narrows
<1>3. OneHolder'
  BY DEF OnceInv, OneHolder, Narrows
<1>4. OnePlace'
  BY <1>1 DEF OnceInv, OnePlace, Narrows
<1>5. NotStarted'
  BY <1>1 DEF OnceInv, NotStarted, Narrows
<1>6. NotPending'
  BY <1>1 DEF OnceInv, NotPending, Narrows, NoNewRecord
<1>7. NewUnwritten'
  BY DEF OnceInv, NewUnwritten, Narrows, NoNewRecord
<1>8. StartedOnce'
  BY DEF OnceInv, StartedOnce, Narrows
<1> QED
  BY <1>2, <1>3, <1>4, <1>5, <1>6, <1>7, <1>8 DEF OnceInv

(* What the writes of the store do to the records.                         *)
LEMMA SameRecords ==
  ASSUME NEW state, Put(state), state.status = mem.status
  PROVE  NoNewRecord
  BY DEF Put, Saves, SaveFails, NoNewRecord, Pending, Written

LEMMA SameStore ==
  ASSUME UNCHANGED storeVars
  PROVE  NoNewRecord
  BY DEF storeVars, NoNewRecord, Pending, Written

LEMMA WithStatusRecords ==
  ASSUME mem \in State, NEW j \in Jobs, NEW status, status # "pending",
         Written(j) \/ enq[j] # "new", Put(WithStatus(j, status))
  PROVE  NoNewRecord
<1>1. \A k \in Jobs : mem'.status[k] = IF k = j THEN status ELSE mem.status[k]
  BY DEF Put, Saves, SaveFails, WithStatus, State
<1>2. disk' = mem' \/ disk' = disk
  BY DEF Put, Saves, SaveFails
<1> QED
  BY <1>1, <1>2 DEF NoNewRecord, Pending, Written

LEMMA UpdateRunJobRecords ==
  ASSUME mem \in State, NEW j \in Jobs, NEW status, status # "pending", UpdateRunJob(j, status)
  PROVE  NoNewRecord
  BY WithStatusRecords, SameStore DEF UpdateRunJob, Stored, Written

LEMMA UpdateSessionRecords ==
  ASSUME mem \in State, NEW j, NEW status, UpdateSessionRunState(j, status)
  PROVE  NoNewRecord
<1>1. CASE j \in RunJobs
  <2> DEFINE next == [mem EXCEPT !.last[SessionOf[j]] = [run |-> j, status |-> status]]
  <2>1. next.status = mem.status
    BY DEF State
  <2>2. Put(next)
    BY <1>1 DEF UpdateSessionRunState
  <2> QED
    BY <2>1, <2>2, SameRecords
<1>2. CASE j \notin RunJobs
  BY <1>2, SameStore DEF UpdateSessionRunState
<1> QED
  BY <1>1, <1>2

LEMMA FinalEventRecords ==
  ASSUME mem \in State, NEW j, NEW status, AppendFinalEvent(j, status)
  PROVE  NoNewRecord
<1> DEFINE next == [mem EXCEPT !.told[j] = @ \cup {status}]
<1>1. next.status = mem.status
  BY DEF State
<1>2. Put(next)
  BY DEF AppendFinalEvent
<1> QED
  BY <1>1, <1>2, SameRecords

(* The steps that narrow.                                                  *)

LEMMA UnmovedNarrows ==
  ASSUME OnceInv, NoNewRecord, UNCHANGED <<queue, starts, enq, worker, recovery>>
  PROVE  Narrows
<1>1. recovery.at # "next" => recovery.job \in Jobs /\ enq[recovery.job] # "new"
  BY DEF OnceInv, NewUnwritten, TypeOK
<1> QED
  BY <1>1 DEF Narrows, Creating

LEMMA CancelNarrows ==
  ASSUME OnceInv, NEW k \in Cancelers, Cancel(k)
  PROVE  Narrows
<1>0. mem \in State /\ (canceler[k].at \notin {"new", "done"} => canceler[k].job \in Jobs)
  BY DEF OnceInv, TypeOK
<1>1. UNCHANGED <<queue, starts, enq, worker, recovery>>
  BY DEF Cancel, CancelRead, CancelRecord, CancelSession, CancelAnswer, CancelRequest, ghostVars
<1>2. NoNewRecord
  <2>1. CASE UNCHANGED storeVars
    BY <2>1, SameStore
  <2>2. CASE CancelRecord(k)
    BY <1>0, <2>1, <2>2, WithStatusRecords DEF CancelRecord, Put, Stored, Written
  <2>3. CASE CancelSession(k)
    BY <1>0, <2>3, UpdateSessionRecords DEF CancelSession
  <2>4. CASE CancelAnswer(k)
    BY <1>0, <2>4, FinalEventRecords DEF CancelAnswer
  <2> QED
    BY <2>1, <2>2, <2>3, <2>4 DEF Cancel, CancelRead, CancelRequest
<1> QED
  BY <1>1, <1>2, UnmovedNarrows

LEMMA RequestNarrows ==
  ASSUME OnceInv, NEW j \in Jobs, BindSession(j) \/ FailFullRecord(j) \/ FailFullSession(j)
  PROVE  Narrows
<1>0. mem \in State
  BY DEF OnceInv, TypeOK
<1>1. UNCHANGED <<queue, starts, worker, recovery>>
  BY DEF BindSession, FailFullRecord, FailFullSession, ghostVars
<1>2. \A k \in Jobs : (enq'[k] = "new" => enq[k] = "new") /\ (Creating(k)' => Creating(k))
  BY DEF BindSession, FailFullRecord, FailFullSession, Creating, OnceInv, TypeOK
<1>3. NoNewRecord
  <2>1. CASE BindSession(j)
    <3> DEFINE bound == [mem EXCEPT !.last[SessionOf[j]] = [run |-> j, status |-> "pending"]]
    <3>1. bound.status = mem.status
      BY <1>0 DEF State
    <3>2. Put(bound)
      BY <2>1 DEF BindSession, Put
    <3> QED
      BY <3>1, <3>2, SameRecords
  <2>2. CASE FailFullRecord(j)
    BY <1>0, <2>2, UpdateRunJobRecords DEF FailFullRecord
  <2>3. CASE FailFullSession(j)
    BY <1>0, <2>3, UpdateSessionRecords DEF FailFullSession
  <2> QED
    BY <2>1, <2>2, <2>3
<1>4. recovery.at # "next" => recovery.job \in Jobs /\ enq[recovery.job] # "new"
  BY DEF OnceInv, NewUnwritten, TypeOK
<1> QED
  BY <1>1, <1>2, <1>3, <1>4 DEF Narrows

LEMMA RecoverNarrows ==
  ASSUME OnceInv, RecoverRecord \/ RecoverSession \/ RecoverEvent
  PROVE  Narrows
<1>0. mem \in State /\ recovery.job \in Jobs /\ enq[recovery.job] # "new"
  BY DEF OnceInv, TypeOK, NewUnwritten, RecoverRecord, RecoverSession, RecoverEvent
<1>1. UNCHANGED <<queue, starts, enq, worker>>
  BY DEF RecoverRecord, RecoverSession, RecoverEvent, ghostVars
<1>2. recovery'.todo = recovery.todo /\ recovery'.job = recovery.job
  <2>1. RecoveryOK
    BY DEF OnceInv, TypeOK, RecoveryOK
  <2> QED
    BY <2>1 DEF RecoverRecord, RecoverSession, RecoverEvent, RecoverTo, RecoveryOK
<1>3. NoNewRecord
  <2>1. CASE RecoverRecord
    <3>1. Put(WithStatus(recovery.job, "failed"))
      BY <2>1 DEF RecoverRecord, Put
    <3> QED
      BY <1>0, <3>1, WithStatusRecords
  <2>2. CASE RecoverSession
    BY <1>0, <2>2, UpdateSessionRecords DEF RecoverSession
  <2>3. CASE RecoverEvent
    BY <1>0, <2>3, FinalEventRecords DEF RecoverEvent
  <2> QED
    BY <2>1, <2>2, <2>3
<1> QED
  BY <1>0, <1>1, <1>2, <1>3 DEF Narrows, Creating

LEMMA GotoNarrows ==
  ASSUME OnceInv, NoNewRecord, UNCHANGED <<queue, starts, enq, recovery>>, NEW w \in Workers,
         \A v \in Workers \ {w} : worker'[v] = worker[v],
         \/ worker'[w].at \notin PreExecution
         \/ /\ worker'[w].at = "announced"
            /\ worker[w].at = "started"
            /\ worker'[w].job = worker[w].job
  PROVE  Narrows
<1>1. recovery.at # "next" => recovery.job \in Jobs /\ enq[recovery.job] # "new"
  BY DEF OnceInv, NewUnwritten, TypeOK
<1> QED
  BY <1>1 DEF Narrows, Creating, PreExecution

(* What a worker does from the execution on.                               *)
LEMMA WorkNarrows ==
  ASSUME OnceInv, NEW w \in Workers,
         \/ StartSession(w)
         \/ PrepareFails(w)
         \/ Complete(w)
         \/ AnnounceFinal(w)
         \/ SettleRecord(w)
         \/ SettleSession(w)
         \/ AnnounceUnprepared(w)
  PROVE  Narrows
<1>0. /\ mem \in State
      /\ worker[w].at # "idle" => worker[w].job \in Jobs
      /\ worker[w].at \in Ending => worker[w].final \in Final
  BY DEF OnceInv, TypeOK
<1>1. UNCHANGED <<queue, starts, enq, recovery>>
  BY DEF StartSession, PrepareFails, Complete, AnnounceFinal, SettleRecord, SettleSession,
     AnnounceUnprepared, ghostVars
<1>2. /\ \A v \in Workers \ {w} : worker'[v] = worker[v]
      /\ \/ worker'[w].at \notin PreExecution
         \/ /\ worker'[w].at = "announced"
            /\ worker[w].at = "started"
            /\ worker'[w].job = worker[w].job
  <2>1. WorkersOK
    BY DEF OnceInv, TypeOK, WorkersOK
  <2> QED
    BY <2>1 DEF StartSession, PrepareFails, Complete, AnnounceFinal, SettleRecord, SettleSession,
       AnnounceUnprepared, Goto, Finish, Idle, WorkersOK, PreExecution
<1>3. NoNewRecord
  <2>1. CASE UNCHANGED storeVars
    BY <2>1, SameStore
  <2>2. CASE StartSession(w) \/ SettleSession(w)
    BY <1>0, <2>2, UpdateSessionRecords DEF StartSession, SettleSession, FinalSession
  <2>3. CASE AnnounceFinal(w) \/ AnnounceUnprepared(w)
    BY <1>0, <2>3, FinalEventRecords DEF AnnounceFinal, AnnounceUnprepared
  <2>4. CASE SettleRecord(w)
    BY <1>0, <2>4, UpdateRunJobRecords DEF SettleRecord, FinalRecord, Ending, Final
  <2> QED
    BY <2>1, <2>2, <2>3, <2>4 DEF PrepareFails, Complete
<1> QED
  BY <1>1, <1>2, <1>3, GotoNarrows

(* The steps that move a job from one place to the next.                   *)

LEMMA AddRunJobOnce ==
  ASSUME OnceInv, TypeOK', NEW j \in Jobs, AddRunJob(j)
  PROVE  OnceInv'
<1>1. /\ UNCHANGED <<queue, starts, worker, recovery>>
      /\ enq[j] \in {"new", "bound"}
      /\ \A i \in Jobs : i # j => enq'[i] = enq[i]
      /\ enq'[j] \in {"added", "refused"}
      /\ recovery.at = "next"
  BY DEF AddRunJob, ghostVars, OnceInv, TypeOK, Serving
<1>2. \A i \in Jobs : i # j => /\ Pending(i)' => Pending(i)
                               /\ Written(i)' => Written(i)
  <2> DEFINE next == [mem EXCEPT !.status = [k \in Jobs |-> IF k \in Kept THEN @[k] ELSE "none"],
                                 !.status[j] = "pending"]
  <2>1. mem' = next /\ (disk' = next \/ disk' = disk)
    BY DEF AddRunJob, Saves, SaveFails
  <2>2. mem \in State
    BY DEF OnceInv, TypeOK
  <2>3. \A i \in Jobs : i # j => next.status[i] = mem.status[i] \/ next.status[i] = "none"
    BY <2>2 DEF State
  <2> QED
    BY <2>1, <2>3 DEF Pending, Written
<1>3. \A i \in Jobs : /\ InQueue(i)' = InQueue(i)
                      /\ \A at : HeldBy(i, at)' = HeldBy(i, at)
                      /\ Creating(i)' => Creating(i)
  BY <1>1 DEF InQueue, HeldBy, Creating
<1>4. Creating(j)
  BY <1>1 DEF Creating
<1>5. NoRepeat' /\ OneHolder' /\ StartedOnce'
  BY <1>1 DEF OnceInv, NoRepeat, OneHolder, StartedOnce
<1>6. OnePlace'
  BY <1>1, <1>3 DEF OnceInv, OnePlace
<1>7. NotStarted'
  BY <1>1, <1>3 DEF OnceInv, NotStarted
<1>8. NotPending'
  <2>1. starts[j] = 0 /\ ~HeldBy(j, {"started", "announced"})
    BY <1>4 DEF OnceInv, NotStarted, OnePlace, HeldBy, PreExecution
  <2> QED
    BY <1>1, <1>2, <1>3, <2>1 DEF OnceInv, NotPending
<1>9. NewUnwritten'
  BY <1>1, <1>2 DEF OnceInv, NewUnwritten
<1> QED
  BY <1>5, <1>6, <1>7, <1>8, <1>9 DEF OnceInv

(* The queue after a send and after a receive.                             *)
LEMMA AppendQueue ==
  ASSUME queue \in Seq(Jobs), NoRepeat, NEW j \in Jobs, ~InQueue(j), queue' = Append(queue, j)
  PROVE  NoRepeat' /\ \A i \in Jobs : InQueue(i)' <=> InQueue(i) \/ i = j
<1>1. /\ Len(queue') = Len(queue) + 1
      /\ Len(queue) \in Nat
      /\ \A i \in 1..Len(queue) : queue'[i] = queue[i]
      /\ queue'[Len(queue) + 1] = j
  BY AppendProperties
<1>2. NoRepeat'
  BY <1>1 DEF NoRepeat, InQueue
<1>3. \A i \in Jobs : InQueue(i)' <=> InQueue(i) \/ i = j
  BY <1>1 DEF InQueue
<1> QED
  BY <1>2, <1>3

LEMMA TailQueue ==
  ASSUME queue \in Seq(Jobs), NoRepeat, queue # <<>>, queue' = Tail(queue)
  PROVE  /\ NoRepeat'
         /\ InQueue(Head(queue))
         /\ \A i \in Jobs : InQueue(i)' <=> InQueue(i) /\ i # Head(queue)
<1>1. /\ Len(queue') = Len(queue) - 1
      /\ Len(queue) \in Nat \ {0}
      /\ \A i \in 1..Len(queue') : queue'[i] = queue[i + 1]
      /\ Head(queue) = queue[1]
  BY HeadTailProperties
<1>2. NoRepeat'
  BY <1>1 DEF NoRepeat
<1>3. InQueue(Head(queue))
  BY <1>1 DEF InQueue
<1>4. ASSUME NEW i \in Jobs PROVE InQueue(i)' <=> InQueue(i) /\ i # Head(queue)
  <2>1. ASSUME InQueue(i)' PROVE InQueue(i) /\ i # Head(queue)
    BY <1>1, <2>1 DEF InQueue, NoRepeat
  <2>2. ASSUME InQueue(i), i # Head(queue) PROVE InQueue(i)'
    <3>1. PICK n \in 1..Len(queue) : queue[n] = i
      BY <2>2 DEF InQueue
    <3>2. n - 1 \in 1..Len(queue') /\ queue'[n - 1] = i
      BY <1>1, <2>2, <3>1
    <3> QED
      BY <3>2 DEF InQueue
  <2> QED
    BY <2>1, <2>2
<1> QED
  BY <1>2, <1>3, <1>4

LEMMA EnqueueOnce ==
  ASSUME OnceInv, TypeOK', NEW j \in Jobs, EnqueueStoredJob(j)
  PROVE  OnceInv'
<1>1. /\ UNCHANGED <<mem, disk, starts, worker, recovery>>
      /\ enq[j] = "added"
      /\ \A i \in Jobs : i # j => enq'[i] = enq[i]
      /\ enq'[j] \in {"accepted", "full"}
  BY DEF EnqueueStoredJob, storeVars, ghostVars, OnceInv, TypeOK
<1>2. Creating(j) /\ ~Creating(j)'
  BY <1>1 DEF Creating
<1>3. ~InQueue(j) /\ ~HeldBy(j, PreExecution) /\ j \notin recovery.todo /\ starts[j] = 0
  BY <1>2 DEF OnceInv, OnePlace, NotStarted
<1>4. NoRepeat' /\ \A i \in Jobs : InQueue(i)' => InQueue(i) \/ i = j
  <2>1. CASE UNCHANGED queue
    BY <2>1 DEF OnceInv, NoRepeat, InQueue
  <2>2. CASE queue' = Append(queue, j)
    BY <1>3, <2>2, AppendQueue DEF OnceInv, TypeOK
  <2> QED
    BY <2>1, <2>2 DEF EnqueueStoredJob
<1>5. \A i \in Jobs : /\ \A at : HeldBy(i, at)' = HeldBy(i, at)
                      /\ Creating(i)' => Creating(i) /\ i # j
                      /\ Pending(i)' = Pending(i)
                      /\ Written(i)' = Written(i)
  BY <1>1, <1>2 DEF HeldBy, Creating, Pending, Written
<1>6. OneHolder' /\ StartedOnce'
  BY <1>1 DEF OnceInv, OneHolder, StartedOnce
<1>7. OnePlace'
  BY <1>1, <1>3, <1>4, <1>5 DEF OnceInv, OnePlace
<1>8. NotStarted'
  BY <1>1, <1>3, <1>4, <1>5 DEF OnceInv, NotStarted
<1>9. NotPending'
  BY <1>1, <1>5 DEF OnceInv, NotPending
<1>10. NewUnwritten'
  BY <1>1, <1>5 DEF OnceInv, NewUnwritten, TypeOK
<1> QED
  BY <1>4, <1>6, <1>7, <1>8, <1>9, <1>10 DEF OnceInv

LEMMA FetchOnce ==
  ASSUME OnceInv, TypeOK', NEW w \in Workers, Fetch(w)
  PROVE  OnceInv'
<1> DEFINE j == Head(queue)
<1>1. /\ UNCHANGED <<mem, disk, starts, enq, recovery>>
      /\ worker[w].at = "idle"
      /\ \A v \in Workers : v # w => worker'[v] = worker[v]
      /\ worker'[w].at \in {"idle", "fetched"}
      /\ worker'[w].at = "fetched" => worker'[w].job = j
  BY DEF Fetch, storeVars, ghostVars, OnceInv, TypeOK, Idle
<1>2. /\ j \in Jobs
      /\ NoRepeat'
      /\ InQueue(j)
      /\ \A i \in Jobs : InQueue(i)' <=> InQueue(i) /\ i # j
  BY TailQueue, TailType DEF Fetch, OnceInv, TypeOK
<1>3. ~Creating(j) /\ ~HeldBy(j, PreExecution) /\ j \notin recovery.todo /\ starts[j] = 0
  BY <1>2 DEF OnceInv, OnePlace, NotStarted
<1>4. \A i \in Jobs : /\ HeldBy(i, PreExecution)' => HeldBy(i, PreExecution) \/ i = j
                      /\ HeldBy(i, {"started", "announced"})' => HeldBy(i, {"started", "announced"})
                      /\ Creating(i)' = Creating(i)
                      /\ Pending(i)' = Pending(i)
                      /\ Written(i)' = Written(i)
  BY <1>1 DEF HeldBy, Creating, Pending, Written, PreExecution
<1>5. OneHolder'
  BY <1>1, <1>3 DEF OnceInv, OneHolder, HeldBy, PreExecution
<1>6. OnePlace'
  BY <1>1, <1>2, <1>3, <1>4 DEF OnceInv, OnePlace
<1>7. NotStarted'
  BY <1>1, <1>2, <1>3, <1>4 DEF OnceInv, NotStarted
<1>8. NotPending' /\ NewUnwritten' /\ StartedOnce'
  BY <1>1, <1>4 DEF OnceInv, NotPending, NewUnwritten, StartedOnce
<1> QED
  BY <1>2, <1>5, <1>6, <1>7, <1>8 DEF OnceInv

LEMMA StartRecordOnce ==
  ASSUME OnceInv, TypeOK', NEW w \in Workers, StartRecord(w)
  PROVE  OnceInv'
<1>0. PICK j \in Jobs : j = worker[w].job
  BY DEF StartRecord, OnceInv, TypeOK
<1> USE <1>0
<1>1. /\ UNCHANGED <<queue, starts, enq, recovery>>
      /\ worker[w].at = "fetched"
      /\ \A v \in Workers : v # w => worker'[v] = worker[v]
      /\ mem \in State
  BY DEF StartRecord, SaveRunning, Goto, ghostVars, OnceInv, TypeOK
<1>2. ~Creating(j) /\ starts[j] = 0
  BY <1>1 DEF OnceInv, OnePlace, NotStarted, HeldBy, PreExecution
<1>3. NoNewRecord
  <2>1. CASE UNCHANGED storeVars
    BY <2>1, SameStore
  <2>2. CASE Stored(j) /\ Put(WithStatus(j, "running"))
    BY <1>1, <2>2, WithStatusRecords DEF Stored, Written
  <2> QED
    BY <2>1, <2>2 DEF StartRecord, SaveRunning, Put
<1>4. CASE worker'[w].at \notin PreExecution
  <2>1. Narrows
    BY <1>1, <1>3, <1>4, GotoNarrows
  <2> QED
    BY <2>1, NarrowsOnce
<1>5. CASE worker'[w].at \in PreExecution
  <2>1. /\ Saves(WithStatus(j, "running"))
        /\ worker'[w].at = "started"
        /\ worker'[w].job = j
    BY <1>1, <1>5 DEF StartRecord, SaveRunning, Goto, Idle, PreExecution, OnceInv, TypeOK
  <2>2. ~Pending(j)'
    BY <1>1, <2>1 DEF Saves, WithStatus, Pending, State
  <2>3. \A i \in Jobs : /\ InQueue(i)' = InQueue(i)
                        /\ HeldBy(i, PreExecution)' => HeldBy(i, PreExecution)
                        /\ HeldBy(i, {"started", "announced"})' =>
                             HeldBy(i, {"started", "announced"}) \/ i = j
                        /\ Creating(i)' = Creating(i)
    BY <1>1, <2>1 DEF InQueue, HeldBy, Creating, PreExecution
  <2>4. NoRepeat' /\ StartedOnce'
    BY <1>1 DEF OnceInv, NoRepeat, StartedOnce
  <2>5. OneHolder'
    BY <1>1, <2>1 DEF OnceInv, OneHolder, PreExecution
  <2>6. OnePlace'
    BY <1>1, <2>3 DEF OnceInv, OnePlace
  <2>7. NotStarted'
    BY <1>1, <2>3 DEF OnceInv, NotStarted
  <2>8. NotPending'
    BY <1>1, <1>3, <2>2, <2>3 DEF OnceInv, NotPending, NoNewRecord
  <2>9. NewUnwritten'
    BY <1>1, <1>3 DEF OnceInv, NewUnwritten, NoNewRecord
  <2> QED
    BY <2>4, <2>5, <2>6, <2>7, <2>8, <2>9 DEF OnceInv
<1> QED
  BY <1>4, <1>5

LEMMA RegisterOnce ==
  ASSUME OnceInv, TypeOK', NEW w \in Workers, Register(w)
  PROVE  OnceInv'
<1>0. PICK j \in Jobs : j = worker[w].job
  BY DEF Register, OnceInv, TypeOK
<1> USE <1>0
<1>1. /\ UNCHANGED <<mem, disk, queue, enq, recovery>>
      /\ worker[w].at = "announced"
      /\ \A v \in Workers : v # w => worker'[v] = worker[v]
      /\ worker'[w].at = "executing"
      /\ starts'[j] = starts[j] + 1
      /\ \A i \in Jobs : i # j => starts'[i] = starts[i]
  BY DEF Register, Goto, storeVars, OnceInv, TypeOK
<1>2. HeldBy(j, PreExecution) /\ HeldBy(j, {"started", "announced"})
  BY <1>1 DEF HeldBy, PreExecution
<1>3. ~Creating(j) /\ ~InQueue(j) /\ starts[j] = 0 /\ ~Pending(j)
  BY <1>1, <1>2 DEF OnceInv, OnePlace, NotStarted, NotPending
<1>4. ~HeldBy(j, PreExecution)'
  BY <1>1 DEF OnceInv, OneHolder, HeldBy, PreExecution
<1>5. \A i \in Jobs : /\ InQueue(i)' = InQueue(i)
                      /\ HeldBy(i, PreExecution)' => HeldBy(i, PreExecution)
                      /\ HeldBy(i, {"started", "announced"})' => HeldBy(i, {"started", "announced"})
                      /\ Creating(i)' = Creating(i)
                      /\ Pending(i)' = Pending(i)
                      /\ Written(i)' = Written(i)
  BY <1>1 DEF InQueue, HeldBy, Creating, Pending, Written, PreExecution
<1>6. NoRepeat' /\ OneHolder'
  BY <1>1 DEF OnceInv, NoRepeat, OneHolder, PreExecution
<1>7. OnePlace'
  BY <1>1, <1>5 DEF OnceInv, OnePlace
<1>8. NotStarted'
  BY <1>1, <1>3, <1>4, <1>5 DEF OnceInv, NotStarted
<1>9. NotPending'
  BY <1>1, <1>3, <1>5 DEF OnceInv, NotPending
<1>10. NewUnwritten'
  BY <1>1, <1>5 DEF OnceInv, NewUnwritten
<1>11. StartedOnce'
  BY <1>1, <1>3 DEF OnceInv, StartedOnce
<1> QED
  BY <1>6, <1>7, <1>8, <1>9, <1>10, <1>11 DEF OnceInv

LEMMA RecoverNextOnce ==
  ASSUME OnceInv, TypeOK', RecoverNext
  PROVE  OnceInv'
<1>0. RecoveryOK /\ RecoveryOK'
  BY DEF OnceInv, TypeOK, RecoveryOK
<1>1. PICK j \in Oldest :
        /\ \/ queue' = queue
           \/ mem.status[j] = "pending" /\ queue' = Append(queue, j)
        /\ recovery'.todo = recovery.todo \ {j}
        /\ recovery'.at # "next" => recovery'.job = j
  BY <1>0 DEF RecoverNext, RecoveryOK
<1>2. UNCHANGED <<mem, disk, starts, enq, worker>>
  BY DEF RecoverNext, storeVars, ghostVars
<1>3. j \in Jobs /\ j \in recovery.todo
  BY <1>0 DEF Oldest, RecoveryOK
<1>4. ~InQueue(j) /\ ~HeldBy(j, PreExecution) /\ ~Creating(j)
  BY <1>3 DEF OnceInv, OnePlace
<1>5. \A i \in Jobs : /\ \A at : HeldBy(i, at)' = HeldBy(i, at)
                      /\ Creating(i)' = Creating(i)
                      /\ Pending(i)' = Pending(i)
                      /\ Written(i)' = Written(i)
  BY <1>2 DEF HeldBy, Creating, Pending, Written
<1>6. /\ NoRepeat'
      /\ \A i \in Jobs : InQueue(i)' => InQueue(i) \/ (i = j /\ starts[j] = 0)
  <2>1. CASE queue' = queue
    BY <2>1 DEF OnceInv, NoRepeat, InQueue
  <2>2. CASE mem.status[j] = "pending" /\ queue' = Append(queue, j)
    <3>1. starts[j] = 0
      BY <1>3, <2>2 DEF OnceInv, NotPending, Pending, TypeOK
    <3> QED
      BY <1>3, <1>4, <2>2, <3>1, AppendQueue DEF OnceInv, TypeOK
  <2> QED
    BY <1>1, <2>1, <2>2
<1>7. OneHolder' /\ StartedOnce'
  BY <1>2 DEF OnceInv, OneHolder, StartedOnce
<1>8. OnePlace'
  BY <1>1, <1>4, <1>5, <1>6 DEF OnceInv, OnePlace
<1>9. NotStarted'
  BY <1>2, <1>5, <1>6 DEF OnceInv, NotStarted
<1>10. NotPending'
  BY <1>2, <1>5 DEF OnceInv, NotPending
<1>11. NewUnwritten'
  BY <1>1, <1>2, <1>4, <1>5 DEF OnceInv, NewUnwritten, Creating
<1> QED
  BY <1>6, <1>7, <1>8, <1>9, <1>10, <1>11 DEF OnceInv

LEMMA RestartOnce ==
  ASSUME OnceInv, TypeOK', Restart
  PROVE  OnceInv'
<1>1. /\ mem' = disk /\ disk' = disk /\ starts' = starts
      /\ queue' = <<>>
      /\ \A w \in Workers : worker'[w].at = "idle"
      /\ \A j \in Jobs : enq'[j] \in {"new", "bound", "added"} => enq[j] = "new" /\ enq'[j] = "new"
      /\ recovery'.todo = Recoverable
      /\ recovery'.at = "next"
  BY DEF Restart, ghostVars, Idle, Answered
<1>2. \A j \in Jobs : /\ ~InQueue(j)'
                      /\ \A at : "idle" \notin at => ~HeldBy(j, at)'
                      /\ Creating(j)' => enq[j] = "new"
                      /\ Pending(j)' => Pending(j)
                      /\ Written(j)' => Written(j)
  BY <1>1 DEF InQueue, HeldBy, Creating, Pending, Written
<1>3. \A j \in Jobs : j \in Recoverable => Written(j)
  BY DEF Recoverable, Written
<1>4. NoRepeat' /\ OneHolder' /\ StartedOnce'
  BY <1>1 DEF OnceInv, NoRepeat, OneHolder, StartedOnce, PreExecution
<1>5. OnePlace'
  BY <1>1, <1>2, <1>3 DEF OnceInv, OnePlace, NewUnwritten, PreExecution
<1>6. NotStarted'
  BY <1>1, <1>2 DEF OnceInv, NotStarted, PreExecution, Creating
<1>7. NotPending'
  BY <1>1, <1>2 DEF OnceInv, NotPending
<1>8. NewUnwritten'
  BY <1>1, <1>2 DEF OnceInv, NewUnwritten
<1> QED
  BY <1>4, <1>5, <1>6, <1>7, <1>8 DEF OnceInv

-----------------------------------------------------------------------------
LEMMA InitOnce == Init => OnceInv
<1> SUFFICES ASSUME Init PROVE OnceInv
  OBVIOUS
<1>1. TypeOK
  BY InitTypeOK
<1>2. \A j \in Jobs : /\ ~InQueue(j)
                      /\ ~HeldBy(j, PreExecution)
                      /\ ~HeldBy(j, {"started", "announced"})
                      /\ ~Written(j)
                      /\ ~Pending(j)
                      /\ starts[j] = 0
  BY DEF Init, EmptyStore, InQueue, HeldBy, PreExecution, Idle, Written, Pending
<1>3. NoRepeat /\ OneHolder
  BY DEF Init, NoRepeat, OneHolder, PreExecution, Idle
<1>4. recovery.todo = {} /\ recovery.at = "next"
  BY DEF Init
<1> QED
  BY <1>1, <1>2, <1>3, <1>4
     DEF OnceInv, OnePlace, NotStarted, NotPending, NewUnwritten, StartedOnce

LEMMA StepOnce == OnceInv /\ [Next]_vars => OnceInv'
<1> SUFFICES ASSUME OnceInv, [Next]_vars PROVE OnceInv'
  OBVIOUS
<1>0. TypeOK'
  BY StepTypeOK DEF OnceInv
<1> USE <1>0, NarrowsOnce
<1>1. ASSUME NEW j \in Jobs, Request(j) PROVE OnceInv'
  BY <1>1, RequestNarrows, AddRunJobOnce, EnqueueOnce DEF Request
<1>2. ASSUME NEW w \in Workers, Work(w) PROVE OnceInv'
  BY <1>2, WorkNarrows, FetchOnce, StartRecordOnce, RegisterOnce DEF Work
<1>3. ASSUME NEW k \in Cancelers, Cancel(k) PROVE OnceInv'
  BY <1>3, CancelNarrows
<1>4. CASE Recover
  BY <1>4, RecoverNarrows, RecoverNextOnce DEF Recover
<1>5. CASE OtherSave
  <2>1. NoNewRecord
    BY <1>5 DEF OtherSave, NoNewRecord, Pending, Written
  <2>2. UNCHANGED <<queue, starts, enq, worker, recovery>>
    BY <1>5 DEF OtherSave, ghostVars
  <2> QED
    BY <2>1, <2>2, UnmovedNarrows
<1>6. CASE Restart
  BY <1>6, RestartOnce
<1>7. CASE UNCHANGED vars
  BY <1>7, SameStore, UnmovedNarrows DEF vars, ghostVars
<1> QED
  BY <1>1, <1>2, <1>3, <1>4, <1>5, <1>6, <1>7 DEF Next

(* No job executes twice, whatever fails and however often the server      *)
(* restarts.                                                               *)
THEOREM JobStartsOnce == Spec => []StartedOnce
<1>1. OnceInv => StartedOnce
  BY DEF OnceInv
<1> QED
  BY <1>1, InitOnce, StepOnce, PTL DEF Spec

-----------------------------------------------------------------------------
(* No record is left behind.  As long as every save succeeds the file is   *)
(* what is in memory, so that recovery finds every record there is,        *)
(* provided that retention keeps no more of them than recovery looks at.   *)

NoSaveFailed == faults["save"] = 0

Busy == {"started", "announced", "executing", "completed", "settling", "unprepared"}

(* Somebody will make the record of j final.                               *)
Pursued(j) ==
  /\ mem.status[j] = "pending" =>
       InQueue(j) \/ enq[j] \in {"added", "full"} \/ HeldBy(j, {"fetched"}) \/ Recovering(j, "full")
  /\ mem.status[j] = "running" => HeldBy(j, Busy) \/ Recovering(j, "interrupted")

Records == {j \in Jobs : Stored(j)}

(* Records are numbered as they are added.                                 *)
AddedInOrder == \A j \in Jobs : added[j] <= Cardinality({k \in Jobs : added[k] > 0})

NewNotAdded == \A j \in Jobs : enq[j] \in {"new", "bound"} => added[j] = 0

(* capTail: a record is kept only while fewer than RunJobsMax are newer.   *)
NewerFew == \A j \in Records : Cardinality(Newer(j, Records)) < RunJobsMax

(* No record is evicted while recovery has still to treat it.              *)
RecoveryStored ==
  /\ recovery.todo \subseteq Records
  /\ recovery.at \in {"full", "interrupted"} => Stored(recovery.job)

OrphanInv ==
  /\ TypeOK
  /\ AddedInOrder
  /\ NewNotAdded
  /\ NoSaveFailed => /\ disk = mem
                     /\ NewerFew
                     /\ RecoveryStored
                     /\ \A j \in Jobs : Pursued(j)

(* A write without a failed save is in the file too.                       *)
LEMMA PutSaved ==
  ASSUME TypeOK, NEW state, Put(state), NoSaveFailed'
  PROVE  mem' = state /\ disk' = state /\ NoSaveFailed
  BY DEF Put, Saves, SaveFails, Fault, TypeOK, NoSaveFailed, FaultKinds

(* What the writes do to the records when no save fails.                   *)
Writes(j, status) ==
  /\ mem'.status[j] = status
  /\ \A i \in Jobs \ {j} : mem'.status[i] = mem.status[i]

SameStatus == \A i \in Jobs : mem'.status[i] = mem.status[i]

Saved == NoSaveFailed /\ disk' = mem'

LEMMA WithStatusWrites ==
  ASSUME TypeOK, NEW j \in Jobs, NEW status, Put(WithStatus(j, status)), NoSaveFailed'
  PROVE  Saved /\ Writes(j, status)
<1>1. mem' = WithStatus(j, status) /\ disk' = mem' /\ NoSaveFailed
  BY PutSaved
<1> QED
  BY <1>1 DEF WithStatus, TypeOK, State, Saved, Writes

LEMMA SameStoreSaved ==
  ASSUME UNCHANGED storeVars, disk = mem, NoSaveFailed'
  PROVE  Saved /\ SameStatus
  BY DEF storeVars, Saved, SameStatus, NoSaveFailed

LEMMA UpdateRunJobWrites ==
  ASSUME TypeOK, NEW j \in Jobs, NEW status, UpdateRunJob(j, status), NoSaveFailed',
         NoSaveFailed => disk = mem
  PROVE  Saved /\ ((Stored(j) /\ Writes(j, status)) \/ (~Stored(j) /\ SameStatus))
<1>1. CASE Stored(j)
  BY <1>1, WithStatusWrites DEF UpdateRunJob
<1>2. CASE ~Stored(j)
  <2>1. UNCHANGED storeVars
    BY <1>2 DEF UpdateRunJob
  <2>2. NoSaveFailed
    BY <2>1 DEF storeVars, NoSaveFailed
  <2> QED
    BY <1>2, <2>1, <2>2, SameStoreSaved
<1> QED
  BY <1>1, <1>2

LEMMA UpdateSessionWrites ==
  ASSUME TypeOK, NEW j, NEW status, UpdateSessionRunState(j, status), NoSaveFailed',
         NoSaveFailed => disk = mem
  PROVE  Saved /\ SameStatus
<1>1. CASE j \in RunJobs
  <2>1. PICK next : next = [mem EXCEPT !.last[SessionOf[j]] = [run |-> j, status |-> status]]
    OBVIOUS
  <2>2. next.status = mem.status
    BY <2>1 DEF TypeOK, State
  <2>3. mem' = next /\ disk' = next /\ NoSaveFailed
    BY <1>1, <2>1, PutSaved DEF UpdateSessionRunState
  <2> QED
    BY <2>2, <2>3 DEF Saved, SameStatus
<1>2. CASE j \notin RunJobs
  <2>1. UNCHANGED storeVars
    BY <1>2 DEF UpdateSessionRunState
  <2>2. NoSaveFailed
    BY <2>1 DEF storeVars, NoSaveFailed
  <2> QED
    BY <2>1, <2>2, SameStoreSaved
<1> QED
  BY <1>1, <1>2

LEMMA FinalEventWrites ==
  ASSUME TypeOK, NEW j, NEW status, AppendFinalEvent(j, status), NoSaveFailed'
  PROVE  Saved /\ SameStatus
<1>1. PICK next : next = [mem EXCEPT !.told[j] = @ \cup {status}]
  OBVIOUS
<1>2. next.status = mem.status
  BY <1>1 DEF TypeOK, State
<1>3. mem' = next /\ disk' = next /\ NoSaveFailed
  BY <1>1, PutSaved DEF AppendFinalEvent
<1> QED
  BY <1>2, <1>3 DEF Saved, SameStatus

(* A step that neither adds nor evicts records.                            *)
LEMMA RecordsStay ==
  ASSUME OrphanInv, TypeOK', UNCHANGED added,
         \A j \in Jobs : enq'[j] \in {"new", "bound"} => enq[j] \in {"new", "bound"},
         NoSaveFailed' => /\ Saved
                          /\ \A j \in Jobs : Stored(j)' <=> Stored(j)
                          /\ recovery'.todo \subseteq recovery.todo
                          /\ recovery'.at \in {"full", "interrupted"} => Stored(recovery'.job)
                          /\ \A j \in Jobs : Pursued(j)'
  PROVE  OrphanInv'
<1>1. AddedInOrder' /\ NewNotAdded'
  BY DEF OrphanInv, AddedInOrder, NewNotAdded
<1>2. ASSUME NoSaveFailed' PROVE disk' = mem' /\ NewerFew' /\ RecoveryStored'
  <2>1. NoSaveFailed /\ disk' = mem' /\ Records' = Records
    BY <1>2 DEF Saved, Records
  <2>2. NewerFew'
    BY <2>1 DEF OrphanInv, NewerFew, Newer
  <2>3. RecoveryOK'
    BY DEF TypeOK, RecoveryOK
  <2>4. RecoveryStored'
    BY <1>2, <2>1, <2>3 DEF OrphanInv, RecoveryStored, RecoveryOK
  <2> QED
    BY <2>1, <2>2, <2>4
<1> QED
  BY <1>1, <1>2 DEF OrphanInv

(* The holders of a job that a step does not concern.                      *)
LEMMA StillPursued ==
  ASSUME NEW i \in Jobs, Pursued(i), mem'.status[i] = mem.status[i],
         InQueue(i) => InQueue(i)',
         enq[i] \in {"added", "full"} => enq'[i] \in {"added", "full"} \/ InQueue(i)',
         HeldBy(i, {"fetched"}) => HeldBy(i, {"fetched"})',
         HeldBy(i, Busy) => HeldBy(i, Busy)',
         Recovering(i, "full") => Recovering(i, "full")' \/ InQueue(i)',
         Recovering(i, "interrupted") => Recovering(i, "interrupted")'
  PROVE  Pursued(i)'
  BY DEF Pursued

LEMMA WorkersStay ==
  ASSUME UNCHANGED worker, NEW i
  PROVE  /\ HeldBy(i, {"fetched"}) <=> HeldBy(i, {"fetched"})'
         /\ HeldBy(i, Busy) <=> HeldBy(i, Busy)'
  BY DEF HeldBy

LEMMA OtherWorkersStay ==
  ASSUME NEW w \in Workers, \A v \in Workers \ {w} : worker'[v] = worker[v],
         NEW i, worker[w].job # i \/ worker[w].at \notin Busy \cup {"fetched"}
  PROVE  /\ HeldBy(i, {"fetched"}) => HeldBy(i, {"fetched"})'
         /\ HeldBy(i, Busy) => HeldBy(i, Busy)'
  BY DEF HeldBy

LEMMA QueueStays ==
  ASSUME UNCHANGED queue, NEW i PROVE InQueue(i)' <=> InQueue(i)
  BY DEF InQueue

LEMMA RecoveryStays ==
  ASSUME UNCHANGED recovery, NEW i, NEW at PROVE Recovering(i, at)' <=> Recovering(i, at)
  BY DEF Recovering

(* Requests.                                                               *)
LEMMA BindOrphan ==
  ASSUME OrphanInv, TypeOK', NEW j \in Jobs, BindSession(j)
  PROVE  OrphanInv'
<1>1. /\ UNCHANGED <<added, queue, worker, recovery>>
      /\ enq[j] = "new"
      /\ \A i \in Jobs \ {j} : enq'[i] = enq[i]
  BY DEF BindSession, OrphanInv, TypeOK
<1>2. ASSUME NoSaveFailed' PROVE Saved /\ SameStatus
  <2>1. PICK bound : /\ bound = [mem EXCEPT !.last[SessionOf[j]] = [run |-> j, status |-> "pending"]]
                     /\ Put(bound)
    BY DEF BindSession, Put
  <2>2. bound.status = mem.status
    BY <2>1 DEF OrphanInv, TypeOK, State
  <2>3. mem' = bound /\ disk' = bound /\ NoSaveFailed
    BY <1>2, <2>1, PutSaved DEF OrphanInv
  <2> QED
    BY <2>2, <2>3 DEF Saved, SameStatus
<1>3. ASSUME NoSaveFailed', NEW i \in Jobs PROVE (Stored(i)' <=> Stored(i)) /\ Pursued(i)'
  <2>1. mem'.status[i] = mem.status[i] /\ Pursued(i)
    BY <1>2, <1>3 DEF OrphanInv, Saved, SameStatus
  <2>2. enq[i] \in {"added", "full"} => enq'[i] \in {"added", "full"}
    BY <1>1
  <2>3. Pursued(i)'
    BY <1>1, <2>1, <2>2, QueueStays, WorkersStay, RecoveryStays, StillPursued
  <2> QED
    BY <2>1, <2>3 DEF Stored
<1>4. NoSaveFailed' => (recovery.at \in {"full", "interrupted"} => Stored(recovery.job))
  BY <1>2 DEF OrphanInv, RecoveryStored, Saved
<1> QED
  BY <1>1, <1>2, <1>3, <1>4, RecordsStay

LEMMA EnqueueOrphan ==
  ASSUME OrphanInv, TypeOK', NEW j \in Jobs, EnqueueStoredJob(j)
  PROVE  OrphanInv'
<1>1. /\ UNCHANGED <<mem, disk, faults, added, worker, recovery>>
      /\ enq[j] = "added"
      /\ \A i \in Jobs \ {j} : enq'[i] = enq[i]
      /\ \/ queue' = queue /\ enq'[j] = "full"
         \/ queue' = Append(queue, j) /\ enq'[j] = "accepted"
  BY DEF EnqueueStoredJob, storeVars, OrphanInv, TypeOK
<1>2. /\ \A i \in Jobs : InQueue(i) => InQueue(i)'
      /\ enq'[j] = "full" \/ InQueue(j)'
  <2>1. CASE queue' = queue /\ enq'[j] = "full"
    BY <2>1, QueueStays
  <2>2. CASE queue' = Append(queue, j) /\ enq'[j] = "accepted"
    <3>1. /\ Len(queue) \in Nat
          /\ Len(queue') = Len(queue) + 1
          /\ \A n \in 1..Len(queue) : queue'[n] = queue[n]
          /\ queue'[Len(queue) + 1] = j
      BY <2>2, AppendProperties DEF OrphanInv, TypeOK
    <3> QED
      BY <3>1 DEF InQueue
  <2> QED
    BY <1>1, <2>1, <2>2
<1>3. ASSUME NoSaveFailed' PROVE Saved /\ SameStatus
  BY <1>1, <1>3 DEF Saved, SameStatus, NoSaveFailed, OrphanInv
<1>4. ASSUME NoSaveFailed', NEW i \in Jobs PROVE (Stored(i)' <=> Stored(i)) /\ Pursued(i)'
  <2>1. mem'.status[i] = mem.status[i] /\ Pursued(i)
    BY <1>3, <1>4 DEF OrphanInv, Saved, SameStatus
  <2>2. enq[i] \in {"added", "full"} => enq'[i] \in {"added", "full"} \/ InQueue(i)'
    BY <1>1, <1>2
  <2>3. Pursued(i)'
    BY <1>1, <1>2, <2>1, <2>2, WorkersStay, RecoveryStays, StillPursued
  <2> QED
    BY <2>1, <2>3 DEF Stored
<1>5. NoSaveFailed' => (recovery.at \in {"full", "interrupted"} => Stored(recovery.job))
  BY <1>3 DEF OrphanInv, RecoveryStored, Saved
<1> QED
  BY <1>1, <1>3, <1>4, <1>5, RecordsStay

LEMMA FailFullOrphan ==
  ASSUME OrphanInv, TypeOK', NEW j \in Jobs, FailFullRecord(j) \/ FailFullSession(j)
  PROVE  OrphanInv'
<1>1. /\ UNCHANGED <<added, queue, worker, recovery>>
      /\ \A i \in Jobs \ {j} : enq'[i] = enq[i]
      /\ enq'[j] \in {"failed", "rejected"}
  BY DEF FailFullRecord, FailFullSession, OrphanInv, TypeOK
<1>2. ASSUME NoSaveFailed'
      PROVE  /\ Saved
             /\ \A i \in Jobs \ {j} : mem'.status[i] = mem.status[i]
             /\ Stored(j)' <=> Stored(j)
             /\ \/ mem'.status[j] \in {"none", "failed"}
                \/ mem'.status[j] = mem.status[j] /\ enq[j] = "failed"
  <2>1. CASE FailFullRecord(j)
    BY <1>2, <2>1, UpdateRunJobWrites DEF FailFullRecord, OrphanInv, Writes, SameStatus, Stored
  <2>2. CASE FailFullSession(j)
    BY <1>2, <2>2, UpdateSessionWrites DEF FailFullSession, OrphanInv, SameStatus, Stored
  <2> QED
    BY <2>1, <2>2
<1>3. ASSUME NoSaveFailed', NEW i \in Jobs PROVE Pursued(i)'
  <2>0. Pursued(i)
    BY <1>2, <1>3 DEF OrphanInv, Saved
  <2>1. CASE mem'.status[i] \in {"none", "failed"}
    BY <2>1 DEF Pursued
  <2>2. CASE mem'.status[i] = mem.status[i] /\ (i # j \/ enq[j] = "failed")
    <3>1. enq[i] \in {"added", "full"} => enq'[i] \in {"added", "full"}
      BY <1>1, <2>2
    <3> QED
      BY <1>1, <2>0, <2>2, <3>1, QueueStays, WorkersStay, RecoveryStays, StillPursued
  <2> QED
    BY <1>2, <1>3, <2>1, <2>2
<1>4. ASSUME NoSaveFailed', NEW i \in Jobs PROVE Stored(i)' <=> Stored(i)
  BY <1>2, <1>4 DEF Stored
<1>5. NoSaveFailed' => (recovery.at \in {"full", "interrupted"} => Stored(recovery.job))
  BY <1>2 DEF OrphanInv, RecoveryStored, Saved
<1> QED
  BY <1>1, <1>2, <1>3, <1>4, <1>5, RecordsStay

(* A new record is the newest, and pushes out those that have too many     *)
(* newer ones.                                                             *)
LEMMA AddOrphan ==
  ASSUME OrphanInv, TypeOK', NEW j \in Jobs, AddRunJob(j)
  PROVE  OrphanInv'
<1>1. PICK A : A = {k \in Jobs : added[k] > 0}
  OBVIOUS
<1>2. PICK n : n = Cardinality(A)
  OBVIOUS
<1>3. IsFiniteSet(A) /\ n \in Nat
  BY <1>1, <1>2, JobAssumption, FS_Subset, FS_CardinalityType
<1>4. /\ UNCHANGED <<queue, worker, recovery>>
      /\ enq[j] \in {"new", "bound"}
      /\ recovery.todo = {} /\ recovery.at = "next"
      /\ added'[j] = n + 1
      /\ \A k \in Jobs \ {j} : added'[k] = added[k] /\ enq'[k] = enq[k]
      /\ enq'[j] \in {"added", "refused"}
  BY <1>1, <1>2 DEF AddRunJob, Serving, OrphanInv, TypeOK
<1>5. added \in [Jobs -> Nat] /\ \A k \in Jobs : added[k] <= n
  BY <1>1, <1>2 DEF OrphanInv, TypeOK, AddedInOrder
<1>6. j \notin A
  BY <1>1, <1>4 DEF OrphanInv, NewNotAdded
<1>7. AddedInOrder'
  <2>1. {k \in Jobs : added'[k] > 0} = A \cup {j}
    BY <1>1, <1>3, <1>4
  <2>2. Cardinality(A \cup {j}) = n + 1
    BY <1>2, <1>3, <1>6, FS_AddElement
  <2>3. \A k \in Jobs : added'[k] <= n + 1
    BY <1>3, <1>4, <1>5
  <2> QED
    BY <2>1, <2>2, <2>3 DEF AddedInOrder
<1>8. NewNotAdded'
  BY <1>4 DEF OrphanInv, NewNotAdded
<1>9. ASSUME NoSaveFailed'
      PROVE  disk' = mem' /\ NewerFew' /\ RecoveryStored' /\ \A i \in Jobs : Pursued(i)'
  <2>1. PICK next :
          /\ next = [mem EXCEPT !.status = [k \in Jobs |-> IF k \in Kept THEN @[k] ELSE "none"],
                                !.status[j] = "pending"]
          /\ \/ Saves(next) /\ enq'[j] = "added"
             \/ SaveFails(next)
    BY DEF AddRunJob, OrphanInv, TypeOK
  <2>2. mem' = next /\ disk' = next /\ NoSaveFailed
    BY <1>9, <2>1, PutSaved DEF OrphanInv, Put
  <2>3. enq'[j] = "added"
    BY <1>9, <2>1, <2>2 DEF SaveFails, Fault, NoSaveFailed, OrphanInv, TypeOK, FaultKinds
  <2>4. /\ mem'.status[j] = "pending"
        /\ \A k \in Jobs \ {j} : mem'.status[k] = IF k \in Kept THEN mem.status[k] ELSE "none"
    BY <2>1, <2>2 DEF OrphanInv, TypeOK, State
  <2>5. Records' \subseteq Kept \cup {j} /\ Kept \subseteq Records
    BY <2>4 DEF Records, Stored, Kept
  <2>6. ASSUME NEW i \in Jobs PROVE Pursued(i)'
    <3>1. CASE i = j
      BY <2>3, <2>4, <3>1 DEF Pursued
    <3>2. CASE i # j /\ mem'.status[i] = mem.status[i]
      BY <1>4, <2>2, <3>2, QueueStays, WorkersStay, RecoveryStays, StillPursued DEF OrphanInv
    <3>3. CASE i # j /\ mem'.status[i] = "none"
      BY <3>3 DEF Pursued
    <3> QED
      BY <2>4, <3>1, <3>2, <3>3
  <2>7. RecoveryStored'
    BY <1>4 DEF RecoveryStored
  <2>8. ASSUME NEW i \in Records' PROVE Cardinality(Newer(i, Records)') < RunJobsMax
    <3>1. CASE i = j
      <4>1. Newer(i, Records)' = {}
        BY <1>3, <1>4, <1>5, <3>1 DEF Newer, Records
      <4> QED
        BY <4>1, FS_EmptySet, JobAssumption
    <3>2. CASE i # j
      <4>1. PICK N : N = Newer(i, Records)
        OBVIOUS
      <4>2. i \in Kept /\ i \in Jobs
        BY <2>5, <3>2 DEF Kept
      <4>3. IsFiniteSet(N)
        BY <4>1, JobAssumption, FS_Subset DEF Newer, Records
      <4>4. Cardinality(N) + 1 < RunJobsMax
        <5>1. PICK S : S = {q \in Jobs : Stored(q)}
          OBVIOUS
        <5>2. Cardinality(Newer(i, S)) + 1 < RunJobsMax
          BY <4>2, <5>1 DEF Kept
        <5> QED
          BY <4>1, <5>1, <5>2 DEF Records
      <4>5. Newer(i, Records)' \subseteq N \cup {j}
        BY <1>4, <2>5, <3>2, <4>1, <4>2 DEF Newer, Kept, Records
      <4>6. IsFiniteSet(N \cup {j}) /\ Cardinality(N \cup {j}) <= Cardinality(N) + 1
        <5>1. Cardinality(N) \in Nat
          BY <4>3, FS_CardinalityType
        <5>2. /\ IsFiniteSet(N \cup {j})
              /\ \/ Cardinality(N \cup {j}) = Cardinality(N)
                 \/ Cardinality(N \cup {j}) = Cardinality(N) + 1
          BY <4>3, FS_AddElement
        <5> QED
          BY <5>1, <5>2
      <4>7. /\ Cardinality(Newer(i, Records)') <= Cardinality(N \cup {j})
            /\ Cardinality(Newer(i, Records)') \in Nat
            /\ Cardinality(N) \in Nat /\ Cardinality(N \cup {j}) \in Nat
        BY <4>3, <4>5, <4>6, FS_Subset, FS_CardinalityType
      <4> QED
        BY <4>4, <4>6, <4>7, JobAssumption
    <3> QED
      BY <3>1, <3>2
  <2> QED
    BY <2>2, <2>6, <2>7, <2>8 DEF NewerFew
<1> QED
  BY <1>7, <1>8, <1>9 DEF OrphanInv

(* Cancel requests.                                                        *)
LEMMA CancelOrphan ==
  ASSUME OrphanInv, TypeOK', NEW k \in Cancelers, Cancel(k)
  PROVE  OrphanInv'
<1>1. UNCHANGED <<added, enq, queue, worker, recovery>>
  BY DEF Cancel, CancelRead, CancelRecord, CancelSession, CancelAnswer, CancelRequest
<1>2. ASSUME NoSaveFailed', NEW i \in Jobs
      PROVE  /\ Saved
             /\ \/ mem'.status[i] = mem.status[i]
                \/ mem'.status[i] = "canceled" /\ Stored(i)
  <2>1. CASE UNCHANGED storeVars
    <3>1. disk = mem
      BY <1>2, <2>1 DEF OrphanInv, storeVars, NoSaveFailed
    <3> QED
      BY <1>2, <2>1, <3>1, SameStoreSaved DEF SameStatus
  <2>2. CASE CancelRecord(k)
    <3>1. PICK j \in Jobs : j = canceler[k].job
      BY <2>2 DEF CancelRecord, OrphanInv, TypeOK
    <3>2. CASE Stored(j) /\ Put(WithStatus(j, "canceled"))
      BY <1>2, <3>2, WithStatusWrites DEF OrphanInv, Writes
    <3> QED
      BY <2>1, <2>2, <3>1, <3>2 DEF CancelRecord, Put
  <2>3. CASE CancelSession(k)
    BY <1>2, <2>3, UpdateSessionWrites DEF CancelSession, OrphanInv, SameStatus
  <2>4. CASE CancelAnswer(k)
    BY <1>2, <2>4, FinalEventWrites DEF CancelAnswer, OrphanInv, SameStatus
  <2> QED
    BY <2>1, <2>2, <2>3, <2>4 DEF Cancel, CancelRead, CancelRequest
<1>3. ASSUME NoSaveFailed', NEW i \in Jobs PROVE (Stored(i)' <=> Stored(i)) /\ Pursued(i)'
  <2>1. CASE mem'.status[i] = mem.status[i]
    <3>1. Pursued(i)
      BY <1>2, <1>3 DEF OrphanInv, Saved
    <3>2. Pursued(i)'
      BY <1>1, <2>1, <3>1, QueueStays, WorkersStay, RecoveryStays, StillPursued
    <3> QED
      BY <2>1, <3>2 DEF Stored
  <2>2. CASE mem'.status[i] = "canceled" /\ Stored(i)
    BY <2>2 DEF Pursued, Stored
  <2> QED
    BY <1>2, <1>3, <2>1, <2>2
<1>4. NoSaveFailed' => (recovery.at \in {"full", "interrupted"} => Stored(recovery.job))
  BY <1>2, JobAssumption DEF OrphanInv, RecoveryStored, Saved, TypeOK
<1>5. ASSUME NoSaveFailed' PROVE Saved
  <2>1. CASE Jobs # {}
    BY <1>2, <1>5, <2>1
  <2>2. CASE UNCHANGED storeVars
    <3>1. disk = mem
      BY <1>5, <2>2 DEF OrphanInv, storeVars, NoSaveFailed
    <3> QED
      BY <1>5, <2>2, <3>1, SameStoreSaved
  <2>3. CASE CancelRecord(k) \/ CancelSession(k) \/ CancelAnswer(k)
    BY <2>1, <2>3 DEF CancelRecord, CancelSession, CancelAnswer, OrphanInv, TypeOK
  <2> QED
    BY <2>2, <2>3 DEF Cancel, CancelRead, CancelRequest
<1> QED
  BY <1>1, <1>3, <1>4, <1>5, RecordsStay

(* Workers.                                                                *)
LEMMA BusyStays ==
  ASSUME NEW w \in Workers, \A v \in Workers \ {w} : worker'[v] = worker[v],
         worker[w].at \in Busy, worker'[w].at \in Busy, worker'[w].job = worker[w].job,
         NEW i
  PROVE  /\ HeldBy(i, {"fetched"}) => HeldBy(i, {"fetched"})'
         /\ HeldBy(i, Busy) => HeldBy(i, Busy)'
<1>1. "fetched" \notin Busy
  BY DEF Busy
<1> QED
  BY <1>1 DEF HeldBy

(* A worker only needs to see to its own job.                              *)
LEMMA WorkerPursues ==
  ASSUME OrphanInv, NEW w \in Workers, NoSaveFailed,
         \A v \in Workers \ {w} : worker'[v] = worker[v],
         UNCHANGED <<enq, queue, recovery>>,
         NEW i \in Jobs, mem'.status[i] = mem.status[i],
         \/ worker[w].job # i \/ worker[w].at \notin Busy \cup {"fetched"}
         \/ /\ worker[w].at \in Busy /\ worker'[w].at \in Busy
            /\ worker'[w].job = worker[w].job
  PROVE  Pursued(i)'
<1>1. Pursued(i)
  BY DEF OrphanInv
<1> QED
  BY <1>1, OtherWorkersStay, BusyStays, QueueStays, RecoveryStays, StillPursued

LEMMA FetchOrphan ==
  ASSUME OrphanInv, TypeOK', NEW w \in Workers, Fetch(w)
  PROVE  OrphanInv'
<1>1. /\ UNCHANGED <<mem, disk, faults, added, enq, recovery>>
      /\ worker[w].at = "idle"
      /\ \A v \in Workers \ {w} : worker'[v] = worker[v]
      /\ queue # <<>> /\ queue' = Tail(queue)
  BY DEF Fetch, storeVars, OrphanInv, TypeOK
<1>2. /\ Len(queue') = Len(queue) - 1
      /\ Len(queue) \in Nat \ {0}
      /\ \A n \in 1..Len(queue') : queue'[n] = queue[n + 1]
      /\ Head(queue) = queue[1]
  BY <1>1, HeadTailProperties DEF OrphanInv, TypeOK
<1>0. PICK h : h = Head(queue)
  OBVIOUS
<1>3. ASSUME NEW i \in Jobs, InQueue(i), i # h PROVE InQueue(i)'
  <2>1. PICK n \in 1..Len(queue) : queue[n] = i
    BY <1>3 DEF InQueue
  <2>2. n - 1 \in 1..Len(queue') /\ queue'[n - 1] = i
    BY <1>2, <1>3, <1>0, <2>1
  <2> QED
    BY <2>2 DEF InQueue
<1>4. ASSUME mem.status[h] = "pending" PROVE HeldBy(h, {"fetched"})'
  <2>1. worker'[w] = [Idle EXCEPT !.at = "fetched", !.job = h]
    BY <1>4, <1>0 DEF Fetch, Executable, OrphanInv, TypeOK
  <2> QED
    BY <2>1 DEF HeldBy, Idle
<1>5. ASSUME NoSaveFailed' PROVE Saved /\ SameStatus
  BY <1>1, <1>5 DEF Saved, SameStatus, NoSaveFailed, OrphanInv
<1>6. ASSUME NoSaveFailed', NEW i \in Jobs PROVE (Stored(i)' <=> Stored(i)) /\ Pursued(i)'
  <2>1. Pursued(i) /\ mem' = mem
    BY <1>1, <1>5, <1>6 DEF OrphanInv, Saved
  <2>2. /\ HeldBy(i, {"fetched"}) => HeldBy(i, {"fetched"})'
        /\ HeldBy(i, Busy) => HeldBy(i, Busy)'
    BY <1>1, OtherWorkersStay DEF Busy
  <2>3. \A at : Recovering(i, at)' <=> Recovering(i, at)
    BY <1>1 DEF Recovering
  <2>4. mem.status[i] = "pending" /\ InQueue(i) => InQueue(i)' \/ HeldBy(i, {"fetched"})'
    BY <1>3, <1>4, <1>6
  <2> QED
    BY <1>1, <2>1, <2>2, <2>3, <2>4 DEF Pursued, Stored
<1>7. NoSaveFailed' => (recovery.at \in {"full", "interrupted"} => Stored(recovery.job))
  BY <1>5 DEF OrphanInv, RecoveryStored, Saved
<1> QED
  BY <1>1, <1>5, <1>6, <1>7, RecordsStay

LEMMA StartRecordOrphan ==
  ASSUME OrphanInv, TypeOK', NEW w \in Workers, StartRecord(w)
  PROVE  OrphanInv'
<1>0. PICK j \in Jobs : j = worker[w].job
  BY DEF StartRecord, OrphanInv, TypeOK
<1>1. /\ UNCHANGED <<added, enq, queue, recovery>>
      /\ \A v \in Workers \ {w} : worker'[v] = worker[v]
  BY DEF StartRecord, SaveRunning, Goto, OrphanInv, TypeOK
<1>2. ASSUME NoSaveFailed'
      PROVE  /\ Saved
             /\ \/ Stored(j) /\ Writes(j, "running") /\ HeldBy(j, Busy)'
                \/ ~Stored(j) /\ SameStatus
  <2>1. CASE Stored(j) /\ Saves(WithStatus(j, "running")) /\ Goto(w, "started")
    <3>1. Saved /\ Writes(j, "running")
      BY <1>2, <2>1, WithStatusWrites DEF OrphanInv, Put
    <3>2. worker'[w].at = "started" /\ worker'[w].job = j
      BY <1>0, <2>1 DEF Goto, OrphanInv, TypeOK
    <3> QED
      BY <2>1, <3>1, <3>2 DEF HeldBy, Busy
  <2>2. CASE Stored(j) /\ SaveFails(WithStatus(j, "running"))
    <3>1. faults'["save"] = faults["save"] + 1
      BY <2>2 DEF SaveFails, Fault, OrphanInv, TypeOK, FaultKinds
    <3> QED
      BY <1>2, <3>1 DEF NoSaveFailed, OrphanInv, TypeOK, FaultKinds
  <2>3. CASE ~Stored(j) /\ UNCHANGED storeVars
    <3>1. disk = mem
      BY <1>2, <2>3 DEF OrphanInv, storeVars, NoSaveFailed
    <3> QED
      BY <1>2, <2>3, <3>1, SameStoreSaved
  <2> QED
    BY <1>0, <2>1, <2>2, <2>3 DEF StartRecord, SaveRunning
<1>3. ASSUME NoSaveFailed', NEW i \in Jobs PROVE (Stored(i)' <=> Stored(i)) /\ Pursued(i)'
  <2>1. CASE i = j
    BY <1>2, <1>3, <2>1 DEF Pursued, Writes, Stored, SameStatus
  <2>2. CASE i # j
    <3>1. mem'.status[i] = mem.status[i] /\ NoSaveFailed
      BY <1>2, <1>3, <2>2 DEF Writes, SameStatus, Saved
    <3> QED
      BY <1>0, <1>1, <2>2, <3>1, WorkerPursues DEF Stored
  <2> QED
    BY <2>1, <2>2
<1>4. NoSaveFailed' => (recovery.at \in {"full", "interrupted"} => Stored(recovery.job))
  BY <1>2 DEF OrphanInv, RecoveryStored, Saved
<1> QED
  BY <1>1, <1>2, <1>3, <1>4, RecordsStay

LEMMA ExecuteOrphan ==
  ASSUME OrphanInv, TypeOK', NEW w \in Workers,
         \/ StartSession(w) \/ Register(w) \/ PrepareFails(w) \/ Complete(w) \/ AnnounceFinal(w)
         \/ SettleSession(w) \/ AnnounceUnprepared(w)
  PROVE  OrphanInv'
<1>1. UNCHANGED <<added, enq, queue, recovery>>
  BY DEF StartSession, Register, PrepareFails, Complete, AnnounceFinal, SettleSession, AnnounceUnprepared
<1>2. /\ \A v \in Workers \ {w} : worker'[v] = worker[v]
      /\ \/ worker[w].at \notin Busy \cup {"fetched"}
         \/ /\ worker[w].at \in Busy /\ worker'[w].at \in Busy
            /\ worker'[w].job = worker[w].job
  <2>1. WorkersOK
    BY DEF OrphanInv, TypeOK, WorkersOK
  <2>2. CASE SettleSession(w) \/ AnnounceUnprepared(w)
    BY <2>1, <2>2 DEF WorkersOK, SettleSession, AnnounceUnprepared, Finish, Goto, Busy
  <2>3. CASE StartSession(w) \/ Register(w) \/ PrepareFails(w) \/ Complete(w) \/ AnnounceFinal(w)
    BY <2>1, <2>3 DEF WorkersOK, StartSession, Register, PrepareFails, Complete, AnnounceFinal, Goto, Busy
  <2> QED
    BY <2>2, <2>3
<1>3. ASSUME NoSaveFailed' PROVE Saved /\ SameStatus
  <2>1. CASE UNCHANGED storeVars
    <3>1. disk = mem
      BY <1>3, <2>1 DEF OrphanInv, storeVars, NoSaveFailed
    <3> QED
      BY <1>3, <2>1, <3>1, SameStoreSaved
  <2>2. CASE StartSession(w) \/ SettleSession(w)
    BY <1>3, <2>2, UpdateSessionWrites DEF StartSession, SettleSession, FinalSession, OrphanInv
  <2>3. CASE AnnounceFinal(w) \/ AnnounceUnprepared(w)
    BY <1>3, <2>3, FinalEventWrites DEF AnnounceFinal, AnnounceUnprepared, OrphanInv
  <2> QED
    BY <2>1, <2>2, <2>3 DEF Register, PrepareFails, Complete
<1>4. ASSUME NoSaveFailed', NEW i \in Jobs PROVE (Stored(i)' <=> Stored(i)) /\ Pursued(i)'
  <2>1. mem'.status[i] = mem.status[i] /\ NoSaveFailed
    BY <1>3, <1>4 DEF SameStatus, Saved
  <2> QED
    BY <1>1, <1>2, <2>1, WorkerPursues DEF Stored
<1>5. NoSaveFailed' => (recovery.at \in {"full", "interrupted"} => Stored(recovery.job))
  BY <1>3 DEF OrphanInv, RecoveryStored, Saved
<1> QED
  BY <1>1, <1>3, <1>4, <1>5, RecordsStay

LEMMA SettleRecordOrphan ==
  ASSUME OrphanInv, TypeOK', NEW w \in Workers, SettleRecord(w)
  PROVE  OrphanInv'
<1>0. PICK j \in Jobs, final \in Final : j = worker[w].job /\ final = worker[w].final
  BY DEF SettleRecord, OrphanInv, TypeOK, Ending
<1>1. /\ UNCHANGED <<added, enq, queue, recovery>>
      /\ \A v \in Workers \ {w} : worker'[v] = worker[v]
  BY DEF SettleRecord, Goto, OrphanInv, TypeOK
<1>2. ASSUME NoSaveFailed'
      PROVE  Saved /\ ((Stored(j) /\ Writes(j, final)) \/ (~Stored(j) /\ SameStatus))
  BY <1>0, <1>2, UpdateRunJobWrites DEF SettleRecord, FinalRecord, OrphanInv
<1>3. ASSUME NoSaveFailed', NEW i \in Jobs PROVE (Stored(i)' <=> Stored(i)) /\ Pursued(i)'
  <2>1. CASE i = j
    BY <1>2, <1>3, <2>1 DEF Pursued, Writes, Stored, SameStatus, Final
  <2>2. CASE i # j
    <3>1. mem'.status[i] = mem.status[i] /\ NoSaveFailed
      BY <1>2, <1>3, <2>2 DEF Writes, SameStatus, Saved
    <3> QED
      BY <1>0, <1>1, <2>2, <3>1, WorkerPursues DEF Stored
  <2> QED
    BY <2>1, <2>2
<1>4. NoSaveFailed' => (recovery.at \in {"full", "interrupted"} => Stored(recovery.job))
  BY <1>2 DEF OrphanInv, RecoveryStored, Saved
<1> QED
  BY <1>1, <1>2, <1>3, <1>4, RecordsStay

(* Recovery and restarts.                                                  *)
LEMMA RecoverNextOrphan ==
  ASSUME OrphanInv, TypeOK', RecoverNext
  PROVE  OrphanInv'
<1>0. RecoveryOK
  BY DEF OrphanInv, TypeOK, RecoveryOK
<1>1. PICK j \in Oldest :
        /\ recovery.at = "next"
        /\ recovery'.todo = recovery.todo \ {j}
        /\ \/ mem.status[j] = "pending" /\ queue' = Append(queue, j) /\ recovery'.at = "next"
           \/ mem.status[j] = "pending" /\ recovery'.at = "full" /\ recovery'.job = j /\ queue' = queue
           \/ Interrupted(j) /\ recovery'.at = "interrupted" /\ recovery'.job = j /\ queue' = queue
           \/ mem.status[j] # "pending" /\ ~Interrupted(j) /\ recovery'.at = "next" /\ queue' = queue
  BY <1>0 DEF RecoverNext, RecoveryOK
<1>2. UNCHANGED <<mem, disk, faults, added, enq, worker>>
  BY DEF RecoverNext, storeVars
<1>3. j \in Jobs /\ j \in recovery.todo
  BY <1>0, <1>1 DEF Oldest, RecoveryOK
<1>4. /\ \A i \in Jobs : InQueue(i) => InQueue(i)'
      /\ queue' = Append(queue, j) => InQueue(j)'
  <2>1. CASE queue' = queue /\ queue' # Append(queue, j)
    BY <2>1, QueueStays
  <2>2. CASE queue' = Append(queue, j)
    <3>1. /\ Len(queue) \in Nat
          /\ Len(queue') = Len(queue) + 1
          /\ \A n \in 1..Len(queue) : queue'[n] = queue[n]
          /\ queue'[Len(queue) + 1] = j
      BY <1>3, <2>2, AppendProperties DEF OrphanInv, TypeOK
    <3> QED
      BY <3>1 DEF InQueue
  <2> QED
    BY <1>1, <2>1, <2>2
<1>5. ASSUME NoSaveFailed'
      PROVE  Saved /\ SameStatus /\ (recovery'.at \in {"full", "interrupted"} => Stored(recovery'.job))
  <2>1. Saved /\ SameStatus
    BY <1>2, <1>5 DEF Saved, SameStatus, NoSaveFailed, OrphanInv
  <2>2. Stored(j)
    BY <1>3, <2>1 DEF OrphanInv, Saved, RecoveryStored, Records
  <2> QED
    BY <1>1, <2>1, <2>2
<1>6. ASSUME NoSaveFailed', NEW i \in Jobs PROVE (Stored(i)' <=> Stored(i)) /\ Pursued(i)'
  <2>1. mem' = mem /\ Pursued(i)
    BY <1>2, <1>5, <1>6 DEF OrphanInv, Saved
  <2>2. CASE i = j
    <3>1. mem.status[j] = "pending" => InQueue(j)' \/ Recovering(j, "full")'
      BY <1>1, <1>4 DEF Interrupted, Recovering
    <3>2. mem.status[j] = "running" => Recovering(j, "interrupted")'
      BY <1>1 DEF Interrupted, Recovering
    <3> QED
      BY <2>1, <2>2, <3>1, <3>2 DEF Pursued, Stored
  <2>3. CASE i # j
    <3>1. /\ Recovering(i, "full") => Recovering(i, "full")'
          /\ Recovering(i, "interrupted") => Recovering(i, "interrupted")'
      BY <1>1, <2>3 DEF Recovering
    <3> QED
      BY <1>2, <1>4, <2>1, <3>1, WorkersStay, StillPursued DEF Stored
  <2> QED
    BY <2>2, <2>3
<1> QED
  BY <1>1, <1>2, <1>5, <1>6, RecordsStay

LEMMA RecoverRecordOrphan ==
  ASSUME OrphanInv, TypeOK', RecoverRecord
  PROVE  OrphanInv'
<1>0. RecoveryOK
  BY DEF OrphanInv, TypeOK, RecoveryOK
<1>1. /\ UNCHANGED <<added, enq, queue, worker>>
      /\ recovery.at \in {"full", "interrupted"}
      /\ recovery'.todo = recovery.todo
      /\ recovery'.at \in {"fullSession", "session", "next"}
  BY <1>0 DEF RecoverRecord, RecoverTo, RecoveryOK
<1>2. PICK j \in Jobs : j = recovery.job
  BY <1>0, <1>1 DEF RecoveryOK
<1>3. ASSUME NoSaveFailed' PROVE Saved /\ Writes(j, "failed") /\ Stored(j)
  <2>1. Put(WithStatus(j, "failed"))
    BY <1>2 DEF RecoverRecord, Put
  <2>2. Saved /\ Writes(j, "failed")
    BY <1>3, <2>1, WithStatusWrites DEF OrphanInv
  <2> QED
    BY <1>1, <1>2, <2>2 DEF OrphanInv, RecoveryStored, Saved
<1>4. ASSUME NoSaveFailed', NEW i \in Jobs PROVE (Stored(i)' <=> Stored(i)) /\ Pursued(i)'
  <2>1. CASE i = j
    BY <1>3, <1>4, <2>1 DEF Writes, Pursued, Stored
  <2>2. CASE i # j
    <3>1. mem'.status[i] = mem.status[i] /\ Pursued(i)
      BY <1>3, <1>4, <2>2 DEF Writes, OrphanInv, Saved
    <3>2. /\ Recovering(i, "full") => Recovering(i, "full")'
          /\ Recovering(i, "interrupted") => Recovering(i, "interrupted")'
      BY <1>1, <1>2, <2>2 DEF Recovering
    <3> QED
      BY <1>1, <3>1, <3>2, QueueStays, WorkersStay, StillPursued DEF Stored
  <2> QED
    BY <2>1, <2>2
<1> QED
  BY <1>1, <1>3, <1>4, RecordsStay

LEMMA RecoverRestOrphan ==
  ASSUME OrphanInv, TypeOK', RecoverSession \/ RecoverEvent
  PROVE  OrphanInv'
<1>0. RecoveryOK
  BY DEF OrphanInv, TypeOK, RecoveryOK
<1>1. /\ UNCHANGED <<added, enq, queue, worker>>
      /\ recovery.at \notin {"full", "interrupted"}
      /\ recovery'.todo = recovery.todo
      /\ recovery'.at \in {"event", "next"}
  BY <1>0 DEF RecoverSession, RecoverEvent, RecoverTo, RecoveryOK
<1>2. ASSUME NoSaveFailed' PROVE Saved /\ SameStatus
  BY <1>2, UpdateSessionWrites, FinalEventWrites DEF RecoverSession, RecoverEvent, OrphanInv
<1>3. ASSUME NoSaveFailed', NEW i \in Jobs PROVE (Stored(i)' <=> Stored(i)) /\ Pursued(i)'
  <2>1. mem'.status[i] = mem.status[i] /\ Pursued(i)
    BY <1>2, <1>3 DEF SameStatus, OrphanInv, Saved
  <2>2. /\ Recovering(i, "full") => Recovering(i, "full")'
        /\ Recovering(i, "interrupted") => Recovering(i, "interrupted")'
    BY <1>1 DEF Recovering
  <2> QED
    BY <1>1, <2>1, <2>2, QueueStays, WorkersStay, StillPursued DEF Stored
<1> QED
  BY <1>1, <1>2, <1>3, RecordsStay

(* Recovery looks at every record.                                         *)
LEMMA RestartOrphan ==
  ASSUME RunJobsMax <= RecoverMax, OrphanInv, TypeOK', Restart
  PROVE  OrphanInv'
<1>1. /\ mem' = disk /\ UNCHANGED <<disk, added>>
      /\ faults'["save"] = faults["save"]
      /\ recovery'.todo = Recoverable /\ recovery'.at = "next"
      /\ \A j \in Jobs : enq'[j] \in {"new", "bound"} => enq[j] = "new"
  BY DEF Restart, Fault, FaultKinds, OrphanInv, TypeOK, Answered
<1>2. AddedInOrder' /\ NewNotAdded'
  BY <1>1 DEF OrphanInv, AddedInOrder, NewNotAdded
<1>3. ASSUME NoSaveFailed'
      PROVE  disk' = mem' /\ NewerFew' /\ RecoveryStored' /\ \A j \in Jobs : Pursued(j)'
  <2>1. mem' = mem /\ disk' = mem' /\ disk = mem /\ NoSaveFailed
    BY <1>1, <1>3 DEF OrphanInv, NoSaveFailed
  <2>2. Records' = Records
    BY <2>1 DEF Records, Stored
  <2>3. NewerFew'
    BY <1>1, <2>1, <2>2 DEF OrphanInv, NewerFew, Newer
  <2>4. Recoverable = {j \in Records : Cardinality(Newer(j, Records)) < RecoverMax}
    BY <2>1 DEF Recoverable, Records, Stored
  <2>5. ASSUME NEW j \in Records PROVE j \in Recoverable
    <3>1. Cardinality(Newer(j, Records)) < RunJobsMax
      BY <2>1 DEF OrphanInv, NewerFew
    <3>2. Cardinality(Newer(j, Records)) \in Nat
      BY JobAssumption, FS_Subset, FS_CardinalityType DEF Newer, Records
    <3> QED
      BY <2>4, <3>1, <3>2, JobAssumption
  <2>6. RecoveryStored'
    BY <1>1, <2>2, <2>4 DEF RecoveryStored
  <2>7. \A j \in Jobs : Pursued(j)'
    BY <1>1, <2>1, <2>5 DEF Pursued, Recovering, Records, Stored
  <2> QED
    BY <2>1, <2>3, <2>6, <2>7
<1> QED
  BY <1>2, <1>3 DEF OrphanInv

LEMMA SameOrphan ==
  ASSUME OrphanInv, TypeOK', UNCHANGED <<mem, faults, added, enq, queue, worker, recovery>>,
         disk' = disk \/ disk' = mem
  PROVE  OrphanInv'
<1>1. AddedInOrder' /\ NewNotAdded'
  BY DEF OrphanInv, AddedInOrder, NewNotAdded
<1>2. ASSUME NoSaveFailed'
      PROVE  Saved /\ RecoveryStored /\ \A j \in Jobs : (Stored(j)' <=> Stored(j)) /\ Pursued(j)'
  <2>1. Saved
    BY <1>2 DEF NoSaveFailed, Saved, OrphanInv
  <2>2. \A j \in Jobs : Pursued(j)'
    BY <2>1 DEF OrphanInv, Saved, Pursued, InQueue, HeldBy, Recovering
  <2> QED
    BY <2>1, <2>2 DEF OrphanInv, Saved, Stored
<1>3. NoSaveFailed' => (recovery.at \in {"full", "interrupted"} => Stored(recovery.job))
  BY <1>2 DEF RecoveryStored
<1> QED
  BY <1>2, <1>3, RecordsStay

LEMMA InitOrphan == Init => OrphanInv
<1> SUFFICES ASSUME Init PROVE OrphanInv
  OBVIOUS
<1>1. \A j \in Jobs : mem.status[j] = "none" /\ added[j] = 0
  BY DEF Init, EmptyStore
<1>2. AddedInOrder
  <2>1. {k \in Jobs : added[k] > 0} = {}
    BY <1>1
  <2> QED
    BY <1>1, <2>1, FS_EmptySet DEF AddedInOrder
<1>3. NewNotAdded
  BY <1>1 DEF NewNotAdded
<1>4. \A j \in Jobs : Pursued(j)
  BY <1>1 DEF Pursued
<1>5. NewerFew /\ RecoveryStored /\ disk = mem
  BY <1>1 DEF NewerFew, RecoveryStored, Records, Stored, Init
<1> QED
  BY <1>2, <1>3, <1>4, <1>5, InitTypeOK DEF OrphanInv

LEMMA StepOrphan ==
  ASSUME RunJobsMax <= RecoverMax
  PROVE  OrphanInv /\ [Next]_vars => OrphanInv'
<1> SUFFICES ASSUME OrphanInv, [Next]_vars PROVE OrphanInv'
  OBVIOUS
<1>0. TypeOK'
  BY StepTypeOK DEF OrphanInv
<1>1. ASSUME NEW j \in Jobs, Request(j) PROVE OrphanInv'
  BY <1>0, <1>1, BindOrphan, AddOrphan, EnqueueOrphan, FailFullOrphan DEF Request
<1>2. ASSUME NEW w \in Workers, Work(w) PROVE OrphanInv'
  BY <1>0, <1>2, FetchOrphan, StartRecordOrphan, ExecuteOrphan, SettleRecordOrphan DEF Work
<1>3. ASSUME NEW k \in Cancelers, Cancel(k) PROVE OrphanInv'
  BY <1>0, <1>3, CancelOrphan
<1>4. CASE Recover
  BY <1>0, <1>4, RecoverNextOrphan, RecoverRecordOrphan, RecoverRestOrphan DEF Recover
<1>5. CASE OtherSave
  BY <1>0, <1>5, SameOrphan DEF OtherSave
<1>6. CASE Restart
  BY <1>0, <1>6, RestartOrphan
<1>7. CASE UNCHANGED vars
  BY <1>0, <1>7, SameOrphan DEF vars, storeVars
<1> QED
  BY <1>1, <1>2, <1>3, <1>4, <1>5, <1>6, <1>7 DEF Next

(* As long as saves succeed, every record that is not final is on its way: *)
(* pending ones to a worker, running ones in the hands of a worker or of   *)
(* recovery, through restarts, evictions, full queues and cancel requests; *)
(* provided that retention keeps no more records than recovery looks at,   *)
(* as it does by default (NoOrphan).                                       *)
THEOREM NoRecordOrphaned ==
  ASSUME RunJobsMax <= RecoverMax
  PROVE  Spec => []NoOrphan
<1>1. Init => OrphanInv
  BY InitOrphan
<1>2. OrphanInv /\ [Next]_vars => OrphanInv'
  BY StepOrphan
<1>3. OrphanInv => NoOrphan
  BY DEF OrphanInv, NoOrphan, NoSaveFailed, Pursued, Busy
<1> QED
  BY <1>1, <1>2, <1>3, PTL DEF Spec

-----------------------------------------------------------------------------
(* Sessions agree with the records.  Without faults and cancel requests a  *)
(* job is written by one goroutine at a time: the request that creates it, *)
(* then the worker that has it; a session that does not show the status of *)
(* the record of its run is about to be written by that goroutine.         *)

Executing == {"executing"} \cup Ending

Held(j) == \E w \in Workers : worker[w].at # "idle" /\ worker[w].job = j

(* A worker has begun to execute its job, and no two have the same.        *)
Executed == \A w \in Workers : worker[w].at \in Executing => starts[worker[w].job] > 0

OneWorker ==
  \A v, w \in Workers :
    worker[v].at # "idle" /\ worker[w].at # "idle" /\ worker[v].job = worker[w].job => v = w

(* Only accepted jobs get to the queue, to workers and to execution.       *)
AcceptedOnly ==
  \A j \in Jobs : InQueue(j) \/ Held(j) \/ starts[j] > 0 => enq[j] = "accepted"

RejectedFailed == \A j \in Jobs : enq[j] = "failed" => mem.status[j] \in {"failed", "none"}

Settled == {"settled", "unpreparedSettled", "unpreparedMarked"}

(* The record is as its worker left it, or evicted.                        *)
WorkersAgree ==
  \A w \in Workers :
    /\ worker[w].at \in Busy => mem.status[worker[w].job] \in {"running", "none"}
    /\ worker[w].at \in Settled => mem.status[worker[w].job] \in {worker[w].final, "none"}

(* Somebody has written the record of j and not yet its session.           *)
Updating(j) == enq[j] = "failed" \/ HeldBy(j, {"started", "settled", "unpreparedSettled"})

LastAgrees ==
  \A s \in Sessions, j \in Jobs :
    mem.last[s].run = j =>
      /\ j \in RunJobs /\ SessionOf[j] = s
      /\ mem.status[j] \in {mem.last[s].status, "none"} \/ Updating(j)
      /\ enq[j] = "bound" => mem.last[s].status = "pending"

(* The final events of a run.                                              *)
ToldAgrees ==
  /\ \A j \in RunJobs : starts[j] = 0 => mem.told[j] = {}
  /\ \A w \in Workers :
       worker[w].job \in RunJobs =>
         /\ worker[w].at \in Executing \ {"settling", "settled"} => mem.told[worker[w].job] = {}
         /\ worker[w].at \in {"settling", "settled"} => mem.told[worker[w].job] = {worker[w].final}
  /\ \A j \in RunJobs : Stored(j) /\ starts[j] > 0 /\ ~Held(j) => mem.told[j] = {mem.status[j]}

Calm == AcceptedOnly /\ RejectedFailed /\ WorkersAgree /\ LastAgrees /\ ToldAgrees

ExecInv == OnceInv /\ Executed /\ OneWorker

AgreeInv == ExecInv /\ (Undisturbed => Serving /\ Calm)

(* Executions.                                                             *)
LEMMA ExecutingPlaces ==
  ASSUME TypeOK, NEW w \in Workers
  PROVE  /\ worker[w].at \in {"idle"} \cup PreExecution \cup Executing
         /\ "idle" \notin PreExecution \cup Executing
         /\ PreExecution \cap Executing = {}
  BY DEF TypeOK, WorkerAt, PreExecution, Executing, Ending

(* A step after which each worker is with the job it had, or with none.    *)
LEMMA WorkersKeep ==
  ASSUME ExecInv, OnceInv', \A j \in Jobs : starts'[j] >= starts[j],
         \A v \in Workers : /\ worker'[v].at # "idle" => /\ worker[v].at # "idle"
                                                         /\ worker'[v].job = worker[v].job
                            /\ worker'[v].at \in Executing => \/ worker[v].at \in Executing
                                                              \/ starts'[worker'[v].job] > 0
  PROVE  ExecInv'
<1>1. Executed'
  <2> SUFFICES ASSUME NEW v \in Workers, worker'[v].at \in Executing PROVE starts'[worker'[v].job] > 0
    BY DEF Executed
  <2>1. CASE worker[v].at \in Executing
    <3>1. worker'[v].at # "idle" /\ worker[v].at # "idle"
      BY <2>1 DEF Executing, Ending
    <3>2. PICK j \in Jobs : j = worker[v].job /\ j = worker'[v].job
      BY <3>1 DEF ExecInv, OnceInv, TypeOK
    <3>3. starts[j] > 0 /\ starts'[j] >= starts[j] /\ starts[j] \in Nat /\ starts'[j] \in Nat
      BY <2>1, <3>2 DEF ExecInv, OnceInv, TypeOK, Executed
    <3> QED
      BY <3>2, <3>3
  <2> QED
    BY <2>1
<1>2. OneWorker'
  BY DEF ExecInv, OneWorker
<1> QED
  BY <1>1, <1>2 DEF ExecInv

LEMMA FetchExec ==
  ASSUME ExecInv, OnceInv', NEW w \in Workers, Fetch(w)
  PROVE  ExecInv'
<1>1. PICK h \in Jobs : h = Head(queue) /\ InQueue(h)
  BY TailQueue, TailType DEF Fetch, ExecInv, OnceInv, TypeOK
<1>2. starts[h] = 0 /\ ~HeldBy(h, PreExecution)
  BY <1>1 DEF ExecInv, OnceInv, OnePlace, NotStarted
<1>3. ASSUME NEW v \in Workers, worker[v].at # "idle" PROVE worker[v].job # h
  BY <1>2, <1>3, ExecutingPlaces DEF ExecInv, OnceInv, Executed, HeldBy
<1>4. /\ starts' = starts
      /\ \A v \in Workers \ {w} : worker'[v] = worker[v]
      /\ worker'[w].at \in {"idle", "fetched"}
      /\ worker'[w].at = "fetched" => worker'[w].job = h
  BY <1>1 DEF Fetch, ghostVars, ExecInv, OnceInv, TypeOK, Idle
<1>5. Executed'
  <2>1. {"idle", "fetched"} \cap Executing = {}
    BY DEF Executing, Ending
  <2> QED
    BY <1>4, <2>1 DEF ExecInv, Executed
<1>6. OneWorker'
  BY <1>3, <1>4 DEF ExecInv, OneWorker
<1> QED
  BY <1>5, <1>6 DEF ExecInv

LEMMA RegisterExec ==
  ASSUME ExecInv, OnceInv', NEW w \in Workers, Register(w)
  PROVE  ExecInv'
<1>1. PICK j \in Jobs : j = worker[w].job
  BY DEF Register, ExecInv, OnceInv, TypeOK
<1>2. /\ starts' = [starts EXCEPT ![j] = @ + 1]
      /\ \A v \in Workers \ {w} : worker'[v] = worker[v]
      /\ worker[w].at # "idle" /\ worker'[w].job = j
  BY <1>1 DEF Register, Goto, ExecInv, OnceInv, TypeOK
<1>3. starts \in [Jobs -> Nat]
  BY DEF ExecInv, OnceInv, TypeOK
<1>4. (\A i \in Jobs : starts'[i] >= starts[i]) /\ starts'[j] > 0
  BY <1>2, <1>3
<1> QED
  BY <1>1, <1>2, <1>4, WorkersKeep

LEMMA WorkExec ==
  ASSUME ExecInv, OnceInv', NEW w \in Workers, Work(w)
  PROVE  ExecInv'
<1>0. WorkersOK /\ starts \in [Jobs -> Nat]
  BY DEF ExecInv, OnceInv, TypeOK, WorkersOK
<1>1. CASE StartRecord(w) \/ StartSession(w)
  <2>1. /\ starts' = starts
        /\ \A v \in Workers \ {w} : worker'[v] = worker[v]
        /\ worker[w].at # "idle"
        /\ worker'[w].at \in {"idle", "started", "announced"}
        /\ worker'[w].at # "idle" => worker'[w].job = worker[w].job
    BY <1>0, <1>1 DEF StartRecord, SaveRunning, StartSession, Goto, ghostVars, WorkersOK, Idle
  <2>2. {"idle", "started", "announced"} \cap Executing = {}
    BY DEF Executing, Ending
  <2> QED
    BY <1>0, <2>1, <2>2, WorkersKeep
<1>2. CASE PrepareFails(w) \/ Complete(w) \/ AnnounceFinal(w) \/ SettleRecord(w) \/ SettleSession(w)
           \/ AnnounceUnprepared(w)
  <2>1. /\ starts' = starts
        /\ \A v \in Workers \ {w} : worker'[v] = worker[v]
        /\ worker[w].at \in Executing
        /\ worker'[w].at # "idle" => worker'[w].job = worker[w].job
    <3>1. CASE PrepareFails(w) \/ Complete(w)
      BY <1>0, <3>1 DEF PrepareFails, Complete, ghostVars, WorkersOK, Executing
    <3>2. CASE AnnounceFinal(w) \/ SettleRecord(w)
      BY <1>0, <3>2 DEF AnnounceFinal, SettleRecord, Goto, ghostVars, WorkersOK, Executing, Ending
    <3>3. CASE SettleSession(w) \/ AnnounceUnprepared(w)
      BY <1>0, <3>3 DEF SettleSession, AnnounceUnprepared, Finish, Goto, ghostVars, WorkersOK, Executing,
         Ending, Idle
    <3> QED
      BY <1>2, <3>1, <3>2, <3>3
  <2>2. "idle" \notin Executing
    BY DEF Executing, Ending
  <2> QED
    BY <1>0, <2>1, <2>2, WorkersKeep
<1> QED
  BY <1>1, <1>2, FetchExec, RegisterExec DEF Work

LEMMA StepExec ==
  ASSUME ExecInv, [Next]_vars
  PROVE  ExecInv'
<1>0. OnceInv' /\ starts \in [Jobs -> Nat]
  BY StepOnce DEF ExecInv, OnceInv, TypeOK
<1>1. ASSUME NEW w \in Workers, Work(w) PROVE ExecInv'
  BY <1>0, <1>1, WorkExec
<1>2. CASE UNCHANGED <<starts, worker>>
  BY <1>0, <1>2, WorkersKeep
<1>3. CASE Restart
  <2>1. starts' = starts /\ \A v \in Workers : worker'[v].at = "idle"
    BY <1>3 DEF Restart, ghostVars, Idle
  <2>2. "idle" \notin Executing
    BY DEF Executing, Ending
  <2> QED
    BY <1>0, <2>1, <2>2, WorkersKeep
<1>4. ASSUME NEW j \in Jobs, Request(j) PROVE UNCHANGED <<starts, worker>>
  BY <1>4 DEF Request, BindSession, AddRunJob, EnqueueStoredJob, FailFullRecord, FailFullSession, ghostVars
<1>5. ASSUME NEW k \in Cancelers, Cancel(k) PROVE UNCHANGED <<starts, worker>>
  BY <1>5 DEF Cancel, CancelRead, CancelRecord, CancelSession, CancelAnswer, CancelRequest, ghostVars
<1>6. CASE Recover
  BY <1>2, <1>6 DEF Recover, RecoverNext, RecoverRecord, RecoverSession, RecoverEvent, ghostVars
<1>7. CASE OtherSave \/ UNCHANGED vars
  BY <1>2, <1>7 DEF OtherSave, vars, ghostVars
<1> QED
  BY <1>1, <1>2, <1>3, <1>4, <1>5, <1>6, <1>7 DEF Next

(* What the writes do to the store when no save fails.                     *)
SameLast == \A s \in Sessions : mem'.last[s] = mem.last[s]

SameTold == \A i \in Jobs : mem'.told[i] = mem.told[i]

Shows(j, status) ==
  \A s \in Sessions :
    mem'.last[s] = IF s = SessionOf[j] THEN [run |-> j, status |-> status] ELSE mem.last[s]

Tells(j, status) ==
  \A i \in Jobs : mem'.told[i] = IF i = j THEN mem.told[j] \cup {status} ELSE mem.told[i]

LEMMA WithStatusAlone ==
  ASSUME TypeOK, NEW j \in Jobs, NEW status, Put(WithStatus(j, status)), NoSaveFailed'
  PROVE  Writes(j, status) /\ SameLast /\ SameTold
<1>1. mem' = WithStatus(j, status)
  BY PutSaved
<1> QED
  BY <1>1 DEF WithStatus, TypeOK, State, Writes, SameLast, SameTold

LEMMA SameStoreAlone ==
  ASSUME UNCHANGED mem
  PROVE  SameStatus /\ SameLast /\ SameTold
  BY DEF SameStatus, SameLast, SameTold

LEMMA UpdateRunJobAlone ==
  ASSUME TypeOK, NEW j \in Jobs, NEW status, UpdateRunJob(j, status), NoSaveFailed'
  PROVE  /\ SameLast /\ SameTold
         /\ (Stored(j) /\ Writes(j, status)) \/ (~Stored(j) /\ SameStatus)
<1>1. CASE Stored(j)
  BY <1>1, WithStatusAlone DEF UpdateRunJob
<1>2. CASE ~Stored(j)
  BY <1>2, SameStoreAlone DEF UpdateRunJob, storeVars
<1> QED
  BY <1>1, <1>2

LEMMA UpdateSessionAlone ==
  ASSUME TypeOK, NEW j, NEW status, UpdateSessionRunState(j, status), NoSaveFailed'
  PROVE  /\ SameStatus /\ SameTold
         /\ j \in RunJobs => Shows(j, status)
         /\ j \notin RunJobs => SameLast
<1>1. CASE j \in RunJobs
  <2>1. PICK next : next = [mem EXCEPT !.last[SessionOf[j]] = [run |-> j, status |-> status]]
    OBVIOUS
  <2>2. mem' = next
    BY <1>1, <2>1, PutSaved DEF UpdateSessionRunState
  <2> QED
    BY <1>1, <2>1, <2>2 DEF TypeOK, State, SameStatus, SameTold, Shows
<1>2. CASE j \notin RunJobs
  BY <1>2, SameStoreAlone DEF UpdateSessionRunState, storeVars
<1> QED
  BY <1>1, <1>2

LEMMA FinalEventAlone ==
  ASSUME TypeOK, NEW j, NEW status, AppendFinalEvent(j, status), NoSaveFailed'
  PROVE  SameStatus /\ SameLast /\ Tells(j, status)
<1>1. PICK next : next = [mem EXCEPT !.told[j] = @ \cup {status}]
  OBVIOUS
<1>2. mem' = next
  BY <1>1, PutSaved DEF AppendFinalEvent
<1> QED
  BY <1>1, <1>2 DEF TypeOK, State, SameStatus, SameLast, Tells

(* Requests.  No worker has the job of a request without an answer.        *)
LEMMA RequestAlone ==
  ASSUME ExecInv, Calm, NEW j \in Jobs, Request(j)
  PROVE  /\ ~InQueue(j) /\ ~Held(j) /\ starts[j] = 0
         /\ UNCHANGED <<worker, starts>>
         /\ \A i \in Jobs \ {j} : enq'[i] = enq[i]
         /\ \A i \in Jobs : \A at : (HeldBy(i, at)' <=> HeldBy(i, at)) /\ (Held(i)' <=> Held(i))
<1>1. enq[j] # "accepted"
  BY DEF Request, BindSession, AddRunJob, EnqueueStoredJob, FailFullRecord, FailFullSession
<1>2. ~InQueue(j) /\ ~Held(j) /\ ~(starts[j] > 0)
  BY <1>1 DEF Calm, AcceptedOnly
<1>3. starts[j] \in Nat
  BY DEF ExecInv, OnceInv, TypeOK
<1>4. UNCHANGED <<worker, starts>> /\ \A i \in Jobs \ {j} : enq'[i] = enq[i]
  BY DEF Request, BindSession, AddRunJob, EnqueueStoredJob, FailFullRecord, FailFullSession, ghostVars,
     ExecInv, OnceInv, TypeOK
<1> QED
  BY <1>2, <1>3, <1>4 DEF HeldBy, Held

(* A request that changes nothing but the session of its job.              *)
LEMMA BindCalm ==
  ASSUME ExecInv, Calm, NoSaveFailed', NEW j \in Jobs, BindSession(j)
  PROVE  Calm'
<1>0. Request(j)
  BY DEF Request
<1>1. /\ ~InQueue(j) /\ ~Held(j) /\ starts[j] = 0
      /\ UNCHANGED <<worker, starts>>
      /\ \A i \in Jobs \ {j} : enq'[i] = enq[i]
      /\ \A i \in Jobs : \A at : (HeldBy(i, at)' <=> HeldBy(i, at)) /\ (Held(i)' <=> Held(i))
  BY <1>0, RequestAlone
<1>2. j \in RunJobs /\ SameStatus /\ SameTold /\ Shows(j, "pending")
  <2>1. PICK bound : bound = [mem EXCEPT !.last[SessionOf[j]] = [run |-> j, status |-> "pending"]]
    OBVIOUS
  <2>2. Put(bound) /\ j \in RunJobs
    BY <2>1 DEF BindSession, Put
  <2>3. mem' = bound
    BY <2>2, PutSaved DEF ExecInv, OnceInv
  <2> QED
    BY <2>1, <2>2, <2>3 DEF ExecInv, OnceInv, TypeOK, State, SameStatus, SameTold, Shows
<1>3. /\ enq[j] = "new" /\ enq'[j] \in {"bound", "refused"} /\ UNCHANGED queue
  BY DEF BindSession, ExecInv, OnceInv, TypeOK
<1>4. mem.status[j] = "none"
  BY <1>3 DEF ExecInv, OnceInv, NewUnwritten, Written
<1>5. AcceptedOnly' /\ RejectedFailed' /\ WorkersAgree'
  <2>1. AcceptedOnly'
    BY <1>1, <1>3 DEF Calm, AcceptedOnly, InQueue
  <2>2. RejectedFailed'
    BY <1>1, <1>2, <1>3 DEF Calm, RejectedFailed, SameStatus
  <2>3. WorkersAgree'
    <3>1. \A v \in Workers : worker[v].at \in Busy \cup Settled => worker[v].job \in Jobs
      BY DEF ExecInv, OnceInv, TypeOK, Busy, Settled
    <3> QED
      BY <1>1, <1>2, <3>1 DEF Calm, WorkersAgree, SameStatus
  <2> QED
    BY <2>1, <2>2, <2>3
<1>6. LastAgrees'
  <2> SUFFICES ASSUME NEW s \in Sessions, NEW i \in Jobs, mem'.last[s].run = i
               PROVE  /\ i \in RunJobs /\ SessionOf[i] = s
                      /\ mem'.status[i] \in {mem'.last[s].status, "none"} \/ Updating(i)'
                      /\ enq'[i] = "bound" => mem'.last[s].status = "pending"
    BY DEF LastAgrees
  <2>1. CASE s = SessionOf[j]
    <3>1. i = j /\ mem'.last[s].status = "pending" /\ mem'.status[j] = "none"
      BY <1>2, <1>4, <2>1 DEF Shows, SameStatus
    <3> QED
      BY <1>2, <2>1, <3>1
  <2>2. CASE s # SessionOf[j]
    <3>1. mem'.last[s] = mem.last[s] /\ mem'.status[i] = mem.status[i]
      BY <1>2, <2>2 DEF Shows, SameStatus
    <3>2. i \in RunJobs /\ SessionOf[i] = s /\ i # j
      BY <2>2, <3>1 DEF Calm, LastAgrees
    <3>3. Updating(i) => Updating(i)'
      BY <1>1, <3>2 DEF Updating
    <3> QED
      BY <1>1, <3>1, <3>2, <3>3 DEF Calm, LastAgrees
  <2> QED
    BY <2>1, <2>2
<1>7. ToldAgrees'
  BY <1>1, <1>2 DEF Calm, ToldAgrees, SameTold, SameStatus, Stored, RunJobs
<1> QED
  BY <1>5, <1>6, <1>7 DEF Calm

LEMMA AddCalm ==
  ASSUME ExecInv, Calm, NoSaveFailed', NEW j \in Jobs, AddRunJob(j)
  PROVE  Calm'
<1>0. Request(j)
  BY DEF Request
<1>1. /\ ~InQueue(j) /\ ~Held(j) /\ starts[j] = 0
      /\ UNCHANGED <<worker, starts>>
      /\ \A i \in Jobs \ {j} : enq'[i] = enq[i]
      /\ \A i \in Jobs : \A at : (HeldBy(i, at)' <=> HeldBy(i, at)) /\ (Held(i)' <=> Held(i))
  BY <1>0, RequestAlone
<1>2. /\ SameLast /\ SameTold
      /\ mem'.status[j] = "pending"
      /\ \A i \in Jobs \ {j} : mem'.status[i] \in {mem.status[i], "none"}
  <2>1. PICK next : next = [mem EXCEPT !.status = [k \in Jobs |-> IF k \in Kept THEN @[k] ELSE "none"],
                                       !.status[j] = "pending"]
    OBVIOUS
  <2>2. Put(next)
    BY <2>1 DEF AddRunJob, Put
  <2>3. mem' = next
    BY <2>2, PutSaved DEF ExecInv, OnceInv
  <2> QED
    BY <2>1, <2>3 DEF ExecInv, OnceInv, TypeOK, State, SameLast, SameTold
<1>3. /\ enq[j] = IF j \in RunJobs THEN "bound" ELSE "new"
      /\ enq'[j] \in {"added", "refused"} /\ UNCHANGED queue
  BY DEF AddRunJob, ExecInv, OnceInv, TypeOK
<1>4. AcceptedOnly' /\ RejectedFailed'
  BY <1>1, <1>2, <1>3 DEF Calm, AcceptedOnly, RejectedFailed, InQueue
<1>5. WorkersAgree'
  <2>1. ASSUME NEW v \in Workers, worker[v].at \in Busy \cup Settled
        PROVE  worker[v].job \in Jobs /\ worker[v].job # j
    BY <1>1, <2>1 DEF ExecInv, OnceInv, TypeOK, Busy, Settled, Held
  <2> QED
    BY <1>1, <1>2, <2>1 DEF Calm, WorkersAgree
<1>6. LastAgrees'
  <2> SUFFICES ASSUME NEW s \in Sessions, NEW i \in Jobs, mem'.last[s].run = i
               PROVE  /\ i \in RunJobs /\ SessionOf[i] = s
                      /\ mem'.status[i] \in {mem'.last[s].status, "none"} \/ Updating(i)'
                      /\ enq'[i] = "bound" => mem'.last[s].status = "pending"
    BY DEF LastAgrees
  <2>1. mem'.last[s] = mem.last[s] /\ i \in RunJobs /\ SessionOf[i] = s
    BY <1>2 DEF SameLast, Calm, LastAgrees
  <2>2. CASE i = j
    <3>1. mem.last[s].status = "pending"
      BY <1>3, <2>1, <2>2 DEF Calm, LastAgrees
    <3> QED
      BY <1>2, <1>3, <2>1, <2>2, <3>1
  <2>3. CASE i # j
    <3>1. Updating(i) => Updating(i)'
      BY <1>1, <2>3 DEF Updating
    <3> QED
      BY <1>1, <1>2, <2>1, <2>3, <3>1 DEF Calm, LastAgrees
  <2> QED
    BY <2>2, <2>3
<1>7. ToldAgrees'
  <2>1. \A i \in Jobs : Stored(i)' /\ starts[i] > 0 => Stored(i) /\ mem'.status[i] = mem.status[i]
    BY <1>1, <1>2 DEF Stored
  <2> QED
    BY <1>1, <1>2, <2>1 DEF Calm, ToldAgrees, SameTold, RunJobs
<1> QED
  BY <1>4, <1>5, <1>6, <1>7 DEF Calm

LEMMA EnqueueCalm ==
  ASSUME ExecInv, Calm, NEW j \in Jobs, EnqueueStoredJob(j)
  PROVE  Calm'
<1>0. Request(j)
  BY DEF Request
<1>1. /\ ~InQueue(j) /\ ~Held(j) /\ starts[j] = 0
      /\ UNCHANGED <<worker, starts>>
      /\ \A i \in Jobs \ {j} : enq'[i] = enq[i]
      /\ \A i \in Jobs : \A at : (HeldBy(i, at)' <=> HeldBy(i, at)) /\ (Held(i)' <=> Held(i))
  BY <1>0, RequestAlone
<1>2. /\ UNCHANGED mem
      /\ enq[j] = "added"
      /\ \/ enq'[j] = "accepted" /\ queue' = Append(queue, j)
         \/ enq'[j] = "full" /\ queue' = queue
  BY DEF EnqueueStoredJob, storeVars, ExecInv, OnceInv, TypeOK
<1>3. AcceptedOnly'
  <2>1. ASSUME NEW i \in Jobs, InQueue(i)', i # j PROVE InQueue(i)
    <3>1. CASE queue' = queue
      BY <2>1, <3>1 DEF InQueue
    <3>2. CASE queue' = Append(queue, j)
      <4>1. queue \in Seq(Jobs)
        BY DEF ExecInv, OnceInv, TypeOK
      <4>2. PICK n \in 1..Len(queue') : queue'[n] = i
        BY <2>1 DEF InQueue
      <4>3. n \in 1..Len(queue) /\ queue[n] = i
        BY <2>1, <3>2, <4>1, <4>2, AppendProperties
      <4> QED
        BY <4>3 DEF InQueue
    <3> QED
      BY <1>2, <3>1, <3>2
  <2>2. InQueue(j)' => enq'[j] = "accepted"
    BY <1>1, <1>2 DEF InQueue
  <2> QED
    BY <1>1, <2>1, <2>2 DEF Calm, AcceptedOnly
<1>4. RejectedFailed' /\ WorkersAgree'
  BY <1>1, <1>2 DEF Calm, RejectedFailed, WorkersAgree
<1>5. LastAgrees'
  <2>1. \A i \in Jobs : (Updating(i) => Updating(i)') /\ (enq'[i] = "bound" => enq[i] = "bound")
    BY <1>1, <1>2 DEF Updating
  <2> QED
    BY <1>2, <2>1 DEF Calm, LastAgrees
<1>6. ToldAgrees'
  BY <1>1, <1>2 DEF Calm, ToldAgrees, Stored, RunJobs
<1> QED
  BY <1>3, <1>4, <1>5, <1>6 DEF Calm

LEMMA FailRecordCalm ==
  ASSUME ExecInv, Calm, NoSaveFailed', NEW j \in Jobs, FailFullRecord(j)
  PROVE  Calm'
<1>0. Request(j)
  BY DEF Request
<1>1. /\ ~InQueue(j) /\ ~Held(j) /\ starts[j] = 0
      /\ UNCHANGED <<worker, starts>>
      /\ \A i \in Jobs \ {j} : enq'[i] = enq[i]
      /\ \A i \in Jobs : \A at : (HeldBy(i, at)' <=> HeldBy(i, at)) /\ (Held(i)' <=> Held(i))
  BY <1>0, RequestAlone
<1>2. /\ SameLast /\ SameTold
      /\ mem'.status[j] \in {"failed", "none"}
      /\ \A i \in Jobs \ {j} : mem'.status[i] = mem.status[i]
  BY UpdateRunJobAlone DEF FailFullRecord, ExecInv, OnceInv, Writes, SameStatus, Stored
<1>3. enq'[j] = "failed" /\ UNCHANGED queue
  BY DEF FailFullRecord, ExecInv, OnceInv, TypeOK
<1>4. AcceptedOnly' /\ RejectedFailed'
  <2>1. AcceptedOnly'
    BY <1>1, <1>3 DEF Calm, AcceptedOnly, InQueue
  <2>2. RejectedFailed'
    BY <1>1, <1>2, <1>3 DEF Calm, RejectedFailed
  <2> QED
    BY <2>1, <2>2
<1>5. WorkersAgree'
  <2>1. ASSUME NEW v \in Workers, worker[v].at \in Busy \cup Settled
        PROVE  worker[v].job \in Jobs /\ worker[v].job # j
    BY <1>1, <2>1 DEF ExecInv, OnceInv, TypeOK, Busy, Settled, Held
  <2> QED
    BY <1>1, <1>2, <2>1 DEF Calm, WorkersAgree
<1>6. LastAgrees'
  <2>1. \A i \in Jobs : (Updating(i) => Updating(i)') /\ (enq'[i] = "bound" => enq[i] = "bound")
    BY <1>1, <1>3 DEF Updating
  <2>2. Updating(j)'
    BY <1>3 DEF Updating
  <2> QED
    BY <1>2, <2>1, <2>2 DEF Calm, LastAgrees, SameLast
<1>7. ToldAgrees'
  BY <1>1, <1>2 DEF Calm, ToldAgrees, SameTold, Stored, RunJobs
<1> QED
  BY <1>4, <1>5, <1>6, <1>7 DEF Calm

LEMMA FailSessionCalm ==
  ASSUME ExecInv, Calm, NoSaveFailed', NEW j \in Jobs, FailFullSession(j)
  PROVE  Calm'
<1>0. Request(j)
  BY DEF Request
<1>1. /\ ~InQueue(j) /\ ~Held(j) /\ starts[j] = 0
      /\ UNCHANGED <<worker, starts>>
      /\ \A i \in Jobs \ {j} : enq'[i] = enq[i]
      /\ \A i \in Jobs : \A at : (HeldBy(i, at)' <=> HeldBy(i, at)) /\ (Held(i)' <=> Held(i))
  BY <1>0, RequestAlone
<1>2. /\ SameStatus /\ SameTold
      /\ j \in RunJobs => Shows(j, "failed")
      /\ j \notin RunJobs => SameLast
  BY UpdateSessionAlone DEF FailFullSession, ExecInv, OnceInv
<1>3. enq[j] = "failed" /\ enq'[j] = "rejected" /\ UNCHANGED queue
  BY DEF FailFullSession, ExecInv, OnceInv, TypeOK
<1>4. mem.status[j] \in {"failed", "none"}
  BY <1>3 DEF Calm, RejectedFailed
<1>5. AcceptedOnly' /\ RejectedFailed'
  BY <1>1, <1>2, <1>3 DEF Calm, AcceptedOnly, RejectedFailed, InQueue, SameStatus
<1>6. WorkersAgree'
  <2>1. \A v \in Workers : worker[v].at \in Busy \cup Settled => worker[v].job \in Jobs
    BY DEF ExecInv, OnceInv, TypeOK, Busy, Settled
  <2> QED
    BY <1>1, <1>2, <2>1 DEF Calm, WorkersAgree, SameStatus
<1>7. LastAgrees'
  <2> SUFFICES ASSUME NEW s \in Sessions, NEW i \in Jobs, mem'.last[s].run = i
               PROVE  /\ i \in RunJobs /\ SessionOf[i] = s
                      /\ mem'.status[i] \in {mem'.last[s].status, "none"} \/ Updating(i)'
                      /\ enq'[i] = "bound" => mem'.last[s].status = "pending"
    BY DEF LastAgrees
  <2>1. CASE j \in RunJobs /\ s = SessionOf[j]
    <3>1. i = j /\ mem'.last[s].status = "failed" /\ mem'.status[j] = mem.status[j]
      BY <1>2, <2>1 DEF Shows, SameStatus
    <3> QED
      BY <1>3, <1>4, <2>1, <3>1
  <2>2. CASE ~(j \in RunJobs /\ s = SessionOf[j])
    <3>1. mem'.last[s] = mem.last[s] /\ mem'.status[i] = mem.status[i]
      BY <1>2, <2>2 DEF Shows, SameLast, SameStatus
    <3>2. i \in RunJobs /\ SessionOf[i] = s /\ i # j
      BY <2>2, <3>1 DEF Calm, LastAgrees
    <3>3. Updating(i) => Updating(i)'
      BY <1>1, <3>2 DEF Updating
    <3> QED
      BY <1>1, <3>1, <3>2, <3>3 DEF Calm, LastAgrees
  <2> QED
    BY <2>1, <2>2
<1>8. ToldAgrees'
  BY <1>1, <1>2 DEF Calm, ToldAgrees, SameTold, SameStatus, Stored, RunJobs
<1> QED
  BY <1>5, <1>6, <1>7, <1>8 DEF Calm

(* Workers.  A worker needs to see to its own job only: nobody else writes *)
(* the record, the session or the events of it.                            *)

Between == {"started", "settled", "unpreparedSettled"}

(* The session shows the record of j, or is still to be written.           *)
LastFollows(w, j) ==
  \/ /\ SameLast
     /\ j \in RunJobs => \/ worker'[w].at \in Between
                         \/ mem'.status[j] = mem.status[j] /\ worker[w].at \notin Between
  \/ /\ j \in RunJobs
     /\ mem'.status[j] = mem.status[j]
     /\ \E status : Shows(j, status) /\ mem.status[j] \in {status, "none"}

RecordFollows(w, j) ==
  /\ worker'[w].at \in Busy => mem'.status[j] \in {"running", "none"}
  /\ worker'[w].at \in Settled => mem'.status[j] \in {worker'[w].final, "none"}

ToldFollows(w, j) ==
  j \in RunJobs =>
    /\ starts'[j] = 0 => mem'.told[j] = {}
    /\ worker'[w].at \in Executing \ {"settling", "settled"} => mem'.told[j] = {}
    /\ worker'[w].at \in {"settling", "settled"} => mem'.told[j] = {worker'[w].final}
    /\ worker'[w].at = "idle" /\ mem'.status[j] # "none" /\ starts'[j] > 0 =>
         mem'.told[j] = {mem'.status[j]}

Own(w, j) ==
  /\ worker[w].at # "idle" /\ worker[w].job = j
  /\ worker'[w].at # "idle" => worker'[w].job = j
  /\ UNCHANGED <<enq, queue>>
  /\ \A v \in Workers \ {w} : worker'[v] = worker[v]
  /\ \A i \in Jobs \ {j} : /\ starts'[i] = starts[i]
                           /\ mem'.status[i] = mem.status[i]
                           /\ mem'.told[i] = mem.told[i]

LEMMA OwnCalm ==
  ASSUME ExecInv, Calm, NEW w \in Workers, NEW j \in Jobs,
         Own(w, j), LastFollows(w, j), RecordFollows(w, j), ToldFollows(w, j)
  PROVE  Calm'
<1>1. enq[j] = "accepted"
  BY DEF Own, Calm, AcceptedOnly, Held
<1>2. \A v \in Workers \ {w} : worker[v].at # "idle" => worker[v].job # j
  BY DEF Own, ExecInv, OneWorker
<1>3. "idle" \notin Busy \cup Settled \cup Executing \cup Between
  BY DEF Busy, Settled, Executing, Ending, Between
<1>4. \A v \in Workers : worker[v].at # "idle" => worker[v].job \in Jobs
  BY DEF ExecInv, OnceInv, TypeOK
<1>5. AcceptedOnly'
  <2>1. \A i \in Jobs : InQueue(i)' => InQueue(i)
    BY DEF Own, InQueue
  <2>2. \A i \in Jobs \ {j} : Held(i)' => Held(i)
    BY DEF Own, Held
  <2> QED
    BY <1>1, <2>1, <2>2 DEF Own, Calm, AcceptedOnly
<1>6. RejectedFailed'
  BY <1>1 DEF Own, Calm, RejectedFailed
<1>7. WorkersAgree'
  <2>1. ASSUME NEW v \in Workers \ {w}
        PROVE  /\ worker'[v].at \in Busy => mem'.status[worker'[v].job] \in {"running", "none"}
               /\ worker'[v].at \in Settled => mem'.status[worker'[v].job] \in {worker'[v].final, "none"}
    BY <1>2, <1>3, <1>4 DEF Own, Calm, WorkersAgree
  <2>2. /\ worker'[w].at \in Busy => mem'.status[worker'[w].job] \in {"running", "none"}
        /\ worker'[w].at \in Settled => mem'.status[worker'[w].job] \in {worker'[w].final, "none"}
    BY <1>3 DEF Own, RecordFollows
  <2> QED
    BY <2>1, <2>2 DEF WorkersAgree
<1>8. LastAgrees'
  <2>1. \A i \in Jobs : i # j => (Updating(i) => Updating(i)')
    BY DEF Own, Updating, HeldBy
  <2>2. worker'[w].at \in Between => Updating(j)'
    BY <1>3 DEF Own, Updating, HeldBy, Between
  <2>3. worker[w].at \notin Between => ~Updating(j)
    BY <1>1, <1>2, <1>3 DEF Updating, HeldBy, Between, Own
  <2> SUFFICES ASSUME NEW s \in Sessions, NEW i \in Jobs, mem'.last[s].run = i
               PROVE  /\ i \in RunJobs /\ SessionOf[i] = s
                      /\ mem'.status[i] \in {mem'.last[s].status, "none"} \/ Updating(i)'
                      /\ enq'[i] = "bound" => mem'.last[s].status = "pending"
    BY DEF LastAgrees
  <2>4. CASE SameLast /\ (j \in RunJobs => \/ worker'[w].at \in Between
                                           \/ mem'.status[j] = mem.status[j] /\ worker[w].at \notin Between)
    <3>1. mem'.last[s] = mem.last[s] /\ i \in RunJobs /\ SessionOf[i] = s
      BY <2>4 DEF SameLast, Calm, LastAgrees
    <3>2. /\ mem.status[i] \in {mem.last[s].status, "none"} \/ Updating(i)
          /\ enq[i] = "bound" => mem.last[s].status = "pending"
      BY <3>1 DEF Calm, LastAgrees
    <3>3. CASE i = j
      BY <2>2, <2>3, <2>4, <3>1, <3>2, <3>3 DEF Own
    <3>4. CASE i # j
      BY <2>1, <3>1, <3>2, <3>4 DEF Own
    <3> QED
      BY <3>3, <3>4
  <2>5. ASSUME NEW status, j \in RunJobs, mem'.status[j] = mem.status[j], Shows(j, status),
               mem.status[j] \in {status, "none"}
        PROVE  /\ i \in RunJobs /\ SessionOf[i] = s
               /\ mem'.status[i] \in {mem'.last[s].status, "none"} \/ Updating(i)'
               /\ enq'[i] = "bound" => mem'.last[s].status = "pending"
    <3>1. CASE s = SessionOf[j]
      <4>1. mem'.last[s] = [run |-> j, status |-> status]
        BY <2>5, <3>1 DEF Shows
      <4>2. i = j /\ mem'.last[s].status = status
        BY <4>1
      <4> QED
        BY <1>1, <2>5, <3>1, <4>2 DEF Own
    <3>2. CASE s # SessionOf[j]
      <4>1. mem'.last[s] = mem.last[s]
        BY <2>5, <3>2 DEF Shows
      <4>2. i \in RunJobs /\ SessionOf[i] = s /\ i # j
        BY <3>2, <4>1 DEF Calm, LastAgrees
      <4>3. /\ mem.status[i] \in {mem.last[s].status, "none"} \/ Updating(i)
            /\ enq[i] = "bound" => mem.last[s].status = "pending"
        BY <4>1 DEF Calm, LastAgrees
      <4> QED
        BY <2>1, <4>1, <4>2, <4>3 DEF Own
    <3> QED
      BY <3>1, <3>2
  <2> QED
    BY <2>4, <2>5 DEF LastFollows
<1>9. ToldAgrees'
  <2>1. \A i \in Jobs \ {j} : Held(i)' <=> Held(i)
    BY DEF Own, Held
  <2>2. ~Held(j)' => worker'[w].at = "idle"
    BY DEF Own, Held
  <2>3. ASSUME NEW i \in RunJobs, starts'[i] = 0 PROVE mem'.told[i] = {}
    BY <2>3 DEF Own, Calm, ToldAgrees, ToldFollows, RunJobs
  <2>4. ASSUME NEW v \in Workers, worker'[v].job \in RunJobs
        PROVE  /\ worker'[v].at \in Executing \ {"settling", "settled"} => mem'.told[worker'[v].job] = {}
               /\ worker'[v].at \in {"settling", "settled"} =>
                    mem'.told[worker'[v].job] = {worker'[v].final}
    <3>1. CASE v = w
      BY <1>3, <2>4, <3>1 DEF Own, ToldFollows
    <3>2. CASE v # w
      <4>1. worker'[v] = worker[v]
        BY <3>2 DEF Own
      <4>2. CASE worker[v].at = "idle"
        BY <1>3, <4>1, <4>2
      <4>3. CASE worker[v].at # "idle"
        <5>1. worker[v].job \in Jobs \ {j}
          BY <1>2, <1>4, <3>2, <4>3
        <5>2. mem'.told[worker[v].job] = mem.told[worker[v].job]
          BY <5>1 DEF Own
        <5> QED
          BY <2>4, <4>1, <5>2 DEF Calm, ToldAgrees
      <4> QED
        BY <4>2, <4>3
    <3> QED
      BY <3>1, <3>2
  <2>5. ASSUME NEW i \in RunJobs, Stored(i)', starts'[i] > 0, ~Held(i)'
        PROVE  mem'.told[i] = {mem'.status[i]}
    <3>1. CASE i = j
      BY <2>2, <2>5, <3>1 DEF ToldFollows, Stored
    <3>2. CASE i # j
      <4>1. i \in Jobs \ {j}
        BY <3>2 DEF RunJobs
      <4> QED
        BY <2>1, <2>5, <4>1 DEF Own, Calm, ToldAgrees, Stored
    <3> QED
      BY <3>1, <3>2
  <2> QED
    BY <2>3, <2>4, <2>5 DEF ToldAgrees
<1> QED
  BY <1>5, <1>6, <1>7, <1>8, <1>9 DEF Calm

LEMMA FetchCalm ==
  ASSUME ExecInv, Calm, NEW w \in Workers, Fetch(w)
  PROVE  Calm'
<1>1. /\ UNCHANGED <<mem, enq, starts>>
      /\ worker[w].at = "idle"
      /\ \A v \in Workers \ {w} : worker'[v] = worker[v]
      /\ worker'[w].at \in {"idle", "fetched"}
  BY DEF Fetch, storeVars, ghostVars, ExecInv, OnceInv, TypeOK, Idle
<1>0. PICK h \in Jobs : h = Head(queue)
  BY TailType DEF Fetch, ExecInv, OnceInv, TypeOK
<1>2. /\ InQueue(h)
      /\ \A i \in Jobs : InQueue(i)' => InQueue(i)
      /\ worker'[w].at = "fetched" => worker'[w].job = h
  BY <1>0, TailQueue DEF Fetch, ExecInv, OnceInv, TypeOK, Idle
<1>3. {"idle", "fetched"} \cap (Busy \cup Settled \cup Executing \cup Between) = {}
  BY DEF Busy, Settled, Executing, Ending, Between
<1>4. \A i \in Jobs : (Held(i)' => Held(i) \/ i = h) /\ (Held(i) => Held(i)')
  BY <1>1, <1>2 DEF Held
<1>5. AcceptedOnly' /\ RejectedFailed'
  <2>1. AcceptedOnly'
    BY <1>1, <1>2, <1>4 DEF Calm, AcceptedOnly
  <2>2. RejectedFailed'
    BY <1>1 DEF Calm, RejectedFailed
  <2> QED
    BY <2>1, <2>2
<1>6. WorkersAgree'
  BY <1>1, <1>3 DEF Calm, WorkersAgree
<1>7. LastAgrees'
  <2>1. \A i \in Jobs : Updating(i) => Updating(i)'
    BY <1>1 DEF Updating, HeldBy
  <2> QED
    BY <1>1, <2>1 DEF Calm, LastAgrees
<1>8. ToldAgrees'
  BY <1>1, <1>3, <1>4 DEF Calm, ToldAgrees, Stored, RunJobs
<1> QED
  BY <1>5, <1>6, <1>7, <1>8 DEF Calm

LEMMA StartRecordCalm ==
  ASSUME ExecInv, Calm, NoSaveFailed', NEW w \in Workers, StartRecord(w)
  PROVE  Calm'
<1>0. PICK j \in Jobs : j = worker[w].job
  BY DEF StartRecord, ExecInv, OnceInv, TypeOK
<1>1. /\ worker[w].at = "fetched"
      /\ UNCHANGED <<enq, queue, starts>>
      /\ \A v \in Workers \ {w} : worker'[v] = worker[v]
  BY DEF StartRecord, SaveRunning, Goto, ghostVars, ExecInv, OnceInv, TypeOK
<1>2. starts[j] = 0
  BY <1>0, <1>1 DEF ExecInv, OnceInv, NotStarted, HeldBy, PreExecution
<1>3. /\ SameLast /\ SameTold
      /\ \/ Writes(j, "running") /\ worker'[w].at = "started" /\ worker'[w].job = j
         \/ SameStatus /\ worker'[w] = Idle
  <2>1. CASE Stored(j) /\ Saves(WithStatus(j, "running")) /\ Goto(w, "started")
    <3>1. Writes(j, "running") /\ SameLast /\ SameTold
      BY <2>1, WithStatusAlone DEF ExecInv, OnceInv, Put
    <3>2. worker'[w].at = "started" /\ worker'[w].job = j
      BY <1>0, <2>1 DEF Goto, ExecInv, OnceInv, TypeOK
    <3> QED
      BY <3>1, <3>2
  <2>2. CASE SaveFails(WithStatus(j, "running"))
    <3>1. faults'["save"] = faults["save"] + 1
      BY <2>2 DEF SaveFails, Fault, ExecInv, OnceInv, TypeOK, FaultKinds
    <3> QED
      BY <3>1 DEF NoSaveFailed, ExecInv, OnceInv, TypeOK, FaultKinds
  <2>3. CASE UNCHANGED storeVars /\ worker' = [worker EXCEPT ![w] = Idle]
    <3>1. worker'[w] = Idle
      BY <2>3 DEF ExecInv, OnceInv, TypeOK
    <3> QED
      BY <2>3, <3>1, SameStoreAlone DEF storeVars
  <2> QED
    BY <1>0, <2>1, <2>2, <2>3 DEF StartRecord, SaveRunning
<1>4. Own(w, j)
  BY <1>0, <1>1, <1>3 DEF Own, Writes, SameStatus, SameTold, Idle
<1>5. LastFollows(w, j)
  BY <1>1, <1>3 DEF LastFollows, SameStatus, Between
<1>6. RecordFollows(w, j)
  BY <1>3 DEF RecordFollows, Writes, Idle, Busy, Settled
<1>7. ToldFollows(w, j)
  <2>1. j \in RunJobs => mem'.told[j] = {}
    BY <1>2, <1>3 DEF Calm, ToldAgrees, SameTold
  <2>2. worker'[w].at \notin Executing /\ starts'[j] = 0
    BY <1>1, <1>2, <1>3 DEF Executing, Ending, Idle
  <2> QED
    BY <2>1, <2>2 DEF ToldFollows, Executing, Ending
<1> QED
  BY <1>4, <1>5, <1>6, <1>7, OwnCalm

LEMMA StartSessionCalm ==
  ASSUME ExecInv, Calm, NoSaveFailed', NEW w \in Workers, StartSession(w)
  PROVE  Calm'
<1>0. PICK j \in Jobs : j = worker[w].job
  BY DEF StartSession, ExecInv, OnceInv, TypeOK
<1>1. /\ worker[w].at = "started"
      /\ UNCHANGED <<enq, queue, starts>>
      /\ \A v \in Workers \ {w} : worker'[v] = worker[v]
      /\ worker'[w].at = "announced" /\ worker'[w].job = j
  BY <1>0 DEF StartSession, Goto, ghostVars, ExecInv, OnceInv, TypeOK
<1>2. starts[j] = 0
  BY <1>0, <1>1 DEF ExecInv, OnceInv, NotStarted, HeldBy, PreExecution
<1>3. mem.status[j] \in {"running", "none"}
  BY <1>0, <1>1 DEF Calm, WorkersAgree, Busy
<1>4. /\ SameStatus /\ SameTold
      /\ j \in RunJobs => Shows(j, "running")
      /\ j \notin RunJobs => SameLast
  BY <1>0, UpdateSessionAlone DEF StartSession, ExecInv, OnceInv
<1>5. Own(w, j)
  BY <1>0, <1>1, <1>4 DEF Own, SameStatus, SameTold
<1>6. LastFollows(w, j)
  BY <1>3, <1>4 DEF LastFollows, SameStatus
<1>7. RecordFollows(w, j)
  BY <1>1, <1>3, <1>4 DEF RecordFollows, SameStatus, Settled
<1>8. ToldFollows(w, j)
  <2>1. j \in RunJobs => mem'.told[j] = {}
    BY <1>2, <1>4 DEF Calm, ToldAgrees, SameTold
  <2> QED
    BY <1>1, <2>1 DEF ToldFollows
<1> QED
  BY <1>5, <1>6, <1>7, <1>8, OwnCalm

LEMMA RegisterCalm ==
  ASSUME ExecInv, Calm, NEW w \in Workers, Register(w)
  PROVE  Calm'
<1>0. PICK j \in Jobs : j = worker[w].job
  BY DEF Register, ExecInv, OnceInv, TypeOK
<1>1. /\ worker[w].at = "announced"
      /\ UNCHANGED <<mem, enq, queue>>
      /\ \A v \in Workers \ {w} : worker'[v] = worker[v]
      /\ worker'[w].at = "executing" /\ worker'[w].job = j
      /\ \A i \in Jobs \ {j} : starts'[i] = starts[i]
  BY <1>0 DEF Register, Goto, storeVars, ExecInv, OnceInv, TypeOK
<1>2. starts[j] = 0
  BY <1>0, <1>1 DEF ExecInv, OnceInv, NotStarted, HeldBy, PreExecution
<1>3. mem.status[j] \in {"running", "none"}
  BY <1>0, <1>1 DEF Calm, WorkersAgree, Busy
<1>4. Own(w, j)
  BY <1>0, <1>1 DEF Own
<1>5. LastFollows(w, j)
  BY <1>1 DEF LastFollows, SameLast, Between
<1>6. RecordFollows(w, j)
  BY <1>1, <1>3 DEF RecordFollows, Settled
<1>7. ToldFollows(w, j)
  <2>1. j \in RunJobs => mem'.told[j] = {}
    BY <1>1, <1>2 DEF Calm, ToldAgrees
  <2> QED
    BY <1>1, <2>1 DEF ToldFollows
<1> QED
  BY <1>4, <1>5, <1>6, <1>7, OwnCalm

(* The execution ends: nothing is written yet.                             *)
LEMMA EndCalm ==
  ASSUME ExecInv, Calm, NEW w \in Workers, PrepareFails(w) \/ Complete(w)
  PROVE  Calm'
<1>0. PICK j \in Jobs : j = worker[w].job
  BY DEF PrepareFails, Complete, ExecInv, OnceInv, TypeOK
<1>1. /\ worker[w].at = "executing"
      /\ UNCHANGED <<mem, enq, queue, starts>>
      /\ \A v \in Workers \ {w} : worker'[v] = worker[v]
      /\ worker'[w].job = j
      /\ worker'[w].at \in {"unprepared", "completed", "settling"}
      /\ j \in RunJobs => worker'[w].at # "settling"
  BY <1>0 DEF PrepareFails, Complete, storeVars, ghostVars, ExecInv, OnceInv, TypeOK
<1>2. mem.status[j] \in {"running", "none"}
  BY <1>0, <1>1 DEF Calm, WorkersAgree, Busy
<1>3. Own(w, j)
  BY <1>0, <1>1 DEF Own
<1>4. LastFollows(w, j)
  BY <1>1 DEF LastFollows, SameLast, Between
<1>5. RecordFollows(w, j)
  BY <1>1, <1>2 DEF RecordFollows, Settled
<1>6. ToldFollows(w, j)
  <2>1. j \in RunJobs => mem'.told[j] = {}
    BY <1>0, <1>1 DEF Calm, ToldAgrees, Executing
  <2> QED
    BY <1>1, <2>1 DEF ToldFollows
<1> QED
  BY <1>3, <1>4, <1>5, <1>6, OwnCalm

LEMMA AnnounceCalm ==
  ASSUME ExecInv, Calm, NoSaveFailed', NEW w \in Workers, AnnounceFinal(w)
  PROVE  Calm'
<1>0. PICK j \in Jobs, final \in Final : j = worker[w].job /\ final = worker[w].final
  BY DEF AnnounceFinal, ExecInv, OnceInv, TypeOK, Ending
<1>1. /\ worker[w].at = "completed"
      /\ UNCHANGED <<enq, queue, starts>>
      /\ \A v \in Workers \ {w} : worker'[v] = worker[v]
      /\ worker'[w].job = j /\ worker'[w].at = "settling" /\ worker'[w].final = final
  BY <1>0 DEF AnnounceFinal, Goto, ghostVars, ExecInv, OnceInv, TypeOK
<1>2. SameStatus /\ SameLast /\ Tells(j, final)
  BY <1>0, FinalEventAlone DEF AnnounceFinal, ExecInv, OnceInv
<1>3. starts[j] # 0 /\ mem.status[j] \in {"running", "none"}
  <2>1. starts[j] # 0
    BY <1>0, <1>1 DEF ExecInv, Executed, Executing, Ending
  <2>2. mem.status[j] \in {"running", "none"}
    BY <1>0, <1>1 DEF Calm, WorkersAgree, Busy
  <2> QED
    BY <2>1, <2>2
<1>4. Own(w, j)
  BY <1>0, <1>1, <1>2 DEF Own, SameStatus, Tells
<1>5. LastFollows(w, j)
  BY <1>1, <1>2 DEF LastFollows, SameStatus, Between
<1>6. RecordFollows(w, j)
  BY <1>1, <1>2, <1>3 DEF RecordFollows, SameStatus, Settled
<1>7. ToldFollows(w, j)
  <2>1. j \in RunJobs => mem.told[j] = {}
    BY <1>0, <1>1 DEF Calm, ToldAgrees, Executing, Ending
  <2>2. j \in RunJobs => mem'.told[j] = {final}
    BY <1>2, <2>1 DEF Tells
  <2> QED
    BY <1>1, <1>3, <2>2 DEF ToldFollows
<1> QED
  BY <1>4, <1>5, <1>6, <1>7, OwnCalm

LEMMA SettleRecordCalm ==
  ASSUME ExecInv, Calm, NoSaveFailed', NEW w \in Workers, SettleRecord(w)
  PROVE  Calm'
<1>0. PICK j \in Jobs, final \in Final : j = worker[w].job /\ final = worker[w].final
  BY DEF SettleRecord, ExecInv, OnceInv, TypeOK, Ending
<1>1. /\ worker[w].at \in {"settling", "unprepared"}
      /\ UNCHANGED <<enq, queue, starts>>
      /\ \A v \in Workers \ {w} : worker'[v] = worker[v]
      /\ worker'[w].job = j /\ worker'[w].final = final
      /\ \/ worker[w].at = "settling" /\ worker'[w].at = "settled"
         \/ worker[w].at = "unprepared" /\ worker'[w].at = "unpreparedSettled"
  BY <1>0 DEF SettleRecord, Goto, ghostVars, ExecInv, OnceInv, TypeOK
<1>2. /\ SameLast /\ SameTold
      /\ mem'.status[j] \in {final, "none"}
      /\ \A i \in Jobs \ {j} : mem'.status[i] = mem.status[i]
  BY <1>0, UpdateRunJobAlone DEF SettleRecord, FinalRecord, ExecInv, OnceInv, Writes, SameStatus, Stored
<1>3. starts[j] # 0
  BY <1>0, <1>1 DEF ExecInv, Executed, Executing, Ending
<1>4. Own(w, j)
  BY <1>0, <1>1, <1>2 DEF Own, SameTold
<1>5. LastFollows(w, j)
  BY <1>1, <1>2 DEF LastFollows, Between
<1>6. RecordFollows(w, j)
  BY <1>1, <1>2 DEF RecordFollows, Busy
<1>7. ToldFollows(w, j)
  <2>1. j \in RunJobs => mem'.told[j] = IF worker[w].at = "settling" THEN {final} ELSE {}
    BY <1>0, <1>1, <1>2, ZenonT(60) DEF Calm, ToldAgrees, Executing, Ending, SameTold
  <2> QED
    BY <1>1, <1>3, <2>1 DEF ToldFollows
<1> QED
  BY <1>4, <1>5, <1>6, <1>7, OwnCalm

LEMMA SettleSessionCalm ==
  ASSUME ExecInv, Calm, NoSaveFailed', NEW w \in Workers, SettleSession(w)
  PROVE  Calm'
<1>0. PICK j \in Jobs, final \in Final : j = worker[w].job /\ final = worker[w].final
  BY DEF SettleSession, ExecInv, OnceInv, TypeOK, Ending
<1>1. /\ UNCHANGED <<enq, queue, starts>>
      /\ \A v \in Workers \ {w} : worker'[v] = worker[v]
      /\ \/ worker[w].at = "settled" /\ worker'[w] = Idle
         \/ /\ worker[w].at = "unpreparedSettled" /\ worker'[w].at = "unpreparedMarked"
            /\ worker'[w].job = j /\ worker'[w].final = final
  BY <1>0 DEF SettleSession, Finish, Goto, ghostVars, ExecInv, OnceInv, TypeOK
<1>2. /\ SameStatus /\ SameTold
      /\ j \in RunJobs => Shows(j, final)
      /\ j \notin RunJobs => SameLast
  BY <1>0, UpdateSessionAlone DEF SettleSession, FinalSession, ExecInv, OnceInv
<1>3. starts[j] # 0 /\ mem.status[j] \in {final, "none"}
  <2>1. starts[j] # 0
    BY <1>0, <1>1 DEF ExecInv, Executed, Executing, Ending
  <2>2. mem.status[j] \in {final, "none"}
    BY <1>0, <1>1 DEF Calm, WorkersAgree, Settled
  <2> QED
    BY <2>1, <2>2
<1>4. Own(w, j)
  BY <1>0, <1>1, <1>2 DEF Own, SameStatus, SameTold, Idle
<1>5. LastFollows(w, j)
  BY <1>2, <1>3 DEF LastFollows, SameStatus
<1>6. RecordFollows(w, j)
  BY <1>1, <1>2, <1>3 DEF RecordFollows, SameStatus, Busy, Settled, Idle
<1>7. ToldFollows(w, j)
  <2>1. j \in RunJobs => mem'.told[j] = IF worker[w].at = "settled" THEN {final} ELSE {}
    BY <1>0, <1>1, <1>2 DEF Calm, ToldAgrees, Executing, Ending, SameTold
  <2>2. mem'.status[j] = mem.status[j]
    BY <1>2 DEF SameStatus
  <2> QED
    BY <1>1, <1>3, <2>1, <2>2 DEF ToldFollows, Idle, Executing, Ending
<1> QED
  BY <1>4, <1>5, <1>6, <1>7, OwnCalm

LEMMA UnpreparedCalm ==
  ASSUME ExecInv, Calm, NoSaveFailed', NEW w \in Workers, AnnounceUnprepared(w)
  PROVE  Calm'
<1>0. PICK j \in Jobs, final \in Final : j = worker[w].job /\ final = worker[w].final
  BY DEF AnnounceUnprepared, ExecInv, OnceInv, TypeOK, Ending
<1>1. /\ worker[w].at = "unpreparedMarked"
      /\ UNCHANGED <<enq, queue, starts>>
      /\ \A v \in Workers \ {w} : worker'[v] = worker[v]
      /\ worker'[w] = Idle
  BY <1>0 DEF AnnounceUnprepared, Finish, ghostVars, ExecInv, OnceInv, TypeOK
<1>2. SameStatus /\ SameLast /\ Tells(j, final)
  BY <1>0, FinalEventAlone DEF AnnounceUnprepared, ExecInv, OnceInv
<1>3. starts[j] # 0 /\ mem.status[j] \in {final, "none"}
  <2>1. starts[j] # 0
    BY <1>0, <1>1 DEF ExecInv, Executed, Executing, Ending
  <2>2. mem.status[j] \in {final, "none"}
    BY <1>0, <1>1 DEF Calm, WorkersAgree, Settled
  <2> QED
    BY <2>1, <2>2
<1>4. Own(w, j)
  BY <1>0, <1>1, <1>2 DEF Own, SameStatus, Tells, Idle
<1>5. LastFollows(w, j)
  BY <1>1, <1>2 DEF LastFollows, SameStatus, Between
<1>6. RecordFollows(w, j)
  BY <1>1 DEF RecordFollows, Busy, Settled, Idle
<1>7. ToldFollows(w, j)
  <2>1. j \in RunJobs => mem.told[j] = {}
    BY <1>0, <1>1 DEF Calm, ToldAgrees, Executing, Ending
  <2>2. j \in RunJobs => mem'.told[j] = {final}
    BY <1>2, <2>1 DEF Tells
  <2>3. mem'.status[j] = mem.status[j]
    BY <1>2 DEF SameStatus
  <2> QED
    BY <1>1, <1>3, <2>2, <2>3 DEF ToldFollows, Idle, Executing, Ending
<1> QED
  BY <1>4, <1>5, <1>6, <1>7, OwnCalm

(* Faults and cancel requests are not forgotten.                           *)
FaultsKept == UNCHANGED faults \/ \E kind \in FaultKinds : Fault(kind)

LEMMA StoreFaults ==
  ASSUME NEW state, Put(state) \/ UNCHANGED storeVars
  PROVE  FaultsKept
  BY DEF Put, Saves, SaveFails, storeVars, FaultsKept, FaultKinds

LEMMA WriteFaults ==
  ASSUME NEW j, NEW status,
         \/ UpdateRunJob(j, status) \/ UpdateSessionRunState(j, status) \/ AppendFinalEvent(j, status)
  PROVE  FaultsKept
  BY StoreFaults DEF UpdateRunJob, UpdateSessionRunState, AppendFinalEvent

LEMMA RequestFaults ==
  ASSUME NEW j \in Jobs, Request(j)
  PROVE  FaultsKept /\ UNCHANGED <<canceler, recovery>>
<1>1. CASE BindSession(j)
  BY <1>1, StoreFaults DEF BindSession, Put
<1>2. CASE AddRunJob(j)
  BY <1>2, StoreFaults DEF AddRunJob, Put
<1>3. CASE EnqueueStoredJob(j)
  BY <1>3, StoreFaults DEF EnqueueStoredJob
<1>4. CASE FailFullRecord(j)
  BY <1>4, WriteFaults DEF FailFullRecord
<1>5. CASE FailFullSession(j)
  BY <1>5, WriteFaults DEF FailFullSession
<1> QED
  BY <1>1, <1>2, <1>3, <1>4, <1>5 DEF Request

LEMMA WorkFaults ==
  ASSUME NEW w \in Workers, Work(w)
  PROVE  FaultsKept /\ UNCHANGED <<canceler, recovery>>
<1>1. CASE UNCHANGED storeVars
  BY <1>1, StoreFaults DEF Work, Fetch, StartRecord, StartSession, Register, PrepareFails, Complete,
     AnnounceFinal, SettleRecord, SettleSession, AnnounceUnprepared
<1>2. CASE StartRecord(w)
  BY <1>2, StoreFaults DEF StartRecord, SaveRunning, Put
<1>3. CASE StartSession(w) \/ SettleSession(w)
  BY <1>3, WriteFaults DEF StartSession, SettleSession, FinalSession
<1>4. CASE AnnounceFinal(w) \/ AnnounceUnprepared(w)
  BY <1>4, WriteFaults DEF AnnounceFinal, AnnounceUnprepared
<1>5. CASE SettleRecord(w)
  BY <1>5, WriteFaults DEF SettleRecord, FinalRecord
<1> QED
  BY <1>1, <1>2, <1>3, <1>4, <1>5 DEF Work, Fetch, Register, PrepareFails, Complete

LEMMA CancelDisturbs ==
  ASSUME TypeOK, NEW k \in Cancelers, Cancel(k)
  PROVE  ~Undisturbed'
<1>1. CASE \E j \in Jobs : CancelRead(k, j)
  BY <1>1 DEF CancelRead, TypeOK, Undisturbed
<1>2. CASE CancelRecord(k) \/ CancelSession(k) \/ CancelAnswer(k) \/ CancelRequest(k)
  <2>1. canceler'[k].at # "new"
    BY <1>2 DEF CancelRecord, CancelSession, CancelAnswer, CancelRequest, CancelerTo, TypeOK
  <2> QED
    BY <2>1 DEF Undisturbed
<1> QED
  BY <1>1, <1>2 DEF Cancel

LEMMA NotServing ==
  ASSUME Recover
  PROVE  ~Serving
  BY DEF Recover, RecoverNext, RecoverRecord, RecoverSession, RecoverEvent, Oldest, Serving

LEMMA FaultsStay ==
  ASSUME TypeOK, FaultsKept, UNCHANGED canceler, Undisturbed'
  PROVE  Undisturbed /\ UNCHANGED faults
<1>1. \A kind \in FaultKinds : faults[kind] \in Nat /\ faults'[kind] = 0
  BY DEF TypeOK, Undisturbed
<1>2. ASSUME NEW kind \in FaultKinds, Fault(kind) PROVE FALSE
  <2>1. faults'[kind] = faults[kind] + 1
    BY <1>2 DEF Fault, TypeOK
  <2> QED
    BY <1>1, <2>1
<1>3. UNCHANGED faults
  BY <1>2 DEF FaultsKept
<1> QED
  BY <1>3 DEF Undisturbed

(* Recovery only ever writes after a restart, which is a fault.            *)
RecoveringDisturbed == Serving \/ ~Undisturbed

LEMMA RecoverFaults ==
  ASSUME Recover
  PROVE  FaultsKept /\ UNCHANGED canceler
<1>1. UNCHANGED canceler
  BY DEF Recover, RecoverNext, RecoverRecord, RecoverSession, RecoverEvent
<1>2. CASE RecoverNext
  BY <1>1, <1>2, StoreFaults DEF RecoverNext
<1>3. CASE RecoverRecord
  <2>1. Put(WithStatus(recovery.job, "failed"))
    BY <1>3 DEF RecoverRecord, Put
  <2> QED
    BY <1>1, <2>1, StoreFaults
<1>4. CASE RecoverSession \/ RecoverEvent
  BY <1>1, <1>4, WriteFaults DEF RecoverSession, RecoverEvent
<1> QED
  BY <1>2, <1>3, <1>4 DEF Recover

LEMMA RecoverDisturbs ==
  ASSUME TypeOK, RecoveringDisturbed, Recover
  PROVE  ~Undisturbed'
  BY RecoverFaults, FaultsStay, NotServing DEF RecoveringDisturbed

LEMMA CalmStays ==
  ASSUME Calm, UNCHANGED <<mem, enq, queue, worker, starts>>
  PROVE  Calm'
<1>1. \A i \in Jobs : \A at : (HeldBy(i, at)' <=> HeldBy(i, at)) /\ (Held(i)' <=> Held(i))
  BY DEF HeldBy, Held
<1>2. AcceptedOnly' /\ RejectedFailed' /\ WorkersAgree'
  BY <1>1 DEF Calm, AcceptedOnly, RejectedFailed, WorkersAgree, InQueue
<1>3. LastAgrees'
  BY <1>1 DEF Calm, LastAgrees, Updating
<1>4. ToldAgrees'
  BY <1>1 DEF Calm, ToldAgrees, Stored, RunJobs
<1> QED
  BY <1>2, <1>3, <1>4 DEF Calm

LEMMA InitAgree == Init => AgreeInv
<1> SUFFICES ASSUME Init PROVE AgreeInv
  OBVIOUS
<1>1. "idle" \notin Busy \cup Settled \cup Executing
  BY DEF Busy, Settled, Executing, Ending
<1>2. \A w \in Workers : worker[w].at = "idle"
  BY DEF Init, Idle
<1>3. ExecInv
  BY <1>1, <1>2, InitOnce DEF ExecInv, Executed, OneWorker
<1>4. AcceptedOnly /\ RejectedFailed /\ WorkersAgree
  BY <1>1, <1>2 DEF Init, AcceptedOnly, RejectedFailed, WorkersAgree, InQueue, Held
<1>5. LastAgrees
  BY JobAssumption DEF Init, EmptyStore, LastAgrees
<1>6. ToldAgrees
  BY <1>1, <1>2 DEF Init, EmptyStore, ToldAgrees, Executing, Ending, RunJobs, Stored
<1> QED
  BY <1>3, <1>4, <1>5, <1>6 DEF AgreeInv, Calm, Serving, Init

LEMMA StepAgree == AgreeInv /\ [Next]_vars => AgreeInv'
<1> SUFFICES ASSUME AgreeInv, [Next]_vars PROVE AgreeInv'
  OBVIOUS
<1>0. ExecInv' /\ TypeOK /\ RecoveringDisturbed
  BY StepExec DEF AgreeInv, ExecInv, OnceInv, RecoveringDisturbed
<1> SUFFICES ASSUME Undisturbed' PROVE Serving' /\ Calm'
  BY <1>0 DEF AgreeInv
<1>1. NoSaveFailed'
  BY DEF Undisturbed, NoSaveFailed, FaultKinds
<1>2. ASSUME NEW j \in Jobs, Request(j) PROVE Serving' /\ Calm'
  <2>1. FaultsKept /\ UNCHANGED <<canceler, recovery>>
    BY <1>2, RequestFaults
  <2>2. Undisturbed
    BY <1>0, <2>1, FaultsStay
  <2>3. Serving /\ Calm /\ ExecInv
    BY <2>2 DEF AgreeInv
  <2>4. Calm'
    BY <1>1, <1>2, <2>3, BindCalm, AddCalm, EnqueueCalm, FailRecordCalm, FailSessionCalm DEF Request
  <2> QED
    BY <2>1, <2>3, <2>4 DEF Serving
<1>3. ASSUME NEW w \in Workers, Work(w) PROVE Serving' /\ Calm'
  <2>1. FaultsKept /\ UNCHANGED <<canceler, recovery>>
    BY <1>3, WorkFaults
  <2>2. Undisturbed
    BY <1>0, <2>1, FaultsStay
  <2>3. Serving /\ Calm /\ ExecInv
    BY <2>2 DEF AgreeInv
  <2>4. Calm'
    BY <1>1, <1>3, <2>3, FetchCalm, StartRecordCalm, StartSessionCalm, RegisterCalm, EndCalm, AnnounceCalm,
       SettleRecordCalm, SettleSessionCalm, UnpreparedCalm DEF Work
  <2> QED
    BY <2>1, <2>3, <2>4 DEF Serving
<1>4. ASSUME NEW k \in Cancelers, Cancel(k) PROVE FALSE
  BY <1>0, <1>4, CancelDisturbs
<1>5. CASE Recover
  BY <1>0, <1>5, RecoverDisturbs
<1>6. CASE OtherSave \/ UNCHANGED vars
  <2>1. UNCHANGED <<mem, faults, enq, queue, worker, canceler, recovery, starts>>
    BY <1>6 DEF OtherSave, vars, storeVars, ghostVars
  <2>2. Undisturbed
    BY <2>1 DEF Undisturbed
  <2> QED
    BY <2>1, <2>2, CalmStays DEF AgreeInv, Serving
<1>7. CASE Restart
  <2>1. faults'["restart"] = faults["restart"] + 1 /\ faults["restart"] \in Nat
    BY <1>0, <1>7 DEF Restart, Fault, TypeOK, FaultKinds
  <2>2. faults'["restart"] = 0
    BY DEF Undisturbed, FaultKinds
  <2> QED
    BY <2>1, <2>2
<1> QED
  BY <1>2, <1>3, <1>4, <1>5, <1>6, <1>7 DEF Next

LEMMA CalmAgrees ==
  ASSUME AgreeInv
  PROVE  SessionsAgree
<1> SUFFICES ASSUME Quiet, Undisturbed
             PROVE  /\ \A s \in Sessions :
                         mem.last[s].run # NoJob =>
                           mem.status[mem.last[s].run] \in {mem.last[s].status, "none"}
                    /\ \A j \in RunJobs : Stored(j) /\ starts[j] > 0 => mem.told[j] = {mem.status[j]}
  BY DEF SessionsAgree
<1>1. Calm /\ mem \in State
  BY DEF AgreeInv, ExecInv, OnceInv, TypeOK
<1>2. \A j \in Jobs : ~Updating(j) /\ ~Held(j)
  BY DEF Quiet, Updating, HeldBy, Held
<1>3. ASSUME NEW s \in Sessions, mem.last[s].run # NoJob
      PROVE  mem.status[mem.last[s].run] \in {mem.last[s].status, "none"}
  <2>1. mem.last[s].run \in Jobs
    BY <1>1, <1>3 DEF State
  <2> QED
    BY <1>1, <1>2, <2>1 DEF Calm, LastAgrees
<1>4. ASSUME NEW j \in RunJobs, Stored(j), starts[j] > 0 PROVE mem.told[j] = {mem.status[j]}
  BY <1>1, <1>2, <1>4 DEF Calm, ToldAgrees, RunJobs
<1> QED
  BY <1>3, <1>4

(* Once nothing is going on, and without faults and cancel requests, each  *)
(* session shows the status of the record of its run, and the one final    *)
(* event of a run is the one of its record's status, although the three    *)
(* are written one after the other (SessionsAgree).                        *)
THEOREM SessionsShowTheirRun == Spec => []SessionsAgree
<1>1. AgreeInv => SessionsAgree
  BY CalmAgrees
<1> QED
  BY <1>1, InitAgree, StepAgree, PTL DEF Spec

-----------------------------------------------------------------------------
(* The records follow the life cycle of JobLife.  Without failed saves and *)
(* cancel requests nobody else writes the record of a job that a worker    *)
(* has fetched or that recovery is treating, so that "running" is only     *)
(* ever written over "pending".                                            *)

Treating == recovery.at \in {"full", "interrupted"}

(* A record that is not there although it was added has been evicted.      *)
StoredAdded == \A j \in Jobs : Stored(j) => added[j] > 0

FetchedPending ==
  \A w \in Workers : worker[w].at = "fetched" => mem.status[worker[w].job] \in {"pending", "none"}

(* Nobody will start j.                                                    *)
Elsewhere(j) == ~InQueue(j) /\ ~HeldBy(j, PreExecution) /\ j \notin recovery.todo

FullElsewhere == \A j \in Jobs : enq[j] = "full" => Elsewhere(j)

TreatedElsewhere ==
  Treating => /\ Elsewhere(recovery.job)
              /\ Stored(recovery.job)
              /\ ~Creating(recovery.job)

LifeInv ==
  /\ ExecInv
  /\ NoSaveFailed
  /\ disk = mem
  /\ NewNotAdded
  /\ StoredAdded
  /\ FetchedPending
  /\ FullElsewhere
  /\ TreatedElsewhere

(* What a step may do to the records.                                      *)
Begins(j) == mem.status[j] = "pending" /\ Writes(j, "running")

Ends(j, final) == Stored(j) /\ Writes(j, final)

Adds(j) ==
  /\ ~Stored(j) /\ added[j] = 0 /\ added'[j] > 0
  /\ mem'.status[j] = "pending"
  /\ \A i \in Jobs \ {j} : added'[i] = added[i] /\ mem'.status[i] \in {mem.status[i], "none"}

LifeStep ==
  \/ UNCHANGED added /\ SameStatus
  \/ UNCHANGED added /\ \E j \in Jobs : Begins(j)
  \/ UNCHANGED added /\ \E j \in Jobs, final \in Final : Ends(j, final)
  \/ \E j \in Jobs : Adds(j)

(* A step that starts nobody and creates no record.                        *)
LEMMA LifeKeeps ==
  ASSUME LifeInv, ExecInv', NoSaveFailed', disk' = mem', UNCHANGED <<queue, added>>,
         \A j \in Jobs : /\ enq'[j] \in {"new", "bound"} => enq[j] \in {"new", "bound"}
                         /\ Creating(j)' => Creating(j)
                         /\ enq'[j] = "full" => enq[j] = "full"
                         /\ mem'.status[j] = "none" <=> mem.status[j] = "none"
                         /\ HeldBy(j, PreExecution)' => HeldBy(j, PreExecution),
         \A w \in Workers : worker'[w].at = "fetched" => /\ worker[w].at = "fetched"
                                                        /\ worker'[w].job = worker[w].job
                                                        /\ mem'.status[worker[w].job] \in {"pending", "none"},
         recovery'.todo \subseteq recovery.todo,
         Treating' => Treating /\ recovery'.job = recovery.job
  PROVE  LifeInv'
<1>1. NewNotAdded' /\ StoredAdded'
  BY DEF LifeInv, NewNotAdded, StoredAdded, Stored
<1>2. FetchedPending'
  BY DEF FetchedPending
<1>3. \A j \in Jobs : Elsewhere(j) => Elsewhere(j)'
  BY DEF Elsewhere, InQueue
<1>4. FullElsewhere'
  BY <1>3 DEF LifeInv, FullElsewhere
<1>5. TreatedElsewhere'
  <2> SUFFICES ASSUME Treating' PROVE Elsewhere(recovery.job)' /\ Stored(recovery.job)' /\ ~Creating(recovery.job)'
    BY DEF TreatedElsewhere
  <2>1. PICK j \in Jobs : j = recovery.job /\ j = recovery'.job
    BY DEF LifeInv, ExecInv, OnceInv, TypeOK, Treating
  <2>2. Elsewhere(j) /\ Stored(j) /\ ~Creating(j)
    BY <2>1 DEF LifeInv, TreatedElsewhere
  <2>3. Elsewhere(j)' /\ Stored(j)' /\ ~Creating(j)'
    BY <1>3, <2>2 DEF Stored
  <2> QED
    BY <2>1, <2>3 DEF Elsewhere, InQueue, HeldBy, Stored, Creating
<1> QED
  BY <1>1, <1>2, <1>4, <1>5 DEF LifeInv

(* Requests.                                                               *)
LEMMA BindLife ==
  ASSUME LifeInv, ExecInv', NoSaveFailed', NEW j \in Jobs, BindSession(j)
  PROVE  LifeInv' /\ LifeStep
<1>1. Saved /\ SameStatus
  <2>1. PICK bound : bound = [mem EXCEPT !.last[SessionOf[j]] = [run |-> j, status |-> "pending"]]
    OBVIOUS
  <2>2. Put(bound)
    BY <2>1 DEF BindSession, Put
  <2>3. mem' = bound /\ disk' = bound /\ NoSaveFailed
    BY <2>2, PutSaved DEF LifeInv, ExecInv, OnceInv
  <2> QED
    BY <2>1, <2>3 DEF LifeInv, ExecInv, OnceInv, TypeOK, State, Saved, SameStatus
<1>2. /\ UNCHANGED <<queue, added, worker, recovery>>
      /\ enq[j] = "new" /\ enq'[j] \in {"bound", "refused"}
      /\ \A i \in Jobs \ {j} : enq'[i] = enq[i]
  BY DEF BindSession, LifeInv, ExecInv, OnceInv, TypeOK
<1>3. \A i \in Jobs : /\ HeldBy(i, PreExecution)' => HeldBy(i, PreExecution)
                      /\ Creating(i)' => Creating(i)
  BY <1>2 DEF HeldBy, Creating
<1>4. \A v \in Workers : worker[v].at = "fetched" => worker[v].job \in Jobs
  BY DEF LifeInv, ExecInv, OnceInv, TypeOK
<1>5. \A v \in Workers : worker[v].at = "fetched" => mem'.status[worker[v].job] \in {"pending", "none"}
  BY <1>1, <1>4 DEF LifeInv, FetchedPending, SameStatus
<1>6. LifeInv'
  BY <1>1, <1>2, <1>3, <1>5, LifeKeeps DEF Saved, SameStatus, Treating
<1> QED
  BY <1>1, <1>2, <1>6 DEF LifeStep

LEMMA AddLife ==
  ASSUME LifeInv, ExecInv', NoSaveFailed', NEW j \in Jobs, AddRunJob(j)
  PROVE  LifeInv' /\ LifeStep
<1>1. /\ disk' = mem'
      /\ mem'.status[j] = "pending"
      /\ \A i \in Jobs \ {j} : mem'.status[i] \in {mem.status[i], "none"}
  <2>1. PICK next : next = [mem EXCEPT !.status = [k \in Jobs |-> IF k \in Kept THEN @[k] ELSE "none"],
                                       !.status[j] = "pending"]
    OBVIOUS
  <2>2. Put(next)
    BY <2>1 DEF AddRunJob, Put
  <2>3. mem' = next /\ disk' = next
    BY <2>2, PutSaved DEF LifeInv, ExecInv, OnceInv
  <2> QED
    BY <2>1, <2>3 DEF LifeInv, ExecInv, OnceInv, TypeOK, State
<1>2. /\ UNCHANGED <<queue, worker, recovery>> /\ Serving
      /\ enq[j] \in {"new", "bound"} /\ enq'[j] \in {"added", "refused"}
      /\ \A i \in Jobs \ {j} : enq'[i] = enq[i] /\ added'[i] = added[i]
      /\ added'[j] = Cardinality({k \in Jobs : added[k] > 0}) + 1
  BY DEF AddRunJob, LifeInv, ExecInv, OnceInv, TypeOK
<1>3. added'[j] > 0
  <2>1. PICK n : n = Cardinality({k \in Jobs : added[k] > 0})
    OBVIOUS
  <2>2. n \in Nat
    BY <2>1, JobAssumption, FS_Subset, FS_CardinalityType
  <2> QED
    BY <1>2, <2>1, <2>2
<1>4. added[j] = 0 /\ ~Stored(j)
  BY <1>2 DEF LifeInv, NewNotAdded, StoredAdded
<1>5. Adds(j)
  BY <1>1, <1>2, <1>3, <1>4 DEF Adds
<1>6. NewNotAdded' /\ StoredAdded'
  BY <1>1, <1>2, <1>3 DEF LifeInv, NewNotAdded, StoredAdded, Stored
<1>7. FetchedPending'
  <2>1. \A v \in Workers : worker[v].at = "fetched" => worker[v].job \in Jobs
    BY DEF LifeInv, ExecInv, OnceInv, TypeOK
  <2> QED
    BY <1>1, <1>2, <2>1 DEF LifeInv, FetchedPending
<1>8. FullElsewhere'
  BY <1>2 DEF LifeInv, FullElsewhere, Elsewhere, InQueue, HeldBy
<1>9. TreatedElsewhere'
  BY <1>2 DEF TreatedElsewhere, Treating, Serving
<1> QED
  BY <1>1, <1>5, <1>6, <1>7, <1>8, <1>9 DEF LifeInv, LifeStep

LEMMA EnqueueLife ==
  ASSUME LifeInv, ExecInv', NoSaveFailed', NEW j \in Jobs, EnqueueStoredJob(j)
  PROVE  LifeInv' /\ LifeStep
<1>1. /\ UNCHANGED <<mem, disk, added, worker, recovery>>
      /\ enq[j] = "added" /\ enq'[j] \in {"accepted", "full"}
      /\ \A i \in Jobs \ {j} : enq'[i] = enq[i]
      /\ queue' = queue \/ queue' = Append(queue, j)
      /\ enq'[j] = "full" => queue' = queue
  BY DEF EnqueueStoredJob, storeVars, LifeInv, ExecInv, OnceInv, TypeOK
<1>2. Creating(j) /\ Elsewhere(j)
  BY <1>1 DEF Creating, Elsewhere, LifeInv, ExecInv, OnceInv, OnePlace
<1>3. ASSUME NEW i \in Jobs, i # j, Elsewhere(i) PROVE Elsewhere(i)'
  <2>1. InQueue(i)' => InQueue(i)
    <3>1. CASE queue' = queue
      BY <3>1 DEF InQueue
    <3>2. CASE queue' = Append(queue, j)
      <4>1. queue \in Seq(Jobs)
        BY DEF LifeInv, ExecInv, OnceInv, TypeOK
      <4> QED
        BY <1>3, <3>2, <4>1, AppendProperties DEF InQueue
    <3> QED
      BY <1>1, <3>1, <3>2
  <2> QED
    BY <1>1, <1>3, <2>1 DEF Elsewhere, HeldBy
<1>4. enq'[j] = "full" => Elsewhere(j)'
  BY <1>1, <1>2 DEF Elsewhere, InQueue, HeldBy
<1>5. FullElsewhere'
  BY <1>1, <1>3, <1>4 DEF LifeInv, FullElsewhere
<1>6. TreatedElsewhere'
  <2> SUFFICES ASSUME Treating' PROVE Elsewhere(recovery.job)' /\ Stored(recovery.job)' /\ ~Creating(recovery.job)'
    BY DEF TreatedElsewhere
  <2>1. PICK i \in Jobs : i = recovery.job
    BY <1>1 DEF LifeInv, ExecInv, OnceInv, TypeOK, Treating
  <2>2. Elsewhere(i) /\ Stored(i) /\ ~Creating(i)
    BY <1>1, <2>1 DEF LifeInv, TreatedElsewhere, Treating
  <2>3. i # j
    BY <1>2, <2>2
  <2>4. Elsewhere(i)' /\ Stored(i)' /\ ~Creating(i)'
    BY <1>1, <1>3, <2>2, <2>3 DEF Stored, Creating
  <2> QED
    BY <1>1, <2>1, <2>4 DEF Elsewhere, InQueue, HeldBy, Stored, Creating
<1>7. NewNotAdded' /\ StoredAdded' /\ FetchedPending'
  BY <1>1 DEF LifeInv, NewNotAdded, StoredAdded, Stored, FetchedPending
<1> QED
  BY <1>1, <1>5, <1>6, <1>7 DEF LifeInv, LifeStep, SameStatus

LEMMA FailFullLife ==
  ASSUME LifeInv, ExecInv', NoSaveFailed', NEW j \in Jobs, FailFullRecord(j) \/ FailFullSession(j)
  PROVE  LifeInv' /\ LifeStep
<1>1. /\ UNCHANGED <<queue, added, worker, recovery>>
      /\ enq'[j] \in {"failed", "rejected"}
      /\ \A i \in Jobs \ {j} : enq'[i] = enq[i]
  BY DEF FailFullRecord, FailFullSession, LifeInv, ExecInv, OnceInv, TypeOK
<1>2. Saved /\ (SameStatus \/ (enq[j] = "full" /\ Ends(j, "failed")))
  <2>1. TypeOK /\ (NoSaveFailed => disk = mem)
    BY DEF LifeInv, ExecInv, OnceInv
  <2>2. CASE FailFullRecord(j)
    BY <2>1, <2>2, UpdateRunJobWrites DEF FailFullRecord, Ends
  <2>3. CASE FailFullSession(j)
    BY <2>1, <2>3, UpdateSessionWrites DEF FailFullSession
  <2> QED
    BY <2>2, <2>3
<1>3. \A i \in Jobs : /\ HeldBy(i, PreExecution)' => HeldBy(i, PreExecution)
                      /\ Creating(i)' => Creating(i)
                      /\ mem'.status[i] = "none" <=> mem.status[i] = "none"
  BY <1>1, <1>2 DEF HeldBy, Creating, SameStatus, Ends, Writes, Stored
<1>4. ASSUME NEW v \in Workers, worker[v].at = "fetched"
      PROVE  mem'.status[worker[v].job] \in {"pending", "none"}
  <2>1. worker[v].job \in Jobs /\ mem.status[worker[v].job] \in {"pending", "none"}
    BY <1>4 DEF LifeInv, ExecInv, OnceInv, TypeOK, FetchedPending
  <2>2. enq[j] = "full" => worker[v].job # j
    BY <1>4 DEF LifeInv, FullElsewhere, Elsewhere, HeldBy, PreExecution
  <2> QED
    BY <1>2, <2>1, <2>2 DEF SameStatus, Ends, Writes
<1>5. LifeInv'
  BY <1>1, <1>2, <1>3, <1>4, LifeKeeps DEF Saved, Treating
<1> QED
  BY <1>1, <1>2, <1>5 DEF LifeStep, Final

(* Workers.                                                                *)
LEMMA FetchLife ==
  ASSUME LifeInv, ExecInv', NoSaveFailed', NEW w \in Workers, Fetch(w)
  PROVE  LifeInv' /\ LifeStep
<1>1. /\ UNCHANGED <<mem, disk, added, enq, recovery>>
      /\ worker[w].at = "idle"
      /\ \A v \in Workers \ {w} : worker'[v] = worker[v]
  BY DEF Fetch, storeVars, LifeInv, ExecInv, OnceInv, TypeOK
<1>0. PICK h \in Jobs : h = Head(queue)
  BY TailType DEF Fetch, LifeInv, ExecInv, OnceInv, TypeOK
<1>2. /\ InQueue(h)
      /\ \A i \in Jobs : InQueue(i)' => InQueue(i)
      /\ worker'[w].at \in {"idle", "fetched"}
      /\ worker'[w].at = "fetched" => worker'[w].job = h /\ mem.status[h] = "pending"
  BY <1>0, TailQueue DEF Fetch, Executable, LifeInv, ExecInv, OnceInv, TypeOK, Idle
<1>3. FetchedPending'
  BY <1>1, <1>2 DEF LifeInv, FetchedPending
<1>4. ASSUME NEW i \in Jobs, Elsewhere(i) PROVE Elsewhere(i)'
  <2>1. i # h
    BY <1>2, <1>4 DEF Elsewhere
  <2>2. ~HeldBy(i, PreExecution)'
    BY <1>1, <1>2, <1>4, <2>1 DEF Elsewhere, HeldBy, PreExecution
  <2> QED
    BY <1>1, <1>2, <1>4, <2>2 DEF Elsewhere
<1>5. FullElsewhere'
  BY <1>1, <1>4 DEF LifeInv, FullElsewhere
<1>6. TreatedElsewhere'
  <2> SUFFICES ASSUME Treating' PROVE Elsewhere(recovery.job)' /\ Stored(recovery.job)' /\ ~Creating(recovery.job)'
    BY DEF TreatedElsewhere
  <2>1. PICK i \in Jobs : i = recovery.job
    BY <1>1 DEF LifeInv, ExecInv, OnceInv, TypeOK, Treating
  <2>2. Elsewhere(i)' /\ Stored(i)' /\ ~Creating(i)'
    BY <1>1, <1>4, <2>1 DEF LifeInv, TreatedElsewhere, Treating, Stored, Creating
  <2> QED
    BY <1>1, <2>1, <2>2 DEF Elsewhere, InQueue, HeldBy, Stored, Creating
<1>7. NewNotAdded' /\ StoredAdded'
  BY <1>1 DEF LifeInv, NewNotAdded, StoredAdded, Stored
<1> QED
  BY <1>1, <1>3, <1>5, <1>6, <1>7 DEF LifeInv, LifeStep, SameStatus

LEMMA StartRecordLife ==
  ASSUME LifeInv, ExecInv', NoSaveFailed', NEW w \in Workers, StartRecord(w)
  PROVE  LifeInv' /\ LifeStep
<1>0. PICK j \in Jobs : j = worker[w].job
  BY DEF StartRecord, LifeInv, ExecInv, OnceInv, TypeOK
<1>1. /\ worker[w].at = "fetched"
      /\ UNCHANGED <<added, enq, queue, recovery>>
      /\ \A v \in Workers \ {w} : worker'[v] = worker[v]
      /\ worker'[w].at \in {"idle", "started"}
      /\ worker'[w].at = "started" => worker'[w].job = j
  BY <1>0 DEF StartRecord, SaveRunning, Goto, Idle, LifeInv, ExecInv, OnceInv, TypeOK
<1>2. Saved /\ (SameStatus \/ (Stored(j) /\ Writes(j, "running")))
  <2>1. TypeOK /\ disk = mem
    BY DEF LifeInv, ExecInv, OnceInv
  <2>2. CASE Stored(j) /\ Put(WithStatus(j, "running"))
    BY <2>1, <2>2, WithStatusWrites
  <2>3. CASE UNCHANGED storeVars
    BY <2>1, <2>3, SameStoreSaved
  <2> QED
    BY <1>0, <2>2, <2>3 DEF StartRecord, SaveRunning, Put
<1>3. Stored(j) => mem.status[j] = "pending"
  BY <1>0, <1>1 DEF LifeInv, FetchedPending, Stored
<1>4. \A i \in Jobs : /\ HeldBy(i, PreExecution)' => HeldBy(i, PreExecution)
                      /\ Creating(i)' => Creating(i)
                      /\ mem'.status[i] = "none" <=> mem.status[i] = "none"
  <2>1. \A i \in Jobs : HeldBy(i, PreExecution)' => HeldBy(i, PreExecution)
    BY <1>0, <1>1 DEF HeldBy, PreExecution
  <2> QED
    BY <1>1, <1>2, <2>1 DEF Creating, SameStatus, Writes, Stored
<1>5. ASSUME NEW v \in Workers, worker'[v].at = "fetched"
      PROVE  /\ worker[v].at = "fetched" /\ worker'[v].job = worker[v].job
             /\ mem'.status[worker[v].job] \in {"pending", "none"}
  <2>1. v # w /\ worker'[v] = worker[v]
    BY <1>1, <1>5
  <2>2. worker[v].job \in Jobs \ {j} /\ mem.status[worker[v].job] \in {"pending", "none"}
    BY <1>0, <1>1, <1>5, <2>1 DEF LifeInv, ExecInv, OnceInv, TypeOK, OneWorker, FetchedPending
  <2> QED
    BY <1>2, <1>5, <2>1, <2>2 DEF SameStatus, Writes
<1>6. LifeInv'
  BY <1>1, <1>2, <1>4, <1>5, LifeKeeps DEF Saved, Treating
<1> QED
  BY <1>1, <1>2, <1>3, <1>6 DEF LifeStep, Begins

LEMMA ExecuteLife ==
  ASSUME LifeInv, ExecInv', NoSaveFailed', NEW w \in Workers,
         \/ StartSession(w) \/ Register(w) \/ PrepareFails(w) \/ Complete(w) \/ AnnounceFinal(w)
         \/ SettleRecord(w) \/ SettleSession(w) \/ AnnounceUnprepared(w)
  PROVE  LifeInv' /\ LifeStep
<1>0. PICK j \in Jobs : j = worker[w].job
  BY DEF StartSession, Register, PrepareFails, Complete, AnnounceFinal, SettleRecord, SettleSession,
     AnnounceUnprepared, LifeInv, ExecInv, OnceInv, TypeOK
<1>1. UNCHANGED <<added, enq, queue, recovery>>
  BY DEF StartSession, Register, PrepareFails, Complete, AnnounceFinal, SettleRecord, SettleSession,
     AnnounceUnprepared
<1>2. /\ worker[w].at \notin {"idle", "fetched"} /\ worker'[w].at # "fetched"
      /\ \A v \in Workers \ {w} : worker'[v] = worker[v]
      /\ worker'[w].at \in PreExecution => worker[w].at \in PreExecution /\ worker'[w].job = j
  <2>1. WorkersOK
    BY DEF LifeInv, ExecInv, OnceInv, TypeOK, WorkersOK
  <2>2. CASE SettleSession(w) \/ AnnounceUnprepared(w)
    BY <2>1, <2>2 DEF WorkersOK, SettleSession, AnnounceUnprepared, Finish, Goto, Idle, PreExecution
  <2>3. CASE StartSession(w) \/ Register(w) \/ PrepareFails(w) \/ Complete(w)
    BY <1>0, <2>1, <2>3 DEF WorkersOK, StartSession, Register, PrepareFails, Complete, Goto, PreExecution
  <2>4. CASE AnnounceFinal(w) \/ SettleRecord(w)
    BY <2>1, <2>4 DEF WorkersOK, AnnounceFinal, SettleRecord, Goto, PreExecution
  <2> QED
    BY <2>2, <2>3, <2>4
<1>3. Saved /\ (SameStatus \/ \E final \in Final : Ends(j, final))
  <2>1. TypeOK /\ (NoSaveFailed => disk = mem) /\ disk = mem
    BY DEF LifeInv, ExecInv, OnceInv
  <2>2. CASE UNCHANGED storeVars
    BY <2>1, <2>2, SameStoreSaved
  <2>3. CASE StartSession(w) \/ SettleSession(w)
    BY <2>1, <2>3, UpdateSessionWrites DEF StartSession, SettleSession, FinalSession
  <2>4. CASE AnnounceFinal(w) \/ AnnounceUnprepared(w)
    BY <2>1, <2>4, FinalEventWrites DEF AnnounceFinal, AnnounceUnprepared
  <2>5. CASE SettleRecord(w)
    <3>1. worker[w].final \in Final
      BY <2>1, <2>5 DEF SettleRecord, TypeOK, Ending
    <3>2. UpdateRunJob(j, worker[w].final)
      BY <1>0, <2>5 DEF SettleRecord, FinalRecord
    <3>3. Saved /\ ((Stored(j) /\ Writes(j, worker[w].final)) \/ (~Stored(j) /\ SameStatus))
      BY <2>1, <3>2, UpdateRunJobWrites
    <3> QED
      BY <3>1, <3>3 DEF Ends
  <2> QED
    BY <2>2, <2>3, <2>4, <2>5 DEF Register, PrepareFails, Complete
<1>4. "none" \notin Final
  BY DEF Final
<1>5. \A i \in Jobs : /\ HeldBy(i, PreExecution)' => HeldBy(i, PreExecution)
                      /\ Creating(i)' => Creating(i)
                      /\ mem'.status[i] = "none" <=> mem.status[i] = "none"
  <2>1. \A i \in Jobs : HeldBy(i, PreExecution)' => HeldBy(i, PreExecution)
    BY <1>0, <1>2 DEF HeldBy
  <2> QED
    BY <1>1, <1>3, <1>4, <2>1 DEF Creating, SameStatus, Ends, Writes, Stored
<1>6. ASSUME NEW v \in Workers, worker'[v].at = "fetched"
      PROVE  /\ worker[v].at = "fetched" /\ worker'[v].job = worker[v].job
             /\ mem'.status[worker[v].job] \in {"pending", "none"}
  <2>1. v # w /\ worker'[v] = worker[v]
    BY <1>2, <1>6
  <2>2. worker[v].job \in Jobs \ {j} /\ mem.status[worker[v].job] \in {"pending", "none"}
    BY <1>0, <1>2, <1>6, <2>1 DEF LifeInv, ExecInv, OnceInv, TypeOK, OneWorker, FetchedPending
  <2> QED
    BY <1>3, <1>6, <2>1, <2>2 DEF SameStatus, Ends, Writes
<1>7. LifeInv'
  BY <1>1, <1>3, <1>5, <1>6, LifeKeeps DEF Saved, Treating
<1> QED
  BY <1>1, <1>3, <1>7 DEF LifeStep

(* Recovery and restarts.                                                  *)
LEMMA RecoverNextLife ==
  ASSUME LifeInv, ExecInv', NoSaveFailed', RecoverNext
  PROVE  LifeInv' /\ LifeStep
<1>0. RecoveryOK /\ TypeOK
  BY DEF LifeInv, ExecInv, OnceInv, TypeOK, RecoveryOK
<1>1. PICK j \in Oldest :
        /\ recovery.at = "next"
        /\ queue' = queue \/ queue' = Append(queue, j)
        /\ recovery'.todo = recovery.todo \ {j}
        /\ recovery'.at = "next" \/ (recovery'.job = j /\ queue' = queue /\ Stored(j))
  BY <1>0 DEF RecoverNext, RecoveryOK, Interrupted, Stored
<1>2. UNCHANGED <<mem, disk, added, enq, worker>>
  BY DEF RecoverNext, storeVars
<1>3. j \in Jobs /\ j \in recovery.todo
  BY <1>0, <1>1 DEF Oldest, RecoveryOK
<1>4. ~InQueue(j) /\ ~HeldBy(j, PreExecution) /\ ~Creating(j)
  BY <1>3 DEF LifeInv, ExecInv, OnceInv, OnePlace
<1>5. ASSUME NEW i \in Jobs, i # j, Elsewhere(i) PROVE Elsewhere(i)'
  <2>1. InQueue(i)' => InQueue(i)
    <3>1. CASE queue' = queue
      BY <3>1 DEF InQueue
    <3>2. CASE queue' = Append(queue, j)
      <4>1. queue \in Seq(Jobs)
        BY <1>0 DEF TypeOK
      <4> QED
        BY <1>3, <1>5, <3>2, <4>1, AppendProperties DEF InQueue
    <3> QED
      BY <1>1, <3>1, <3>2
  <2> QED
    BY <1>1, <1>2, <1>5, <2>1 DEF Elsewhere, HeldBy
<1>6. FullElsewhere'
  <2>1. enq[j] # "full"
    BY <1>3 DEF LifeInv, FullElsewhere, Elsewhere
  <2> QED
    BY <1>2, <1>5, <2>1 DEF LifeInv, FullElsewhere
<1>7. TreatedElsewhere'
  <2> SUFFICES ASSUME Treating' PROVE Elsewhere(recovery.job)' /\ Stored(recovery.job)' /\ ~Creating(recovery.job)'
    BY DEF TreatedElsewhere
  <2>1. recovery'.job = j /\ queue' = queue /\ Stored(j)
    BY <1>1 DEF Treating
  <2>2. j \notin recovery'.todo
    BY <1>1
  <2> QED
    BY <1>2, <1>4, <2>1, <2>2 DEF Elsewhere, InQueue, HeldBy, Stored, Creating
<1>8. NewNotAdded' /\ StoredAdded' /\ FetchedPending'
  BY <1>2 DEF LifeInv, NewNotAdded, StoredAdded, Stored, FetchedPending
<1> QED
  BY <1>2, <1>6, <1>7, <1>8 DEF LifeInv, LifeStep, SameStatus

LEMMA RecoverLife ==
  ASSUME LifeInv, ExecInv', NoSaveFailed', RecoverRecord \/ RecoverSession \/ RecoverEvent
  PROVE  LifeInv' /\ LifeStep
<1>0. PICK j \in Jobs : j = recovery.job
  BY DEF RecoverRecord, RecoverSession, RecoverEvent, LifeInv, ExecInv, OnceInv, TypeOK
<1>1. UNCHANGED <<added, enq, queue, worker>>
  BY DEF RecoverRecord, RecoverSession, RecoverEvent
<1>2. recovery'.todo = recovery.todo /\ recovery'.at \notin {"full", "interrupted"}
  <2>1. RecoveryOK
    BY DEF LifeInv, ExecInv, OnceInv, TypeOK, RecoveryOK
  <2> QED
    BY <2>1 DEF RecoverRecord, RecoverSession, RecoverEvent, RecoverTo, RecoveryOK
<1>3. Saved /\ (SameStatus \/ (Treating /\ Ends(j, "failed")))
  <2>1. TypeOK /\ (NoSaveFailed => disk = mem)
    BY DEF LifeInv, ExecInv, OnceInv
  <2>2. CASE RecoverRecord
    <3>1. Put(WithStatus(j, "failed")) /\ Treating
      BY <1>0, <2>2 DEF RecoverRecord, Put, Treating
    <3>2. Stored(j)
      BY <1>0, <3>1 DEF LifeInv, TreatedElsewhere
    <3> QED
      BY <2>1, <3>1, <3>2, WithStatusWrites DEF Ends
  <2>3. CASE RecoverSession
    BY <2>1, <2>3, UpdateSessionWrites DEF RecoverSession
  <2>4. CASE RecoverEvent
    BY <2>1, <2>4, FinalEventWrites DEF RecoverEvent
  <2> QED
    BY <2>2, <2>3, <2>4
<1>4. \A i \in Jobs : /\ HeldBy(i, PreExecution)' => HeldBy(i, PreExecution)
                      /\ Creating(i)' => Creating(i)
                      /\ mem'.status[i] = "none" <=> mem.status[i] = "none"
  BY <1>1, <1>3 DEF HeldBy, Creating, SameStatus, Ends, Writes, Stored
<1>5. ASSUME NEW v \in Workers, worker[v].at = "fetched"
      PROVE  mem'.status[worker[v].job] \in {"pending", "none"}
  <2>1. worker[v].job \in Jobs /\ mem.status[worker[v].job] \in {"pending", "none"}
    BY <1>5 DEF LifeInv, ExecInv, OnceInv, TypeOK, FetchedPending
  <2>2. Treating => worker[v].job # j
    BY <1>0, <1>5 DEF LifeInv, TreatedElsewhere, Elsewhere, HeldBy, PreExecution
  <2> QED
    BY <1>3, <2>1, <2>2 DEF SameStatus, Ends, Writes
<1>6. LifeInv'
  BY <1>1, <1>2, <1>3, <1>4, <1>5, LifeKeeps DEF Saved, Treating
<1> QED
  BY <1>1, <1>3, <1>6 DEF LifeStep, Final

LEMMA RestartLife ==
  ASSUME LifeInv, ExecInv', NoSaveFailed', Restart
  PROVE  LifeInv' /\ LifeStep
<1>1. /\ UNCHANGED <<mem, disk, added>>
      /\ \A j \in Jobs : enq'[j] \in Answered \cup {"new", "lost"} /\ (enq'[j] = "new" => enq[j] = "new")
      /\ \A w \in Workers : worker'[w].at = "idle"
      /\ recovery'.at = "next"
  BY DEF Restart, LifeInv, Idle, Answered
<1>2. NewNotAdded' /\ StoredAdded' /\ FetchedPending'
  BY <1>1 DEF LifeInv, NewNotAdded, StoredAdded, Stored, FetchedPending, Answered
<1>3. FullElsewhere' /\ TreatedElsewhere'
  BY <1>1 DEF FullElsewhere, TreatedElsewhere, Treating, Answered
<1> QED
  BY <1>1, <1>2, <1>3 DEF LifeInv, LifeStep, SameStatus

(* The steps of the records are those of the life cycle.                   *)
LifeOf(j) ==
  IF mem.status[j] \in Final THEN "done"
  ELSE IF mem.status[j] = "none" /\ added[j] > 0 THEN "evicted"
  ELSE mem.status[j]

LifeMap == [j \in Jobs |-> LifeOf(j)]

LEMMA LifeOfCases ==
  ASSUME TypeOK, StoredAdded, NEW j \in Jobs
  PROVE  /\ LifeOf(j) = "none" <=> mem.status[j] = "none" /\ added[j] = 0
         /\ LifeOf(j) = "evicted" <=> mem.status[j] = "none" /\ added[j] > 0
         /\ LifeOf(j) = "pending" <=> mem.status[j] = "pending"
         /\ LifeOf(j) = "running" <=> mem.status[j] = "running"
         /\ LifeOf(j) = "done" <=> mem.status[j] \in Final
<1>1. mem.status[j] \in {"none", "pending", "running", "succeeded", "failed", "canceled"}
  BY DEF TypeOK, State, Status, Final
<1>2. added[j] \in Nat
  BY DEF TypeOK
<1>3. added[j] = 0 <=> ~(added[j] > 0)
  BY <1>2
<1> QED
  BY <1>1, <1>3 DEF LifeOf, Final

LEMMA MappedStep ==
  ASSUME LifeInv, LifeStep
  PROVE  \/ LifeMap' = LifeMap
         \/ \E j \in Jobs : /\ LifeMap[j] \in {"pending"}
                            /\ LifeMap' = [LifeMap EXCEPT ![j] = "running"]
         \/ \E j \in Jobs : /\ LifeMap[j] \in {"pending", "running"}
                            /\ LifeMap' = [LifeMap EXCEPT ![j] = "done"]
         \/ \E j \in Jobs :
              /\ LifeMap[j] = "none"
              /\ \E old \in SUBSET {k \in Jobs : LifeMap[k] \notin {"none", "evicted"}} :
                   LifeMap' = [k \in Jobs |-> IF k = j THEN "pending"
                                              ELSE IF k \in old THEN "evicted" ELSE LifeMap[k]]
<1>0. TypeOK /\ StoredAdded
  BY DEF LifeInv, ExecInv, OnceInv
<1>1. CASE UNCHANGED added /\ SameStatus
  BY <1>1 DEF LifeMap, LifeOf, SameStatus
<1>2. ASSUME NEW j \in Jobs, UNCHANGED added, Begins(j)
      PROVE  LifeMap[j] = "pending" /\ LifeMap' = [LifeMap EXCEPT ![j] = "running"]
  <2>1. LifeMap[j] = "pending"
    BY <1>2 DEF LifeMap, LifeOf, Begins, Final
  <2>2. LifeOf(j)' = "running"
    BY <1>2 DEF LifeOf, Begins, Writes, Final
  <2>3. \A i \in Jobs \ {j} : LifeOf(i)' = LifeOf(i)
    BY <1>2 DEF LifeOf, Begins, Writes
  <2> QED
    BY <2>1, <2>2, <2>3 DEF LifeMap
<1>3. ASSUME NEW j \in Jobs, NEW final \in Final, UNCHANGED added, Ends(j, final)
      PROVE  \/ LifeMap' = LifeMap
             \/ /\ LifeMap[j] \in {"pending", "running"}
                /\ LifeMap' = [LifeMap EXCEPT ![j] = "done"]
  <2>1. LifeMap[j] \in {"pending", "running", "done"}
    BY <1>0, <1>3, LifeOfCases DEF LifeMap, Ends, Stored, TypeOK, State, Status
  <2>2. LifeOf(j)' = "done"
    BY <1>3 DEF LifeOf, Ends, Writes
  <2>3. \A i \in Jobs \ {j} : LifeOf(i)' = LifeOf(i)
    BY <1>3 DEF LifeOf, Ends, Writes
  <2>4. LifeMap' = [LifeMap EXCEPT ![j] = "done"]
    BY <2>2, <2>3 DEF LifeMap
  <2> QED
    BY <2>1, <2>4 DEF LifeMap
<1>4. ASSUME NEW j \in Jobs, Adds(j)
      PROVE  /\ LifeMap[j] = "none"
             /\ \E old \in SUBSET {k \in Jobs : LifeMap[k] \notin {"none", "evicted"}} :
                  LifeMap' = [k \in Jobs |-> IF k = j THEN "pending"
                                             ELSE IF k \in old THEN "evicted" ELSE LifeMap[k]]
  <2>1. LifeMap[j] = "none"
    BY <1>0, <1>4, LifeOfCases DEF LifeMap, Adds, Stored
  <2> DEFINE old == {k \in Jobs \ {j} : mem.status[k] # "none" /\ mem'.status[k] = "none"}
  <2>2. ASSUME NEW k \in old PROVE LifeMap[k] \notin {"none", "evicted"} /\ LifeOf(k)' = "evicted"
    <3>1. LifeMap[k] \notin {"none", "evicted"}
      BY <1>0, <2>2, LifeOfCases DEF LifeMap
    <3>2. added[k] > 0 /\ added'[k] = added[k]
      BY <1>0, <1>4, <2>2 DEF StoredAdded, Stored, Adds
    <3> QED
      BY <2>2, <3>1, <3>2 DEF LifeOf, Final
  <2>3. ASSUME NEW k \in Jobs \ {j}, k \notin old PROVE LifeOf(k)' = LifeOf(k)
    <3>1. mem'.status[k] = mem.status[k] /\ added'[k] = added[k]
      BY <1>4, <2>3 DEF Adds
    <3> QED
      BY <3>1 DEF LifeOf
  <2>4. LifeOf(j)' = "pending"
    BY <1>4 DEF Adds, LifeOf, Final
  <2>5. LifeMap' = [k \in Jobs |-> IF k = j THEN "pending"
                                   ELSE IF k \in old THEN "evicted" ELSE LifeMap[k]]
    BY <2>2, <2>3, <2>4 DEF LifeMap
  <2>6. old \in SUBSET {k \in Jobs : LifeMap[k] \notin {"none", "evicted"}}
    BY <2>2
  <2> HIDE DEF old
  <2> QED
    BY <2>1, <2>5, <2>6
<1> QED
  BY <1>1, <1>2, <1>3, <1>4 DEF LifeStep

(* When no save can fail and nobody cancels.                               *)
LEMMA StepLife ==
  ASSUME MaxFaults["save"] = 0, Cancelers = {}, LifeInv, [Next]_vars
  PROVE  LifeInv' /\ LifeStep
<1>0. ExecInv'
  BY StepExec DEF LifeInv
<1>1. ASSUME FaultsKept PROVE NoSaveFailed'
  <2>1. NoSaveFailed /\ faults \in [FaultKinds -> Nat]
    BY DEF LifeInv, ExecInv, OnceInv, TypeOK
  <2>2. ~Fault("save")
    BY <2>1 DEF Fault, NoSaveFailed
  <2>3. ASSUME NEW kind \in FaultKinds, Fault(kind) PROVE faults'["save"] = faults["save"]
    BY <2>1, <2>2, <2>3 DEF Fault, FaultKinds
  <2> QED
    BY <1>1, <2>1, <2>3 DEF FaultsKept, NoSaveFailed
<1>2. ASSUME NEW j \in Jobs, Request(j) PROVE LifeInv' /\ LifeStep
  BY <1>0, <1>1, <1>2, RequestFaults, BindLife, AddLife, EnqueueLife, FailFullLife DEF Request
<1>3. ASSUME NEW w \in Workers, Work(w) PROVE LifeInv' /\ LifeStep
  BY <1>0, <1>1, <1>3, WorkFaults, FetchLife, StartRecordLife, ExecuteLife DEF Work
<1>4. CASE Recover
  BY <1>0, <1>1, <1>4, RecoverFaults, RecoverNextLife, RecoverLife DEF Recover
<1>5. CASE Restart
  BY <1>0, <1>1, <1>5, RestartLife DEF Restart, FaultsKept, FaultKinds
<1>6. CASE OtherSave
  BY <1>6 DEF OtherSave, LifeInv
<1>7. CASE UNCHANGED vars
  <2>1. UNCHANGED <<mem, disk, faults, added, enq, queue, worker, recovery>>
    BY <1>7 DEF vars, storeVars
  <2>2. \A j \in Jobs : (Elsewhere(j)' <=> Elsewhere(j)) /\ (Creating(j)' <=> Creating(j))
    BY <2>1 DEF Elsewhere, InQueue, HeldBy, Creating
  <2>3. NoSaveFailed' /\ NewNotAdded' /\ StoredAdded' /\ FetchedPending' /\ FullElsewhere'
    BY <2>1, <2>2 DEF LifeInv, NoSaveFailed, NewNotAdded, StoredAdded, Stored, FetchedPending, FullElsewhere
  <2>4. TreatedElsewhere'
    <3>1. Elsewhere(recovery.job)' = Elsewhere(recovery.job)
      BY <2>1 DEF Elsewhere, InQueue, HeldBy
    <3> QED
      BY <2>1, <3>1 DEF LifeInv, TreatedElsewhere, Treating, Stored, Creating
  <2> QED
    BY <1>0, <2>1, <2>3, <2>4 DEF LifeInv, LifeStep, SameStatus
<1> QED
  BY <1>2, <1>3, <1>4, <1>5, <1>6, <1>7 DEF Next

LEMMA InitLife == Init => LifeInv
<1> SUFFICES ASSUME Init PROVE LifeInv
  OBVIOUS
<1>1. ExecInv
  BY InitAgree DEF AgreeInv
<1>2. NoSaveFailed /\ disk = mem /\ NewNotAdded
  BY DEF Init, NoSaveFailed, NewNotAdded, FaultKinds
<1>3. StoredAdded /\ FetchedPending /\ FullElsewhere /\ TreatedElsewhere
  BY DEF Init, EmptyStore, Idle, StoredAdded, Stored, FetchedPending, FullElsewhere, TreatedElsewhere, Treating
<1> QED
  BY <1>1, <1>2, <1>3 DEF LifeInv

(* Without failed saves and cancel requests the records follow the life    *)
(* cycle of JobLife, through evictions, full queues, restarts and          *)
(* recovery: no job that is done runs again, none that runs is pending     *)
(* again, and an evicted record stays away.  It is the safety part of      *)
(* ImplementsJobLife.                                                      *)
THEOREM RecordsImplementJobLife ==
  ASSUME MaxFaults["save"] = 0, Cancelers = {}
  PROVE  Spec => Life!Spec
<1>1. Init => Life!Init
  BY DEF Init, EmptyStore, Life!Init, Final
<1>2. LifeInv /\ [Next]_vars => LifeInv'
  BY StepLife
<1>3. LifeInv /\ [Next]_vars => [Life!Next]_LifeMap
  <2> SUFFICES ASSUME LifeInv, [Next]_vars PROVE Life!Next \/ LifeMap' = LifeMap
    OBVIOUS
  <2>1. LifeStep
    BY StepLife
  <2> QED
    BY <2>1, MappedStep DEF Life!Next, Life!Start, Life!Finish, Life!Submit, Life!Step, LifeMap, LifeOf
<1> QED
  BY <1>1, <1>2, <1>3, InitLife, PTL DEF Spec, Life!Spec, LifeMap, LifeOf
=============================================================================
