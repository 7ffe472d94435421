---------------------------- MODULE ServerProofs ----------------------------
(***************************************************************************)
(* Proofs about two parts of the server: a run on several hosts (Fanout),  *)
(* for every number of hosts, every fan-out and every number of retries,   *)
(* and the audit of requests (Audit), for every size of its queue, batches *)
(* and store.                                                              *)
(***************************************************************************)
EXTENDS Fanout, SequenceTheorems, TLAPS

-----------------------------------------------------------------------------
(* The invariant.                                                          *)

Busy(w) == workers[w].at \in {"running", "backoff"}

(* A worker at its host has made the attempts it counts, and the host has  *)
(* no result yet; one that took a host after the context was over does not *)
(* wait for another.                                                       *)
WorkerOK(w) ==
  /\ Busy(w) =>
       /\ workers[w].host \in Hosts
       /\ workers[w].host < next
       /\ results[workers[w].host].state = "none"
       /\ made[workers[w].host] = workers[w].attempts
       /\ workers[w].attempts <= RetryCount + 1
  /\ workers[w].at = "backoff" =>
       /\ workers[w].attempts <= RetryCount
       /\ last[workers[w].host] = "failed"
  /\ late[w] <= 1
  /\ late[w] = 1 => ctx = "done" /\ workers[w].at # "idle"

(* A host that was handed over has its result, or a worker is at it.       *)
HostOK(h) ==
  /\ made[h] <= RetryCount + 1
  /\ h >= next => made[h] = 0 /\ results[h].state = "none"
  /\ h < next => made[h] >= 1
  /\ h < next /\ results[h].state = "none" =>
       \E w \in Workers : Busy(w) /\ workers[w].host = h
  /\ results[h].state # "none" => results[h] = Result(last[h], made[h])

Alone ==
  \A v, w \in Workers : Busy(v) /\ Busy(w) /\ workers[v].host = workers[w].host => v = w

AtWork ==
  /\ \A w \in Workers : WorkerOK(w)
  /\ \A h \in Hosts : HostOK(h)
  /\ Alone
  /\ phase = "waiting" => next > HostCount \/ ctx = "done"

(* The run is over; nothing changes any more.                              *)
Over ==
  /\ \A w \in Workers : workers[w].at = "gone"
  /\ AttemptsBounded /\ ResultsFaithful /\ EndsSoon

FanInv ==
  /\ TypeOK
  /\ IF phase = "returned" THEN Over ELSE AtWork

-----------------------------------------------------------------------------

LEMMA TypesKept ==
  ASSUME HostCount \in Nat, RetryCount \in Nat, TypeOK, Next
  PROVE  TypeOK'
<1>1. ASSUME NEW w \in Workers, Schedule(w) PROVE TypeOK'
  <2>1. next' \in 1..HostCount + 1 /\ next \in Hosts
    BY <1>1 DEF Schedule, TypeOK, Hosts
  <2>2. workers' \in [Workers -> [at : {"idle", "running", "backoff", "reported", "gone"},
                                  host : 0..HostCount, attempts : Nat]]
    BY <1>1, <2>1 DEF Schedule, TypeOK, Hosts
  <2>3. made' \in [Hosts -> Nat]
    BY <1>1, <2>1 DEF Schedule, TypeOK
  <2>4. late' \in [Workers -> Nat]
    BY <1>1 DEF Schedule, TypeOK
  <2> QED
    BY <1>1, <2>1, <2>2, <2>3, <2>4 DEF Schedule, TypeOK
<1>2. CASE CloseJobs \/ ContextEnds
  BY <1>2 DEF CloseJobs, ContextEnds, TypeOK
<1>3. CASE Return
  BY <1>3 DEF Return, TypeOK, Result
<1>4. ASSUME NEW w \in Workers, NEW s \in {"ok", "failed"}, Report(w, s)
      PROVE  /\ results' \in [Hosts -> [state : {"none", "ok", "failed", "skipped"}, attempts : Nat]]
             /\ workers' \in [Workers -> [at : {"idle", "running", "backoff", "reported", "gone"},
                                          host : 0..HostCount, attempts : Nat]]
  BY <1>4 DEF Report, Result, TypeOK
<1>5. ASSUME NEW w \in Workers, AttemptSucceeds(w) \/ GiveUp(w) PROVE TypeOK'
  BY <1>4, <1>5 DEF AttemptSucceeds, GiveUp, TypeOK
<1>6. ASSUME NEW w \in Workers, AttemptFails(w) PROVE TypeOK'
  <2>1. CASE workers[w].attempts > RetryCount
    BY <1>4, <1>6, <2>1 DEF AttemptFails, TypeOK
  <2>2. CASE ~(workers[w].attempts > RetryCount)
    BY <1>6, <2>2, ZenonT(60) DEF AttemptFails, TypeOK
  <2> QED
    BY <2>1, <2>2
<1>7. ASSUME NEW w \in Workers, Retry(w) PROVE TypeOK'
  <2>1. workers[w].attempts + 1 \in Nat
    BY DEF TypeOK
  <2>2. workers' \in [Workers -> [at : {"idle", "running", "backoff", "reported", "gone"},
                                  host : 0..HostCount, attempts : Nat]]
    BY <1>7, <2>1 DEF Retry, TypeOK
  <2>3. made' \in [Hosts -> Nat]
    BY <1>7 DEF Retry, TypeOK
  <2> QED
    BY <1>7, <2>2, <2>3 DEF Retry, TypeOK
<1>8. ASSUME NEW w \in Workers, Continue(w) \/ Leave(w) PROVE TypeOK'
  BY <1>8 DEF Continue, Leave, Idle, Gone, TypeOK
<1> QED
  BY <1>1, <1>2, <1>3, <1>5, <1>6, <1>7, <1>8 DEF Next, Step, WorkerNext

-----------------------------------------------------------------------------
(* The steps of a run that is at work.                                     *)

LEMMA ScheduleStep ==
  ASSUME HostCount \in Nat, RetryCount \in Nat, TypeOK, AtWork,
         NEW w \in Workers, Schedule(w)
  PROVE  AtWork'
<1>1. next \in Hosts /\ next' = next + 1 /\ next \in Nat
  BY DEF Schedule, TypeOK, Hosts
<1>2. /\ workers' = [workers EXCEPT ![w] = [at |-> "running", host |-> next, attempts |-> 1]]
      /\ made' = [made EXCEPT ![next] = @ + 1]
      /\ UNCHANGED <<ctx, results, last, phase>> /\ phase = "scheduling"
      /\ workers[w].at = "idle"
  BY DEF Schedule
<1>3. made[next] = 0 /\ results[next].state = "none"
  BY <1>1 DEF AtWork, HostOK
<1>4. late[w] = 0 /\ late'[w] <= 1 /\ (late'[w] = 1 => ctx = "done")
  <2>1. late[w] \in Nat /\ late[w] <= 1 /\ late[w] # 1
    BY <1>2 DEF AtWork, WorkerOK, TypeOK
  <2>2. late' = IF ctx = "done" THEN [late EXCEPT ![w] = late[w] + 1] ELSE late
    BY DEF Schedule
  <2>3. late[w] = 0
    BY <2>1
  <2>4. late'[w] = IF ctx = "done" THEN 1 ELSE 0
    BY <2>2, <2>3 DEF TypeOK
  <2> QED
    BY <2>3, <2>4
<1>5. /\ workers'[w] = [at |-> "running", host |-> next, attempts |-> 1]
      /\ made'[next] = 1
      /\ \A h \in Hosts : h # next => made'[h] = made[h]
      /\ \A v \in Workers : v # w => workers'[v] = workers[v] /\ late'[v] = late[v]
  BY <1>1, <1>2, <1>3 DEF TypeOK, Schedule
<1>6. \A v \in Workers : Busy(v) => workers[v].host \in Hosts /\ workers[v].host < next
  BY DEF AtWork, WorkerOK
<1>7. ASSUME NEW v \in Workers PROVE WorkerOK(v)'
  <2>1. CASE v = w
    BY <1>1, <1>2, <1>3, <1>4, <1>5, <2>1 DEF WorkerOK, Busy
  <2>2. CASE v # w
    BY <1>1, <1>2, <1>5, <1>6, <2>2 DEF AtWork, WorkerOK, Busy, Hosts
  <2> QED
    BY <2>1, <2>2
<1>8. ASSUME NEW h \in Hosts PROVE HostOK(h)'
  <2>1. CASE h = next
    <3>1. Busy(w)' /\ workers'[w].host = h
      BY <1>5, <2>1 DEF Busy
    <3> QED
      BY <1>1, <1>2, <1>3, <1>5, <2>1, <3>1 DEF HostOK
  <2>2. CASE h # next
    <3>1. made'[h] = made[h] /\ results'[h] = results[h] /\ last'[h] = last[h]
      BY <1>2, <1>5, <2>2
    <3>2. (h >= next' <=> h >= next) /\ (h < next' <=> h < next)
      BY <1>1, <2>2 DEF Hosts
    <3>3. \A v \in Workers : Busy(v) => Busy(v)' /\ workers'[v].host = workers[v].host
      BY <1>2, <1>5 DEF Busy
    <3>4. HostOK(h)
      BY DEF AtWork
    <3> QED
      BY <3>1, <3>2, <3>3, <3>4 DEF HostOK
  <2> QED
    BY <2>1, <2>2
<1>9. Alone'
  <2> SUFFICES ASSUME NEW u \in Workers, NEW v \in Workers, Busy(u)', Busy(v)',
                      workers'[u].host = workers'[v].host
               PROVE  u = v
    BY DEF Alone
  <2>1. CASE u = w \/ v = w
    BY <1>1, <1>5, <1>6, <2>1 DEF Busy, Hosts
  <2>2. CASE u # w /\ v # w
    BY <1>5, <2>2 DEF Busy, AtWork, Alone
  <2> QED
    BY <2>1, <2>2
<1> QED
  BY <1>2, <1>7, <1>8, <1>9 DEF AtWork

(* A worker reports the result of its host.                                *)
LEMMA ReportStep ==
  ASSUME HostCount \in Nat, RetryCount \in Nat, TypeOK, AtWork,
         NEW w \in Workers, NEW s \in {"ok", "failed"}, Busy(w), Report(w, s),
         last' = [last EXCEPT ![workers[w].host] = s],
         UNCHANGED <<ctx, phase, next, made, late>>
  PROVE  AtWork'
<1>1. PICK g \in Hosts : g = workers[w].host
  BY DEF AtWork, WorkerOK
<1>2. results'[g] = Result(last'[g], made'[g]) /\ results'[g].state # "none"
  BY <1>1 DEF Report, AtWork, WorkerOK, Result, TypeOK
<1>3. \A h \in Hosts : h # g => results'[h] = results[h] /\ last'[h] = last[h]
  BY <1>1 DEF Report, TypeOK
<1>4. /\ workers'[w].at = "reported"
      /\ \A v \in Workers : v # w => workers'[v] = workers[v]
  BY DEF Report, TypeOK
<1>5. \A v \in Workers : v # w /\ Busy(v) => workers[v].host # g
  BY <1>1 DEF AtWork, Alone
<1>6. ASSUME NEW v \in Workers PROVE WorkerOK(v)'
  <2>1. CASE v = w
    BY <1>4, <2>1 DEF AtWork, WorkerOK, Busy
  <2>2. CASE v # w
    BY <1>3, <1>4, <1>5, <2>2 DEF AtWork, WorkerOK, Busy
  <2> QED
    BY <2>1, <2>2
<1>7. ASSUME NEW h \in Hosts PROVE HostOK(h)'
  <2>1. CASE h = g
    <3>1. g < next /\ HostOK(g) /\ g \in Nat /\ next \in Nat
      BY <1>1 DEF AtWork, WorkerOK, Hosts, TypeOK
    <3> QED
      BY <1>2, <2>1, <3>1 DEF HostOK
  <2>2. CASE h # g
    <3>1. \A v \in Workers : Busy(v) /\ workers[v].host = h => Busy(v)' /\ workers'[v].host = h
      BY <1>1, <1>4, <2>2 DEF Busy
    <3> QED
      BY <1>3, <2>2, <3>1 DEF AtWork, HostOK
  <2> QED
    BY <2>1, <2>2
<1>8. Alone'
  BY <1>4 DEF AtWork, Alone, Busy
<1> QED
  BY <1>6, <1>7, <1>8 DEF AtWork

(* A worker that failed waits to try again, or does.                       *)
LEMMA BackoffStep ==
  ASSUME HostCount \in Nat, RetryCount \in Nat, TypeOK, AtWork, NEW w \in Workers,
         \/ AttemptFails(w) /\ ~(workers[w].attempts > RetryCount)
         \/ Retry(w)
  PROVE  AtWork'
<1>1. Busy(w)
  BY DEF AttemptFails, Retry, Busy
<1>2. PICK g \in Hosts : g = workers[w].host
  BY <1>1 DEF AtWork, WorkerOK
<1>3. UNCHANGED <<ctx, phase, next, results, late>>
  BY DEF AttemptFails, Retry
<1>4. /\ Busy(w)' /\ workers'[w].host = g
      /\ \A v \in Workers : v # w => workers'[v] = workers[v]
  BY <1>2 DEF AttemptFails, Retry, Busy, TypeOK
<1>5. \A h \in Hosts : h # g => made'[h] = made[h] /\ last'[h] = last[h]
  BY <1>2 DEF AttemptFails, Retry, TypeOK
<1>6. WorkerOK(w) /\ workers[w].attempts \in Nat /\ made[g] \in Nat
      /\ made[g] = workers[w].attempts /\ results[g].state = "none" /\ g < next
  BY <1>1, <1>2 DEF AtWork, WorkerOK, TypeOK
<1>7. /\ made'[g] = workers'[w].attempts
      /\ workers'[w].attempts <= RetryCount + 1
      /\ made'[g] >= 1 \/ made'[g] = made[g]
      /\ workers'[w].at = "backoff" => workers'[w].attempts <= RetryCount /\ last'[g] = "failed"
      /\ workers'[w].at # "idle"
  <2>1. CASE AttemptFails(w) /\ ~(workers[w].attempts > RetryCount)
    <3>1. workers' = [workers EXCEPT ![w].at = "backoff"] /\ made' = made
          /\ last' = [last EXCEPT ![g] = "failed"]
      BY <1>2, <2>1 DEF AttemptFails
    <3>2. workers'[w].at = "backoff" /\ workers'[w].attempts = workers[w].attempts
          /\ last'[g] = "failed"
      BY <3>1 DEF TypeOK
    <3> QED
      BY <1>6, <2>1, <3>1, <3>2
  <2>2. CASE Retry(w)
    <3>1. workers' = [workers EXCEPT ![w].at = "running", ![w].attempts = workers[w].attempts + 1]
          /\ made' = [made EXCEPT ![g] = made[g] + 1] /\ workers[w].at = "backoff"
      BY <1>2, <2>2 DEF Retry
    <3>2. workers'[w].at = "running" /\ workers'[w].attempts = workers[w].attempts + 1
          /\ made'[g] = made[g] + 1
      BY <3>1 DEF TypeOK
    <3>3. workers[w].attempts <= RetryCount
      BY <1>6, <3>1 DEF WorkerOK
    <3> QED
      BY <1>6, <3>2, <3>3
  <2> QED
    BY <2>1, <2>2
<1>8. \A v \in Workers : v # w /\ Busy(v) => workers[v].host # g
  BY <1>1, <1>2 DEF AtWork, Alone
<1>9. ASSUME NEW v \in Workers PROVE WorkerOK(v)'
  <2>1. CASE v = w
    <3>1. late[w] <= 1 /\ (late[w] = 1 => ctx = "done")
      BY <1>6 DEF WorkerOK
    <3> QED
      BY <1>2, <1>3, <1>4, <1>6, <1>7, <2>1, <3>1 DEF WorkerOK
  <2>2. CASE v # w
    BY <1>3, <1>4, <1>5, <1>8, <2>2 DEF AtWork, WorkerOK, Busy
  <2> QED
    BY <2>1, <2>2
<1>10. ASSUME NEW h \in Hosts PROVE HostOK(h)'
  <2>1. CASE h = g
    <3>1. HostOK(g) /\ g \in Nat /\ next \in Nat /\ made'[g] >= 1 /\ made'[g] <= RetryCount + 1
      <4>1. HostOK(g) /\ g \in Nat /\ next \in Nat
        BY DEF AtWork, Hosts, TypeOK
      <4>2. made[g] >= 1
        BY <1>6, <4>1 DEF HostOK
      <4>3. made'[g] >= 1
        BY <1>7, <4>2
      <4>4. made'[g] <= RetryCount + 1
        BY <1>7
      <4> QED
        BY <4>1, <4>3, <4>4
    <3> QED
      BY <1>3, <1>4, <1>6, <2>1, <3>1 DEF HostOK
  <2>2. CASE h # g
    <3>1. \A v \in Workers : Busy(v) /\ workers[v].host = h => Busy(v)' /\ workers'[v].host = h
      BY <1>2, <1>4, <2>2 DEF Busy
    <3> QED
      BY <1>3, <1>5, <2>2, <3>1 DEF AtWork, HostOK
  <2> QED
    BY <2>1, <2>2
<1>11. Alone'
  BY <1>2, <1>4, <1>8 DEF AtWork, Alone, Busy
<1> QED
  BY <1>3, <1>9, <1>10, <1>11 DEF AtWork

(* A worker that has reported waits for another host, or goes.             *)
LEMMA IdleStep ==
  ASSUME TypeOK, AtWork, NEW w \in Workers, Continue(w) \/ Leave(w)
  PROVE  AtWork'
<1>1. UNCHANGED <<ctx, phase, next, results, made, last, late>>
  BY DEF Continue, Leave
<1>2. /\ ~Busy(w) /\ ~Busy(w)'
      /\ workers'[w].at # "backoff"
      /\ ctx = "done" => workers'[w].at # "idle"
      /\ \A v \in Workers : v # w => workers'[v] = workers[v]
  BY DEF Continue, Leave, Busy, Idle, Gone, TypeOK
<1>3. ASSUME NEW v \in Workers PROVE WorkerOK(v)'
  <2>1. CASE v = w
    <3>1. late[w] <= 1 /\ (late[w] = 1 => ctx = "done")
      BY DEF AtWork, WorkerOK
    <3> QED
      BY <1>1, <1>2, <2>1, <3>1 DEF WorkerOK
  <2>2. CASE v # w
    BY <1>1, <1>2, <2>2 DEF AtWork, WorkerOK, Busy
  <2> QED
    BY <2>1, <2>2
<1>4. \A v \in Workers : Busy(v) => Busy(v)' /\ workers'[v].host = workers[v].host
  BY <1>2 DEF Busy
<1>5. ASSUME NEW h \in Hosts PROVE HostOK(h)'
  BY <1>1, <1>4 DEF AtWork, HostOK
<1>6. Alone'
  BY <1>2 DEF AtWork, Alone, Busy
<1> QED
  BY <1>1, <1>3, <1>5, <1>6 DEF AtWork

(* The caller stops, or the context ends.                                  *)
LEMMA CallerStep ==
  ASSUME TypeOK, AtWork, phase # "returned", CloseJobs \/ ContextEnds
  PROVE  AtWork' /\ phase' # "returned"
<1>1. UNCHANGED <<next, workers, results, made, last, late>>
  BY DEF CloseJobs, ContextEnds
<1>2. /\ ctx = "done" => ctx' = "done"
      /\ phase' = "waiting" => next > HostCount \/ ctx' = "done"
      /\ phase' # "returned"
  BY DEF CloseJobs, ContextEnds, AtWork
<1>3. \A v \in Workers : WorkerOK(v)'
  BY <1>1, <1>2 DEF AtWork, WorkerOK, Busy
<1>4. \A h \in Hosts : HostOK(h)'
  BY <1>1 DEF AtWork, HostOK, Busy
<1>5. Alone'
  BY <1>1 DEF AtWork, Alone, Busy
<1> QED
  BY <1>1, <1>2, <1>3, <1>4, <1>5 DEF AtWork

LEMMA ReturnStep ==
  ASSUME HostCount \in Nat, RetryCount \in Nat, TypeOK, AtWork, Return
  PROVE  Over' /\ phase' = "returned"
<1>1. phase' = "returned" /\ phase = "waiting" /\ UNCHANGED <<ctx, next, workers, made, last, late>>
  BY DEF Return
<1>2. \A w \in Workers : workers[w].at = "gone" /\ ~Busy(w)
  BY DEF Return, Busy
<1>3. AttemptsBounded' /\ EndsSoon'
  BY <1>1 DEF AtWork, WorkerOK, HostOK, AttemptsBounded, EndsSoon
<1>4. ASSUME NEW h \in Hosts
      PROVE  /\ results'[h].attempts = made[h]
             /\ results'[h].state = IF made[h] = 0 THEN "skipped" ELSE last[h]
             /\ made[h] = 0 => ctx = "done"
  <2>1. HostOK(h) /\ h \in Nat /\ next \in Nat /\ made[h] \in Nat
    BY DEF AtWork, TypeOK, Hosts
  <2>2. results'[h] = IF results[h].state = "none" THEN Result("skipped", 0) ELSE results[h]
    BY DEF Return
  <2>3. CASE results[h].state = "none"
    <3>1. ~(h < next)
      BY <1>2, <2>1, <2>3 DEF HostOK
    <3>2. made[h] = 0
      BY <2>1, <3>1 DEF HostOK
    <3>3. ~(next > HostCount)
      BY <2>1, <3>1 DEF Hosts
    <3>4. ctx = "done"
      BY <1>1, <3>3 DEF AtWork
    <3> QED
      BY <2>2, <2>3, <3>2, <3>4 DEF Result
  <2>4. CASE results[h].state # "none"
    <3>1. h < next
      BY <2>1, <2>4 DEF HostOK
    <3>2. made[h] # 0
      BY <2>1, <3>1 DEF HostOK
    <3>3. results[h] = Result(last[h], made[h])
      BY <2>1, <2>4 DEF HostOK
    <3> QED
      BY <2>2, <2>4, <3>2, <3>3 DEF Result
  <2> QED
    BY <2>3, <2>4
<1>5. ResultsFaithful'
  BY <1>1, <1>4 DEF ResultsFaithful
<1> QED
  BY <1>1, <1>2, <1>3, <1>5 DEF Over

-----------------------------------------------------------------------------

LEMMA FanStep ==
  ASSUME HostCount \in Nat, RetryCount \in Nat, FanInv, Next
  PROVE  FanInv'
<1>1. TypeOK /\ TypeOK'
  BY TypesKept DEF FanInv
<1>2. phase # "returned" /\ AtWork
  BY DEF FanInv, Over, Next, Step, CloseJobs, Return, Schedule, WorkerNext, AttemptSucceeds,
         AttemptFails, Retry, GiveUp, Continue, Leave, ContextEnds
<1>3. ASSUME NEW w \in Workers, Schedule(w) \/ WorkerNext(w)
      PROVE  phase' = phase /\ AtWork'
  <2>1. phase' = phase
    BY <1>3 DEF Schedule, WorkerNext, AttemptSucceeds, AttemptFails, Retry, GiveUp, Continue, Leave
  <2>2. CASE Schedule(w)
    BY <1>1, <1>2, <2>1, <2>2, ScheduleStep
  <2>3. CASE AttemptSucceeds(w)
    <3>1. Busy(w) /\ Report(w, "ok")
      BY <2>3 DEF AttemptSucceeds, Busy
    <3>2. last' = [last EXCEPT ![workers[w].host] = "ok"] /\ UNCHANGED <<ctx, phase, next, made, late>>
      BY <2>3 DEF AttemptSucceeds
    <3> QED
      BY <1>1, <1>2, <2>1, <3>1, <3>2, ReportStep
  <2>4. CASE AttemptFails(w) /\ workers[w].attempts > RetryCount
    <3>1. Busy(w) /\ Report(w, "failed")
      BY <2>4 DEF AttemptFails, Busy
    <3>2. last' = [last EXCEPT ![workers[w].host] = "failed"]
          /\ UNCHANGED <<ctx, phase, next, made, late>>
      BY <2>4 DEF AttemptFails
    <3> QED
      BY <1>1, <1>2, <2>1, <3>1, <3>2, ReportStep
  <2>5. CASE GiveUp(w)
    <3>1. Busy(w) /\ Report(w, "failed")
      BY <2>5 DEF GiveUp, Busy
    <3>2. last[workers[w].host] = "failed"
      BY <1>2, <2>5 DEF GiveUp, AtWork, WorkerOK
    <3>3. last' = [last EXCEPT ![workers[w].host] = "failed"]
      BY <1>1, <2>5, <3>2 DEF GiveUp, TypeOK
    <3>4. UNCHANGED <<ctx, phase, next, made, late>>
      BY <2>5 DEF GiveUp
    <3> QED
      BY <1>1, <1>2, <2>1, <3>1, <3>3, <3>4, ReportStep
  <2>6. CASE (AttemptFails(w) /\ ~(workers[w].attempts > RetryCount)) \/ Retry(w)
    BY <1>1, <1>2, <2>1, <2>6, BackoffStep
  <2>7. CASE Continue(w) \/ Leave(w)
    BY <1>1, <1>2, <2>1, <2>7, IdleStep
  <2> QED
    BY <1>3, <2>2, <2>3, <2>4, <2>5, <2>6, <2>7 DEF WorkerNext
<1>4. CASE Return
  BY <1>1, <1>2, <1>4, ReturnStep DEF FanInv
<1>5. CASE CloseJobs \/ ContextEnds
  BY <1>1, <1>2, <1>5, CallerStep DEF FanInv
<1>6. CASE \E w \in Workers : Schedule(w) \/ WorkerNext(w)
  BY <1>1, <1>2, <1>3, <1>6 DEF FanInv
<1> QED
  BY <1>4, <1>5, <1>6 DEF Next, Step

LEMMA FanInit ==
  ASSUME HostCount \in Nat, RetryCount \in Nat, Init
  PROVE  FanInv
<1>1. TypeOK
  BY DEF Init, TypeOK, Idle, Result, Hosts
<1>2. AtWork
  BY DEF Init, AtWork, WorkerOK, HostOK, Alone, Busy, Idle, Result, Hosts
<1> QED
  BY <1>1, <1>2 DEF FanInv, Init

(* Whenever the context of a run ends and however attempts end: no host is *)
(* tried more often than the retries allow, the run returns with the result*)
(* of the last attempt at each host and says of no other host that it was  *)
(* not executed (runFanout, executeWithRetry), and each worker begins with *)
(* at most one more host once the context is over.                         *)
THEOREM EveryHostReported ==
  ASSUME HostCount \in Nat, RetryCount \in Nat
  PROVE  Spec => [](AttemptsBounded /\ ResultsFaithful /\ EndsSoon)
<1>1. Init => FanInv
  BY FanInit
<1>2. FanInv /\ [Next]_vars => FanInv'
  <2>1. CASE Next
    BY <2>1, FanStep
  <2>2. CASE UNCHANGED vars
    BY <2>2 DEF vars, FanInv, TypeOK, Over, AtWork, AttemptsBounded, ResultsFaithful, EndsSoon,
                WorkerOK, HostOK, Alone, Busy
  <2> QED
    BY <2>1, <2>2
<1>3. FanInv => AttemptsBounded /\ ResultsFaithful /\ EndsSoon
  BY DEF FanInv, Over, AtWork, WorkerOK, HostOK, AttemptsBounded, ResultsFaithful, EndsSoon
<1> QED
  BY <1>1, <1>2, <1>3, PTL DEF Spec

-----------------------------------------------------------------------------
(* The audit of requests.                                                  *)

CONSTANTS QueueSize, BatchSize, Retention, MaxEvents, MaxFaults

VARIABLES queue, batch, stored, saved, dropped, offered, evicted, failures, restarts

Log == INSTANCE Audit

(* Sequences of events in the order of the requests.                       *)

Increasing(s) == \A j, k \in DOMAIN s : j < k => s[j] < s[k]
Before(s, t) == \A j \in DOMAIN s, k \in DOMAIN t : s[j] < t[k]
UpTo(s, n) == \A j \in DOMAIN s : s[j] <= n

(* The audit from its store to its queue.                                  *)
InOrder(s, b, q, n) ==
  /\ Increasing(s) /\ Increasing(b) /\ Increasing(q)
  /\ Before(s, b) /\ Before(s, q) /\ Before(b, q)
  /\ UpTo(s, n) /\ UpTo(b, n) /\ UpTo(q, n)

(* The store may have to be read back from the file (Restart), and the     *)
(* counts of what was dropped and evicted are those since then.            *)
AuditInv ==
  /\ offered \in Nat /\ dropped \in Nat /\ evicted \in Nat /\ restarts \in Nat
  /\ queue \in Seq(Nat) /\ batch \in Seq(Nat) /\ stored \in Seq(Nat) /\ saved \in Seq(Nat)
  /\ InOrder(stored, batch, queue, offered)
  /\ Increasing(saved) /\ UpTo(saved, offered)
  /\ Len(queue) <= QueueSize /\ Len(batch) < BatchSize
  /\ Len(stored) <= Retention /\ Len(saved) <= Retention
  /\ dropped <= offered
  /\ restarts = 0 =>
       /\ offered = Len(stored) + Len(batch) + Len(queue) + dropped + evicted
       /\ evicted > 0 => Len(stored) = Retention

(* The sizes of the queue, of a batch and of the store.                    *)
Limits == QueueSize \in Nat /\ BatchSize \in Nat \ {0} /\ Retention \in Nat

(* An element of two sequences, one after the other, is one of either.     *)
LEMMA JoinedElements ==
  ASSUME NEW s \in Seq(Nat), NEW t \in Seq(Nat)
  PROVE  /\ s \o t \in Seq(Nat) /\ Len(s \o t) = Len(s) + Len(t)
         /\ \A j \in DOMAIN (s \o t) :
              \/ j \in DOMAIN s /\ (s \o t)[j] = s[j]
              \/ j > Len(s) /\ j - Len(s) \in DOMAIN t /\ (s \o t)[j] = t[j - Len(s)]
<1>0. s \o t \in Seq(Nat)
  BY ConcatProperties
<1>1. PICK u \in Seq(Nat) : u = s \o t
  BY <1>0
<1>2. Len(u) = Len(s) + Len(t) /\ DOMAIN u = 1..Len(u) /\ DOMAIN s = 1..Len(s)
      /\ DOMAIN t = 1..Len(t) /\ Len(s) \in Nat /\ Len(t) \in Nat
  BY <1>1
<1>3. \A j \in DOMAIN u : j <= Len(s) => j \in DOMAIN s /\ u[j] = s[j]
  BY <1>1, <1>2
<1>4. \A j \in DOMAIN u : j > Len(s) => j - Len(s) \in DOMAIN t /\ u[j] = t[j - Len(s)]
  BY <1>1, <1>2
<1>5. \A j \in DOMAIN u : j <= Len(s) \/ j > Len(s)
  BY <1>2
<1> QED
  BY <1>1, <1>2, <1>3, <1>4, <1>5

(* Two sequences in order, one after the other, are one in order.          *)
LEMMA JoinedInOrder ==
  ASSUME NEW s \in Seq(Nat), NEW t \in Seq(Nat), Increasing(s), Increasing(t), Before(s, t)
  PROVE  Increasing(s \o t)
<1>0. s \o t \in Seq(Nat)
  BY ConcatProperties
<1>1. PICK u \in Seq(Nat) : u = s \o t
  BY <1>0
<1>2. \A j \in DOMAIN u :
        \/ j \in DOMAIN s /\ u[j] = s[j]
        \/ j > Len(s) /\ j - Len(s) \in DOMAIN t /\ u[j] = t[j - Len(s)]
  BY <1>1, JoinedElements
<1>3. ASSUME NEW j \in DOMAIN u, NEW k \in DOMAIN u, j < k PROVE u[j] < u[k]
  <2>1. j \in Nat /\ k \in Nat /\ Len(s) \in Nat /\ DOMAIN s = 1..Len(s)
    OBVIOUS
  <2>2. CASE k \in DOMAIN s /\ u[k] = s[k]
    <3>1. j \in DOMAIN s /\ u[j] = s[j]
      BY <1>2, <1>3, <2>1, <2>2
    <3> QED
      BY <1>3, <2>2, <3>1 DEF Increasing
  <2>3. CASE k > Len(s) /\ k - Len(s) \in DOMAIN t /\ u[k] = t[k - Len(s)]
    <3>1. CASE j \in DOMAIN s /\ u[j] = s[j]
      BY <2>3, <3>1 DEF Before
    <3>2. CASE j > Len(s) /\ j - Len(s) \in DOMAIN t /\ u[j] = t[j - Len(s)]
      <4>1. j - Len(s) < k - Len(s)
        BY <1>3, <2>1
      <4> QED
        BY <2>3, <3>2, <4>1 DEF Increasing
    <3> QED
      BY <1>2, <3>1, <3>2
  <2> QED
    BY <1>2, <2>2, <2>3
<1> QED
  BY <1>1, <1>3 DEF Increasing

LEMMA JoinedBefore ==
  ASSUME NEW s \in Seq(Nat), NEW t \in Seq(Nat), NEW q \in Seq(Nat), Before(s, q), Before(t, q)
  PROVE  Before(s \o t, q)
<1>0. s \o t \in Seq(Nat)
  BY ConcatProperties
<1>1. PICK u \in Seq(Nat) : u = s \o t
  BY <1>0
<1>2. \A j \in DOMAIN u :
        \/ j \in DOMAIN s /\ u[j] = s[j]
        \/ j > Len(s) /\ j - Len(s) \in DOMAIN t /\ u[j] = t[j - Len(s)]
  BY <1>1, JoinedElements
<1>3. \A j \in DOMAIN u, k \in DOMAIN q : u[j] < q[k]
  BY <1>2 DEF Before
<1> QED
  BY <1>1, <1>3 DEF Before

LEMMA JoinedUpTo ==
  ASSUME NEW s \in Seq(Nat), NEW t \in Seq(Nat), NEW n, UpTo(s, n), UpTo(t, n)
  PROVE  UpTo(s \o t, n)
<1>0. s \o t \in Seq(Nat)
  BY ConcatProperties
<1>1. PICK u \in Seq(Nat) : u = s \o t
  BY <1>0
<1>2. \A j \in DOMAIN u :
        \/ j \in DOMAIN s /\ u[j] = s[j]
        \/ j > Len(s) /\ j - Len(s) \in DOMAIN t /\ u[j] = t[j - Len(s)]
  BY <1>1, JoinedElements
<1>3. \A j \in DOMAIN u : u[j] <= n
  BY <1>2 DEF UpTo
<1> QED
  BY <1>1, <1>3 DEF UpTo

(* What is kept of a sequence is its end.                                  *)
LEMMA CapTailElements ==
  ASSUME Limits, NEW s \in Seq(Nat)
  PROVE  LET d == IF Len(s) > Retention THEN Len(s) - Retention ELSE 0
         IN /\ Log!CapTail(s) \in Seq(Nat) /\ Len(Log!CapTail(s)) = Len(s) - d
            /\ Len(Log!CapTail(s)) <= Retention /\ d \in Nat
            /\ \A j \in DOMAIN Log!CapTail(s) : j + d \in DOMAIN s /\ Log!CapTail(s)[j] = s[j + d]
<1>1. Len(s) \in Nat /\ DOMAIN s = 1..Len(s) /\ Retention \in Nat
  BY DEF Limits
<1>2. CASE Len(s) > Retention
  <2>1. Len(s) - Retention \in Nat
    BY <1>1, <1>2
  <2>2. PICK d \in Nat : d = Len(s) - Retention
    BY <2>1
  <2>3. PICK t : t = SubSeq(s, d + 1, Len(s))
    OBVIOUS
  <2>4. Log!CapTail(s) = t
    BY <1>2, <2>2, <2>3 DEF Log!CapTail
  <2>5. \A k \in (d + 1)..Len(s) : s[k] \in Nat
    BY <1>1
  <2>6. d + 1 \in Int /\ Len(s) \in Int /\ Len(s) = d + Retention
    BY <1>1, <2>2
  <2>7. /\ t \in Seq(Nat)
        /\ Len(t) = IF d + 1 <= Len(s) THEN Len(s) - (d + 1) + 1 ELSE 0
        /\ \A k \in 1..(Len(s) - (d + 1) + 1) : t[k] = s[(d + 1) + k - 1]
    <3>1. PICK e \in Int : e = d + 1
      BY <2>6
    <3>2. /\ SubSeq(s, e, Len(s)) \in Seq(Nat)
          /\ Len(SubSeq(s, e, Len(s))) = IF e <= Len(s) THEN Len(s) - e + 1 ELSE 0
          /\ \A k \in 1..(Len(s) - e + 1) : SubSeq(s, e, Len(s))[k] = s[e + k - 1]
      <4>1. \A k \in e..Len(s) : s[k] \in Nat
        BY <2>5, <3>1
      <4> QED
        BY <2>6, <4>1, SubSeqProperties
    <3> QED
      BY <2>3, <3>1, <3>2
  <2>8. Len(t) = Retention /\ DOMAIN t = 1..Len(t) /\ Len(s) - (d + 1) + 1 = Retention
    BY <1>1, <2>6, <2>7
  <2>9. \A j \in DOMAIN t : j + d \in DOMAIN s /\ (d + 1) + j - 1 = j + d
    BY <1>1, <2>6, <2>8
  <2>10. \A j \in DOMAIN t : t[j] = s[j + d]
    BY <2>7, <2>8, <2>9
  <2>11. Len(t) = Len(s) - d
    BY <1>1, <2>6, <2>8
  <2> QED
    <3>1. d = IF Len(s) > Retention THEN Len(s) - Retention ELSE 0
      BY <1>2, <2>2
    <3>2. /\ Log!CapTail(s) \in Seq(Nat) /\ Len(Log!CapTail(s)) = Len(s) - d
          /\ Len(Log!CapTail(s)) <= Retention
          /\ \A j \in DOMAIN Log!CapTail(s) : j + d \in DOMAIN s /\ Log!CapTail(s)[j] = s[j + d]
      <4>1. Len(t) <= Retention
        BY <1>1, <2>8
      <4> QED
        BY <2>4, <2>7, <2>9, <2>10, <2>11, <4>1
    <3> QED
      BY <3>1, <3>2
<1>3. CASE ~(Len(s) > Retention)
  BY <1>1, <1>3 DEF Log!CapTail
<1> QED
  BY <1>2, <1>3

LEMMA CapTailInOrder ==
  ASSUME Limits, NEW s \in Seq(Nat), NEW q \in Seq(Nat), NEW n,
         Increasing(s), Before(s, q), UpTo(s, n)
  PROVE  Increasing(Log!CapTail(s)) /\ Before(Log!CapTail(s), q) /\ UpTo(Log!CapTail(s), n)
<1>1. PICK t \in Seq(Nat) : t = Log!CapTail(s)
  BY CapTailElements
<1>2. PICK d \in Nat : \A j \in DOMAIN t : j + d \in DOMAIN s /\ t[j] = s[j + d]
  BY <1>1, CapTailElements
<1>3. Increasing(t)
  <2>1. ASSUME NEW j \in DOMAIN t, NEW k \in DOMAIN t, j < k PROVE t[j] < t[k]
    <3>1. j + d < k + d /\ j + d \in DOMAIN s /\ k + d \in DOMAIN s
      BY <1>2, <2>1
    <3> QED
      BY <1>2, <3>1 DEF Increasing
  <2> QED
    BY <2>1 DEF Increasing
<1>4. Before(t, q) /\ UpTo(t, n)
  BY <1>2 DEF Before, UpTo
<1> QED
  BY <1>1, <1>3, <1>4

-----------------------------------------------------------------------------
(* The steps.                                                              *)

LEMMA AppendedInOrder ==
  ASSUME NEW s \in Seq(Nat), NEW x \in Nat, Increasing(s), \A j \in DOMAIN s : s[j] < x,
         NEW p, NEW q, NEW n
  PROVE  /\ Append(s, x) \in Seq(Nat) /\ Len(Append(s, x)) = Len(s) + 1
         /\ Increasing(Append(s, x))
         /\ Before(p, s) /\ (\A j \in DOMAIN p : p[j] < x) => Before(p, Append(s, x))
         /\ Before(s, q) /\ (\A k \in DOMAIN q : x < q[k]) => Before(Append(s, x), q)
         /\ UpTo(s, n) /\ x <= n => UpTo(Append(s, x), n)
<1>0. Append(s, x) \in Seq(Nat)
  BY AppendProperties
<1>1. PICK t \in Seq(Nat) : t = Append(s, x)
  BY <1>0
<1>2. Len(t) = Len(s) + 1 /\ DOMAIN t = 1..(Len(s) + 1) /\ DOMAIN s = 1..Len(s) /\ Len(s) \in Nat
      /\ t[Len(s) + 1] = x /\ \A j \in DOMAIN s : t[j] = s[j]
  BY <1>1
<1>3. \A j \in DOMAIN t : j \in DOMAIN s \/ j = Len(s) + 1
  BY <1>2
<1>4. Increasing(t)
  <2>1. ASSUME NEW j \in DOMAIN t, NEW k \in DOMAIN t, j < k PROVE t[j] < t[k]
    <3>1. j \in DOMAIN s
      BY <1>2, <2>1
    <3>2. CASE k \in DOMAIN s
      BY <1>2, <2>1, <3>1, <3>2 DEF Increasing
    <3>3. CASE k = Len(s) + 1
      BY <1>2, <3>1, <3>3
    <3> QED
      BY <1>3, <3>2, <3>3
  <2> QED
    BY <2>1 DEF Increasing
<1>5. Before(p, s) /\ (\A j \in DOMAIN p : p[j] < x) => Before(p, t)
  BY <1>2, <1>3 DEF Before
<1>6. Before(s, q) /\ (\A k \in DOMAIN q : x < q[k]) => Before(t, q)
  BY <1>2, <1>3 DEF Before
<1>7. UpTo(s, n) /\ x <= n => UpTo(t, n)
  BY <1>2, <1>3 DEF UpTo
<1> QED
  BY <1>1, <1>2, <1>4, <1>5, <1>6, <1>7

LEMMA TakenInOrder ==
  ASSUME NEW q \in Seq(Nat), q # <<>>, Increasing(q), NEW p, NEW n
  PROVE  /\ Tail(q) \in Seq(Nat) /\ Len(Tail(q)) = Len(q) - 1 /\ Len(q) \in Nat \ {0}
         /\ Head(q) \in Nat /\ Increasing(Tail(q)) /\ \A k \in DOMAIN Tail(q) : Head(q) < Tail(q)[k]
         /\ Before(p, q) => Before(p, Tail(q)) /\ \A j \in DOMAIN p : p[j] < Head(q)
         /\ UpTo(q, n) => UpTo(Tail(q), n) /\ Head(q) <= n
<1>0. Tail(q) \in Seq(Nat)
  BY HeadTailProperties
<1>1. PICK t \in Seq(Nat) : t = Tail(q)
  BY <1>0
<1>2. PICK h \in Nat : h = Head(q)
  <2>1. Head(q) \in Nat
    OBVIOUS
  <2> QED
    BY <2>1
<1>3. Len(q) \in Nat \ {0} /\ Len(t) = Len(q) - 1 /\ DOMAIN q = 1..Len(q) /\ DOMAIN t = 1..Len(t)
      /\ h = q[1] /\ \A k \in DOMAIN t : t[k] = q[k + 1]
  BY <1>1, <1>2
<1>4. 1 \in DOMAIN q /\ \A k \in DOMAIN t : k + 1 \in DOMAIN q /\ 1 < k + 1
  BY <1>3, SMTT(30)
<1>5. Increasing(t)
  <2>1. ASSUME NEW j \in DOMAIN t, NEW k \in DOMAIN t, j < k PROVE t[j] < t[k]
    <3>1. j + 1 < k + 1
      BY <1>3, <2>1
    <3> QED
      BY <1>3, <1>4, <3>1 DEF Increasing
  <2> QED
    BY <2>1 DEF Increasing
<1>6. \A k \in DOMAIN t : h < t[k]
  BY <1>3, <1>4 DEF Increasing
<1>7. Before(p, q) => Before(p, t) /\ \A j \in DOMAIN p : p[j] < h
  BY <1>3, <1>4 DEF Before
<1>8. UpTo(q, n) => UpTo(t, n) /\ h <= n
  BY <1>3, <1>4 DEF UpTo
<1> QED
  BY <1>1, <1>2, <1>3, <1>5, <1>6, <1>7, <1>8

LEMMA NothingTaken ==
  ASSUME NEW s
  PROVE  /\ <<>> \in Seq(Nat) /\ Len(<<>>) = 0 /\ Increasing(<<>>)
         /\ Before(s, <<>>) /\ Before(<<>>, s) /\ UpTo(<<>>, offered)
BY DEF Increasing, Before, UpTo

(* The events of a batch are stored.                                       *)
LEMMA FlushStep ==
  ASSUME Limits, AuditInv, NEW b \in Seq(Nat), NEW q \in Seq(Nat), Log!Flush(b),
         InOrder(stored, b, q, offered), queue' = q, UNCHANGED <<dropped, offered, restarts>>,
         Len(q) <= QueueSize, Len(b) + Len(q) = Len(batch) + Len(queue)
  PROVE  AuditInv'
<1>1. PICK s \in Seq(Nat) : s = stored \o b
  BY JoinedElements DEF AuditInv
<1>2. Increasing(s) /\ Before(s, q) /\ UpTo(s, offered) /\ Len(s) = Len(stored) + Len(b)
  BY <1>1, JoinedElements, JoinedInOrder, JoinedBefore, JoinedUpTo DEF AuditInv, InOrder
<1>3. PICK t \in Seq(Nat) : t = Log!CapTail(s)
  BY CapTailElements
<1>4. Increasing(t) /\ Before(t, q) /\ UpTo(t, offered)
  BY <1>2, <1>3, CapTailInOrder
<1>5. /\ Len(t) = Len(s) - (IF Len(s) > Retention THEN Len(s) - Retention ELSE 0)
      /\ Len(t) <= Retention
  BY <1>3, CapTailElements
<1>6. batch' = <<>> /\ stored' = t /\ saved' \in {t, saved}
      /\ evicted' = evicted + Len(stored) + Len(b) - Len(t)
  BY <1>1, <1>3 DEF Log!Flush
<1>7. InOrder(stored', batch', queue', offered')
  BY <1>4, <1>6, NothingTaken DEF InOrder
<1>8. saved' \in Seq(Nat) /\ Increasing(saved') /\ UpTo(saved', offered') /\ Len(saved') <= Retention
  BY <1>4, <1>5, <1>6 DEF AuditInv
<1>9. /\ Len(s) \in Nat /\ Len(t) \in Nat /\ Len(b) \in Nat /\ Len(q) \in Nat /\ Len(stored) \in Nat
      /\ Len(batch) \in Nat /\ Len(queue) \in Nat /\ Retention \in Nat
      /\ offered \in Nat /\ dropped \in Nat /\ evicted \in Nat
  BY DEF AuditInv, Limits
<1>10. evicted' \in Nat /\ Len(t) <= Len(s)
  <2>1. evicted' = evicted + (Len(s) - Len(t)) /\ Len(t) <= Len(s) /\ Len(s) - Len(t) \in Nat
    <3>1. Len(t) <= Len(s)
      BY <1>5, <1>9
    <3> QED
      BY <1>2, <1>6, <1>9, <3>1
  <2> QED
    BY <1>9, <2>1
<1>11. restarts' = 0 => offered' = Len(stored') + 0 + Len(queue') + dropped' + evicted'
  <2>1. restarts = 0 => offered = Len(stored) + Len(batch) + Len(queue) + dropped + evicted
    BY DEF AuditInv
  <2>2. restarts' = restarts /\ offered' = offered /\ dropped' = dropped /\ queue' = q
        /\ Len(b) + Len(q) = Len(batch) + Len(queue)
    OBVIOUS
  <2>3. Len(stored') = Len(t) /\ evicted' = evicted + Len(stored) + Len(b) - Len(t)
    BY <1>6
  <2>4. Len(b) + Len(q) = Len(batch) + Len(queue)
    OBVIOUS
  <2>5. offered = Len(stored) + Len(batch) + Len(queue) + dropped + evicted
        => offered = Len(t) + 0 + Len(q) + dropped + (evicted + Len(stored) + Len(b) - Len(t))
    <3>1. /\ Len(b) + Len(q) \in Nat /\ Len(batch) + Len(queue) \in Nat
          /\ Len(stored) + dropped + evicted \in Nat
      BY <1>9
    <3>2. Len(stored) + Len(batch) + Len(queue) + dropped + evicted
          = (Len(batch) + Len(queue)) + (Len(stored) + dropped + evicted)
      BY <1>9
    <3>3. Len(t) + 0 + Len(q) + dropped + (evicted + Len(stored) + Len(b) - Len(t))
          = (Len(b) + Len(q)) + (Len(stored) + dropped + evicted)
      BY <1>9
    <3> QED
      BY <2>4, <3>2, <3>3, Zenon
  <2> QED
    BY <2>1, <2>2, <2>3, <2>5
<1>12. restarts' = 0 /\ evicted' > 0 => Len(stored') = Retention
  <2>1. CASE evicted > 0 /\ restarts = 0
    <3>1. Len(stored) = Retention
      BY <2>1 DEF AuditInv
    <3> QED
      BY <1>2, <1>5, <1>6, <1>9, <3>1
  <2>2. CASE evicted = 0
    BY <1>2, <1>5, <1>6, <1>9, <2>2
  <2> QED
    BY <1>9, <2>1, <2>2
<1>13. Len(batch') = 0 /\ Len(batch') < BatchSize /\ batch' \in Seq(Nat)
  BY <1>6, NothingTaken DEF Limits
<1> QED
  BY <1>5, <1>6, <1>7, <1>8, <1>10, <1>11, <1>12, <1>13 DEF AuditInv

LEMMA EnqueueStep ==
  ASSUME Limits, AuditInv, Log!EnqueueAuditEvent
  PROVE  AuditInv'
<1>1. PICK n \in Nat : n = offered
  BY DEF AuditInv
<1>2. /\ offered' = n + 1 /\ UNCHANGED <<batch, stored, saved, evicted, restarts>>
      /\ IF Len(queue) < QueueSize
         THEN queue' = Append(queue, n + 1) /\ UNCHANGED dropped
         ELSE dropped' = dropped + 1 /\ UNCHANGED queue
  BY <1>1 DEF Log!EnqueueAuditEvent, Log!faults
<1>3. /\ queue \in Seq(Nat) /\ batch \in Seq(Nat) /\ stored \in Seq(Nat) /\ saved \in Seq(Nat)
      /\ InOrder(stored, batch, queue, n) /\ UpTo(saved, n)
  BY <1>1 DEF AuditInv
<1>4. \A s \in Seq(Nat) : UpTo(s, n) => UpTo(s, n + 1) /\ \A j \in DOMAIN s : s[j] < n + 1
  <2>1. ASSUME NEW s \in Seq(Nat), UpTo(s, n), NEW j \in DOMAIN s PROVE s[j] < n + 1 /\ s[j] <= n + 1
    <3>1. s[j] \in Nat /\ s[j] <= n
      BY <2>1 DEF UpTo
    <3> QED
      BY <3>1
  <2> QED
    BY <2>1 DEF UpTo
<1>5. /\ UpTo(stored, n + 1) /\ UpTo(batch, n + 1) /\ UpTo(saved, n + 1) /\ UpTo(queue, n + 1)
      /\ \A j \in DOMAIN stored : stored[j] < n + 1
      /\ \A j \in DOMAIN batch : batch[j] < n + 1
      /\ \A j \in DOMAIN queue : queue[j] < n + 1
  BY <1>3, <1>4 DEF InOrder
<1>6. CASE Len(queue) < QueueSize
  <2>1. PICK x \in Nat : x = n + 1
    OBVIOUS
  <2>2. PICK q : q = Append(queue, x)
    OBVIOUS
  <2>3. /\ q \in Seq(Nat) /\ Len(q) = Len(queue) + 1 /\ Increasing(q)
        /\ Before(stored, q) /\ Before(batch, q) /\ UpTo(q, x)
    <3>1. /\ Increasing(queue) /\ (\A j \in DOMAIN queue : queue[j] < x) /\ UpTo(queue, x)
          /\ Before(stored, queue) /\ (\A j \in DOMAIN stored : stored[j] < x)
          /\ Before(batch, queue) /\ (\A j \in DOMAIN batch : batch[j] < x) /\ x <= x
      BY <1>3, <1>5, <2>1 DEF InOrder
    <3> QED
      BY <1>3, <2>2, <3>1, AppendedInOrder
  <2>4. InOrder(stored, batch, q, n + 1)
    BY <1>3, <1>5, <2>1, <2>3 DEF InOrder
  <2>5. queue' = q /\ dropped' = dropped
    BY <1>2, <1>6, <2>1, <2>2
  <2>6. Len(queue) \in Nat /\ Len(q) <= QueueSize
    BY <1>3, <1>6, <2>3 DEF Limits
  <2>7. /\ Len(stored) \in Nat /\ Len(batch) \in Nat /\ dropped \in Nat /\ evicted \in Nat
        /\ dropped <= n /\ dropped <= n + 1
    BY <1>1 DEF AuditInv
  <2>8. restarts = 0 => n + 1 = Len(stored) + Len(batch) + Len(q) + dropped + evicted
    BY <1>1, <2>3, <2>6, <2>7 DEF AuditInv
  <2> QED
    <3>1. /\ offered' = n + 1 /\ offered' \in Nat /\ queue' = q /\ dropped' = dropped
          /\ batch' = batch /\ stored' = stored /\ saved' = saved /\ evicted' = evicted
          /\ restarts' = restarts
      BY <1>2, <2>5
    <3>2. dropped <= n + 1
      BY <2>7
    <3>3. /\ InOrder(stored', batch', queue', offered') /\ UpTo(saved', offered')
          /\ (restarts' = 0 => offered' = Len(stored') + Len(batch') + Len(queue') + dropped' + evicted')
          /\ Len(queue') <= QueueSize /\ dropped' <= offered' /\ queue' \in Seq(Nat)
      BY <1>5, <2>3, <2>4, <2>6, <2>8, <3>1, <3>2
    <3> QED
      BY <3>1, <3>3 DEF AuditInv
<1>7. CASE ~(Len(queue) < QueueSize)
  <2>1. queue' = queue /\ dropped' = dropped + 1
    BY <1>2, <1>7
  <2>2. InOrder(stored, batch, queue, n + 1)
    BY <1>3, <1>5 DEF InOrder
  <2>3. /\ Len(stored) \in Nat /\ Len(batch) \in Nat /\ Len(queue) \in Nat
        /\ dropped \in Nat /\ evicted \in Nat /\ dropped + 1 <= n + 1
    BY <1>1 DEF AuditInv
  <2>4. restarts = 0 => n + 1 = Len(stored) + Len(batch) + Len(queue) + (dropped + 1) + evicted
    BY <1>1, <2>3 DEF AuditInv
  <2> QED
    BY <1>2, <1>5, <2>1, <2>2, <2>3, <2>4 DEF AuditInv
<1> QED
  BY <1>6, <1>7

LEMMA TakeStep ==
  ASSUME Limits, AuditInv, Log!Take
  PROVE  AuditInv'
<1>1. /\ queue \in Seq(Nat) /\ batch \in Seq(Nat) /\ stored \in Seq(Nat)
      /\ InOrder(stored, batch, queue, offered) /\ queue # <<>>
  BY DEF AuditInv, Log!Take
<1>2. PICK q : q = Tail(queue)
  OBVIOUS
<1>3. PICK x : x = Head(queue)
  OBVIOUS
<1>4. /\ q \in Seq(Nat) /\ Len(q) = Len(queue) - 1 /\ Len(queue) \in Nat \ {0}
      /\ x \in Nat /\ Increasing(q) /\ (\A k \in DOMAIN q : x < q[k])
      /\ Before(stored, q) /\ (\A j \in DOMAIN stored : stored[j] < x)
      /\ Before(batch, q) /\ (\A j \in DOMAIN batch : batch[j] < x)
      /\ UpTo(q, offered) /\ x <= offered
  BY <1>1, <1>2, <1>3, TakenInOrder DEF InOrder
<1>5. PICK b : b = Append(batch, x)
  OBVIOUS
<1>6. /\ b \in Seq(Nat) /\ Len(b) = Len(batch) + 1 /\ Increasing(b)
      /\ Before(stored, b) /\ Before(b, q) /\ UpTo(b, offered)
  BY <1>1, <1>4, <1>5, AppendedInOrder DEF InOrder
<1>7. InOrder(stored, b, q, offered)
  BY <1>1, <1>4, <1>6 DEF InOrder
<1>8. Len(batch) \in Nat /\ Len(q) <= QueueSize /\ Len(b) + Len(q) = Len(batch) + Len(queue)
  BY <1>1, <1>4, <1>6, SMTT(30) DEF AuditInv, Limits
<1>9. queue' = q /\ UNCHANGED <<dropped, offered, restarts>>
  BY <1>2 DEF Log!Take, Log!faults
<1>10. CASE Len(batch) + 1 >= BatchSize
  <2>1. Log!Flush(b)
    BY <1>3, <1>5, <1>10 DEF Log!Take
  <2> QED
    BY <1>4, <1>6, <1>7, <1>8, <1>9, <2>1, FlushStep
<1>11. CASE ~(Len(batch) + 1 >= BatchSize)
  <2>1. batch' = b /\ UNCHANGED <<stored, saved, evicted>>
    BY <1>3, <1>5, <1>11 DEF Log!Take
  <2>2. Len(b) < BatchSize
    BY <1>6, <1>8, <1>11 DEF Limits
  <2>3. /\ Len(stored) \in Nat /\ Len(b) \in Nat /\ Len(q) \in Nat
        /\ dropped \in Nat /\ evicted \in Nat /\ offered \in Nat
    BY <1>4, <1>6 DEF AuditInv
  <2>4. restarts = 0 => offered = Len(stored) + Len(b) + Len(q) + dropped + evicted
    BY <1>4, <1>6, <1>8, <2>3 DEF AuditInv
  <2> QED
    BY <1>4, <1>6, <1>7, <1>8, <1>9, <2>1, <2>2, <2>4 DEF AuditInv
<1> QED
  BY <1>10, <1>11

LEMMA OtherAuditSteps ==
  ASSUME Limits, AuditInv, Log!Tick \/ Log!OtherSave \/ Log!Restart
  PROVE  AuditInv'
<1>1. CASE Log!Tick
  <2>1. /\ queue \in Seq(Nat) /\ batch \in Seq(Nat) /\ InOrder(stored, batch, queue, offered)
        /\ Len(queue) <= QueueSize
    BY DEF AuditInv
  <2>2. Log!Flush(batch) /\ queue' = queue /\ UNCHANGED <<dropped, offered, restarts>>
    BY <1>1 DEF Log!Tick
  <2> QED
    BY <2>1, <2>2, FlushStep
<1>2. CASE Log!OtherSave
  <2>1. saved' = stored /\ UNCHANGED <<queue, batch, stored, dropped, offered, evicted, restarts>>
    BY <1>2 DEF Log!OtherSave, Log!faults
  <2> QED
    BY <2>1 DEF AuditInv, InOrder
<1>3. CASE Log!Restart
  <2>1. /\ queue' = <<>> /\ batch' = <<>> /\ stored' = saved /\ dropped' = 0
        /\ restarts' = restarts + 1 /\ UNCHANGED <<saved, offered, evicted>>
    BY <1>3 DEF Log!Restart
  <2>2. InOrder(saved, <<>>, <<>>, offered)
    BY NothingTaken DEF AuditInv, InOrder
  <2>3. restarts' \in Nat /\ restarts' # 0
    BY <2>1 DEF AuditInv
  <2>4. <<>> \in Seq(Nat) /\ Len(<<>>) = 0 /\ 0 <= QueueSize /\ 0 < BatchSize
    BY NothingTaken DEF Limits
  <2>5. 0 <= offered /\ 0 \in Nat
    BY DEF AuditInv
  <2> QED
    BY <2>1, <2>2, <2>3, <2>4, <2>5 DEF AuditInv
<1> QED
  BY <1>1, <1>2, <1>3

LEMMA AuditInit ==
  ASSUME Limits, Log!Init
  PROVE  AuditInv
<1>1. InOrder(<<>>, <<>>, <<>>, offered)
  BY NothingTaken DEF InOrder
<1>2. <<>> \in Seq(Nat) /\ Len(<<>>) = 0 /\ Increasing(<<>>) /\ UpTo(<<>>, offered)
  BY NothingTaken
<1>3. 0 <= QueueSize /\ 0 < BatchSize /\ 0 <= Retention
  BY DEF Limits
<1> QED
  BY <1>1, <1>2, <1>3 DEF Log!Init, AuditInv

(* Whatever the queue cannot take, saves that fail and restarts lose: what *)
(* is stored, taken and queued is in the order of the requests and holds   *)
(* none twice, the writer holds no full batch, and until a restart every   *)
(* event that is gone was counted as dropped or made room in a full store  *)
(* (enqueueAuditEvent, startAuditWriter, AddAuditEvents).                  *)
THEOREM AuditIsInOrder ==
  ASSUME QueueSize \in Nat, BatchSize \in Nat \ {0}, Retention \in Nat
  PROVE  Log!Spec => [](Log!TypeOK /\ Log!AuditFaithful)
<1>1. Limits
  BY DEF Limits
<1>2. Log!Init => AuditInv
  BY <1>1, AuditInit
<1>3. AuditInv /\ [Log!Next]_Log!vars => AuditInv'
  <2> SUFFICES ASSUME AuditInv, [Log!Next]_Log!vars PROVE AuditInv'
    OBVIOUS
  <2>1. CASE Log!Next
    BY <1>1, <2>1, EnqueueStep, TakeStep, OtherAuditSteps DEF Log!Next
  <2>2. CASE UNCHANGED Log!vars
    BY <2>2 DEF Log!vars, Log!faults, AuditInv, InOrder
  <2> QED
    BY <2>1, <2>2
<1>4. AuditInv => Log!TypeOK /\ Log!AuditFaithful
  <2> SUFFICES ASSUME AuditInv PROVE Log!TypeOK /\ Log!AuditFaithful
    OBVIOUS
  <2>1. PICK s \in Seq(Nat) : s = stored \o batch
    BY JoinedElements DEF AuditInv
  <2>2. Increasing(s) /\ Before(s, queue) /\ Len(s) = Len(stored) + Len(batch)
    BY <2>1, JoinedElements, JoinedInOrder, JoinedBefore DEF AuditInv, InOrder
  <2>3. PICK kept \in Seq(Nat) : kept = s \o queue
    BY JoinedElements DEF AuditInv
  <2>4. Increasing(kept) /\ Len(kept) = Len(s) + Len(queue)
    BY <2>2, <2>3, JoinedElements, JoinedInOrder DEF AuditInv, InOrder
  <2>5. kept = stored \o batch \o queue
    BY <2>1, <2>3
  <2>6. restarts = 0 =>
          /\ offered = Len(kept) + dropped + evicted
          /\ evicted > 0 => Len(stored) = Retention
    BY <2>2, <2>4 DEF AuditInv
  <2>7. Log!AuditFaithful
    BY <2>4, <2>5, <2>6 DEF AuditInv, Log!AuditFaithful, Increasing
  <2> QED
    BY <2>7 DEF AuditInv, Log!TypeOK
<1> QED
  BY <1>2, <1>3, <1>4, PTL DEF Log!Spec
=============================================================================
