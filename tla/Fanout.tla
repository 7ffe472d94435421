------------------------------- MODULE Fanout -------------------------------
(***************************************************************************)
(* A run on several hosts: runFanout and executeWithRetry of               *)
(* src/server/internal/api/server.go.  The caller hands the hosts, in their*)
(* order, over an unbuffered channel to as many workers as the fan-out     *)
(* allows; a worker tries its host until it succeeds or has no retry left, *)
(* and notes the result.  The context of the run ends when its time is over*)
(* or its job is cancelled.                                                *)
(*                                                                         *)
(* An attempt ends with success or failure, whatever the host does; one    *)
(* whose context is over may still succeed, for the host may have finished.*)
(* Where Go's select finds both the context over and something else to do, *)
(* it takes either.                                                        *)
(***************************************************************************)
EXTENDS Naturals

CONSTANTS
  HostCount,      (* hosts of the run, numbered in their order              *)
  Width,          (* the fan-out that was asked for, 0 for none             *)
  RetryCount      (* what resolveRetryPolicy makes of the retries asked for *)

VARIABLES
  ctx,        (* the context: "live" or "done"                              *)
  phase,      (* the caller: "scheduling", "waiting" or "returned"          *)
  next,       (* the host to be handed over next                            *)
  workers,    (* each worker, with its host                                 *)
  results,    (* the result of each host                                    *)
  made,       (* ghost: the attempts made at each host                      *)
  last,       (* ghost: how the last attempt at each host ended             *)
  late        (* ghost: hosts each worker took after the context was over   *)

vars == <<ctx, phase, next, workers, results, made, last, late>>

Hosts == 1..HostCount

(* normalizeFanout.                                                        *)
NormalizeFanout ==
  LET asked == IF Width = 0 THEN 3 ELSE Width
  IN IF asked > HostCount THEN HostCount ELSE asked

Workers == 1..NormalizeFanout

Idle == [at |-> "idle", host |-> 0, attempts |-> 0]
Gone == [at |-> "gone", host |-> 0, attempts |-> 0]
Result(s, attempts) == [state |-> s, attempts |-> attempts]

-----------------------------------------------------------------------------
(* The caller.                                                             *)

(* A worker that waits takes the next host and makes the first attempt.    *)
Schedule(w) ==
  /\ phase = "scheduling" /\ next <= HostCount
  /\ workers[w].at = "idle"
  /\ workers' = [workers EXCEPT ![w] = [at |-> "running", host |-> next, attempts |-> 1]]
  /\ made' = [made EXCEPT ![next] = @ + 1]
  /\ late' = IF ctx = "done" THEN [late EXCEPT ![w] = @ + 1] ELSE late
  /\ next' = next + 1
  /\ UNCHANGED <<ctx, phase, results, last>>

CloseJobs ==
  /\ phase = "scheduling"
  /\ next > HostCount \/ ctx = "done"
  /\ phase' = "waiting"
  /\ UNCHANGED <<ctx, next, workers, results, made, last, late>>

(* All workers are gone; hosts that none took are reported as such.        *)
Return ==
  /\ phase = "waiting"
  /\ \A w \in Workers : workers[w].at = "gone"
  /\ phase' = "returned"
  /\ results' = [h \in Hosts |->
                   IF results[h].state = "none" THEN Result("skipped", 0) ELSE results[h]]
  /\ UNCHANGED <<ctx, next, workers, made, last, late>>

-----------------------------------------------------------------------------
(* A worker.                                                               *)

Report(w, s) ==
  /\ results' = [results EXCEPT ![workers[w].host] = Result(s, workers[w].attempts)]
  /\ workers' = [workers EXCEPT ![w].at = "reported"]

AttemptSucceeds(w) ==
  /\ workers[w].at = "running"
  /\ Report(w, "ok")
  /\ last' = [last EXCEPT ![workers[w].host] = "ok"]
  /\ UNCHANGED <<ctx, phase, next, made, late>>

AttemptFails(w) ==
  /\ workers[w].at = "running"
  /\ last' = [last EXCEPT ![workers[w].host] = "failed"]
  /\ IF workers[w].attempts > RetryCount
     THEN Report(w, "failed")
     ELSE workers' = [workers EXCEPT ![w].at = "backoff"] /\ UNCHANGED results
  /\ UNCHANGED <<ctx, phase, next, made, late>>

Retry(w) ==
  /\ workers[w].at = "backoff"
  /\ workers' = [workers EXCEPT ![w].at = "running", ![w].attempts = @ + 1]
  /\ made' = [made EXCEPT ![workers[w].host] = @ + 1]
  /\ UNCHANGED <<ctx, phase, next, results, last, late>>

GiveUp(w) ==
  /\ workers[w].at = "backoff" /\ ctx = "done"
  /\ Report(w, "failed")
  /\ UNCHANGED <<ctx, phase, next, made, last, late>>

(* Mutation: a worker goes on although the context is over.                *)
ContinueAnyway(w) ==
  /\ workers[w].at = "reported"
  /\ workers' = [workers EXCEPT ![w] = Idle]
  /\ UNCHANGED <<ctx, phase, next, results, made, last, late>>

Continue(w) ==
  /\ workers[w].at = "reported"
  /\ workers' = [workers EXCEPT ![w] = IF ctx = "done" THEN Gone ELSE Idle]
  /\ UNCHANGED <<ctx, phase, next, results, made, last, late>>

Leave(w) ==
  /\ workers[w].at = "idle" /\ phase = "waiting"
  /\ workers' = [workers EXCEPT ![w] = Gone]
  /\ UNCHANGED <<ctx, phase, next, results, made, last, late>>

-----------------------------------------------------------------------------

ContextEnds ==
  /\ ctx = "live" /\ phase # "returned"
  /\ ctx' = "done"
  /\ UNCHANGED <<phase, next, workers, results, made, last, late>>

Init ==
  /\ ctx = "live"
  /\ phase = "scheduling"
  /\ next = 1
  /\ workers = [w \in Workers |-> Idle]
  /\ results = [h \in Hosts |-> Result("none", 0)]
  /\ made = [h \in Hosts |-> 0]
  /\ last = [h \in Hosts |-> "none"]
  /\ late = [w \in Workers |-> 0]

WorkerNext(w) ==
  AttemptSucceeds(w) \/ AttemptFails(w) \/ Retry(w) \/ GiveUp(w) \/ Continue(w) \/ Leave(w)

(* What the goroutines of the run do.                                      *)
Step == CloseJobs \/ Return \/ \E w \in Workers : Schedule(w) \/ WorkerNext(w)

Next == Step \/ ContextEnds

Spec == Init /\ [][Next]_vars

-----------------------------------------------------------------------------
(* Properties.                                                             *)

TypeOK ==
  /\ ctx \in {"live", "done"}
  /\ phase \in {"scheduling", "waiting", "returned"}
  /\ next \in 1..HostCount + 1
  /\ workers \in [Workers -> [at : {"idle", "running", "backoff", "reported", "gone"},
                              host : 0..HostCount, attempts : Nat]]
  /\ results \in [Hosts -> [state : {"none", "ok", "failed", "skipped"}, attempts : Nat]]
  /\ made \in [Hosts -> Nat]
  /\ last \in [Hosts -> {"none", "ok", "failed"}]
  /\ late \in [Workers -> Nat]

(* A host is tried at most once more than the retries allow, by one worker.*)
AttemptsBounded == \A h \in Hosts : made[h] <= RetryCount + 1

(* When the run returns every host has the result of its last attempt, with*)
(* the number of attempts made; and only a run whose context was over      *)
(* reports hosts as not executed, those that no attempt was made at.       *)
ResultsFaithful ==
  phase = "returned" =>
    \A h \in Hosts :
      /\ results[h].attempts = made[h]
      /\ results[h].state = IF made[h] = 0 THEN "skipped" ELSE last[h]
      /\ made[h] = 0 => ctx = "done"

(* A run that is cancelled or out of time begins with at most one more host*)
(* per worker: one that waits when the context ends may be handed a host.  *)
EndsSoon == \A w \in Workers : late[w] <= 1

(* The caller and the workers never wait for one another for good.         *)
NeverStuck == phase = "returned" \/ ENABLED Step
=============================================================================
