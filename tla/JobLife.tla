------------------------------ MODULE JobLife ------------------------------
(***************************************************************************)
(* What the job API promises about a job: it is pending, then possibly     *)
(* running, then done, and it never goes back; retention may evict its     *)
(* record; a job that is not evicted gets done.                            *)
(***************************************************************************)
CONSTANT Jobs

VARIABLE life   (* life[j]: "none" before the job is submitted *)

Init == life = [j \in Jobs |-> "none"]

Step(j, from, to) ==
  /\ life[j] \in from
  /\ life' = [life EXCEPT ![j] = to]

Start(j) == Step(j, {"pending"}, "running")

Finish(j) == Step(j, {"pending", "running"}, "done")

(* A new record may push older ones out.                                   *)
Submit(j) ==
  /\ life[j] = "none"
  /\ \E old \in SUBSET {k \in Jobs : life[k] \notin {"none", "evicted"}} :
       life' = [k \in Jobs |-> IF k = j THEN "pending"
                               ELSE IF k \in old THEN "evicted" ELSE life[k]]

Next ==
  \E j \in Jobs : Submit(j) \/ Start(j) \/ Finish(j)

Fairness == \A j \in Jobs : WF_life(Start(j) \/ Finish(j))

Spec == Init /\ [][Next]_life

FairSpec == Spec /\ Fairness
=============================================================================
