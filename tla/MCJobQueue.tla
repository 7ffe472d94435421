----------------------------- MODULE MCJobQueue -----------------------------
(***************************************************************************)
(* Instances of JobQueue for TLC.                                          *)
(***************************************************************************)
EXTENDS JobQueue, TLC

CONSTANTS j1, j2, j3, s1, w1, w2, k1

OneSession == [j \in RunJobs |-> s1]

Faults(save, restart) ==
  [k \in FaultKinds |-> CASE k = "save" -> save [] k = "restart" -> restart]

NoFaults == Faults(0, 0)
OneRestart == Faults(0, 1)
SaveRestart == Faults(1, 1)

WorkerSymmetry == Permutations(Workers)
=============================================================================
