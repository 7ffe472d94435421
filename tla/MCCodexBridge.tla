--------------------------- MODULE MCCodexBridge ---------------------------
(***************************************************************************)
(* Instances of CodexBridge for TLC.                                       *)
(***************************************************************************)
EXTENDS CodexBridge, TLC

CONSTANTS c1, n1

Faults(exit, start, timeout, refuse) ==
  [k \in FaultKinds |-> CASE k = "exit"    -> exit
                          [] k = "start"   -> start
                          [] k = "timeout" -> timeout
                          [] k = "refuse"  -> refuse]

ExitsRefusal == Faults(2, 0, 0, 1)
TwoExits     == Faults(2, 0, 0, 0)
SlowStart    == Faults(0, 1, 1, 0)
=============================================================================
