-------------------------- MODULE MCSessionStream --------------------------
(***************************************************************************)
(* Instances of SessionStream for TLC.                                     *)
(***************************************************************************)
EXTENDS SessionStream, TLC

CONSTANTS s1, s2, c1, a1, a2

OneSession == [c \in Streams |-> s1]

Faults(save, restart, drop, overtake) ==
  [k \in FaultKinds |-> CASE k = "save" -> save
                         [] k = "restart" -> restart
                         [] k = "drop" -> drop
                         [] k = "overtake" -> overtake]

RestartDrop == Faults(0, 1, 1, 0)
OneOvertake == Faults(0, 0, 0, 1)
AllFaults   == Faults(1, 1, 1, 1)
=============================================================================
