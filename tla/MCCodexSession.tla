--------------------------- MODULE MCCodexSession ---------------------------
(***************************************************************************)
(* Instances of CodexSession for TLC.                                      *)
(***************************************************************************)
EXTENDS CodexSession, TLC

CONSTANTS r1, r2, c1, c2, a1

Once(kinds) == [k \in FaultKinds |-> IF k \in kinds THEN 1 ELSE 0]

AnyDisorder == Once(FaultKinds)
NoDisorder  == Once({})
=============================================================================
