CONSTANTS
  c1 = c1
  n1 = n1
  Loop = Loop
  Callers = {c1}
  Notifiers = {}
  MaxConns = 3
  MaxFaults <- ExitsRefusal

SPECIFICATION Spec
INVARIANTS
  TypeOK
  PendingCurrent
  NobodyForgotten
  OneAtATime
CHECK_DEADLOCK FALSE
