CONSTANTS
  c1 = c1
  n1 = n1
  Loop = Loop
  Callers = {c1}
  Notifiers = {n1}
  MaxConns = 2
  MaxFaults <- SlowStart

SPECIFICATION FairSpec
PROPERTY CallsReturn
CHECK_DEADLOCK FALSE
