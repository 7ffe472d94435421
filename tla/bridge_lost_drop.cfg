CONSTANTS
  c1 = c1
  n1 = n1
  Loop = Loop
  Callers = {c1}
  Notifiers = {}
  MaxConns = 3
  MaxFaults <- TwoExits

SPECIFICATION Spec
INVARIANT Reconnecting
CHECK_DEADLOCK FALSE
