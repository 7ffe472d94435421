CONSTANTS
  r1 = r1
  r2 = r2
  c1 = c1
  c2 = c2
  a1 = a1
  Requests = {r1}
  MaxTurns = 1
  Clients = {c1}
  Resolvers = {}
  Buffer = 1
  MaxSubs = 2
  MaxFaults <- NoDisorder
  MaxKinds = 1

SPECIFICATION Spec
INVARIANTS
  EndedNotRunning
CHECK_DEADLOCK FALSE
