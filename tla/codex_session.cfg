CONSTANTS
  r1 = r1
  r2 = r2
  c1 = c1
  c2 = c2
  a1 = a1
  Requests = {r1}
  MaxTurns = 2
  Clients = {c1}
  Resolvers = {a1}
  Buffer = 1
  MaxSubs = 3
  MaxFaults <- AnyDisorder
  MaxKinds = 1

SPECIFICATION FairSpec
INVARIANTS
  TypeOK
  OneSubscriber
  NoEventTwice
  PendingAgrees
  StatusSettles
PROPERTIES
  Resubscribed
CHECK_DEADLOCK FALSE
