CONSTANTS
  s1 = s1
  s2 = s2
  c1 = c1
  a1 = a1
  a2 = a2
  NoEvent = NoEvent
  Sessions = {s1, s2}
  Streams = {c1}
  SessionOf <- OneSession
  Appenders = {a1, a2}
  Deletable = {s1}
  StreamBuffer = 1
  ReplayBatch = 1
  EventsMax = 2
  MaxEvents = 4
  MaxFaults <- AllFaults
  MaxKinds = 2

SPECIFICATION Spec
INVARIANTS
  TypeOK
  LogOrdered
  WireOrdered
  ReplaySafe
CHECK_DEADLOCK FALSE
