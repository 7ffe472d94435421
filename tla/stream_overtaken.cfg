CONSTANTS
  s1 = s1
  s2 = s2
  c1 = c1
  a1 = a1
  a2 = a2
  NoEvent = NoEvent
  Sessions = {s1}
  Streams = {c1}
  SessionOf <- OneSession
  Appenders = {a1, a2}
  Deletable = {}
  StreamBuffer = 2
  ReplayBatch = 2
  EventsMax = 3
  MaxEvents = 3
  MaxFaults <- OneOvertake
  MaxKinds = 1

SPECIFICATION Spec
INVARIANT NothingSkipped
CHECK_DEADLOCK FALSE
