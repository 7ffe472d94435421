CONSTANTS
  s1 = s1
  s2 = s2
  c1 = c1
  a1 = a1
  a2 = a2
  NoEvent = NoEvent
  Sessions = {s1}
  Streams = {c1}
  SessionOf <- OneSession
  Appenders = {a1}
  Deletable = {}
  StreamBuffer = 1
  ReplayBatch = 2
  EventsMax = 4
  MaxEvents = 4
  MaxFaults <- RestartDrop
  MaxKinds = 2

SPECIFICATION FairSpec
PROPERTY ImplementsFairFeed
CHECK_DEADLOCK FALSE
