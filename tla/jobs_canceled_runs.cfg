CONSTANTS
  j1 = j1
  j2 = j2
  j3 = j3
  s1 = s1
  w1 = w1
  w2 = w2
  k1 = k1
  NoJob = NoJob
  Jobs = {j1}
  SyncJobs = {}
  Sessions = {s1}
  SessionOf <- OneSession
  Workers = {w1}
  Cancelers = {k1}
  QueueSize = 1
  RunJobsMax = 2
  RecoverMax = 2
  MaxFaults <- NoFaults

SPECIFICATION Spec
INVARIANT CanceledNeverRuns
CHECK_DEADLOCK FALSE
