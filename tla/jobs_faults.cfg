CONSTANTS
  j1 = j1
  j2 = j2
  j3 = j3
  s1 = s1
  w1 = w1
  w2 = w2
  k1 = k1
  NoJob = NoJob
  Jobs = {j1, j2}
  SyncJobs = {j2}
  Sessions = {s1}
  SessionOf <- OneSession
  Workers = {w1, w2}
  Cancelers = {k1}
  QueueSize = 1
  RunJobsMax = 2
  RecoverMax = 2
  MaxFaults <- SaveRestart

SPECIFICATION Spec
INVARIANTS
  TypeOK
  StartedOnce
  NoOrphan
SYMMETRY WorkerSymmetry
CHECK_DEADLOCK FALSE
