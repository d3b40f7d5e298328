SPECIFICATION FairSpec
CONSTANTS
  Interval = 3
  Timeout = 10
  Latency = 2
  MaxChanges = 3
INVARIANTS
  TypeOK
  NilMeansHealthy
  NoMissedReadiness
  ErrorIsCurrent
PROPERTIES
  RunsDown
  Terminates
CHECK_DEADLOCK FALSE
