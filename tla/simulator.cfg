SPECIFICATION Spec
CONSTANTS
  FaultTolerance = 1
  Capacity = 1
  Partitions <- MCPartitions
  Speakers <- MCSpeakers
  MaxRequests = 4
  MaxBroadcasts = 2
  MaxFaults = 1
INVARIANTS CrashesAgree LiveNodesRun IsolationEnds StatsAddUp
PROPERTIES CrashedAreSilent
CHECK_DEADLOCK FALSE
