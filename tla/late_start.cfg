SPECIFICATION ScheduledSpec
CONSTANTS
  N = 4
  MaxView = 5
  MaxChain = 2
  MaxDepth = 3
  KeepViews = 10
  NoQC = NoQC
  NoBlock <- MCNoBlock
  Genesis <- MCGenesis
  Blocks <- MCBlocks
  Height <- MCHeight
  Parent <- MCParent
  CreateBlock <- MCCreateBlock
  Redelivery = {}
  MinBlockTime = FALSE
  StrictVerify = TRUE
  Lost <- None
  Timers <- AllTimers
  Schedule <- LateStart
INVARIANTS Agreement
CHECK_DEADLOCK FALSE
