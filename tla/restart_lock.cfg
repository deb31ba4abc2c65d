SPECIFICATION DurableSpec
CONSTANTS
  N = 4
  MaxView = 1
  MaxChain = 2
  MaxDepth = 3
  KeepViews = 10
  NoQC = NoQC
  NoBlock <- MCNoBlock
  Genesis <- MCGenesis
  Blocks <- MCBlocks
  Height <- MCHeight
  Parent <- MCParent
  CreateBlock <- MCCreateBlock
  Redelivery = {}
  MinBlockTime = FALSE
  StrictVerify = TRUE
  Lost <- Without3
  Timers <- TimerOf0
  MaxCrashes = 1
  CrashViews <- CrashesOf2
INVARIANTS LocksArePersisted
CHECK_DEADLOCK FALSE
