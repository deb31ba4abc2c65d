SPECIFICATION DurableSpec
CONSTANTS
  N = 4
  MaxView = 1
  MaxChain = 2
  MaxDepth = 3
  KeepViews = 10
  NoQC = NoQC
  NoBlock <- MCNoBlock
  Genesis <- MCGenesis
  Blocks <- MCBlocks
  Height <- MCHeight
  Parent <- MCParent
  CreateBlock <- MCCreateBlock
  Redelivery = {}
  MinBlockTime = FALSE
  StrictVerify = TRUE
  Lost <- ToLeaderOf1
  Timers <- TimersOfFollowers
  MaxCrashes = 1
  CrashViews <- AllTimers
INVARIANTS OneCrashIsSafe TwoChainsSurvive
CHECK_DEADLOCK FALSE
