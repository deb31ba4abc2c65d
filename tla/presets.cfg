SPECIFICATION TimedSpec
CONSTANTS
  N = 4
  MaxView = 4
  MaxChain = 5
  MaxDepth = 5
  KeepViews = 10
  NoQC = NoQC
  NoBlock <- MCNoBlock
  Genesis <- MCGenesis
  Blocks <- MCBlocks
  Height <- MCHeight
  Parent <- MCParent
  CreateBlock <- MCCreateBlock
  Redelivery = {}
  MinBlockTime = TRUE
  StrictVerify = TRUE
  Lost <- None
  Timers <- AllTimers
  Second = 10
  Config <- Demo
  MaxLate = 1
  Crashes <- AllUp
  Joins = {}
  Slow = {}
  Followed = {1}
INVARIANTS CalmViews
