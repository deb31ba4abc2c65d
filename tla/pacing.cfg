SPECIFICATION TimedSpec
CONSTANTS
  N = 4
  MaxView = 4
  MaxChain = 5
  MaxDepth = 5
  KeepViews = 10
  NoQC = NoQC
  NoBlock <- MCNoBlock
  Genesis <- MCGenesis
  Blocks <- MCBlocks
  Height <- MCHeight
  Parent <- MCParent
  CreateBlock <- MCCreateBlock
  Redelivery = {}
  MinBlockTime = TRUE
  StrictVerify = TRUE
  Lost <- None
  Timers <- AllTimers
  Second = 5
  Config <- Ample
  MaxLate = 1
  Crashes <- OneDown
  Joins <- Late3
  Slow <- SlowProposals
  Followed = {1}
INVARIANTS PacemakersOK CalmViews DelayNeverShort
PROPERTIES DelaysEnd BlocksAreCommitted
