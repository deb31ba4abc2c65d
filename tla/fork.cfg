SPECIFICATION Spec
CONSTANTS
  N = 4
  MaxView = 3
  MaxChain = 3
  MaxDepth = 3
  KeepViews = 10
  NoQC = NoQC
  NoBlock <- MCNoBlock
  Genesis <- MCGenesis
  Blocks <- MCBlocks
  Height <- MCHeight
  Parent <- MCParent
  CreateBlock <- MCCreateBlock
  Redelivery = {}
  MinBlockTime = TRUE
  StrictVerify = TRUE
  Lost <- Without1InView3
  Timers <- TimersToView2
INVARIANTS Agreement TwoChainsAreLocked QCIntegrity VotesOnCertifiedParents CommitNeedsTwoChain
PROPERTIES ImplementsLedger
CHECK_DEADLOCK FALSE
