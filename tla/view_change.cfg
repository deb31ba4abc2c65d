SPECIFICATION Spec
CONSTANTS
  N = 4
  MaxView = 2
  MaxChain = 2
  MaxDepth = 3
  KeepViews = 10
  NoQC = NoQC
  NoBlock <- MCNoBlock
  Genesis <- MCGenesis
  Blocks <- MCBlocks
  Height <- MCHeight
  Parent <- MCParent
  CreateBlock <- MCCreateBlock
  Redelivery = {"PROPOSE", "VOTE", "NEWVIEW"}
  MinBlockTime = FALSE
  StrictVerify = TRUE
  Lost <- SkippingView1
  Timers <- TimersInViews01
INVARIANTS TypeOK OneVotePerView UniqueQCPerView
PROPERTIES NothingForgotten
CHECK_DEADLOCK FALSE
