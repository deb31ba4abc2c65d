SPECIFICATION Spec
CONSTANTS
  Capacity = 2
  MinDelay = 1
  MaxDelay = 2
  b1 = b1
  b2 = b2
  Blocks <- TwoBlocks
  Scenarios <- MCScenarios
  Executed <- MCExecuted
  Proposers <- MCProposers
  Listeners <- MCListeners
  Committers <- MCCommitters
  Heights <- MCHeights
  MaxCommits = 2
  MaxSaid = 3
INVARIANTS ScenariosAccepted ForksReported DoubleSignsCaught DelaysBounded PartitionsHold
CHECK_DEADLOCK FALSE
SYMMETRY MCSymmetry
