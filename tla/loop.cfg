CONSTANTS
  Leads = {0, 2}
  MaxView = 3
  MaxMessages = 2
  MaxGoroutines = 2
  MaxCallbacks = 1
SPECIFICATION Spec
INVARIANTS TypeOK TimerNeverLost FreshTimer LoopFollowsPhase
PROPERTIES ViewsEnd StopReturns
