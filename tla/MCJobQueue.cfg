SPECIFICATION Spec
CONSTANTS
  asr = asr
  llm = llm
  NoType = none
  MaxJobs = 3
  Types <- MCTypes
  Handled <- MCHandled
  Ttl <- MCTtl
INVARIANT NoLostWakeup
PROPERTIES SettledStays StrayOnlyExpired OvertakeOnlyToBatch Served ImplementsService
CHECK_DEADLOCK FALSE
