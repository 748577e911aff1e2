SPECIFICATION Spec
CONSTANTS
  Recorders = {r1, r2}
  Handlers = {h1}
  Watcher = w
  MaxSessions = 2
  MaxTime = 2
  IdleTimeout = 2
  TickPeriod = 1
  Slack = 0
INVARIANTS ClosedCurrentHasEnder KeptAlive
PROPERTIES OpenLostOnlyToLateEnder ClosedIsReported IdleEnds
CHECK_DEADLOCK FALSE
