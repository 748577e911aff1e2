SPECIFICATION MemorySpec
CONSTANTS
  Requests = {r1, r2}
  LMStudio = TRUE
  KeepLoaded = FALSE
  Gpu = TRUE
INVARIANTS AloneOneModel AloneServed UnloadedWithSlot
CHECK_DEADLOCK FALSE
