SPECIFICATION Spec
CONSTANTS
  Phones = {p1, p2}
  Headphones = {h1}
  NoDevice = none
  DualMode = TRUE
  Target = none
  MaxPipelines = 2
  MaxInbox = 1
INVARIANTS NoStrayRecorder DebounceIsSound OneRouter NothingOutlivesTransport
PROPERTIES RouterSurvives StoppedRecorderEnds
CHECK_DEADLOCK FALSE
