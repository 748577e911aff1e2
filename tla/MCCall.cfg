SPECIFICATION CallSpec
CONSTANTS
  Recordings = {g1, g2}
  None = none
  MaxLines = 2
INVARIANTS HeadphoneHasCall NoStrayRecording MixerHasRecording
PROPERTIES EndedRecordingCleared EndSeenLater
CHECK_DEADLOCK FALSE
