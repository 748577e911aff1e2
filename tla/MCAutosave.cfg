SPECIFICATION Spec
CONSTANTS
    Kinds = {"note", "audio", "board", "embed"}
    Titled = {"note", "board"}
    MaxSaves = 2
    MaxBody = 3
    Tries = 2
    MaxTouch = 1
    MaxOpen = 2
INVARIANTS SavedWhenQuiet ShownIsStored
PROPERTY ReachesServer
CHECK_DEADLOCK FALSE
