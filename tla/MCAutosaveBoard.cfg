SPECIFICATION Spec
CONSTANTS
    Kinds = {"board"}
    Titled = {"board"}
    MaxSaves = 2
    MaxBody = 3
    Tries = 2
    MaxTouch = 1
    MaxOpen = 1
INVARIANT SavesFreshest
CHECK_DEADLOCK FALSE
