CONSTANTS
    w1 = w1
    w2 = w2
    w3 = w3
    Words = {w1, w2, w3}
    Slash = Slash
    Url = Url
    Levels = {"heading"}
    Lists = {"bullet", "task"}
    Notes <- MCNotes
    Limit = 2
    Sets = {1, 2}
    Depth = 1
    MaxLines = 5
    MaxActs = 4
SPECIFICATION Spec
INVARIANT UploadSettles
PROPERTIES LinkForSelection KeepsWords
CHECK_DEADLOCK FALSE
