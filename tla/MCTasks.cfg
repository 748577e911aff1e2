SPECIFICATION Spec
CONSTANTS
    Tasks = {t1, t2}
    Folders = {f1, f2}
    First = t1
    Given = f1
    None = none
    MaxReqs = 2
    MaxActs = 3
INVARIANTS FolderShown LastChoiceKept
CHECK_DEADLOCK FALSE
