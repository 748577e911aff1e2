SPECIFICATION Spec
CONSTANTS
    Macs = {m1, m2}
    Saved = m1
    None = none
    MaxReqs = 2
    MaxActs = 2
INVARIANTS OneScanner SpinnerHasRequest SwitchKept
CONSTRAINT DialogAlone
