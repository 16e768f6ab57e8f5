CONSTANTS
    OffsetBits = 2
    Names = {"f"}
    MaxRaw = 4
    MaxOther = 2
SPECIFICATION Spec
INVARIANTS NormalFormIsUnique StripSolves KeysAreMatches ConcatsAgree
CHECK_DEADLOCK FALSE
