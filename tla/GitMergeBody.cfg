SPECIFICATION Spec
CONSTANTS
    None = None
    Paths = {p1}
    Deletable = {}
    Values = {"a", "b"}
    Lists <- Once
    MaxPicks = 1
    MaxSaves = 1
INVARIANT TheirBodyKept
CHECK_DEADLOCK FALSE
