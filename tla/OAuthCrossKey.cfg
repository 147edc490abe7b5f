SPECIFICATION Spec
CONSTANTS
    k1 = k1
    k2 = k2
    e1 = e1
    e2 = e2
    None = None
    Keys <- TwoKeys
    Ensures <- TwoEnsures
    Fetches <- NoCall
    Clears <- NoCall
    KeyOf <- KeyPerEnsure
CHECK_DEADLOCK FALSE
INVARIANT SavedTokenKept
