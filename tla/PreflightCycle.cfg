SPECIFICATION Spec
CONSTANTS
    r1 = r1
    r2 = r2
    s1 = s1
    None = None
    Reqs <- TwoReqs
    Sends <- OneSend
    Questions = {"prompt"}
    Text <- EachOther
    JarText <- NoText
CHECK_DEADLOCK FALSE
INVARIANT NoCircularWait
