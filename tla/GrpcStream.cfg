SPECIFICATION FairSpec
CONSTANTS
    r1 = r1
    g1 = g1
    g2 = g2
    m1 = m1
    First = First
    None = None
    Ids <- OneId
    Calls <- TwoCalls
    Senders <- OneSender
CHECK_DEADLOCK FALSE
INVARIANT HalfCloseAfterFrames
PROPERTIES
    StatusForward
    ReleasedHalfCloses
