SPECIFICATION Spec
CONSTANTS
    c1 = c1
    a1 = a1
    a2 = a2
    s1 = s1
    s2 = s2
    d1 = d1
    None = None
    Ids <- OneId
    Attempts <- TwoAttempts
    Senders <- NoSender
    Disconnects <- NoDisconnect
    OutboundCap = 1
CHECK_DEADLOCK FALSE
INVARIANT OpenIsConnected
