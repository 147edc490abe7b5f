SPECIFICATION SpecAll
CONSTANTS
    i1 = i1
    i2 = i2
    s1 = s1
    s2 = s2
    s3 = s3
    s4 = s4
    None = None
    Ids <- TwoIds
    Sends <- FourSends
    IdOf <- IdOfSend
    MaxFrames = 9
    BatchMax = 3
    FrameCap = 4
CHECK_DEADLOCK FALSE
INVARIANTS
    RunningIsCancellable
    NoStaleHandle
    ToldIsCancelled
    ShownOnceInOrder
    ResponseIsShownTail
PROPERTIES
    KeepsPromise
    QuietFramesShown
