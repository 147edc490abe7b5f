SPECIFICATION SpecAll
CONSTANTS
    r1 = r1
    r2 = r2
    s1 = s1
    l1 = l1
    None = None
    Requests = {r1, r2}
    MaxEdits = 2
    Ordered <- TreeOrder
    PaneSends = {s1}
    Loops = {l1}
    MaxStored = 2
    MaxReads = 3
CHECK_DEADLOCK FALSE
INVARIANTS
    
    PastIsOfViewed
PROPERTIES
    NoStuckSpinner
    RunGivesBack
    BlankEnds
