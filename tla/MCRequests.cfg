SPECIFICATION SpecAll
CONSTANTS
    f1 = f1
    f2 = f2
    f3 = f3
    r1 = r1
    r2 = r2
    k1 = k1
    g1 = g1
    w1 = w1
    w2 = w2
    x1 = x1
    x2 = x2
    q1 = q1
    c1 = c1
    c2 = c2
    None = None
    Keys = {k1}
    Ensures = {e1, e2}
    Fetches = {t1}
    Clears = {x1}
    KeyOf <- OneKey
    Folders = {f1, f2}
    Requests = {r1, r2}
    Connections = {k1}
    Grpcs = {g1}
    Workspaces = {w1, w2}
    StoreCalls = {a1, a2, a3}
    Stored <- StoredAtFirst
    TreeFolders = {f1, f2, f3}
    TreeRequests = {r1, r2}
    TreeRoot = Top
    TreeStart <- StartAtFirst
    MaxEdits = 1
    SentRequests = {x1, x2, q1}
    Sends = {c1, c2}
    Questions = {"prompt"}
    SentTexts <- RequestTexts
ACTION_CONSTRAINT Canonical
CHECK_DEADLOCK FALSE
INVARIANTS
    SettledMatchesDisk
    RefreshTokenSpentOnce
    MarksAreLive
    NothingOutOfSight
PROPERTIES
    DeleteClearsPanes
    DeleteLandsOnSurvivor
