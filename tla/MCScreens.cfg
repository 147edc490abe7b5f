SPECIFICATION SpecAll
CONSTANTS
    o1 = o1
    o2 = o2
    w1 = w1
    e1 = e1
    k1 = k1
    k2 = k2
    x1 = x1
    x2 = x2
    q1 = q1
    None = None
    Oneof = {o1, o2}
    Keys = {k1, k2}
    NewKey = k1
    MaxItems = 1
    Owners = {o1, o2}
    FirstTexts <- TwoTexts
    Secrets = {"s1"}
    MaxText = 2
    MaxTextEdits = 2
    MaxUndo = 1
    Workspaces = {w1, w2}
    Envs = {e1}
    Home <- HomeOfEnv
    VariableNames = {k1, k2}
    EnvPlain = EnvPlain
    EnvStart <- SelfReference
    MaxEnvCalls = 2
    MaxEnvEdits = 1
    Jars = {j0, j1}
    DefaultJar = j0
    CookieIds = {k1}
    CookieValues = {"a", "b"}
    Expired = {"b"}
    BlankCookie = ""
    MaxCookieCalls = 2
    MaxTyped = 2
    MaxTree = 1
    MaxGitCalls = 2
    Paths = {p1, p2}
    Deletable = {p2}
    FieldValues = {"a", "b"}
    RowLists <- ListsOfRows
    MaxPicks = 1
    MaxSaves = 1
    Folders = {f1, f2}
    Leaves = {r1}
    TreeTop = Top
    ReviewValues = {"a"}
    MaxReviewEdits = 2
    Responses = {x1, x2}
    Queries = {q1}
    NLines = 5
    BlockSize = 3
    OpensAt <- BodyOpensAt
    MaxReads = 1
    Types = {t1}
    Cap = 1
    MaxFrames = 2
    Conns = {c1, c2}
    MaxConnects = 2
    MaxMessages = 1
    MaxEvents = 1
    MaxHydrates = 2
    Methods = {m1, m2}
    Unary = {m1}
    MaxBuilds = 1
    MaxDraftEdits = 2
    MaxStored = 2
    MaxCalls = 3
ACTION_CONSTRAINT Canonical
CHECK_DEADLOCK FALSE
INVARIANTS
    ChipsAreCiphertext
    ActiveListed
    BothSidesKept
    FoldMapsAgree
    CountsWhatWasSent
    NoRepeats
    ImportedBodyKept
    FailureNotHidden
    OneofExclusive
PROPERTIES
    TypedIsKept
    BadgesNotOlder
    ContentsRestored
