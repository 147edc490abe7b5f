------------------------------ MODULE Screens -------------------------------
(***************************************************************************)
(* The screens of a workspace: template fields, environments, cookies and  *)
(* repository, the body and the stream of a response, WebSocket and gRPC.  *)
(* They share no variable, so what holds of each alone holds of them       *)
(* together: a behaviour is one of one screen.                             *)
(***************************************************************************)
EXTENDS GrpcForm, Integers, FiniteSets, Sequences

CONSTANTS
    None,
    Owners, FirstTexts, Secrets, MaxText, MaxTextEdits, MaxUndo,  \* see TemplateInput
    Workspaces,
    Envs, Home, VariableNames, EnvPlain, EnvStart, MaxEnvCalls,
    MaxEnvEdits,                                             \* see Environments
    Jars, DefaultJar, CookieIds, CookieValues, Expired, BlankCookie,
    MaxCookieCalls, MaxTyped,                                \* see Cookies
    MaxTree, MaxGitCalls,                                    \* see GitStore
    Paths, Deletable, FieldValues, RowLists, MaxPicks, MaxSaves, \* see GitMerge
    Folders, Leaves, TreeTop, ReviewValues, MaxReviewEdits,  \* see GitReview
    Responses, Queries, NLines, BlockSize, OpensAt, MaxReads, \* see WindowedBody
    Types, Cap, MaxFrames,                                   \* see StreamView
    Conns, MaxConnects, MaxMessages, MaxEvents, MaxHydrates, \* see WsView
    Methods, Unary, MaxBuilds, MaxDraftEdits,                \* see GrpcDraft
    MaxStored, MaxCalls                                      \* see GrpcResults

\* The placeholder is none of what it stands beside; a stream keeps a frame at
\* least; every environment is one of a workspace, the top of the tree is no
\* folder, and a block of a body closes on a line of it.
ASSUME ScreensAssumption ==
    /\ None \notin CookieValues \cup {BlankCookie}
    /\ Cap \in Nat \ {0} /\ MaxFrames \in Nat
    /\ None \notin {"both", "settings", "remote"} /\ None \notin Workspaces
    /\ None \notin Envs /\ Home \in [Envs -> Workspaces]
    /\ EnvStart \subseteq [VariableNames -> VariableNames \cup {EnvPlain, None}]
    /\ None \notin [vars : [VariableNames -> VariableNames \cup {EnvPlain, None}],
                    name : {0, 1}, at : Nat]
    /\ IsFiniteSet(Folders) /\ TreeTop \notin Folders /\ ReviewValues # {}
    /\ RowLists \subseteq Seq(FieldValues)
    /\ NLines \in Nat
    /\ OpensAt \in [Responses \X (Queries \cup {None}) -> [0..(NLines - 1) -> 0..(NLines - 1)]]

VARIABLES
    part, \* the part that runs
    inputEditor, inputOwner, inputValue, inputShown, inputCaret, inputSkip,
    inputUndo, inputRedo, inputMenu, inputEnd, inputModal, inputDialog,
    inputEnabled, inputReads, inputRunning, inputEdits,
    envDisk, envSettings, envWs, envEnvs, envActive, envSystem, envCalls,
    envEditor, envFocus, envTimers, envRename, envUses, envMade, envEdits,
    cookieDisk, cookieSelection, cookieJars, cookieActive, cookieCalls,
    cookiePicked, cookieDraft, cookieMade, cookieTyped,
    gitDisk, gitTree, gitLoaded, gitRepo, gitFiles, gitChanges, gitConflicts,
    gitOp, gitNotice, gitChains, gitDebounce, gitView, gitModal, gitCalls,
    mergeConflict, mergeLeft, mergeChoices, mergeAuthor, mergeAutoDone,
    mergeSaves, mergeMerging, mergeWritten, mergePicks,
    reviewCommitted, reviewWorking, reviewLive, reviewFiles, reviewWithin,
    reviewReview, reviewTarget, reviewHung, reviewEdits,
    bodyResp, bodyFilter, bodyDerived, bodyCached, bodyPending, bodyCalls,
    bodyCollapsed, bodyFound,
    streamGot, streamRows, streamHeader, streamStreaming, streamUpcoming,
    streamLate, streamMixed, streamHeard, streamMatching, streamSearching,
    streamRaw, streamExpanded, streamTab, streamFollowing, streamPinDue,
    streamBelow,
    wsActive, wsUp, wsSessions, wsBus, wsStatus, wsTranscript, wsHydrating,
    wsDialing, wsCommitting, wsSelected, wsHistorical, wsReads, wsHydrates,
    wsConnects,
    gdSaved, gdEdited, gdMethod, gdSource, gdSchema, gdDescribing, gdBlank,
    gdBuilding, gdRefreshing, gdOffered, gdMenu, gdTab, gdMode, gdStatus,
    gdCarried, gdEdits,
    grStored, grLoading, grResponse, grFailed, grInCall, grPicked, grPast,
    grLatest, grGets, grRound, grPreloads, grKnown, grChecked, grListed,
    grOpen, grAsked, grCalls

\* Texts that are edited in one input.
In == INSTANCE TemplateInput WITH
    Start <- FirstTexts, MaxEdits <- MaxTextEdits, editor <- inputEditor, owner <- inputOwner,
    value <- inputValue, shown <- inputShown, caret <- inputCaret,
    skip <- inputSkip, undo <- inputUndo, redo <- inputRedo, menu <- inputMenu,
    end <- inputEnd, modal <- inputModal, dialog <- inputDialog,
    enabled <- inputEnabled, reads <- inputReads, running <- inputRunning,
    edits <- inputEdits
inputVars == <<inputEditor, inputOwner, inputValue, inputShown, inputCaret,
               inputSkip, inputUndo, inputRedo, inputMenu, inputEnd, inputModal,
               inputDialog, inputEnabled, inputReads, inputRunning, inputEdits>>
\* A field is given no secret in the clear to begin with.
ASSUME TextsAssumption ==
    FirstTexts \in [Owners -> Seq({In!Char, In!Var} \cup {In!Cipher(s) : s \in Secrets})]
InOff ==
    /\ inputEditor = None /\ inputOwner = None /\ inputValue = None
    /\ inputShown = None /\ inputCaret = None /\ inputSkip = None
    /\ inputUndo = None /\ inputRedo = None /\ inputMenu = None
    /\ inputEnd = None /\ inputModal = None /\ inputDialog = None
    /\ inputEnabled = None /\ inputReads = None /\ inputRunning = None
    /\ inputEdits = None

\* The environments of a workspace.
En == INSTANCE Environments WITH
    Keys <- VariableNames, Plain <- EnvPlain, Start <- EnvStart,
    MaxCalls <- MaxEnvCalls, MaxEdits <- MaxEnvEdits, disk <- envDisk,
    settings <- envSettings, ws <- envWs, envs <- envEnvs, active <- envActive,
    system <- envSystem, calls <- envCalls, editor <- envEditor,
    focus <- envFocus, timers <- envTimers, rename <- envRename,
    uses <- envUses, made <- envMade, edits <- envEdits
envVars == <<envDisk, envSettings, envWs, envEnvs, envActive, envSystem,
             envCalls, envEditor, envFocus, envTimers, envRename, envUses,
             envMade, envEdits>>
EnOff ==
    /\ envDisk = None /\ envSettings = None /\ envWs = None
    /\ envEnvs = None /\ envActive = None /\ envSystem = None
    /\ envCalls = None /\ envEditor = None /\ envFocus = None
    /\ envTimers = None /\ envRename = None /\ envUses = None
    /\ envMade = None /\ envEdits = None

\* Jars with cookies that may expire.
Co == INSTANCE Cookies WITH
    Default <- DefaultJar, Values <- CookieValues, Blank <- BlankCookie,
    MaxCalls <- MaxCookieCalls, disk <- cookieDisk,
    selection <- cookieSelection, jars <- cookieJars, active <- cookieActive,
    calls <- cookieCalls, picked <- cookiePicked, draft <- cookieDraft,
    made <- cookieMade, typed <- cookieTyped
cookieVars == <<cookieDisk, cookieSelection, cookieJars, cookieActive,
                cookieCalls, cookiePicked, cookieDraft, cookieMade, cookieTyped>>
CoOff ==
    /\ cookieDisk = None /\ cookieSelection = None
    /\ cookieJars = None /\ cookieActive = None /\ cookieCalls = None
    /\ cookiePicked = None /\ cookieDraft = None /\ cookieMade = None
    /\ cookieTyped = None

\* Chains of git commands.
Gi == INSTANCE GitStore WITH
    MaxCalls <- MaxGitCalls, disk <- gitDisk,
    tree <- gitTree, loaded <- gitLoaded, repo <- gitRepo, files <- gitFiles,
    changes <- gitChanges, conflicts <- gitConflicts, op <- gitOp,
    notice <- gitNotice, chains <- gitChains, debounce <- gitDebounce,
    view <- gitView, modal <- gitModal, calls <- gitCalls
gitVars == <<gitDisk, gitTree, gitLoaded, gitRepo, gitFiles, gitChanges,
             gitConflicts, gitOp, gitNotice, gitChains, gitDebounce, gitView,
             gitModal, gitCalls>>
GiOff ==
    /\ gitDisk = None /\ gitTree = None /\ gitLoaded = None
    /\ gitRepo = None /\ gitFiles = None /\ gitChanges = None
    /\ gitConflicts = None /\ gitOp = None /\ gitNotice = None
    /\ gitChains = None /\ gitDebounce = None /\ gitView = None
    /\ gitModal = None /\ gitCalls = None

\* A merge with conflicting entities, of which some may be deleted.
Me == INSTANCE GitMerge WITH
    Values <- FieldValues, Lists <- RowLists, conflict <- mergeConflict, left <- mergeLeft,
    choices <- mergeChoices, author <- mergeAuthor, autoDone <- mergeAutoDone,
    saves <- mergeSaves, merging <- mergeMerging, written <- mergeWritten,
    picks <- mergePicks
mergeVars == <<mergeConflict, mergeLeft, mergeChoices, mergeAuthor,
               mergeAutoDone, mergeSaves, mergeMerging, mergeWritten, mergePicks>>
MeOff ==
    /\ mergeConflict = None /\ mergeLeft = None
    /\ mergeChoices = None /\ mergeAuthor = None /\ mergeAutoDone = None
    /\ mergeSaves = None /\ mergeMerging = None /\ mergeWritten = None
    /\ mergePicks = None

\* The changes of folders and requests.
Re == INSTANCE GitReview WITH
    Root <- TreeTop, Values <- ReviewValues, MaxEdits <- MaxReviewEdits,
    committed <- reviewCommitted, working <- reviewWorking,
    live <- reviewLive, files <- reviewFiles, within <- reviewWithin,
    review <- reviewReview, target <- reviewTarget, hung <- reviewHung, edits <- reviewEdits
reviewVars == <<reviewCommitted, reviewWorking, reviewLive, reviewFiles,
                reviewWithin, reviewReview, reviewTarget, reviewHung, reviewEdits>>
ReOff ==
    /\ reviewCommitted = None /\ reviewWorking = None
    /\ reviewLive = None /\ reviewFiles = None /\ reviewWithin = None
    /\ reviewReview = None /\ reviewTarget = None /\ reviewHung = None /\ reviewEdits = None

\* Responses read in blocks of lines.
Bo == INSTANCE WindowedBody WITH
    MaxCalls <- MaxReads, resp <- bodyResp, filter <- bodyFilter,
    derived <- bodyDerived, cached <- bodyCached, pending <- bodyPending,
    calls <- bodyCalls, collapsed <- bodyCollapsed, found <- bodyFound
bodyVars == <<bodyResp, bodyFilter, bodyDerived, bodyCached, bodyPending,
              bodyCalls, bodyCollapsed, bodyFound>>
BoOff ==
    /\ bodyResp = None /\ bodyFilter = None /\ bodyDerived = None
    /\ bodyCached = None /\ bodyPending = None /\ bodyCalls = None
    /\ bodyCollapsed = None /\ bodyFound = None

\* A stream of which the last frames are kept.
Sr == INSTANCE StreamView WITH
    got <- streamGot,
    rows <- streamRows, header <- streamHeader, streaming <- streamStreaming,
    upcoming <- streamUpcoming, late <- streamLate, mixed <- streamMixed,
    heard <- streamHeard, matching <- streamMatching,
    searching <- streamSearching, raw <- streamRaw, expanded <- streamExpanded,
    tab <- streamTab, following <- streamFollowing,
    pinDue <- streamPinDue, below <- streamBelow
streamVars == <<streamGot, streamRows, streamHeader, streamStreaming,
                streamUpcoming, streamLate, streamMixed, streamHeard,
                streamMatching, streamSearching, streamRaw, streamExpanded,
                streamTab, streamFollowing, streamPinDue, streamBelow>>
SrOff ==
    /\ streamGot = None /\ streamRows = None /\ streamHeader = None
    /\ streamStreaming = None /\ streamUpcoming = None /\ streamLate = None
    /\ streamMixed = None /\ streamHeard = None /\ streamMatching = None
    /\ streamSearching = None /\ streamRaw = None /\ streamExpanded = None
    /\ streamTab = None
    /\ streamFollowing = None /\ streamPinDue = None /\ streamBelow = None

\* WebSocket connections.
Ws == INSTANCE WsView WITH
    active <- wsActive, up <- wsUp, sessions <- wsSessions,
    bus <- wsBus, status <- wsStatus, transcript <- wsTranscript,
    hydrating <- wsHydrating, dialing <- wsDialing, committing <- wsCommitting,
    selected <- wsSelected, historical <- wsHistorical, reads <- wsReads,
    hydrates <- wsHydrates, connects <- wsConnects
wsVars == <<wsActive, wsUp, wsSessions, wsBus, wsStatus, wsTranscript,
            wsHydrating, wsDialing, wsCommitting, wsSelected, wsHistorical,
            wsReads, wsHydrates, wsConnects>>
WsOff ==
    /\ wsActive = None /\ wsUp = None /\ wsSessions = None
    /\ wsBus = None /\ wsStatus = None /\ wsTranscript = None
    /\ wsHydrating = None /\ wsDialing = None /\ wsCommitting = None
    /\ wsSelected = None /\ wsHistorical = None /\ wsReads = None
    /\ wsHydrates = None /\ wsConnects = None

\* The draft of a gRPC request.
Gd == INSTANCE GrpcDraft WITH
    MaxEdits <- MaxDraftEdits, saved <- gdSaved, edited <- gdEdited, method <- gdMethod,
    source <- gdSource, schema <- gdSchema, describing <- gdDescribing,
    blank <- gdBlank, building <- gdBuilding, refreshing <- gdRefreshing,
    offered <- gdOffered, menu <- gdMenu, tab <- gdTab, mode <- gdMode,
    status <- gdStatus, carried <- gdCarried, edits <- gdEdits
gdVars == <<gdSaved, gdEdited, gdMethod, gdSource, gdSchema, gdDescribing,
            gdBlank, gdBuilding, gdRefreshing, gdOffered, gdMenu, gdTab, gdMode,
            gdStatus, gdCarried, gdEdits>>
GdOff ==
    /\ gdSaved = None /\ gdEdited = None /\ gdMethod = None
    /\ gdSource = None /\ gdSchema = None /\ gdDescribing = None
    /\ gdBlank = None /\ gdBuilding = None /\ gdRefreshing = None
    /\ gdOffered = None /\ gdMenu = None /\ gdTab = None /\ gdMode = None
    /\ gdStatus = None /\ gdCarried = None /\ gdEdits = None

\* The results of its calls.
Gr == INSTANCE GrpcResults WITH
    stored <- grStored, loading <- grLoading,
    response <- grResponse, failed <- grFailed, inCall <- grInCall,
    picked <- grPicked, past <- grPast, latest <- grLatest, gets <- grGets,
    round <- grRound, preloads <- grPreloads, known <- grKnown,
    checked <- grChecked, listed <- grListed, open <- grOpen,
    asked <- grAsked, calls <- grCalls
grVars == <<grStored, grLoading, grResponse, grFailed, grInCall, grPicked,
            grPast, grLatest, grGets, grRound, grPreloads, grKnown, grChecked,
            grListed, grOpen, grAsked, grCalls>>
GrOff ==
    /\ grStored = None /\ grLoading = None /\ grResponse = None
    /\ grFailed = None /\ grInCall = None /\ grPicked = None /\ grPast = None
    /\ grLatest = None /\ grGets = None /\ grRound = None
    /\ grPreloads = None /\ grKnown = None /\ grChecked = None
    /\ grListed = None /\ grOpen = None /\ grAsked = None /\ grCalls = None

\* The form of a message, extended: a form that does not run is an empty one.
allVars == <<part, inputVars, envVars, cookieVars, gitVars, mergeVars, reviewVars,
          bodyVars, streamVars, wsVars, gdVars, grVars, formVars>>

\* One part runs, and the others are off.
Parts == {"input", "env", "cookie", "git", "merge", "review", "body",
          "stream", "ws", "grpc", "results", "form"}

InitAll ==
    /\ part \in Parts
    /\ IF part = "input" THEN In!Init ELSE InOff
    /\ IF part = "env" THEN En!Init ELSE EnOff
    /\ IF part = "cookie" THEN Co!Init ELSE CoOff
    /\ IF part = "git" THEN Gi!Init ELSE GiOff
    /\ IF part = "merge" THEN Me!Init ELSE MeOff
    /\ IF part = "review" THEN Re!Init ELSE ReOff
    /\ IF part = "body" THEN Bo!Init ELSE BoOff
    /\ IF part = "stream" THEN Sr!Init ELSE SrOff
    /\ IF part = "ws" THEN Ws!Init ELSE WsOff
    /\ IF part = "grpc" THEN Gd!Init ELSE GdOff
    /\ IF part = "results" THEN Gr!Init ELSE GrOff
    /\ Init

NextAll ==
    /\ UNCHANGED part
    /\ \/ part = "input"
          /\ UNCHANGED <<envVars, cookieVars, gitVars, mergeVars, reviewVars,
                         bodyVars, streamVars, wsVars, gdVars, grVars,
                         formVars>>
          /\ In!Next
       \/ part = "env"
          /\ UNCHANGED <<inputVars, cookieVars, gitVars, mergeVars,
                         reviewVars, bodyVars, streamVars, wsVars, gdVars,
                         grVars, formVars>>
          /\ En!Next
       \/ part = "cookie"
          /\ UNCHANGED <<inputVars, envVars, gitVars, mergeVars, reviewVars,
                         bodyVars, streamVars, wsVars, gdVars, grVars,
                         formVars>>
          /\ Co!Next
       \/ part = "git"
          /\ UNCHANGED <<inputVars, envVars, cookieVars, mergeVars,
                         reviewVars, bodyVars, streamVars, wsVars, gdVars,
                         grVars, formVars>>
          /\ Gi!Next
       \/ part = "merge"
          /\ UNCHANGED <<inputVars, envVars, cookieVars, gitVars, reviewVars,
                         bodyVars, streamVars, wsVars, gdVars, grVars,
                         formVars>>
          /\ Me!Next
       \/ part = "review"
          /\ UNCHANGED <<inputVars, envVars, cookieVars, gitVars, mergeVars,
                         bodyVars, streamVars, wsVars, gdVars, grVars,
                         formVars>>
          /\ Re!Next
       \/ part = "body"
          /\ UNCHANGED <<inputVars, envVars, cookieVars, gitVars, mergeVars,
                         reviewVars, streamVars, wsVars, gdVars, grVars,
                         formVars>>
          /\ Bo!Next
       \/ part = "stream"
          /\ UNCHANGED <<inputVars, envVars, cookieVars, gitVars, mergeVars,
                         reviewVars, bodyVars, wsVars, gdVars, grVars,
                         formVars>>
          /\ Sr!Next
       \/ part = "ws"
          /\ UNCHANGED <<inputVars, envVars, cookieVars, gitVars, mergeVars,
                         reviewVars, bodyVars, streamVars, gdVars, grVars,
                         formVars>>
          /\ Ws!Next
       \/ part = "grpc"
          /\ UNCHANGED <<inputVars, envVars, cookieVars, gitVars, mergeVars,
                         reviewVars, bodyVars, streamVars, wsVars, grVars,
                         formVars>>
          /\ Gd!Next
       \/ part = "results"
          /\ UNCHANGED <<inputVars, envVars, cookieVars, gitVars, mergeVars,
                         reviewVars, bodyVars, streamVars, wsVars, gdVars,
                         formVars>>
          /\ Gr!Next
       \/ part = "form"
          /\ UNCHANGED <<inputVars, envVars, cookieVars, gitVars, mergeVars,
                         reviewVars, bodyVars, streamVars, wsVars, gdVars,
                         grVars>>
          /\ Next

SpecAll == InitAll /\ [][NextAll]_allVars

----------------------------------------------------------------------------
\* TemplateInput: a field never holds a secret in the clear.
ChipsAreCiphertext == part = "input" => In!ChipsAreCiphertext

\* Environments: the active environment is one of those that are listed.
ActiveListed == part = "env" => En!ActiveListed

\* Cookies: what was typed in the editor is not taken by a reload or a
\* capture.
TypedIsKept == [][part = "cookie" => Co!OwnDraft]_allVars

\* GitStore: a status of an older worktree never replaces one of a newer.
BadgesNotOlder == [][part = "git" => Gi!NotOlder]_allVars

\* GitMerge: what only one side changed is kept, and clashes go as chosen.
BothSidesKept == part = "merge" => Me!BothSidesKept

\* GitReview: rolling back a folder's contents restores all that lies in it.
ContentsRestored == [][part = "review" => Re!Restores]_allVars

\* WindowedBody: rows and lines translate into each other under any folds.
FoldMapsAgree == part = "body" => Bo!FoldMapsAgree

\* StreamView: the status bar counts the frames the stream sent.
CountsWhatWasSent == part = "stream" => Sr!CountsWhatWasSent

\* WsView: no message is shown twice.
NoRepeats == part = "ws" => Ws!NoRepeats

\* GrpcDraft: no description that is late puts an empty form over an imported
\* body.
ImportedBodyKept == part = "grpc" => Gd!ImportedBodyKept

\* GrpcResults: a response of an earlier session never hides a failure.
FailureNotHidden == part = "results" => Gr!FailureNotHidden

\* OneofExclusive is GrpcForm's own.
=============================================================================
