------------------------------ MODULE Requests ------------------------------
(***************************************************************************)
(* The store of the requests, the tree that shows them, the templates that *)
(* are resolved when one is sent, and the cache of the tokens it is sent   *)
(* with.  They share no variable, so what holds of each alone holds of     *)
(* them together: a behaviour is one of one of them.                       *)
(***************************************************************************)
EXTENDS OAuthTokens, Integers, FiniteSets, Sequences

CONSTANTS
    Folders, Requests, Connections, Grpcs, Workspaces, StoreCalls,
    Stored,                                       \* see RequestStore
    TreeFolders, TreeRequests, TreeRoot, TreeStart, MaxEdits,  \* see RequestTree
    SentRequests, Sends, Questions, SentTexts     \* see Preflight

\* Every id is of one kind, and the placeholder is none; what the backend holds
\* at first is of nodes.
ASSUME StoreAssumption ==
    /\ Folders \cap (Requests \cup Connections \cup Grpcs) = {}
    /\ Requests \cap (Connections \cup Grpcs) = {}
    /\ Connections \cap Grpcs = {}
    /\ None \notin Folders \cup Requests \cup Connections \cup Grpcs \cup Workspaces
    /\ None \notin [parent : Folders \cup {None}, value : {0, 1}]
    /\ Stored \in [Workspaces -> [Folders \cup Requests \cup Connections \cup Grpcs ->
          [parent : Folders \cup {None}, value : {0, 1}] \cup {None}]]

VARIABLES
    part, \* the part that runs
    storeDisk, storeItems, storeLoaded, storeActive, storeCall, storeDisturbed,
    treeKids, treeClosed, treeFocused, treeChosen, treeAnchor, treePane,
    treeEdits,
    pfTask, pfResolving, pfCached, pfStored, pfCycle, pfDropped, pfOutcome,
    pfPrompts, pfRemembered

\* The request store and the actions that overlap in it.
St == INSTANCE RequestStore WITH
    Calls <- StoreCalls, disk <- storeDisk,
    items <- storeItems, loaded <- storeLoaded, active <- storeActive,
    call <- storeCall, disturbed <- storeDisturbed
storeVars == <<storeDisk, storeItems, storeLoaded, storeActive, storeCall,
               storeDisturbed>>
StOff ==
    /\ storeDisk = None /\ storeItems = None /\ storeLoaded = None
    /\ storeActive = None /\ storeCall = None /\ storeDisturbed = None

\* The cache is extended, and one that does not run has no token.
TokensOff == Init /\ interactive = {} /\ file = Empty

\* The tree.
Tr == INSTANCE RequestTree WITH
    Folders <- TreeFolders, Requests <- TreeRequests, Root <- TreeRoot,
    Start <- TreeStart, kids <- treeKids, closed <- treeClosed, focused <- treeFocused,
    chosen <- treeChosen, anchor <- treeAnchor, pane <- treePane,
    edits <- treeEdits
\* The rows are of one kind each and the tree is one at first.
ASSUME TreeAssumption ==
    /\ IsFiniteSet(Tr!Rows) /\ TreeRoot \notin Tr!Rows /\ None \notin Tr!Rows
    /\ TreeFolders \cap (TreeRequests \cup Grpcs) = {} /\ TreeRequests \cap Grpcs = {}
    /\ TreeStart \in [TreeFolders \cup {TreeRoot} -> Seq(Tr!Rows)] /\ Tr!Forest(TreeStart)
treeVars == <<treeKids, treeClosed, treeFocused, treeChosen, treeAnchor,
              treePane, treeEdits>>
TrOff ==
    /\ treeKids = None /\ treeClosed = None /\ treeFocused = None
    /\ treeChosen = None /\ treeAnchor = None /\ treePane = None
    /\ treeEdits = None

\* Sends whose templates send other requests.
Pf == INSTANCE Preflight WITH
    Reqs <- SentRequests, Text <- SentTexts, JarText <- <<>>,
    task <- pfTask, resolving <- pfResolving, cached <- pfCached,
    stored <- pfStored, cycle <- pfCycle, dropped <- pfDropped,
    outcome <- pfOutcome, prompts <- pfPrompts, remembered <- pfRemembered
\* Every template is one of a request, and the placeholder is no auth of one.
ASSUME TextsAssumption ==
    /\ None # Pf!NoAuth
    /\ \A r \in SentRequests : Pf!IsTemplates(SentTexts[r])
pfVars == <<pfTask, pfResolving, pfCached, pfStored, pfCycle, pfDropped,
            pfOutcome, pfPrompts, pfRemembered>>
PfOff ==
    /\ pfTask = None /\ pfResolving = None /\ pfCached = None
    /\ pfStored = None /\ pfCycle = None /\ pfDropped = None
    /\ pfOutcome = None /\ pfPrompts = None /\ pfRemembered = None

allVars == <<part, storeVars, vars, treeVars, pfVars>>

\* One part runs, and the others are off.
InitAll ==
    \/ part = "store" /\ St!Init /\ TokensOff /\ TrOff /\ PfOff
    \/ part = "tokens" /\ Init /\ StOff /\ TrOff /\ PfOff
    \/ part = "tree" /\ Tr!Init /\ StOff /\ TokensOff /\ PfOff
    \/ part = "preflight" /\ Pf!Init /\ StOff /\ TokensOff /\ TrOff

NextAll ==
    /\ UNCHANGED part
    /\ \/ part = "store"
          /\ UNCHANGED <<vars, treeVars, pfVars>>
          /\ St!Next
       \/ part = "tokens"
          /\ UNCHANGED <<storeVars, treeVars, pfVars>>
          /\ Next
       \/ part = "tree"
          /\ UNCHANGED <<storeVars, vars, pfVars>>
          /\ Tr!Next
       \/ part = "preflight"
          /\ UNCHANGED <<storeVars, vars, treeVars>>
          /\ Pf!Next

SpecAll == InitAll /\ [][NextAll]_allVars

----------------------------------------------------------------------------
\* RequestStore: with no call running the store shows what the backend holds,
\* whatever calls failed and were undone.
SettledMatchesDisk == part = "store" => St!SettledMatchesDisk

\* RequestStore: a delete never leaves a pane on a node it removed.
DeleteClearsPanes == [][part = "store" => St!DeleteClears]_allVars

\* RefreshTokenSpentOnce is OAuthTokens' own.

\* RequestTree: deleting a shown row leaves the focus on a row of the tree.
DeleteLandsOnSurvivor == [][part = "tree" => Tr!LandsOnSurvivor]_allVars

\* RequestTree: every row is in one list, once, and under the root.
NothingOutOfSight == part = "tree" => Tr!NothingOutOfSight

\* Preflight: a mark against cycles is held by what runs, whatever failed or
\* was aborted.
MarksAreLive == part = "preflight" => Pf!MarksAreLive
=============================================================================
