--------------------------- MODULE RequestStore ---------------------------
(***************************************************************************)
(* The request store of the web UI (src-web/src/store/requests): a copy of *)
(* a workspace's folders, requests, WebSocket connections and gRPC         *)
(* requests that is changed before the backend has answered, and read      *)
(* again from the backend when an answer is an error.  A store action is   *)
(* asynchronous, so every await is a step of a call, and the calls the     *)
(* user and the MCP events start overlap.  A node carries its folder and   *)
(* one value that stands for its name, order and fields.                   *)
(***************************************************************************)
EXTENDS Integers, FiniteSets

CONSTANTS Folders, Requests, Connections, Grpcs,  \* ids, disjoint
          Workspaces,
          Calls,        \* the store actions that run
          None,         \* null
          Stored        \* what the backend holds at first: workspace -> id -> node

Ids == Folders \cup Requests \cup Connections \cup Grpcs
\* A saved pair (activeSnapshotId) is shown only when none of these is.
Kinds == {"folder", "request", "connection", "grpc"}

KindOf(i) == CASE i \in Folders -> "folder"
               [] i \in Requests -> "request"
               [] i \in Connections -> "connection"
               [] i \in Grpcs -> "grpc"

Node(parent, value) == [parent |-> parent, value |-> value]
Values == {0, 1}
Nodes == [parent : Folders \cup {None}, value : Values]

VARIABLES
    disk,       \* workspace -> id -> node or None, the backend's files
    items,      \* id -> node or None, the store's four arrays
    loaded,     \* loadedWorkspaceId
    active,     \* kind -> id or None, the active*Id fields
    call,       \* call -> what it does and how far it is
    disturbed   \* history: a step the store makes no promise about was taken

vars == <<disk, items, loaded, active, call, disturbed>>

IdleCall == [op |-> "none", pc |-> "idle", ws |-> None, id |-> None,
             node |-> None, got |-> None]

Init ==
    /\ disk = Stored
    /\ items = [i \in Ids |-> None]
    /\ loaded = None
    /\ active = [k \in Kinds |-> None]
    /\ call = [c \in Calls |-> IdleCall]
    /\ disturbed = FALSE

Present(it) == {i \in Ids : it[i] # None}
Pending == {c \in Calls : call[c].pc \notin {"idle", "done"}}

\* The folders under f in it, f included.
FoldersUnder(it, f) ==
    LET Closed(S) ==
            f \in S /\ \A g \in Folders \cap Present(it) : it[g].parent \in S => g \in S
    IN {g \in Folders : \A S \in SUBSET Folders : Closed(S) => g \in S}

Without(it, gone) == [i \in Ids |-> IF i \in gone THEN None ELSE it[i]]

----------------------------------------------------------------------------
(* Selecting a node. *)

OnlyActive(kind, i) == [k \in Kinds |-> IF k = kind THEN i ELSE None]

SetActiveRequest(i) ==
    /\ i \in Present(items) \cap Requests
    /\ active' = OnlyActive("request", i)
    /\ UNCHANGED <<disk, items, loaded, call, disturbed>>

SetActiveFolder(i) ==
    /\ i \in Present(items) \cap Folders
    /\ active' = OnlyActive("folder", i)
    /\ UNCHANGED <<disk, items, loaded, call, disturbed>>

SetActiveConnection(i) ==
    /\ i \in Present(items) \cap Connections
    /\ active' = OnlyActive("connection", i)
    /\ UNCHANGED <<disk, items, loaded, call, disturbed>>

SetActiveGrpc(i) ==
    /\ i \in Present(items) \cap Grpcs
    /\ active' = OnlyActive("grpc", i)
    /\ UNCHANGED <<disk, items, loaded, call, disturbed>>

\* focusFolderVariable and focusFolderHeader.
FocusFolder(i) ==
    /\ i \in Present(items) \cap Folders
    /\ active' = OnlyActive("folder", i)
    /\ UNCHANGED <<disk, items, loaded, call, disturbed>>

----------------------------------------------------------------------------
(* A call of a store action: what it does to the store at once, the        *)
(* backend's work, and what it does with the answer.                       *)

Begin(c, op, w, i, node, pc) ==
    /\ call[c].pc = "idle"
    /\ call' = [call EXCEPT ![c] = [op |-> op, pc |-> pc, ws |-> w, id |-> i,
                                    node |-> node, got |-> None]]
    \* Two calls that overlap may reach the backend in either order.
    /\ disturbed' = (disturbed \/ Pending # {})

\* load returns at once when the workspace is already the loaded one.
Load(c, w) ==
    /\ w # loaded
    /\ Begin(c, "load", w, None, None, "fetch")
    /\ UNCHANGED <<disk, items, loaded, active>>

Reload(c) ==
    /\ loaded # None
    /\ Begin(c, "reload", loaded, None, None, "fetch")
    /\ UNCHANGED <<disk, items, loaded, active>>

\* create*: nothing is shown before the backend has made the node.
Create(c, op, i, parent) ==
    /\ loaded # None
    /\ \A w \in Workspaces : disk[w][i] = None
    /\ items[i] = None
    /\ \A d \in Pending : call[d].id # i
    /\ parent \in (Present(items) \cap Folders) \cup {None}
    /\ Begin(c, op, loaded, i, Node(parent, 0), "sent")
    /\ UNCHANGED <<disk, items, loaded, active>>

Parents == Folders \cup {None}
CreateRequest(c) == \E i \in Requests, p \in Parents : Create(c, "create", i, p)
CreateGraphqlRequest(c) == \E i \in Requests, p \in Parents : Create(c, "createFilled", i, p)
CreateFolder(c) == \E i \in Folders, p \in Parents : Create(c, "create", i, p)
CreateConnection(c) == \E i \in Connections, p \in Parents : Create(c, "create", i, p)
CreateGrpc(c) == \E i \in Grpcs, p \in Parents : Create(c, "create", i, p)

\* duplicate*: as create, with the fields of an item beside it; a folder's
\* copy is read back whole.
Duplicate(c, i, from, op) ==
    /\ from \in Present(items) /\ KindOf(from) = KindOf(i)
    /\ Create(c, op, i, items[from].parent)

DuplicateRequest(c) == \E i, j \in Requests : Duplicate(c, i, j, "duplicate")
DuplicateFolder(c) == \E i, j \in Folders : Duplicate(c, i, j, "duplicateFolder")
DuplicateConnection(c) == \E i, j \in Connections : Duplicate(c, i, j, "duplicate")
DuplicateGrpc(c) == \E i, j \in Grpcs : Duplicate(c, i, j, "duplicate")

\* rename* and moveItems: shown at once, checked by syncOnFailure.
Edit(c, op, i, node) ==
    /\ loaded # None /\ i \in Present(items)
    /\ Begin(c, op, loaded, i, node, "sent")
    /\ items' = [items EXCEPT ![i] = node]
    /\ UNCHANGED <<disk, loaded, active>>

Revalue(c, op, i) == Edit(c, op, i, [items[i] EXCEPT !.value = 1 - @])

RenameRequest(c) == \E i \in Requests : Revalue(c, "rename", i)
RenameFolder(c) == \E i \in Folders : Revalue(c, "rename", i)
RenameConnection(c) == \E i \in Connections : Revalue(c, "rename", i)
RenameGrpc(c) == \E i \in Grpcs : Revalue(c, "rename", i)

MoveItems(c) ==
    \E i \in Present(items), p \in Parents \cap (Present(items) \cup {None}) :
        Edit(c, "move", i, Node(p, items[i].value))

\* update*: shown at once, the answer is not looked at.
UpdateRequest(c) == \E i \in Requests : Revalue(c, "update", i)
UpdateConnection(c) == \E i \in Connections : Revalue(c, "update", i)
UpdateGrpc(c) == \E i \in Grpcs : Revalue(c, "update", i)
UpdateFolder(c) == \E i \in Folders : Revalue(c, "update", i)
UpdateFolderColor(c) == \E i \in Folders : Revalue(c, "update", i)
UpdateFolderVariables(c) == \E i \in Folders : Revalue(c, "update", i)

\* The request shown after the active one is gone is the one that takes its
\* place in the array, or the one before: some request that is left, or none
\* when several are gone at once.
NextRequest(gone, next) ==
    IF active["request"] \notin gone THEN next = active["request"]
    ELSE LET left == (Present(items) \cap Requests) \ gone
         IN \/ next \in left
            \/ next = None /\ (left = {} \/ Cardinality(gone \cap Requests) > 1)

Delete(c, i, gone, cleared) ==
    /\ loaded # None
    /\ i \in Present(items)
    /\ Begin(c, "delete", loaded, i, None, "sent")
    /\ items' = Without(items, gone)
    /\ active' = cleared
    /\ UNCHANGED <<disk, loaded>>

DeleteRequest(c) ==
    \E i \in Requests, next \in Requests \cup {None} :
        /\ NextRequest({i}, next)
        /\ Delete(c, i, {i}, [active EXCEPT !["request"] = next])

\* A seeded fault: only a node at the top is looked at when panes are cleared.
ClearedShallow(kind, gone) ==
    IF active[kind] \in gone /\ items[active[kind]].parent = None THEN None ELSE active[kind]
Cleared(kind, gone) == IF active[kind] \in gone THEN None ELSE active[kind]

DeleteConnection(c) ==
    \E i \in Connections :
        Delete(c, i, {i}, [active EXCEPT !["connection"] = Cleared("connection", {i})])

DeleteGrpc(c) ==
    \E i \in Grpcs : Delete(c, i, {i}, [active EXCEPT !["grpc"] = Cleared("grpc", {i})])

\* A folder goes with the folders under it and the requests and connections in
\* them; its gRPC requests stay in the store.
FolderContent(f) ==
    LET fs == FoldersUnder(items, f)
    IN fs \cup {i \in (Requests \cup Connections) \cap Present(items) : items[i].parent \in fs}

DeleteFolder(c) ==
    \E f \in Folders, next \in Requests \cup {None} :
        LET gone == FolderContent(f)
        IN /\ NextRequest(gone, next)
           /\ Delete(c, f, gone,
                     [active EXCEPT !["request"] = next,
                                    !["folder"] = Cleared("folder", gone),
                                    !["connection"] = Cleared("connection", gone)])

----------------------------------------------------------------------------
(* The backend. *)

\* What the commands do to the files: check_parent refuses a cycle and a
\* folder that is not there; the cascade of delete_folder takes requests and
\* folders.
Applied(d, k) ==
    CASE k.op \in {"create", "createFilled", "duplicate", "duplicateFolder"} ->
            [d EXCEPT ![k.id] = k.node]
      [] k.op \in {"rename", "update"} -> [d EXCEPT ![k.id].value = k.node.value]
      [] k.op = "move" -> [d EXCEPT ![k.id] = k.node]
      [] k.op = "delete" ->
            IF k.id \notin Folders THEN Without(d, {k.id})
            ELSE LET fs == FoldersUnder(d, k.id)
                 IN Without(d, fs \cup {i \in Requests \cap Present(d) : d[i].parent \in fs})

Refused(d, k) ==
    \/ k.op \in {"rename", "update", "move"} /\ d[k.id] = None
    \/ /\ k.op \in {"create", "createFilled", "move"} /\ k.node.parent # None
       /\ d[k.node.parent] = None
    \/ k.op = "move" /\ k.id \in Folders /\ k.node.parent \in FoldersUnder(d, k.id)

\* Connections that a deleted folder holds are dropped from the store and
\* stay on the disk.
LeavesConnections(k) ==
    /\ k.op = "delete" /\ k.id \in Folders
    /\ \E i \in Connections \cap Present(disk[k.ws]) :
           disk[k.ws][i].parent \in FoldersUnder(disk[k.ws], k.id)

BackendOk(c) ==
    LET k == call[c]
    IN /\ k.pc = "sent"
       /\ ~Refused(disk[k.ws], k)
       /\ disk' = [disk EXCEPT ![k.ws] = Applied(@, k)]
       /\ call' = [call EXCEPT ![c].pc = IF k.op = "createFilled" THEN "fill" ELSE "ok"]
       /\ disturbed' = (disturbed \/ LeavesConnections(k))
       /\ UNCHANGED <<items, loaded, active>>

BackendError(c) ==
    /\ call[c].pc = "sent"
    /\ call' = [call EXCEPT ![c].pc = "error"]
    \* An update's error is not looked at.
    /\ disturbed' = (disturbed \/ call[c].op = "update")
    /\ UNCHANGED <<disk, items, loaded, active>>

\* createRequest with a body or headers sends a second command, whose answer
\* is not looked at.
Fill(c) ==
    LET k == call[c] IN
    /\ k.pc = "fill"
    /\ \/ /\ disk[k.ws][k.id] # None
          /\ disk' = [disk EXCEPT ![k.ws][k.id].value = 1]
          /\ UNCHANGED disturbed
       \/ disturbed' = TRUE /\ UNCHANGED disk
    /\ call' = [call EXCEPT ![c].pc = "ok", ![c].node.value = 1]
    /\ UNCHANGED <<items, loaded, active>>

----------------------------------------------------------------------------
(* The answer. *)

\* An action that has returned keeps nothing.
Returned(c) == call' = [call EXCEPT ![c] = [IdleCall EXCEPT !.pc = "done"]]

\* The new node is appended and opened; which other panes it closes depends on
\* its kind, and a folder is not opened.
Opened(i) ==
    CASE i \in Requests -> [active EXCEPT !["request"] = i, !["folder"] = None,
                                          !["connection"] = None]
      [] i \in Connections -> [active EXCEPT !["connection"] = i, !["request"] = None,
                                             !["folder"] = None]
      [] i \in Grpcs -> [active EXCEPT !["grpc"] = i, !["request"] = None,
                                       !["folder"] = None, !["connection"] = None]
      [] i \in Folders -> active

Append1(c) ==
    LET k == call[c]
        created == k.op \in {"create", "createFilled"}
    IN /\ k.pc = "ok" /\ k.op \in {"create", "createFilled", "duplicate"}
       /\ items' = [items EXCEPT ![k.id] = k.node]
       /\ active' = IF created THEN Opened(k.id) ELSE active
       /\ Returned(c)
       /\ disturbed' = (disturbed \/ k.ws # loaded)
       /\ UNCHANGED <<disk, loaded>>

\* A seeded fault: an error is taken for a success.
NeedsReloadNever(k) == k.pc = "ok" /\ k.op = "duplicateFolder"
\* duplicateFolder reads the workspace again; syncOnFailure does after an
\* error of a rename, a move or a delete.
NeedsReload(k) ==
    \/ k.pc = "ok" /\ k.op = "duplicateFolder"
    \/ k.pc = "error" /\ k.op \in {"rename", "move", "delete"}

SyncOnFailure(c) ==
    /\ NeedsReload(call[c])
    /\ call' = [call EXCEPT ![c].pc = "fetch", ![c].ws = loaded]
    /\ UNCHANGED <<disk, items, loaded, active, disturbed>>

Return(c) ==
    /\ call[c].pc \in {"ok", "error"}
    /\ ~NeedsReload(call[c])
    /\ call[c].pc = "ok" => call[c].op \in {"rename", "move", "delete", "update"}
    /\ Returned(c)
    /\ UNCHANGED <<disk, items, loaded, active, disturbed>>

\* fetchEntities: a list that fails is empty.  The four lists are read in one
\* step.
FetchEntities(c) ==
    /\ call[c].pc = "fetch"
    /\ \E failed \in {{}, {"request"}} :
          /\ call' = [call EXCEPT
                 ![c].pc = "fetched",
                 ![c].got = [i \in Ids |-> IF KindOf(i) \in failed THEN None
                                           ELSE disk[call[c].ws][i]]]
          /\ disturbed' = (disturbed \/ failed # {})
    /\ UNCHANGED <<disk, items, loaded, active>>

\* The request localStorage remembers for the workspace, which may be any that
\* still exists: it outlives the window.
Recallable(got) == (Present(got) \cap Requests) \cup {None}

\* load shows the remembered request; reload keeps what is shown.
ApplyLoad(c) ==
    LET k == call[c] IN
    /\ k.pc = "fetched" /\ k.op = "load"
    /\ items' = k.got
    /\ loaded' = k.ws
    /\ \E r \in Recallable(k.got) : active' = [active EXCEPT !["request"] = r]
    /\ Returned(c)
    /\ UNCHANGED <<disk, disturbed>>

ApplyReload(c) ==
    LET k == call[c] IN
    /\ k.pc = "fetched" /\ k.op # "load"
    /\ items' = k.got
    /\ Returned(c)
    /\ UNCHANGED <<disk, loaded, active, disturbed>>

----------------------------------------------------------------------------
SelectStep ==
    \E i \in Ids : \/ SetActiveRequest(i) \/ SetActiveFolder(i) \/ SetActiveConnection(i)
                   \/ SetActiveGrpc(i) \/ FocusFolder(i)
CreateStep(c) ==
    \/ CreateRequest(c) \/ CreateGraphqlRequest(c) \/ CreateFolder(c)
    \/ CreateConnection(c) \/ CreateGrpc(c)
    \/ DuplicateRequest(c) \/ DuplicateFolder(c) \/ DuplicateConnection(c) \/ DuplicateGrpc(c)
ChangeStep(c) ==
    \/ RenameRequest(c) \/ RenameFolder(c) \/ RenameConnection(c) \/ RenameGrpc(c)
    \/ MoveItems(c) \/ UpdateRequest(c) \/ UpdateConnection(c) \/ UpdateGrpc(c)
    \/ UpdateFolder(c) \/ UpdateFolderColor(c) \/ UpdateFolderVariables(c)
    \/ DeleteRequest(c) \/ DeleteConnection(c) \/ DeleteGrpc(c) \/ DeleteFolder(c)
AnswerStep(c) ==
    \/ BackendOk(c) \/ BackendError(c) \/ Fill(c) \/ Append1(c) \/ SyncOnFailure(c)
    \/ Return(c) \/ FetchEntities(c) \/ ApplyLoad(c) \/ ApplyReload(c)

Next ==
    \/ SelectStep
    \/ \E c \in Calls :
          \/ call[c].pc = "idle" /\ (CreateStep(c) \/ ChangeStep(c) \/ Reload(c))
          \/ call[c].pc = "idle" /\ \E w \in Workspaces : Load(c, w)
          \/ AnswerStep(c)

Spec == Init /\ [][Next]_vars

----------------------------------------------------------------------------
\* When no call is running, the store shows what the backend holds for the
\* workspace it says is loaded, unless two calls overlapped, a list or an
\* unchecked command failed, or a deleted folder held connections
\* (syncOnFailure: "so the UI doesn't silently diverge from what's saved").
SettledMatchesDisk ==
    Pending = {} /\ ~disturbed /\ loaded # None => items = disk[loaded]

\* A delete never leaves a pane on a node it has just removed from the store,
\* whatever was nested under the deleted folder.
DeleteClears ==
    \A c \in Calls :
        call[c].pc = "idle" /\ call'[c].op = "delete" =>
            \A k \in Kinds : active'[k] = None \/ active'[k] \in Present(items')
                             \/ active[k] \notin Present(items)
DeleteClearsPanes == [][DeleteClears]_vars

----------------------------------------------------------------------------
(* What the comments of the code say and the code does not keep. *)

\* At most one of the panes' ids is set: types.ts says of each that it is
\* "Mutually exclusive with the other `active*Id` fields."
ActiveExclusive == Cardinality({k \in Kinds : active[k] # None}) <= 1
=============================================================================
