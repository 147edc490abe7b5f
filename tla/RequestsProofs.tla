-------------------------- MODULE RequestsProofs --------------------------
(***************************************************************************)
(* Theorems about Requests.  Of the request store, for any folders,        *)
(* requests and connections, and any number of overlapping store actions:  *)
(* what it shows when none is running, and the panes that a delete leaves. *)
(* Of the pre-flights, for any templates and any number of sends: what is  *)
(* marked as being resolved is being resolved.  Of the sidebar tree, for   *)
(* any finite set of rows and any tree of them: nothing goes out of sight, *)
(* and a delete lands on a row that is left.                               *)
(***************************************************************************)
EXTENDS Requests, SequenceTheorems, FiniteSetTheorems, WellFoundedInduction, TLAPS

MaybeNode == St!Nodes \cup {None}

\* What a workspace holds, in the backend's files or in the store.
Contents == [St!Ids -> MaybeNode]

Creates == {"create", "createFilled", "duplicate"}
Edits == {"rename", "update", "move"}
Ops == Creates \cup Edits \cup {"none", "load", "reload", "duplicateFolder", "delete"}
Pcs == {"idle", "sent", "fill", "ok", "error", "fetch", "fetched", "done"}

StoreCall == [op : Ops, pc : Pcs, ws : Workspaces \cup {None}, id : St!Ids \cup {None},
              node : MaybeNode, got : Contents \cup {None}]

\* The fields that a call has when it gets to where they are used; one that has
\* not begun does nothing yet.
Filled(k, loaded) ==
    /\ k.pc \in {"sent", "fill", "ok", "error"} =>
           /\ k.op \in Creates \cup Edits \cup {"duplicateFolder", "delete"}
           /\ loaded # None /\ k.ws # None /\ k.id # None
           /\ k.op \in Creates \cup Edits \cup {"duplicateFolder"} => k.node # None
    /\ k.pc \in {"fetch", "fetched"} => k.ws # None
    /\ k.pc = "fetched" => k.got \in Contents
    /\ k.pc = "fill" => k.op = "createFilled"
    /\ k.pc = "idle" => k.op = "none"

ActiveType(active) ==
    /\ active \in [St!Kinds -> St!Ids \cup {None}]
    /\ active["folder"] \in Folders \cup {None}
    /\ active["request"] \in Requests \cup {None}
    /\ active["connection"] \in Connections \cup {None}
    /\ active["grpc"] \in Grpcs \cup {None}

StoreTypes ==
    /\ storeDisk \in [Workspaces -> Contents]
    /\ storeItems \in Contents
    /\ storeLoaded \in Workspaces \cup {None}
    /\ storeDisturbed \in BOOLEAN
    /\ ActiveType(storeActive)
    /\ storeCall \in [StoreCalls -> StoreCall]
    /\ \A c \in StoreCalls : Filled(storeCall[c], storeLoaded)

-----------------------------------------------------------------------------
(* Types. *)

\* The assumptions on the constants, in the store's words.
LEMMA StoreConstants ==
    /\ None \notin St!Ids /\ None \notin St!Nodes /\ None \notin Workspaces
    /\ Folders \cap Requests = {} /\ Folders \cap Connections = {}
    /\ Folders \cap Grpcs = {} /\ Requests \cap Connections = {}
    /\ Requests \cap Grpcs = {} /\ Connections \cap Grpcs = {}
    /\ Stored \in [Workspaces -> Contents]
  BY StoreAssumption DEF StoreAssumption, St!Ids, St!Nodes, St!Values, Contents, MaybeNode

\* A call that begins has the fields it was given, and no call ran beside one
\* that begins undisturbed.
LEMMA BeginFacts ==
    ASSUME StoreTypes, NEW c \in StoreCalls,
           NEW op \in Ops, NEW w \in Workspaces, NEW i \in St!Ids \cup {None},
           NEW node \in MaybeNode, NEW at \in {"sent", "fetch"},
           St!Begin(c, op, w, i, node, at),
           at = "sent" => /\ i # None /\ storeLoaded # None
                          /\ op \in Creates \cup Edits \cup {"duplicateFolder", "delete"},
           at = "sent" /\ op \in Creates \cup Edits \cup {"duplicateFolder"} => node # None,
           storeLoaded' = storeLoaded
    PROVE  /\ storeCall' \in [StoreCalls -> StoreCall]
           /\ \A d \in StoreCalls : Filled(storeCall'[d], storeLoaded')
           /\ storeDisturbed' \in BOOLEAN
  <1> DEFINE k == [op |-> op, pc |-> at, ws |-> w, id |-> i, node |-> node, got |-> None]
  <1>1. k \in StoreCall
    BY DEF StoreCall, Pcs
  <1>2. Filled(k, storeLoaded)
    BY StoreConstants DEF Filled
  <1>3. storeCall' = [storeCall EXCEPT ![c] = k]
    BY DEF St!Begin
  <1> HIDE DEF k
  <1>4. storeDisturbed' \in BOOLEAN
    BY DEF St!Begin, StoreTypes
  <1> QED  BY <1>1, <1>2, <1>3, <1>4 DEF StoreTypes

LEMMA WithoutType ==
    ASSUME NEW it \in Contents, NEW gone
    PROVE  /\ St!Without(it, gone) \in Contents
           /\ St!Present(St!Without(it, gone)) = St!Present(it) \ gone
  BY StoreConstants DEF Contents, MaybeNode, St!Without, St!Present

LEMMA CreateTypes ==
    ASSUME StoreTypes, NEW c \in StoreCalls, St!CreateStep(c)
    PROVE  StoreTypes'
  <1>1. ASSUME NEW op \in Creates \cup {"duplicateFolder"}, NEW i \in St!Ids,
               NEW p, St!Create(c, op, i, p)
        PROVE  StoreTypes'
    <2> DEFINE node == St!Node(p, 0)
    <2>1. /\ storeLoaded \in Workspaces /\ storeLoaded # None
          /\ p \in Folders \cup {None}
          /\ St!Begin(c, op, storeLoaded, i, node, "sent")
          /\ UNCHANGED <<storeDisk, storeItems, storeLoaded, storeActive>>
      BY <1>1 DEF St!Create, StoreTypes
    <2>2. node \in MaybeNode /\ node # None
      BY <2>1, StoreConstants DEF MaybeNode, St!Node, St!Nodes, St!Values
    <2> HIDE DEF node
    <2>3. op \in Ops /\ i # None
      BY StoreConstants DEF Ops
    <2>4. /\ storeCall' \in [StoreCalls -> StoreCall]
          /\ \A d \in StoreCalls : Filled(storeCall'[d], storeLoaded')
          /\ storeDisturbed' \in BOOLEAN
      BY <2>1, <2>2, <2>3, BeginFacts
    <2> QED  BY <2>1, <2>4 DEF StoreTypes
  <1>2. PICK op \in Creates \cup {"duplicateFolder"}, i \in St!Ids :
            \E p : St!Create(c, op, i, p)
    BY DEF St!CreateStep, St!CreateRequest, St!CreateGraphqlRequest, St!CreateFolder,
           St!CreateConnection, St!CreateGrpc, St!DuplicateRequest, St!DuplicateFolder,
           St!DuplicateConnection, St!DuplicateGrpc, St!Duplicate, Creates, St!Ids
  <1> QED  BY <1>1, <1>2

\* An edit shows a node of its own, which differs from the one shown only in its
\* value unless it moves.
LEMMA EditFacts ==
    ASSUME StoreTypes, NEW c \in StoreCalls,
           \/ St!RenameRequest(c) \/ St!RenameFolder(c) \/ St!RenameConnection(c)
           \/ St!RenameGrpc(c) \/ St!MoveItems(c) \/ St!UpdateRequest(c)
           \/ St!UpdateConnection(c) \/ St!UpdateGrpc(c) \/ St!UpdateFolder(c)
           \/ St!UpdateFolderColor(c) \/ St!UpdateFolderVariables(c)
    PROVE  \E op \in Edits, i \in St!Present(storeItems), node \in St!Nodes :
              /\ St!Edit(c, op, i, node)
              /\ op # "move" => node = [storeItems[i] EXCEPT !.value = node.value]
  <1>1. ASSUME NEW op \in {"rename", "update"}, NEW i \in St!Ids, St!Revalue(c, op, i)
        PROVE  \E node \in St!Nodes :
                  /\ i \in St!Present(storeItems)
                  /\ St!Edit(c, op, i, node)
                  /\ node = [storeItems[i] EXCEPT !.value = node.value]
    <2> DEFINE node == [storeItems[i] EXCEPT !.value = 1 - @]
    <2>1. i \in St!Present(storeItems) /\ St!Edit(c, op, i, node)
      BY <1>1 DEF St!Revalue, St!Edit
    <2>2. storeItems[i] \in St!Nodes
      BY <2>1 DEF StoreTypes, Contents, MaybeNode, St!Present
    <2>3. node \in St!Nodes /\ node = [storeItems[i] EXCEPT !.value = node.value]
      BY <2>2 DEF St!Nodes, St!Values
    <2> QED  BY <2>1, <2>3
  <1>2. ASSUME St!MoveItems(c)
        PROVE  \E i \in St!Present(storeItems), node \in St!Nodes : St!Edit(c, "move", i, node)
    <2>1. PICK i \in St!Present(storeItems), p \in Folders \cup {None} :
              St!Edit(c, "move", i, St!Node(p, storeItems[i].value))
      BY <1>2 DEF St!MoveItems, St!Parents
    <2>2. storeItems[i] \in St!Nodes
      BY <2>1 DEF StoreTypes, Contents, MaybeNode, St!Present
    <2>3. St!Node(p, storeItems[i].value) \in St!Nodes
      BY <2>2 DEF St!Nodes, St!Node
    <2> QED  BY <2>1, <2>3
  <1>3. \A i \in Requests \cup Folders \cup Connections \cup Grpcs : i \in St!Ids
    BY DEF St!Ids
  <1>4. CASE St!MoveItems(c)
    BY <1>2, <1>4 DEF Edits
  <1>5. CASE \E op \in {"rename", "update"}, i \in St!Ids : St!Revalue(c, op, i)
    BY <1>1, <1>5 DEF Edits
  <1> QED
    BY <1>3, <1>4, <1>5
       DEF St!RenameRequest, St!RenameFolder, St!RenameConnection, St!RenameGrpc,
           St!UpdateRequest, St!UpdateConnection, St!UpdateGrpc, St!UpdateFolder,
           St!UpdateFolderColor, St!UpdateFolderVariables

LEMMA EditTypes ==
    ASSUME StoreTypes, NEW c \in StoreCalls,
           NEW op \in Edits, NEW i \in St!Present(storeItems), NEW node \in St!Nodes,
           St!Edit(c, op, i, node)
    PROVE  StoreTypes'
  <1>1. /\ storeLoaded \in Workspaces /\ storeLoaded # None
        /\ i \in St!Ids /\ i # None /\ node \in MaybeNode /\ node # None
        /\ op \in Ops
        /\ St!Begin(c, op, storeLoaded, i, node, "sent")
        /\ storeItems' = [storeItems EXCEPT ![i] = node]
        /\ UNCHANGED <<storeDisk, storeLoaded, storeActive>>
    BY StoreConstants DEF St!Edit, StoreTypes, Ops, MaybeNode, St!Present
  <1>2. /\ storeCall' \in [StoreCalls -> StoreCall]
        /\ \A d \in StoreCalls : Filled(storeCall'[d], storeLoaded')
        /\ storeDisturbed' \in BOOLEAN
    BY <1>1, BeginFacts
  <1>3. storeItems' \in Contents
    BY <1>1 DEF StoreTypes, Contents
  <1> QED  BY <1>1, <1>2, <1>3 DEF StoreTypes

\* What a delete of node i takes out of the store.
Gone(it, i) ==
    IF i \notin Folders THEN {i}
    ELSE LET fs == St!FoldersUnder(it, i)
         IN fs \cup {j \in (Requests \cup Connections) \cap St!Present(it) : it[j].parent \in fs}

\* A pane that showed a node shows one that is left, or none.
Left(it, gone, before, after) ==
    \A k \in St!Kinds : \/ after[k] = None
                        \/ after[k] \in St!Present(it) \ gone
                        \/ before[k] \notin St!Present(it)

LEMMA DeleteFacts ==
    ASSUME StoreTypes, NEW c \in StoreCalls,
           St!DeleteRequest(c) \/ St!DeleteConnection(c) \/ St!DeleteGrpc(c) \/ St!DeleteFolder(c)
    PROVE  \E i \in St!Present(storeItems) : \E cleared :
              /\ St!Delete(c, i, Gone(storeItems, i), cleared)
              /\ ActiveType(cleared)
              /\ Left(storeItems, Gone(storeItems, i), storeActive, cleared)
  <1> USE StoreConstants
  <1>1. ActiveType(storeActive) /\ St!Kinds = {"folder", "request", "connection", "grpc"}
    BY DEF StoreTypes, St!Kinds
  <1>2. ASSUME NEW i \in Requests, NEW next \in Requests \cup {None},
               St!NextRequest({i}, next),
               St!Delete(c, i, {i}, [storeActive EXCEPT !["request"] = next])
        PROVE  \E cleared :
                  /\ i \in St!Present(storeItems)
                  /\ St!Delete(c, i, Gone(storeItems, i), cleared)
                  /\ ActiveType(cleared)
                  /\ Left(storeItems, Gone(storeItems, i), storeActive, cleared)
    <2> DEFINE cleared == [storeActive EXCEPT !["request"] = next]
    <2>1. i \in St!Present(storeItems) /\ Gone(storeItems, i) = {i} /\ i \in St!Ids
      BY <1>2 DEF St!Delete, Gone, St!Ids
    <2>2. ActiveType(cleared)
      BY <1>1 DEF ActiveType, St!Ids
    <2>3. \/ next = None
          \/ next \in St!Present(storeItems) \ {i}
          \/ storeActive["request"] \notin St!Present(storeItems)
      BY <1>2 DEF St!NextRequest
    <2>4. Left(storeItems, {i}, storeActive, cleared)
      BY <1>1, <2>3 DEF Left, ActiveType
    <2> QED  BY <1>2, <2>1, <2>2, <2>4
  <1>3. ASSUME NEW i \in Connections,
               St!Delete(c, i, {i},
                   [storeActive EXCEPT !["connection"] = St!Cleared("connection", {i})])
        PROVE  \E cleared :
                  /\ i \in St!Present(storeItems)
                  /\ St!Delete(c, i, Gone(storeItems, i), cleared)
                  /\ ActiveType(cleared)
                  /\ Left(storeItems, Gone(storeItems, i), storeActive, cleared)
    <2> DEFINE cleared == [storeActive EXCEPT !["connection"] = St!Cleared("connection", {i})]
    <2>1. i \in St!Present(storeItems) /\ Gone(storeItems, i) = {i} /\ i \in St!Ids
      BY <1>3 DEF St!Delete, Gone, St!Ids
    <2>2. ActiveType(cleared)
      BY <1>1 DEF ActiveType, St!Ids, St!Cleared
    <2>3. Left(storeItems, {i}, storeActive, cleared)
      BY <1>1 DEF Left, ActiveType, St!Cleared
    <2> QED  BY <1>3, <2>1, <2>2, <2>3
  <1>4. ASSUME NEW i \in Grpcs,
               St!Delete(c, i, {i}, [storeActive EXCEPT !["grpc"] = St!Cleared("grpc", {i})])
        PROVE  \E cleared :
                  /\ i \in St!Present(storeItems)
                  /\ St!Delete(c, i, Gone(storeItems, i), cleared)
                  /\ ActiveType(cleared)
                  /\ Left(storeItems, Gone(storeItems, i), storeActive, cleared)
    <2> DEFINE cleared == [storeActive EXCEPT !["grpc"] = St!Cleared("grpc", {i})]
    <2>1. i \in St!Present(storeItems) /\ Gone(storeItems, i) = {i} /\ i \in St!Ids
      BY <1>4 DEF St!Delete, Gone, St!Ids
    <2>2. ActiveType(cleared)
      BY <1>1 DEF ActiveType, St!Ids, St!Cleared
    <2>3. Left(storeItems, {i}, storeActive, cleared)
      BY <1>1 DEF Left, ActiveType, St!Cleared
    <2> QED  BY <1>4, <2>1, <2>2, <2>3
  <1>5. ASSUME NEW f \in Folders, NEW next \in Requests \cup {None},
               St!NextRequest(St!FolderContent(f), next),
               St!Delete(c, f, St!FolderContent(f),
                   [storeActive EXCEPT !["request"] = next,
                       !["folder"] = St!Cleared("folder", St!FolderContent(f)),
                       !["connection"] = St!Cleared("connection", St!FolderContent(f))])
        PROVE  \E cleared :
                  /\ f \in St!Present(storeItems)
                  /\ St!Delete(c, f, Gone(storeItems, f), cleared)
                  /\ ActiveType(cleared)
                  /\ Left(storeItems, Gone(storeItems, f), storeActive, cleared)
    <2> DEFINE gone == St!FolderContent(f)
               cleared == [storeActive EXCEPT !["request"] = next,
                              !["folder"] = St!Cleared("folder", gone),
                              !["connection"] = St!Cleared("connection", gone)]
    <2>1. /\ f \in St!Present(storeItems) /\ Gone(storeItems, f) = gone
          /\ gone \cap Grpcs = {}
      <3>1. f \in St!Present(storeItems) /\ Gone(storeItems, f) = gone
        BY <1>5 DEF St!Delete, Gone, St!FolderContent
      <3>2. St!FoldersUnder(storeItems, f) \subseteq Folders
        BY DEF St!FoldersUnder
      <3>3. gone \subseteq Folders \cup Requests \cup Connections
        BY <3>2 DEF St!FolderContent
      <3> QED  BY <3>1, <3>3
    <2> HIDE DEF gone
    <2>2. ActiveType(cleared)
      BY <1>1 DEF ActiveType, St!Ids, St!Cleared
    <2>3. \/ next = None
          \/ next \in St!Present(storeItems) \ gone
          \/ storeActive["request"] \notin St!Present(storeItems)
      BY <1>5 DEF St!NextRequest, gone
    <2>4. Left(storeItems, gone, storeActive, cleared)
      BY <1>1, <2>1, <2>3 DEF Left, ActiveType, St!Cleared
    <2> QED  BY <1>5, <2>1, <2>2, <2>4 DEF gone
  <1>6. CASE St!DeleteRequest(c)
    BY <1>2, <1>6 DEF St!DeleteRequest
  <1>7. CASE St!DeleteConnection(c)
    BY <1>3, <1>7 DEF St!DeleteConnection
  <1>8. CASE St!DeleteGrpc(c)
    BY <1>4, <1>8 DEF St!DeleteGrpc
  <1>9. CASE St!DeleteFolder(c)
    BY <1>5, <1>9 DEF St!DeleteFolder
  <1> QED  BY <1>6, <1>7, <1>8, <1>9

LEMMA DeleteTypes ==
    ASSUME StoreTypes, NEW c \in StoreCalls, NEW i \in St!Present(storeItems),
           NEW gone, NEW cleared, St!Delete(c, i, gone, cleared), ActiveType(cleared)
    PROVE  StoreTypes'
  <1>1. /\ storeLoaded \in Workspaces /\ storeLoaded # None
        /\ i \in St!Ids /\ i # None /\ None \in MaybeNode
        /\ "delete" \in Ops /\ "delete" \notin Creates \cup Edits \cup {"duplicateFolder"}
        /\ St!Begin(c, "delete", storeLoaded, i, None, "sent")
        /\ storeItems' = St!Without(storeItems, gone)
        /\ storeActive' = cleared
        /\ UNCHANGED <<storeDisk, storeLoaded>>
    BY StoreConstants
       DEF St!Delete, StoreTypes, Ops, Creates, Edits, MaybeNode, St!Present
  <1>2. /\ storeCall' \in [StoreCalls -> StoreCall]
        /\ \A d \in StoreCalls : Filled(storeCall'[d], storeLoaded')
        /\ storeDisturbed' \in BOOLEAN
    BY <1>1, BeginFacts
  <1>3. storeItems' \in Contents
    BY <1>1, WithoutType DEF StoreTypes
  <1> QED  BY <1>1, <1>2, <1>3 DEF StoreTypes

\* A step of a call leaves the others as they are.
LEMMA CallTypes ==
    ASSUME StoreTypes, NEW c \in StoreCalls, NEW k \in StoreCall,
           storeCall' = [storeCall EXCEPT ![c] = k], Filled(k, storeLoaded'),
           storeLoaded # None => storeLoaded' # None
    PROVE  /\ storeCall' \in [StoreCalls -> StoreCall]
           /\ \A d \in StoreCalls : Filled(storeCall'[d], storeLoaded')
  BY DEF StoreTypes, Filled

\* The files after a command that was not refused.
LEMMA AppliedType ==
    ASSUME NEW d \in Contents, NEW k \in StoreCall, k.id # None,
           k.op \in Creates \cup Edits \cup {"duplicateFolder"} => k.node # None,
           k.op \in Creates \cup Edits \cup {"duplicateFolder", "delete"},
           ~St!Refused(d, k)
    PROVE  St!Applied(d, k) \in Contents
  <1>1. k.id \in St!Ids
    BY DEF StoreCall
  <1>2. CASE k.op \in Creates \cup {"duplicateFolder", "move"}
    <2>1. St!Applied(d, k) = [d EXCEPT ![k.id] = k.node]
      BY <1>2 DEF St!Applied, Creates
    <2>2. k.node \in MaybeNode
      BY DEF StoreCall
    <2> QED  BY <1>1, <2>1, <2>2 DEF Contents
  <1>3. CASE k.op \in {"rename", "update"}
    <2>1. St!Applied(d, k) = [d EXCEPT ![k.id].value = k.node.value]
      BY <1>3 DEF St!Applied
    <2>2. k.node \in St!Nodes
      BY <1>3 DEF StoreCall, Edits, MaybeNode
    <2>3. d[k.id] \in St!Nodes
      BY <1>1, <1>3 DEF St!Refused, Contents, MaybeNode
    <2>4. [d[k.id] EXCEPT !.value = k.node.value] \in St!Nodes
      BY <2>2, <2>3 DEF St!Nodes
    <2> QED  BY <1>1, <2>1, <2>4 DEF Contents, MaybeNode
  <1>4. CASE k.op = "delete"
    <2>1. \E gone : St!Applied(d, k) = St!Without(d, gone)
      BY <1>4 DEF St!Applied
    <2> QED  BY <2>1, WithoutType
  <1> QED  BY <1>2, <1>3, <1>4 DEF Edits

LEMMA OpenedType ==
    ASSUME ActiveType(storeActive), NEW i \in St!Ids
    PROVE  ActiveType(St!Opened(i))
  BY StoreConstants DEF ActiveType, St!Opened, St!Ids, St!Kinds

\* The answer to a call, its steps one by one.
LEMMA BackendTypes ==
    ASSUME StoreTypes, NEW c \in StoreCalls,
           St!BackendOk(c) \/ St!BackendError(c) \/ St!Fill(c)
    PROVE  StoreTypes'
  <1> DEFINE k == storeCall[c]
  <1>1. k \in StoreCall /\ Filled(k, storeLoaded)
    BY DEF StoreTypes
  <1>2. CASE St!BackendOk(c)
    <2>1. k.pc = "sent" /\ k.ws \in Workspaces /\ k.id # None
      BY <1>1, <1>2 DEF St!BackendOk, Filled, StoreCall
    <2>2. ~St!Refused(storeDisk[k.ws], k) /\ storeDisk[k.ws] \in Contents
      BY <1>2, <2>1 DEF St!BackendOk, StoreTypes
    <2>3. CASE k.op \in Creates \cup Edits \cup {"duplicateFolder", "delete"}
      <3>1. St!Applied(storeDisk[k.ws], k) \in Contents
        <4> HIDE DEF k
        <4> QED  BY <1>1, <2>1, <2>2, <2>3, AppliedType DEF Filled
      <3>2. storeDisk' \in [Workspaces -> Contents]
        BY <1>2, <2>1, <3>1 DEF St!BackendOk, StoreTypes
      <3> DEFINE k2 == [k EXCEPT !.pc = IF k.op = "createFilled" THEN "fill" ELSE "ok"]
      <3>3. k2 \in StoreCall /\ Filled(k2, storeLoaded)
        BY <1>1, <2>1 DEF StoreCall, Filled, Pcs
      <3>4. /\ storeCall' = [storeCall EXCEPT ![c] = k2]
            /\ storeDisturbed' \in BOOLEAN
            /\ UNCHANGED <<storeItems, storeLoaded, storeActive>>
        BY <1>2 DEF St!BackendOk, StoreTypes
      <3> HIDE DEF k2
      <3>5. /\ storeCall' \in [StoreCalls -> StoreCall]
            /\ \A d \in StoreCalls : Filled(storeCall'[d], storeLoaded')
        BY <3>3, <3>4, CallTypes
      <3> QED  BY <3>2, <3>4, <3>5 DEF StoreTypes
    <2> QED  BY <1>1, <2>1, <2>3 DEF Filled
  <1>3. CASE St!BackendError(c)
    <2> DEFINE k2 == [k EXCEPT !.pc = "error"]
    <2>1. k2 \in StoreCall /\ Filled(k2, storeLoaded)
      BY <1>1, <1>3 DEF St!BackendError, StoreCall, Filled, Pcs
    <2>2. /\ storeCall' = [storeCall EXCEPT ![c] = k2]
          /\ storeDisturbed' \in BOOLEAN
          /\ UNCHANGED <<storeDisk, storeItems, storeLoaded, storeActive>>
      BY <1>3 DEF St!BackendError, StoreTypes
    <2> HIDE DEF k2
    <2>3. /\ storeCall' \in [StoreCalls -> StoreCall]
          /\ \A d \in StoreCalls : Filled(storeCall'[d], storeLoaded')
      BY <2>1, <2>2, CallTypes
    <2> QED  BY <2>2, <2>3 DEF StoreTypes
  <1>4. CASE St!Fill(c)
    <2> DEFINE k2 == [k EXCEPT !.pc = "ok", !.node.value = 1]
    <2>1. /\ k.pc = "fill" /\ k.ws \in Workspaces /\ k.id \in St!Ids
          /\ k.node \in St!Nodes
      BY <1>1, <1>4 DEF St!Fill, Filled, StoreCall, MaybeNode, Creates
    <2>2. k2 \in StoreCall /\ Filled(k2, storeLoaded)
      <3>1. [k.node EXCEPT !.value = 1] \in St!Nodes
        BY <2>1 DEF St!Nodes, St!Values
      <3> QED  BY <1>1, <2>1, <3>1, StoreConstants DEF StoreCall, Filled, Pcs, MaybeNode, Creates
    <2>3. storeDisk' \in [Workspaces -> Contents] /\ storeDisturbed' \in BOOLEAN
      <3>1. CASE /\ storeDisk[k.ws][k.id] # None
                 /\ storeDisk' = [storeDisk EXCEPT ![k.ws][k.id].value = 1]
                 /\ UNCHANGED storeDisturbed
        <4>1. storeDisk[k.ws] \in Contents
          BY <2>1 DEF StoreTypes
        <4>2. storeDisk[k.ws][k.id] \in St!Nodes
          BY <2>1, <3>1, <4>1 DEF Contents, MaybeNode
        <4>3. [storeDisk[k.ws][k.id] EXCEPT !.value = 1] \in St!Nodes
          BY <4>2 DEF St!Nodes, St!Values
        <4>4. [storeDisk[k.ws] EXCEPT ![k.id] = [storeDisk[k.ws][k.id] EXCEPT !.value = 1]]
                  \in Contents
          BY <2>1, <4>1, <4>3 DEF Contents, MaybeNode
        <4> QED  BY <2>1, <3>1, <4>4 DEF StoreTypes
      <3>2. CASE storeDisturbed' = TRUE /\ UNCHANGED storeDisk
        BY <3>2 DEF StoreTypes
      <3> QED  BY <1>4, <3>1, <3>2 DEF St!Fill
    <2>4. /\ storeCall' = [storeCall EXCEPT ![c] = k2]
          /\ UNCHANGED <<storeItems, storeLoaded, storeActive>>
      BY <1>4 DEF St!Fill, StoreTypes
    <2> HIDE DEF k2
    <2>5. /\ storeCall' \in [StoreCalls -> StoreCall]
          /\ \A d \in StoreCalls : Filled(storeCall'[d], storeLoaded')
      BY <2>2, <2>4, CallTypes
    <2> QED  BY <2>3, <2>4, <2>5 DEF StoreTypes
  <1> QED  BY <1>2, <1>3, <1>4

\* A call that has returned keeps nothing.
LEMMA ReturnedFacts ==
    ASSUME StoreTypes, NEW c \in StoreCalls, St!Returned(c),
           storeLoaded # None => storeLoaded' # None
    PROVE  /\ storeCall' \in [StoreCalls -> StoreCall]
           /\ \A d \in StoreCalls : Filled(storeCall'[d], storeLoaded')
           /\ storeCall' = [storeCall EXCEPT ![c] = [St!IdleCall EXCEPT !.pc = "done"]]
  <1> DEFINE k == [St!IdleCall EXCEPT !.pc = "done"]
  <1>1. k \in StoreCall /\ Filled(k, storeLoaded')
    BY DEF StoreCall, Filled, Pcs, Ops, MaybeNode, St!IdleCall
  <1>2. storeCall' = [storeCall EXCEPT ![c] = k]
    BY DEF St!Returned
  <1> HIDE DEF k
  <1>3. /\ storeCall' \in [StoreCalls -> StoreCall]
        /\ \A d \in StoreCalls : Filled(storeCall'[d], storeLoaded')
    BY <1>1, <1>2, CallTypes
  <1> QED  BY <1>2, <1>3 DEF k

LEMMA AnswerTypes ==
    ASSUME StoreTypes, NEW c \in StoreCalls, St!AnswerStep(c)
    PROVE  StoreTypes'
  <1> DEFINE k == storeCall[c]
  <1>1. k \in StoreCall /\ Filled(k, storeLoaded)
    BY DEF StoreTypes
  <1>2. CASE St!BackendOk(c) \/ St!BackendError(c) \/ St!Fill(c)
    BY <1>2, BackendTypes
  <1>3. CASE St!Append1(c)
    <2>1. /\ k.id \in St!Ids /\ k.node \in MaybeNode
          /\ storeItems' = [storeItems EXCEPT ![k.id] = k.node]
          /\ storeActive' = storeActive \/ storeActive' = St!Opened(k.id)
          /\ St!Returned(c) /\ UNCHANGED <<storeDisk, storeLoaded>>
          /\ storeDisturbed' \in BOOLEAN
      BY <1>1, <1>3 DEF St!Append1, StoreTypes, StoreCall, Filled
    <2>2. ActiveType(storeActive')
      BY <2>1, OpenedType DEF StoreTypes
    <2>3. storeItems' \in Contents
      BY <2>1 DEF StoreTypes, Contents
    <2> QED  BY <2>1, <2>2, <2>3, ReturnedFacts DEF StoreTypes
  <1>4. CASE St!SyncOnFailure(c)
    <2> DEFINE k2 == [k EXCEPT !.pc = "fetch", !.ws = storeLoaded]
    <2>1. k2 \in StoreCall /\ Filled(k2, storeLoaded)
      BY <1>1, <1>4 DEF St!SyncOnFailure, St!NeedsReload, StoreCall, Filled, Pcs, StoreTypes
    <2>2. /\ storeCall' = [storeCall EXCEPT ![c] = k2]
          /\ UNCHANGED <<storeDisk, storeItems, storeLoaded, storeActive, storeDisturbed>>
      BY <1>4 DEF St!SyncOnFailure, StoreTypes
    <2> HIDE DEF k2
    <2>3. /\ storeCall' \in [StoreCalls -> StoreCall]
          /\ \A d \in StoreCalls : Filled(storeCall'[d], storeLoaded')
      BY <2>1, <2>2, CallTypes
    <2> QED  BY <2>2, <2>3 DEF StoreTypes
  <1>5. CASE St!Return(c)
    BY <1>5, ReturnedFacts DEF St!Return, StoreTypes
  <1>6. CASE St!FetchEntities(c)
    <2>1. PICK failed \in {{}, {"request"}} :
            /\ storeCall' = [storeCall EXCEPT
                 ![c].pc = "fetched",
                 ![c].got = [i \in St!Ids |-> IF St!KindOf(i) \in failed THEN None
                                              ELSE storeDisk[k.ws][i]]]
            /\ storeDisturbed' = (storeDisturbed \/ failed # {})
      BY <1>6 DEF St!FetchEntities
    <2> DEFINE got == [i \in St!Ids |-> IF St!KindOf(i) \in failed THEN None
                                        ELSE storeDisk[k.ws][i]]
               k2 == [k EXCEPT !.pc = "fetched", !.got = got]
    <2>2. k.pc = "fetch" /\ k.ws \in Workspaces
      BY <1>1, <1>6 DEF St!FetchEntities, Filled, StoreCall
    <2>3. got \in Contents
      BY <2>2 DEF StoreTypes, Contents, MaybeNode
    <2>5. /\ storeCall' = [storeCall EXCEPT ![c] = k2]
          /\ UNCHANGED <<storeDisk, storeItems, storeLoaded, storeActive>>
          /\ storeDisturbed' \in BOOLEAN
      BY <1>6, <2>1 DEF St!FetchEntities, StoreTypes
    <2> HIDE DEF got
    <2>6. k2 \in StoreCall /\ Filled(k2, storeLoaded)
      BY <1>1, <2>2, <2>3 DEF StoreCall, Filled, Pcs
    <2> HIDE DEF k2
    <2>7. /\ storeCall' \in [StoreCalls -> StoreCall]
          /\ \A d \in StoreCalls : Filled(storeCall'[d], storeLoaded')
      BY <2>5, <2>6, CallTypes
    <2> QED  BY <2>5, <2>7 DEF StoreTypes
  <1>7. CASE St!ApplyLoad(c)
    <2>1. /\ k.ws \in Workspaces /\ k.got \in Contents
          /\ storeItems' = k.got /\ storeLoaded' = k.ws /\ St!Returned(c)
          /\ UNCHANGED <<storeDisk, storeDisturbed>>
      BY <1>1, <1>7 DEF St!ApplyLoad, Filled, StoreCall
    <2>2. storeLoaded' # None
      BY <2>1, StoreConstants
    <2>3. ActiveType(storeActive')
      <3>1. PICK r \in Requests \cup {None} : storeActive' = [storeActive EXCEPT !["request"] = r]
        BY <1>7 DEF St!ApplyLoad, St!Recallable
      <3> QED  BY <3>1 DEF StoreTypes, ActiveType, St!Ids, St!Kinds
    <2> QED  BY <2>1, <2>2, <2>3, ReturnedFacts DEF StoreTypes
  <1>8. CASE St!ApplyReload(c)
    BY <1>1, <1>8, ReturnedFacts DEF St!ApplyReload, StoreTypes, Filled, StoreCall
  <1> QED  BY <1>2, <1>3, <1>4, <1>5, <1>6, <1>7, <1>8 DEF St!AnswerStep

LEMMA SelectTypes ==
    ASSUME StoreTypes, St!SelectStep
    PROVE  StoreTypes'
  <1>1. /\ UNCHANGED <<storeDisk, storeItems, storeLoaded, storeCall, storeDisturbed>>
        /\ \/ \E i \in Requests : storeActive' = St!OnlyActive("request", i)
           \/ \E i \in Folders : storeActive' = St!OnlyActive("folder", i)
           \/ \E i \in Connections : storeActive' = St!OnlyActive("connection", i)
           \/ \E i \in Grpcs : storeActive' = St!OnlyActive("grpc", i)
    BY DEF St!SelectStep, St!SetActiveRequest, St!SetActiveFolder, St!SetActiveConnection,
           St!SetActiveGrpc, St!FocusFolder
  <1>2. ActiveType(storeActive')
    BY <1>1 DEF ActiveType, St!OnlyActive, St!Ids, St!Kinds
  <1> QED  BY <1>1, <1>2 DEF StoreTypes

LEMMA LoadTypes ==
    ASSUME StoreTypes, NEW c \in StoreCalls,
           St!Reload(c) \/ \E w \in Workspaces : St!Load(c, w)
    PROVE  StoreTypes'
  <1>1. \E op \in Ops, w \in Workspaces :
            /\ op \in {"load", "reload"}
            /\ St!Begin(c, op, w, None, None, "fetch")
            /\ UNCHANGED <<storeDisk, storeItems, storeLoaded, storeActive>>
    BY DEF St!Load, St!Reload, StoreTypes, Ops
  <1>2. /\ storeCall' \in [StoreCalls -> StoreCall]
        /\ \A d \in StoreCalls : Filled(storeCall'[d], storeLoaded')
        /\ storeDisturbed' \in BOOLEAN
    BY <1>1, BeginFacts DEF MaybeNode
  <1> QED  BY <1>1, <1>2 DEF StoreTypes

LEMMA StoreTypesInductive ==
    /\ part = "store" /\ St!Init => StoreTypes
    /\ StoreTypes /\ [St!Next]_storeVars => StoreTypes'
  <1>1. ASSUME St!Init PROVE StoreTypes
    <2>1. St!IdleCall \in StoreCall /\ Filled(St!IdleCall, storeLoaded)
      BY DEF StoreCall, Filled, Pcs, Ops, MaybeNode, St!IdleCall
    <2>2. ActiveType(storeActive)
      BY <1>1 DEF St!Init, ActiveType, St!Kinds
    <2>3. storeItems \in Contents
      BY <1>1 DEF St!Init, Contents, MaybeNode
    <2> QED  BY <1>1, <2>1, <2>2, <2>3, StoreConstants DEF St!Init, StoreTypes
  <1>2. ASSUME StoreTypes, UNCHANGED storeVars PROVE StoreTypes'
    BY <1>2 DEF StoreTypes, storeVars
  <1>3. ASSUME StoreTypes, NEW c \in StoreCalls, St!ChangeStep(c) PROVE StoreTypes'
    BY <1>3, EditFacts, EditTypes, DeleteFacts, DeleteTypes DEF St!ChangeStep
  <1>4. ASSUME StoreTypes, St!Next PROVE StoreTypes'
    BY <1>3, <1>4, SelectTypes, CreateTypes, LoadTypes, AnswerTypes DEF St!Next
  <1> QED  BY <1>1, <1>2, <1>4

-----------------------------------------------------------------------------
(* Deletes. *)

\* A delete takes what is under the node out of the store, and the panes that
\* showed some of it show what is left, or nothing.
LEMMA DeletesClear ==
    ASSUME StoreTypes, [St!Next]_storeVars
    PROVE  St!DeleteClears
  <1> SUFFICES ASSUME NEW c \in StoreCalls,
                      storeCall[c].pc = "idle", storeCall'[c].op = "delete",
                      NEW k \in St!Kinds
               PROVE  \/ storeActive'[k] = None
                      \/ storeActive'[k] \in St!Present(storeItems)'
                      \/ storeActive[k] \notin St!Present(storeItems)
    BY DEF St!DeleteClears
  <1>1. storeCall \in [StoreCalls -> StoreCall] /\ storeCall[c].op # "delete"
    BY DEF StoreTypes, Filled
  <1>2. ASSUME NEW d \in StoreCalls, NEW op, NEW w, NEW i, NEW node, NEW at,
               St!Begin(d, op, w, i, node, at)
        PROVE  d = c /\ op = "delete"
    <2> DEFINE b == [op |-> op, pc |-> at, ws |-> w, id |-> i, node |-> node, got |-> None]
    <2>1. storeCall' = [storeCall EXCEPT ![d] = b] /\ b.op = op
      BY <1>2 DEF St!Begin
    <2> HIDE DEF b
    <2> QED  BY <1>1, <2>1
  <1>3. ~St!SelectStep /\ ~UNCHANGED storeVars
    BY <1>1 DEF St!SelectStep, St!SetActiveRequest, St!SetActiveFolder,
                St!SetActiveConnection, St!SetActiveGrpc, St!FocusFolder, storeVars
  <1>4. ASSUME NEW d \in StoreCalls, St!AnswerStep(d) PROVE FALSE
    <2>1. \E b : storeCall' = [storeCall EXCEPT ![d] = b]
      BY <1>4 DEF St!AnswerStep, St!BackendOk, St!BackendError, St!Fill, St!Append1,
                  St!SyncOnFailure, St!Return, St!FetchEntities, St!ApplyLoad,
                  St!ApplyReload, St!Returned
    <2>2. storeCall[d].pc # "idle"
      BY <1>4 DEF St!AnswerStep, St!BackendOk, St!BackendError, St!Fill, St!Append1,
                  St!SyncOnFailure, St!Return, St!FetchEntities, St!ApplyLoad,
                  St!ApplyReload, St!NeedsReload
    <2> QED  BY <1>1, <2>1, <2>2
  <1>5. ASSUME NEW d \in StoreCalls, St!CreateStep(d) PROVE FALSE
    <2>1. ASSUME NEW op, NEW i, NEW p, St!Create(d, op, i, p), op # "delete" PROVE FALSE
      BY <1>2, <2>1 DEF St!Create
    <2>2. ASSUME NEW op, NEW i, NEW j, St!Duplicate(d, i, j, op), op # "delete" PROVE FALSE
      BY <2>1, <2>2 DEF St!Duplicate
    <2>3. CASE \/ St!CreateRequest(d) \/ St!CreateGraphqlRequest(d) \/ St!CreateFolder(d)
               \/ St!CreateConnection(d) \/ St!CreateGrpc(d)
      BY <2>1, <2>3
         DEF St!CreateRequest, St!CreateGraphqlRequest, St!CreateFolder,
             St!CreateConnection, St!CreateGrpc
    <2>4. CASE \/ St!DuplicateRequest(d) \/ St!DuplicateFolder(d)
               \/ St!DuplicateConnection(d) \/ St!DuplicateGrpc(d)
      BY <2>2, <2>4
         DEF St!DuplicateRequest, St!DuplicateFolder, St!DuplicateConnection,
             St!DuplicateGrpc
    <2> QED  BY <1>5, <2>3, <2>4 DEF St!CreateStep
  <1>6. ASSUME NEW d \in StoreCalls, St!Reload(d) \/ \E w \in Workspaces : St!Load(d, w)
        PROVE  FALSE
    BY <1>2, <1>6 DEF St!Reload, St!Load
  <1>7. PICK d \in StoreCalls : St!ChangeStep(d)
    BY <1>3, <1>4, <1>5, <1>6 DEF St!Next
  <1>8. ASSUME NEW op \in Edits, NEW i \in St!Present(storeItems), NEW node,
               St!Edit(d, op, i, node)
        PROVE  FALSE
    BY <1>2, <1>8 DEF St!Edit, Edits
  <1>9. PICK i \in St!Present(storeItems) : \E cleared :
            /\ St!Delete(d, i, Gone(storeItems, i), cleared)
            /\ Left(storeItems, Gone(storeItems, i), storeActive, cleared)
    BY <1>7, <1>8, EditFacts, DeleteFacts DEF St!ChangeStep
  <1>10. /\ storeItems' = St!Without(storeItems, Gone(storeItems, i))
         /\ Left(storeItems, Gone(storeItems, i), storeActive, storeActive')
    BY <1>9 DEF St!Delete
  <1>11. St!Present(storeItems') = St!Present(storeItems) \ Gone(storeItems, i)
    BY <1>10, WithoutType DEF StoreTypes
  <1>12. St!Present(storeItems)' = St!Present(storeItems')
    BY DEF St!Present
  <1> QED  BY <1>10, <1>11, <1>12 DEF Left

-----------------------------------------------------------------------------
(* What the store shows. *)

\* The store shows what the backend holds for the workspace it has loaded.
Matches(loaded, files, it) == loaded # None => it = files[loaded]

\* While call k waits for the backend, which holds d: it is as if the backend
\* had done what is shown at once.
Anticipates(k, loaded, d, it) ==
    /\ k.ws = loaded
    /\ k.op \in Creates \cup {"duplicateFolder"} => it = d
    /\ k.op \in Edits =>
           /\ d[k.id] # None
           /\ k.op # "move" => k.node = [d[k.id] EXCEPT !.value = k.node.value]
           /\ it = [d EXCEPT ![k.id] = k.node]
    /\ k.op = "delete" => it = St!Without(d, Gone(d, k.id))

\* When the backend has answered well: only a new node is not shown yet.
Answered(k, loaded, d, it) ==
    /\ k.op \in Creates => k.ws = loaded /\ d = [it EXCEPT ![k.id] = k.node]
    /\ k.op \in Edits \cup {"delete"} => it = d

\* What is shown beside the only call that runs.
CallInv(k, loaded, files, it) ==
    /\ k.pc = "sent" => Anticipates(k, loaded, files[loaded], it)
    /\ k.pc \in {"fill", "ok"} => Answered(k, loaded, files[loaded], it)
    /\ k.pc = "error" =>
           /\ k.op # "update"
           /\ k.op \in Creates \cup {"duplicateFolder"} => it = files[loaded]
    /\ k.pc \in {"fetch", "fetched"} =>
           /\ k.op = "load" => Matches(loaded, files, it)
           /\ k.op # "load" => k.ws = loaded
    /\ k.pc = "fetched" => k.got = files[k.ws]

\* Without a disturbance at most one call runs, the store shows what that call
\* makes it show, and what the backend holds when none runs.
Settled ==
    ~storeDisturbed =>
        /\ \A c, d \in St!Pending : c = d
        /\ \A c \in St!Pending : CallInv(storeCall[c], storeLoaded, storeDisk, storeItems)
        /\ St!Pending = {} => Matches(storeLoaded, storeDisk, storeItems)

\* A step of the only call.
LEMMA SettledBy ==
    ASSUME StoreTypes, NEW c \in StoreCalls, St!Pending \subseteq {c},
           NEW k, storeCall' = [storeCall EXCEPT ![c] = k],
           k.pc \in {"idle", "done"} => Matches(storeLoaded', storeDisk', storeItems'),
           k.pc \notin {"idle", "done"} => CallInv(k, storeLoaded', storeDisk', storeItems')
    PROVE  Settled'
  <1>1. /\ storeCall'[c] = k
        /\ \A d \in StoreCalls : d # c => storeCall'[d] = storeCall[d]
    BY DEF StoreTypes
  <1>2. St!Pending' = IF k.pc \in {"idle", "done"} THEN {} ELSE {c}
    BY <1>1 DEF St!Pending
  <1> QED  BY <1>1, <1>2 DEF Settled

\* A call that begins undisturbed begins alone.
LEMMA BeginsAlone ==
    ASSUME StoreTypes, Settled, NEW c \in StoreCalls,
           NEW op, NEW w, NEW i, NEW node, NEW at \in {"sent", "fetch"},
           St!Begin(c, op, w, i, node, at), ~storeDisturbed',
           LET k == [op |-> op, pc |-> at, ws |-> w, id |-> i, node |-> node, got |-> None]
           IN  Matches(storeLoaded, storeDisk, storeItems) =>
                   CallInv(k, storeLoaded', storeDisk', storeItems')
    PROVE  Settled'
  <1> DEFINE k == [op |-> op, pc |-> at, ws |-> w, id |-> i, node |-> node, got |-> None]
  <1>1. storeCall' = [storeCall EXCEPT ![c] = k] /\ k.pc = at
    BY DEF St!Begin
  <1>2. ~storeDisturbed /\ St!Pending = {}
    BY DEF St!Begin
  <1>3. CallInv(k, storeLoaded', storeDisk', storeItems')
    BY <1>2 DEF Settled
  <1> HIDE DEF k
  <1> QED  BY <1>1, <1>2, <1>3, SettledBy

LEMMA CreateSettles ==
    ASSUME StoreTypes, Settled, NEW c \in StoreCalls, St!CreateStep(c)
    PROVE  Settled'
  <1>1. PICK op \in Creates \cup {"duplicateFolder"}, i \in St!Ids :
            \E p : St!Create(c, op, i, p)
    BY DEF St!CreateStep, St!CreateRequest, St!CreateGraphqlRequest, St!CreateFolder,
           St!CreateConnection, St!CreateGrpc, St!DuplicateRequest, St!DuplicateFolder,
           St!DuplicateConnection, St!DuplicateGrpc, St!Duplicate, Creates, St!Ids
  <1>2. PICK node : /\ storeLoaded # None
                    /\ St!Begin(c, op, storeLoaded, i, node, "sent")
                    /\ UNCHANGED <<storeDisk, storeItems, storeLoaded>>
    BY <1>1 DEF St!Create
  <1>3. CASE ~storeDisturbed'
    <2> DEFINE k == [op |-> op, pc |-> "sent", ws |-> storeLoaded, id |-> i,
                     node |-> node, got |-> None]
    <2>1. Matches(storeLoaded, storeDisk, storeItems) =>
              CallInv(k, storeLoaded', storeDisk', storeItems')
      BY <1>2 DEF Matches, CallInv, Anticipates, Creates, Edits
    <2> QED  BY <1>2, <1>3, <2>1, BeginsAlone
  <1> QED  BY <1>3 DEF Settled

LEMMA ChangeSettles ==
    ASSUME StoreTypes, Settled, NEW c \in StoreCalls, St!ChangeStep(c)
    PROVE  Settled'
  <1>1. ASSUME NEW op \in Edits, NEW i \in St!Present(storeItems), NEW node \in St!Nodes,
               St!Edit(c, op, i, node),
               op # "move" => node = [storeItems[i] EXCEPT !.value = node.value],
               ~storeDisturbed'
        PROVE  Settled'
    <2> DEFINE k == [op |-> op, pc |-> "sent", ws |-> storeLoaded, id |-> i,
                     node |-> node, got |-> None]
    <2>1. /\ storeLoaded # None /\ storeItems[i] # None
          /\ St!Begin(c, op, storeLoaded, i, node, "sent")
          /\ storeItems' = [storeItems EXCEPT ![i] = node]
          /\ UNCHANGED <<storeDisk, storeLoaded>>
      BY <1>1 DEF St!Edit, St!Present
    <2>2. Matches(storeLoaded, storeDisk, storeItems) =>
              CallInv(k, storeLoaded', storeDisk', storeItems')
      BY <1>1, <2>1 DEF Matches, CallInv, Anticipates, Creates, Edits
    <2> QED  BY <1>1, <2>1, <2>2, BeginsAlone
  <1>2. ASSUME NEW i \in St!Present(storeItems), NEW cleared,
               St!Delete(c, i, Gone(storeItems, i), cleared), ~storeDisturbed'
        PROVE  Settled'
    <2> DEFINE k == [op |-> "delete", pc |-> "sent", ws |-> storeLoaded, id |-> i,
                     node |-> None, got |-> None]
    <2>1. /\ storeLoaded # None
          /\ St!Begin(c, "delete", storeLoaded, i, None, "sent")
          /\ storeItems' = St!Without(storeItems, Gone(storeItems, i))
          /\ UNCHANGED <<storeDisk, storeLoaded>>
      BY <1>2 DEF St!Delete
    <2>2. Matches(storeLoaded, storeDisk, storeItems) =>
              CallInv(k, storeLoaded', storeDisk', storeItems')
      BY <2>1 DEF Matches, CallInv, Anticipates, Creates, Edits
    <2> QED  BY <1>2, <2>1, <2>2, BeginsAlone
  <1>3. CASE ~storeDisturbed'
    BY <1>1, <1>2, <1>3, EditFacts, DeleteFacts DEF St!ChangeStep
  <1> QED  BY <1>3 DEF Settled

LEMMA LoadSettles ==
    ASSUME StoreTypes, Settled, NEW c \in StoreCalls,
           St!Reload(c) \/ \E w \in Workspaces : St!Load(c, w)
    PROVE  Settled'
  <1>1. PICK op \in {"load", "reload"}, w \in Workspaces :
            /\ op = "reload" => w = storeLoaded
            /\ St!Begin(c, op, w, None, None, "fetch")
            /\ UNCHANGED <<storeDisk, storeItems, storeLoaded>>
    BY DEF St!Load, St!Reload, StoreTypes
  <1>2. CASE ~storeDisturbed'
    <2> DEFINE k == [op |-> op, pc |-> "fetch", ws |-> w, id |-> None,
                     node |-> None, got |-> None]
    <2>1. Matches(storeLoaded, storeDisk, storeItems) =>
              CallInv(k, storeLoaded', storeDisk', storeItems')
      BY <1>1 DEF CallInv, Matches
    <2> QED  BY <1>1, <1>2, <2>1, BeginsAlone
  <1> QED  BY <1>2 DEF Settled

\* The backend does what the store has shown at once, unless a deleted folder
\* held connections.
LEMMA Confirmed ==
    ASSUME NEW d \in Contents, NEW k \in StoreCall, NEW loaded, NEW it,
           k.id # None, Anticipates(k, loaded, d, it),
           k.op = "delete" /\ k.id \in Folders =>
               \A i \in Connections \cap St!Present(d) :
                   d[i].parent \notin St!FoldersUnder(d, k.id)
    PROVE  Answered(k, loaded, St!Applied(d, k), it)
  <1>1. k.id \in St!Ids
    BY DEF StoreCall
  <1>2. CASE k.op \in Creates
    BY <1>1, <1>2 DEF Anticipates, Answered, St!Applied, Creates, Edits
  <1>3. CASE k.op \in {"rename", "update"}
    <2>1. St!Applied(d, k) = [d EXCEPT ![k.id] = [d[k.id] EXCEPT !.value = k.node.value]]
      BY <1>3 DEF St!Applied
    <2>2. it = St!Applied(d, k)
      BY <1>3, <2>1 DEF Anticipates, Edits
    <2> QED  BY <1>3, <2>2 DEF Answered, Creates
  <1>4. CASE k.op = "move"
    BY <1>4 DEF Anticipates, Answered, St!Applied, Creates, Edits
  <1>5. CASE k.op = "delete"
    <2>1. St!Applied(d, k) = St!Without(d, Gone(d, k.id))
      <3>1. CASE k.id \notin Folders
        BY <1>5, <3>1 DEF St!Applied, Gone
      <3>2. CASE k.id \in Folders
        <4> DEFINE fs == St!FoldersUnder(d, k.id)
        <4>1. {i \in (Requests \cup Connections) \cap St!Present(d) : d[i].parent \in fs}
                = {i \in Requests \cap St!Present(d) : d[i].parent \in fs}
          BY <1>5, <3>2
        <4> QED  BY <1>5, <3>2, <4>1 DEF St!Applied, Gone
      <3> QED  BY <3>1, <3>2
    <2> QED  BY <1>5, <2>1 DEF Anticipates, Answered, Creates
  <1> QED  BY <1>2, <1>3, <1>4, <1>5 DEF Answered, Edits

LEMMA AnswerSettles ==
    ASSUME StoreTypes, Settled, NEW c \in StoreCalls, St!AnswerStep(c)
    PROVE  Settled'
  <1> DEFINE k == storeCall[c]
             done == [St!IdleCall EXCEPT !.pc = "done"]
  <1>1. /\ k \in StoreCall /\ Filled(k, storeLoaded)
        /\ storeDisk \in [Workspaces -> Contents] /\ storeItems \in Contents
    BY DEF StoreTypes
  <1>2. SUFFICES ASSUME ~storeDisturbed'
                 PROVE  Settled'
    BY DEF Settled
  <1>3. c \in St!Pending /\ ~storeDisturbed
    <2>1. storeCall[c].pc \in {"sent", "fill", "ok", "error", "fetch", "fetched"}
      BY DEF St!AnswerStep, St!BackendOk, St!BackendError, St!Fill, St!Append1,
             St!SyncOnFailure, St!Return, St!FetchEntities, St!ApplyLoad,
             St!ApplyReload, St!NeedsReload
    <2>2. c \in St!Pending
      BY <2>1 DEF St!Pending
    <2>3. CASE St!BackendOk(c) \/ St!BackendError(c) \/ St!Append1(c) \/ St!FetchEntities(c)
      BY <1>2, <2>2, <2>3 DEF St!BackendOk, St!BackendError, St!Append1, St!FetchEntities
    <2>4. CASE St!Fill(c)
      BY <1>2, <2>2, <2>4 DEF St!Fill
    <2>5. CASE St!SyncOnFailure(c) \/ St!Return(c)
      BY <1>2, <2>2, <2>5 DEF St!SyncOnFailure, St!Return
    <2>6. CASE St!ApplyLoad(c) \/ St!ApplyReload(c)
      BY <1>2, <2>2, <2>6 DEF St!ApplyLoad, St!ApplyReload
    <2> QED  BY <2>3, <2>4, <2>5, <2>6 DEF St!AnswerStep
  <1>4. /\ St!Pending \subseteq {c}
        /\ CallInv(k, storeLoaded, storeDisk, storeItems)
    BY <1>3 DEF Settled
  <1>5. done.pc = "done"
    BY DEF St!IdleCall
  <1>6. ASSUME St!Returned(c), Matches(storeLoaded', storeDisk', storeItems')
        PROVE  Settled'
    <2>1. storeCall' = [storeCall EXCEPT ![c] = done]
      BY <1>6 DEF St!Returned
    <2> HIDE DEF done
    <2> QED  BY <1>4, <1>5, <1>6, <2>1, SettledBy
  <1>7. ASSUME NEW next \in {"fill", "ok", "error"}, NEW files,
               storeCall' = [storeCall EXCEPT ![c].pc = next],
               storeDisk' = files, UNCHANGED <<storeItems, storeLoaded>>,
               next # "error" => Answered(k, storeLoaded, files[storeLoaded], storeItems),
               next = "error" =>
                   /\ k.op # "update"
                   /\ k.op \in Creates \cup {"duplicateFolder"} => storeItems = files[storeLoaded]
        PROVE  Settled'
    <2> DEFINE k2 == [k EXCEPT !.pc = next]
    <2>1. /\ storeCall' = [storeCall EXCEPT ![c] = k2]
          /\ k2.pc = next /\ k2.op = k.op /\ k2.ws = k.ws /\ k2.id = k.id /\ k2.node = k.node
      BY <1>1, <1>7 DEF StoreCall
    <2> HIDE DEF k2
    <2>2. CallInv(k2, storeLoaded', storeDisk', storeItems')
      BY <1>7, <2>1 DEF CallInv, Answered
    <2> HIDE DEF k
    <2> QED  BY <1>4, <2>1, <2>2, SettledBy
  <1>8. CASE St!BackendOk(c)
    <2>1. /\ k.pc = "sent" /\ k.ws = storeLoaded /\ k.ws \in Workspaces /\ k.id # None
          /\ Anticipates(k, storeLoaded, storeDisk[k.ws], storeItems)
      BY <1>1, <1>4, <1>8 DEF St!BackendOk, CallInv, Anticipates, Filled, StoreCall
    <2>2. k.op = "delete" /\ k.id \in Folders =>
              \A i \in Connections \cap St!Present(storeDisk[k.ws]) :
                  storeDisk[k.ws][i].parent \notin St!FoldersUnder(storeDisk[k.ws], k.id)
      BY <1>2, <1>8 DEF St!BackendOk, St!LeavesConnections
    <2> DEFINE files == [storeDisk EXCEPT ![k.ws] = St!Applied(@, k)]
               next == IF k.op = "createFilled" THEN "fill" ELSE "ok"
    <2>3. /\ storeCall' = [storeCall EXCEPT ![c].pc = next]
          /\ storeDisk' = files /\ UNCHANGED <<storeItems, storeLoaded>>
          /\ next \in {"fill", "ok"}
      BY <1>8 DEF St!BackendOk
    <2>4. files[storeLoaded] = St!Applied(storeDisk[k.ws], k)
      BY <1>1, <2>1
    <2> HIDE DEF files, next
    <2>5. Answered(k, storeLoaded, files[storeLoaded], storeItems)
      <3>1. storeDisk[k.ws] \in Contents
        BY <1>1, <2>1
      <3> HIDE DEF k
      <3> QED  BY <1>1, <2>1, <2>2, <2>4, <3>1, Confirmed
    <2> QED  BY <1>7, <2>3, <2>5
  <1>9. CASE St!BackendError(c)
    <2>1. /\ storeCall' = [storeCall EXCEPT ![c].pc = "error"]
          /\ UNCHANGED <<storeDisk, storeItems, storeLoaded>>
          /\ k.op # "update" /\ k.pc = "sent"
      BY <1>2, <1>9 DEF St!BackendError
    <2>2. k.op \in Creates \cup {"duplicateFolder"} => storeItems = storeDisk[storeLoaded]
      BY <1>4, <2>1 DEF CallInv, Anticipates
    <2> QED  BY <1>7, <2>1, <2>2
  <1>10. CASE St!Fill(c)
    <2>1. /\ k.pc = "fill" /\ k.op = "createFilled"
          /\ k.ws \in Workspaces /\ k.id \in St!Ids /\ k.node \in St!Nodes
      BY <1>1, <1>10 DEF St!Fill, Filled, StoreCall, MaybeNode, Creates
    <2>2. /\ storeDisk' = [storeDisk EXCEPT ![k.ws][k.id].value = 1]
          /\ storeCall' = [storeCall EXCEPT ![c].pc = "ok", ![c].node.value = 1]
          /\ UNCHANGED <<storeItems, storeLoaded>>
      BY <1>2, <1>10 DEF St!Fill
    <2>3. k.ws = storeLoaded /\ storeDisk[storeLoaded] = [storeItems EXCEPT ![k.id] = k.node]
      BY <1>4, <2>1 DEF CallInv, Answered, Creates
    <2> DEFINE node == [k.node EXCEPT !.value = 1]
               k2 == [k EXCEPT !.pc = "ok", !.node = node]
    <2>4. storeCall' = [storeCall EXCEPT ![c] = k2]
      BY <1>1, <2>2 DEF StoreTypes
    <2>5. /\ k2.pc = "ok" /\ k2.op = "createFilled" /\ k2.ws = k.ws /\ k2.id = k.id
          /\ k2.node = node
      BY <1>1, <2>1 DEF StoreCall
    <2>6. storeDisk[k.ws][k.id] = k.node
      BY <1>1, <2>1, <2>3 DEF Contents
    <2>7. storeDisk'[storeLoaded] = [storeDisk[storeLoaded] EXCEPT ![k.id] = node]
      BY <1>1, <2>1, <2>2, <2>3, <2>6
    <2> HIDE DEF node, k2
    <2>8. storeDisk'[storeLoaded] = [storeItems EXCEPT ![k.id] = node]
      BY <1>1, <2>1, <2>3, <2>7 DEF Contents
    <2>9. CallInv(k2, storeLoaded', storeDisk', storeItems')
      BY <2>2, <2>3, <2>5, <2>8 DEF CallInv, Answered, Creates, Edits
    <2> QED  BY <1>4, <2>4, <2>5, <2>9, SettledBy
  <1>11. CASE St!Append1(c)
    <2>1. /\ k.pc = "ok" /\ k.op \in Creates /\ k.ws = storeLoaded
          /\ storeItems' = [storeItems EXCEPT ![k.id] = k.node]
          /\ St!Returned(c) /\ UNCHANGED <<storeDisk, storeLoaded>>
      BY <1>2, <1>11 DEF St!Append1, Creates
    <2>2. storeDisk[storeLoaded] = [storeItems EXCEPT ![k.id] = k.node]
      BY <1>4, <2>1 DEF CallInv, Answered
    <2> QED  BY <1>6, <2>1, <2>2 DEF Matches
  <1>12. CASE St!SyncOnFailure(c)
    <2> DEFINE k2 == [k EXCEPT !.pc = "fetch", !.ws = storeLoaded]
    <2>1. /\ storeCall' = [storeCall EXCEPT ![c] = k2]
          /\ UNCHANGED <<storeDisk, storeItems, storeLoaded>>
      BY <1>12 DEF St!SyncOnFailure, StoreTypes
    <2>2. k2.pc = "fetch" /\ k2.op # "load" /\ k2.ws = storeLoaded
      BY <1>1, <1>12 DEF St!SyncOnFailure, St!NeedsReload, StoreCall
    <2> HIDE DEF k2
    <2>3. CallInv(k2, storeLoaded', storeDisk', storeItems')
      BY <2>1, <2>2 DEF CallInv
    <2> QED  BY <1>4, <2>1, <2>2, <2>3, SettledBy
  <1>13. CASE St!Return(c)
    <2>1. /\ k.pc \in {"ok", "error"} /\ ~St!NeedsReload(k)
          /\ k.pc = "ok" => k.op \in {"rename", "move", "delete", "update"}
          /\ St!Returned(c) /\ UNCHANGED <<storeDisk, storeItems, storeLoaded>>
      BY <1>13 DEF St!Return
    <2>2. storeItems = storeDisk[storeLoaded]
      BY <1>1, <1>4, <2>1 DEF CallInv, Answered, Filled, Edits, St!NeedsReload
    <2> QED  BY <1>6, <2>1, <2>2 DEF Matches
  <1>14. CASE St!FetchEntities(c)
    <2> DEFINE got == [i \in St!Ids |-> IF St!KindOf(i) \in {} THEN None ELSE storeDisk[k.ws][i]]
               k2 == [k EXCEPT !.pc = "fetched", !.got = got]
    <2>1. /\ k.pc = "fetch" /\ storeCall' = [storeCall EXCEPT ![c] = k2]
          /\ UNCHANGED <<storeDisk, storeItems, storeLoaded>>
      BY <1>2, <1>14 DEF St!FetchEntities, StoreTypes
    <2>2. k.ws \in Workspaces
      BY <1>1, <2>1 DEF StoreCall, Filled
    <2>3. got = storeDisk[k.ws]
      BY <1>1, <2>2 DEF Contents
    <2>4. k2.pc = "fetched" /\ k2.op = k.op /\ k2.ws = k.ws /\ k2.got = got
      BY <1>1 DEF StoreCall
    <2> HIDE DEF k2, got
    <2>5. CallInv(k2, storeLoaded', storeDisk', storeItems')
      BY <1>4, <2>1, <2>3, <2>4 DEF CallInv
    <2> QED  BY <1>4, <2>1, <2>4, <2>5, SettledBy
  <1>15. CASE St!ApplyLoad(c)
    BY <1>4, <1>6, <1>15 DEF St!ApplyLoad, CallInv, Matches
  <1>16. CASE St!ApplyReload(c)
    BY <1>4, <1>6, <1>16 DEF St!ApplyReload, CallInv, Matches
  <1> QED  BY <1>8, <1>9, <1>10, <1>11, <1>12, <1>13, <1>14, <1>15, <1>16 DEF St!AnswerStep

LEMMA SettledInductive ==
    /\ St!Init => Settled
    /\ StoreTypes /\ Settled /\ [St!Next]_storeVars => Settled'
  <1>1. ASSUME St!Init PROVE Settled
    BY <1>1 DEF St!Init, Settled, St!Pending, St!IdleCall, Matches
  <1>2. ASSUME StoreTypes, Settled, UNCHANGED <<storeDisk, storeItems, storeLoaded, storeCall,
                                                storeDisturbed>>
        PROVE  Settled'
    BY <1>2 DEF Settled, St!Pending
  <1>3. ASSUME St!SelectStep
        PROVE  UNCHANGED <<storeDisk, storeItems, storeLoaded, storeCall, storeDisturbed>>
    BY <1>3 DEF St!SelectStep, St!SetActiveRequest, St!SetActiveFolder,
                St!SetActiveConnection, St!SetActiveGrpc, St!FocusFolder
  <1>4. ASSUME StoreTypes, Settled, St!Next PROVE Settled'
    BY <1>2, <1>3, <1>4, CreateSettles, ChangeSettles, LoadSettles, AnswerSettles DEF St!Next
  <1> QED  BY <1>1, <1>2, <1>4 DEF storeVars

-----------------------------------------------------------------------------
(* The theorems. *)

\* What holds of the store in every state of a behaviour it runs in.
StoreInv == part = "store" => StoreTypes /\ Settled

LEMMA StoreInvariant == SpecAll => []StoreInv
  <1>1. InitAll => StoreInv
    BY StoreTypesInductive, SettledInductive DEF InitAll, StoreInv
  <1>2. StoreInv /\ [NextAll]_allVars => StoreInv'
    <2>1. CASE part = "store"
      BY <2>1, StoreTypesInductive, SettledInductive DEF NextAll, allVars, StoreInv
    <2>2. CASE part # "store"
      BY <2>2 DEF NextAll, allVars, StoreInv
    <2> QED  BY <2>1, <2>2
  <1> QED  BY <1>1, <1>2, PTL DEF SpecAll

\* With no call running the store shows what the backend holds for the workspace
\* it has loaded, whatever calls were refused and undone before, for any ids,
\* nesting of folders and number of calls (syncOnFailure).
THEOREM SettledMatchesDiskHolds == SpecAll => []SettledMatchesDisk
  <1>1. StoreInv => SettledMatchesDisk
    BY DEF StoreInv, Settled, Matches, SettledMatchesDisk, St!SettledMatchesDisk
  <1> QED  BY <1>1, StoreInvariant, PTL

\* A delete leaves no pane on a node it removes, however deep under the deleted
\* folder (deleteFolder and the other delete actions).
THEOREM DeleteClearsPanesHolds == SpecAll => DeleteClearsPanes
  <1>1. StoreInv /\ [NextAll]_allVars => (part = "store" => St!DeleteClears)
    BY DeletesClear DEF NextAll, allVars, StoreInv
  <1>2. SpecAll => [][NextAll]_allVars
    BY PTL DEF SpecAll
  <1> QED  BY <1>1, <1>2, StoreInvariant, PTL DEF DeleteClearsPanes

-----------------------------------------------------------------------------
(* The texts of the pre-flights. *)

EnsureCall == [fn |-> "ensure", of |-> None, how |-> None]
Atoms == Pf!Tokens \cup {EnsureCall}
SentText == Seq(Atoms)
SentNames == {Pf!Send(s, r) : s \in Sends, r \in SentRequests}
             \cup {Pf!Response(r) : r \in SentRequests}
             \cup {Pf!Value(r, text) : r \in SentRequests, text \in {"path", "query", "headers", "body"}}

\* Every set of naturals that holds one holds a least: the induction that the
\* lemmas below need over the texts and over a walk of their tokens.
LEMMA LeastNatural ==
    ASSUME NEW T \in SUBSET Nat, T # {}
    PROVE  \E m \in T : \A n \in T : m <= n
  <1> DEFINE R == {ss \in Nat \X Nat : ss[1] < ss[2]}
  <1>1. IsWellFoundedOn(R, Nat)
    BY NatLessThanWellFounded, Zenon DEF OpToRel
  <1>2. \A x, y \in Nat : y < x => <<y, x>> \in R
    OBVIOUS
  <1> HIDE DEF R
  <1>3. PICK x \in T : \A y \in T : ~ (<<y, x>> \in R)
    BY <1>1, WFMin
  <1>4. ASSUME NEW n \in T PROVE x <= n
    <2>1. x \in Nat /\ n \in Nat /\ ~ (n < x)
      BY <1>2, <1>3
    <2> QED  BY <2>1
  <1> QED  BY <1>4

LEMMA MinIs ==
    ASSUME NEW T \in SUBSET Nat, T # {}
    PROVE  Pf!Min(T) \in T
  <1>1. \E m \in T : \A n \in T : m <= n
    BY LeastNatural
  <1> QED  BY <1>1 DEF Pf!Min

LEMMA FieldsListed ==
    ASSUME NEW k \in DOMAIN Pf!SchemeFields
    PROVE  \E m \in Nat : DOMAIN Pf!SchemeFields[k] = 1..m
  <1>1. k \in {"none", "bearer", "basic", "api_key", "aws_sig_v4", "oauth1", "digest", "ntlm", "oauth2"}
    BY DEF Pf!SchemeFields
  <1>2. CASE k = "none"
    <2>1. DOMAIN Pf!SchemeFields[k] = 1..0
      BY <1>2 DEF Pf!SchemeFields
    <2> QED  BY <2>1
  <1>3. CASE k = "bearer"
    <2>1. DOMAIN Pf!SchemeFields[k] = 1..1
      BY <1>3 DEF Pf!SchemeFields
    <2> QED  BY <2>1
  <1>4. CASE k = "basic"
    <2>1. DOMAIN Pf!SchemeFields[k] = 1..2
      BY <1>4 DEF Pf!SchemeFields
    <2> QED  BY <2>1
  <1>5. CASE k = "api_key"
    <2>1. DOMAIN Pf!SchemeFields[k] = 1..2
      BY <1>5 DEF Pf!SchemeFields
    <2> QED  BY <2>1
  <1>6. CASE k = "aws_sig_v4"
    <2>1. DOMAIN Pf!SchemeFields[k] = 1..5
      BY <1>6 DEF Pf!SchemeFields
    <2> QED  BY <2>1
  <1>7. CASE k = "oauth1"
    <2>1. DOMAIN Pf!SchemeFields[k] = 1..11
      BY <1>7 DEF Pf!SchemeFields
    <2> QED  BY <2>1
  <1>8. CASE k = "digest"
    <2>1. DOMAIN Pf!SchemeFields[k] = 1..2
      BY <1>8 DEF Pf!SchemeFields
    <2> QED  BY <2>1
  <1>9. CASE k = "ntlm"
    <2>1. DOMAIN Pf!SchemeFields[k] = 1..4
      BY <1>9 DEF Pf!SchemeFields
    <2> QED  BY <2>1
  <1>10. CASE k = "oauth2"
    <2>1. DOMAIN Pf!SchemeFields[k] = 1..9
      BY <1>10 DEF Pf!SchemeFields
    <2> QED  BY <2>1
  <1> QED  BY <1>1, <1>2, <1>3, <1>4, <1>5, <1>6, <1>7, <1>8, <1>9, <1>10

LEMMA AuthTyped ==
    ASSUME NEW t, Pf!IsTemplates(t)
    PROVE  Pf!IsAuth(Pf!AuthOf(t))
  <1>1. Pf!IsAuth(Pf!NoAuth) /\ Pf!NoAuth # None
    <2>1. "none" \in DOMAIN Pf!SchemeFields /\ Pf!SchemeFields["none"] = <<>>
      BY DEF Pf!SchemeFields
    <2>2. Pf!Range(<<>>) = {}
      BY DEF Pf!Range
    <2>3. Pf!NoAuth.kind = "none" /\ Pf!NoAuth.fields = <<>>
      BY DEF Pf!NoAuth
    <2>4. <<>> \in [{} -> Seq(Pf!Tokens)]
      OBVIOUS
    <2> QED  BY <2>1, <2>2, <2>3, <2>4, TextsAssumption DEF Pf!IsAuth, TextsAssumption
  <1>2. \A auth \in {t.auth, t.folderAuth, t.workspaceAuth} : auth # None => Pf!IsAuth(auth)
    BY DEF Pf!IsTemplates
  <1>3. ASSUME NEW a, NEW b \in {t.folderAuth, t.workspaceAuth}, NEW c \in {t.folderAuth, t.workspaceAuth},
               NEW auths, auths = <<t.auth, b, c, Pf!NoAuth>>
        PROVE  Pf!IsAuth(auths[Pf!Min({i \in DOMAIN auths : auths[i] # None})])
    <2>2. DOMAIN auths = 1..4 /\ auths[4] = Pf!NoAuth
          /\ \A i \in 1..4 : auths[i] \in {t.auth, t.folderAuth, t.workspaceAuth, Pf!NoAuth}
      BY <1>3
    <2> DEFINE T == {i \in DOMAIN auths : auths[i] # None}
    <2>3. T \in SUBSET Nat /\ 4 \in T
      BY <1>1, <2>2
    <2>4. Pf!Min(T) \in T
      BY <2>3, MinIs
    <2> QED  BY <1>1, <1>2, <2>2, <2>4
  <1> QED  BY <1>3 DEF Pf!AuthOf

LEMMA AuthTextsTyped ==
    ASSUME NEW t, Pf!IsTemplates(t)
    PROVE  Pf!AuthTexts(t) \in Seq(SentText)
  <1> DEFINE auth == Pf!AuthOf(t)
             fields == Pf!SchemeFields[auth.kind]
  <1>1. auth.kind \in DOMAIN Pf!SchemeFields /\ auth.fields \in [Pf!Range(fields) -> Seq(Pf!Tokens)]
    BY AuthTyped DEF Pf!IsAuth
  <1>2. PICK m \in Nat : DOMAIN fields = 1..m
    BY <1>1, FieldsListed
  <1>3. \A i \in DOMAIN fields : auth.fields[fields[i]] \in SentText
    <2>1. \A i \in DOMAIN fields : fields[i] \in Pf!Range(fields)
      BY DEF Pf!Range
    <2>2. Seq(Pf!Tokens) \subseteq SentText
      BY DEF SentText, Atoms
    <2> QED  BY <1>1, <2>1, <2>2
  <1>4. Pf!EnsureToken \in SentText
    BY DEF Pf!EnsureToken, SentText, Atoms, EnsureCall
  <1>5. Pf!AuthTexts(t) = [i \in DOMAIN fields |-> auth.fields[fields[i]]]
                          \o (IF auth.kind = "oauth2" THEN <<Pf!EnsureToken>> ELSE <<>>)
    BY DEF Pf!AuthTexts
  <1> HIDE DEF auth, fields
  <1> DEFINE own == [i \in DOMAIN fields |-> auth.fields[fields[i]]]
  <1>6. own \in Seq(SentText)
    <2>1. own \in [1..m -> SentText]
      BY <1>2, <1>3
    <2> HIDE DEF own
    <2> QED  BY <2>1
  <1>7. (IF auth.kind = "oauth2" THEN <<Pf!EnsureToken>> ELSE <<>>) \in Seq(SentText)
    BY <1>4
  <1> HIDE DEF own
  <1> QED  BY <1>5, <1>6, <1>7 DEF own

LEMMA BodyTextsTyped ==
    ASSUME NEW body \in Pf!Bodies
    PROVE  Pf!BodyTexts(body) \in Seq(SentText)
  <1>0. Seq(Pf!Tokens) \subseteq SentText
    BY DEF SentText, Atoms
  <1>1. CASE body.kind = "graphql"
    <2>1. Pf!BodyTexts(body) = <<body.text, body.variables>>
      BY <1>1, Zenon DEF Pf!BodyTexts
    <2>2. body.text \in Seq(Pf!Tokens) /\ body.variables \in Seq(Pf!Tokens)
      BY <1>1 DEF Pf!Bodies
    <2> QED  BY <1>0, <2>1, <2>2
  <1>2. CASE body.kind \in {"text", "form"}
    <2>1. Pf!BodyTexts(body) = <<body.text>>
      BY <1>2 DEF Pf!BodyTexts
    <2>2. body.text \in Seq(Pf!Tokens)
      BY <1>2 DEF Pf!Bodies
    <2> QED  BY <1>0, <2>1, <2>2
  <1>3. CASE body.kind \in {"none", "binary"}
    <2>1. Pf!BodyTexts(body) = <<>>
      BY <1>3 DEF Pf!BodyTexts
    <2> QED  BY <2>1
  <1> QED  BY <1>1, <1>2, <1>3 DEF Pf!Bodies

LEMMA Joined ==
    ASSUME NEW T, NEW a \in Seq(T), NEW b \in Seq(T)
    PROVE  a \o b \in Seq(T)
  OBVIOUS

\* Whatever is resolved is a sequence of texts.
LEMMA TextsTyped ==
    ASSUME NEW n \in SentNames
    PROVE  Pf!Texts(n) \in Seq(SentText)
  <1>0. Seq(Pf!Tokens) \subseteq SentText /\ Seq(Seq(Pf!Tokens)) \subseteq Seq(SentText)
    BY DEF SentText, Atoms
  <1>1. ASSUME NEW r \in SentRequests
        PROVE  LET t == SentTexts[r] IN
               /\ Pf!IsTemplates(t)
               /\ t.path \in Seq(SentText) /\ t.query \in Seq(SentText)
               /\ t.url \in SentText /\ t.headers \in SentText /\ t.inherited \o t.headers \in SentText
               /\ Pf!BodyTexts(t.body) \in Seq(SentText) /\ Pf!AuthTexts(t) \in Seq(SentText)
    <2> DEFINE t == SentTexts[r]
    <2>1. Pf!IsTemplates(t)
      BY TextsAssumption DEF TextsAssumption
    <2> HIDE DEF t
    <2>2. t.inherited \in SentText /\ t.headers \in SentText /\ t.url \in SentText
          /\ t.path \in Seq(SentText) /\ t.query \in Seq(SentText) /\ t.body \in Pf!Bodies
      BY <1>0, <2>1 DEF Pf!IsTemplates
    <2>3. t.inherited \o t.headers \in SentText
      BY <2>2, Joined DEF SentText
    <2> QED  BY <2>1, <2>2, <2>3, BodyTextsTyped, AuthTextsTyped DEF t
  <1>2. <<>> \in SentText
    BY DEF SentText
  <1>3. ASSUME NEW r \in SentRequests, NEW s PROVE Pf!Texts(Pf!Send(s, r)) \in Seq(SentText)
    <2> DEFINE t == SentTexts[r]
    <2>1. Pf!Texts(Pf!Send(s, r)) = Pf!SendTexts(t)
      BY DEF Pf!Texts, Pf!Send
    <2>2. Pf!SendTexts(t) = (t.path \o <<t.url>> \o t.query) \o <<t.inherited \o t.headers>>
                            \o Pf!BodyTexts(t.body) \o Pf!AuthTexts(t) \o << <<>> >>
      BY DEF Pf!SendTexts, Pf!UrlTexts, Pf!HeaderText
    <2> DEFINE a == t.path \o <<t.url>>
               b == a \o t.query
               c == b \o <<t.inherited \o t.headers>>
               d == c \o Pf!BodyTexts(t.body)
               e == d \o Pf!AuthTexts(t)
    <2>3. <<t.url>> \in Seq(SentText) /\ <<t.inherited \o t.headers>> \in Seq(SentText)
          /\ << <<>> >> \in Seq(SentText)
      BY <1>1, <1>2
    <2>4. a \in Seq(SentText)
      BY <1>1, <2>3, Joined
    <2>5. b \in Seq(SentText)
      BY <1>1, <2>4, Joined
    <2>6. c \in Seq(SentText)
      BY <2>3, <2>5, Joined
    <2>7. d \in Seq(SentText)
      BY <1>1, <2>6, Joined
    <2>8. e \in Seq(SentText)
      BY <1>1, <2>7, Joined
    <2>9. e \o << <<>> >> \in Seq(SentText)
      BY <2>3, <2>8, Joined
    <2> QED  BY <2>1, <2>2, <2>9
  <1>4. ASSUME NEW r \in SentRequests PROVE Pf!Texts(Pf!Response(r)) \in Seq(SentText)
    <2> DEFINE t == SentTexts[r]
    <2>1. Pf!Texts(Pf!Response(r)) = Pf!PreflightTexts(t)
      BY DEF Pf!Texts, Pf!Response
    <2>2. Pf!PreflightTexts(t) = t.path \o <<t.url, t.headers>> \o Pf!BodyTexts(t.body) \o Pf!AuthTexts(t)
      BY DEF Pf!PreflightTexts
    <2> DEFINE a == t.path \o <<t.url, t.headers>>
               b == a \o Pf!BodyTexts(t.body)
    <2>3. <<t.url, t.headers>> \in Seq(SentText)
      BY <1>1
    <2>4. a \in Seq(SentText)
      BY <1>1, <2>3, Joined
    <2>5. b \in Seq(SentText)
      BY <1>1, <2>4, Joined
    <2>6. b \o Pf!AuthTexts(t) \in Seq(SentText)
      BY <1>1, <2>5, Joined
    <2> QED  BY <2>1, <2>2, <2>6
  <1>5. ASSUME NEW texts \in Seq(SentText) PROVE Pf!FirstOf(texts) \in SentText
    <2>1. << <<>> >> \in Seq(SentText)
      BY <1>2
    <2>2. texts \o << <<>> >> \in Seq(SentText) /\ texts \o << <<>> >> # <<>>
      BY <2>1
    <2> QED  BY <2>2 DEF Pf!FirstOf
  <1>6. ASSUME NEW r \in SentRequests, NEW p \in {"path", "query", "headers", "body"}
        PROVE  Pf!Texts(Pf!Value(r, p)) \in Seq(SentText)
    <2> DEFINE t == SentTexts[r]
    <2>1. Pf!Texts(Pf!Value(r, p)) = <<Pf!ReadFrom(t, p)>>
      BY DEF Pf!Texts, Pf!Value
    <2>2. Pf!ReadFrom(t, p) \in SentText
      <3>1. CASE p = "path"
        <4>1. Pf!ReadFrom(t, p) = Pf!FirstOf(t.path)
          BY <3>1 DEF Pf!ReadFrom
        <4> QED  BY <1>1, <1>5, <4>1
      <3>2. CASE p = "query"
        <4>1. Pf!ReadFrom(t, p) = Pf!FirstOf(t.query)
          BY <3>2 DEF Pf!ReadFrom
        <4> QED  BY <1>1, <1>5, <4>1
      <3>3. CASE p = "headers"
        <4>1. Pf!ReadFrom(t, p) = t.headers
          BY <3>3 DEF Pf!ReadFrom
        <4> QED  BY <1>1, <4>1
      <3>4. CASE p = "body"
        <4>1. Pf!ReadFrom(t, p) = Pf!FirstOf(Pf!BodyTexts(t.body))
          BY <3>4 DEF Pf!ReadFrom
        <4> QED  BY <1>1, <1>5, <4>1
      <3> QED  BY <3>1, <3>2, <3>3, <3>4
    <2> HIDE DEF t
    <2> QED  BY <2>1, <2>2
  <1> QED  BY <1>3, <1>4, <1>6 DEF SentNames

-----------------------------------------------------------------------------
(* The marks. *)

\* What runs has a name and is somewhere; a value that is read is nowhere but
\* in its text.
SentTask(n, t) ==
    /\ n \in SentNames
    /\ t = [pc |-> t.pc, how |-> t.how, at |-> t.at, open |-> t.open,
            aborted |-> t.aborted, cycle |-> t.cycle]
    /\ n.kind = "request" => t.pc = "texts"
TasksRun(tasks) == \A n \in DOMAIN tasks : SentTask(n, tasks[n])
MarksHeld(tasks, marks) == \A n \in marks : n \in DOMAIN tasks /\ tasks[n].pc \in {"texts", "wire"}
MarksInv == TasksRun(pfTask) /\ MarksHeld(pfTask, pfResolving)

\* What the tokens of a text, called one after the other, make of it.
SentTurn(st) ==
    /\ st = [task |-> st.task, resolving |-> st.resolving, prompts |-> st.prompts, open |-> st.open]
    /\ TasksRun(st.task) /\ MarksHeld(st.task, st.resolving)
    /\ DOMAIN pfTask \subseteq DOMAIN st.task

LEMMA AwaitingTurn ==
    ASSUME NEW st, SentTurn(st), NEW i
    PROVE  /\ SentTurn(Pf!Awaiting(st, i)) /\ Pf!Awaiting(st, i).task = st.task
           /\ Pf!Awaiting(st, i).resolving = st.resolving
  <1>1. Pf!Awaiting(st, i) = [task |-> st.task, resolving |-> st.resolving,
                              prompts |-> st.prompts, open |-> st.open \cup {i}]
    BY DEF Pf!Awaiting, SentTurn
  <1> QED  BY <1>1 DEF SentTurn

\* A new task that is marked, if it is, is in its texts; a value that runs
\* already is in its own.
LEMMA StartedTurn ==
    ASSUME NEW st, SentTurn(st), NEW m \in SentNames, NEW stage, NEW how,
           m.kind = "request" => stage = "texts"
    PROVE  /\ SentTurn(Pf!Started(st, m, stage, how)) /\ m \in DOMAIN Pf!Started(st, m, stage, how).task
           /\ m.kind = "request" \/ (m \notin DOMAIN st.task /\ stage = "texts")
                => SentTurn(Pf!Marked(Pf!Started(st, m, stage, how), m))
  <1> DEFINE t == Pf!Fresh(stage, how, pfCycle)
             tasks == Pf!With(st.task, m, t)
             next == Pf!Started(st, m, stage, how)
  <1>1. t = [pc |-> stage, how |-> how, at |-> 0, open |-> {}, aborted |-> FALSE, cycle |-> pfCycle]
    BY DEF Pf!Fresh
  <1>2. SentTask(m, t)
    BY <1>1 DEF SentTask
  <1>3. next = [task |-> tasks, resolving |-> st.resolving, prompts |-> st.prompts, open |-> st.open]
    BY DEF Pf!Started, SentTurn
  <1>t. t.pc = stage
    BY <1>1
  <1> HIDE DEF t, next
  <1>4. /\ DOMAIN tasks = DOMAIN st.task \cup {m}
        /\ \A x \in DOMAIN tasks : tasks[x] = IF x \in DOMAIN st.task THEN st.task[x] ELSE t
    BY DEF Pf!With
  <1> HIDE DEF tasks
  <1>5. TasksRun(tasks)
    BY <1>2, <1>4 DEF TasksRun, SentTurn
  <1>6. MarksHeld(tasks, st.resolving)
    BY <1>4 DEF MarksHeld, SentTurn
  <1>7. SentTurn(next) /\ m \in DOMAIN next.task
    BY <1>3, <1>4, <1>5, <1>6 DEF SentTurn
  <1>8. ASSUME m.kind = "request" \/ (m \notin DOMAIN st.task /\ stage = "texts")
        PROVE  SentTurn(Pf!Marked(next, m))
    <2>1. Pf!Marked(next, m) = [task |-> tasks, resolving |-> st.resolving \cup {m},
                                prompts |-> st.prompts, open |-> st.open]
      BY <1>3 DEF Pf!Marked
    <2>2. tasks[m].pc = "texts"
      BY <1>4, <1>5, <1>8, <1>t DEF TasksRun, SentTask
    <2>3. MarksHeld(tasks, st.resolving \cup {m})
      BY <1>4, <1>6, <2>2 DEF MarksHeld
    <2>4. DOMAIN pfTask \subseteq DOMAIN tasks
      BY <1>4 DEF SentTurn
    <2> QED  BY <1>5, <2>1, <2>3, <2>4 DEF SentTurn
  <1> QED  BY <1>7, <1>8 DEF next

LEMMA RenderTurn ==
    ASSUME NEW st, SentTurn(st), NEW i, NEW tok \in Atoms
    PROVE  SentTurn(Pf!Render(st, i, tok))
  <1> DEFINE open == Pf!Awaiting(st, i)
  <1>0. SentTurn(open) /\ open.task = st.task /\ open.resolving = st.resolving
    BY AwaitingTurn
  <1> HIDE DEF open
  <1>1. CASE tok.fn = "response"
    <2> DEFINE m == Pf!Response(tok.of)
    <2>1. tok.of \in SentRequests
      BY <1>1 DEF Atoms, EnsureCall, Pf!Tokens
    <2>2. m \in SentNames /\ m.kind = "response"
      BY <2>1 DEF SentNames, Pf!Response
    <2>3. Pf!Render(st, i, tok) = Pf!EnsureResponse(st, i, tok)
      BY <1>1 DEF Pf!Render
    <2>4. SentTurn(Pf!Started(open, m, "latest", tok.how))
      BY <1>0, <2>2, StartedTurn
    <2>5. m \notin DOMAIN st.task => SentTurn(Pf!Marked(Pf!Started(open, m, "texts", tok.how), m))
      BY <1>0, <2>2, StartedTurn
    <2> HIDE DEF m
    <2>6. Pf!EnsureResponse(st, i, tok) =
             IF pfCached[tok.of] # None THEN st
             ELSE IF m \in DOMAIN st.task THEN open
             ELSE IF tok.how # "force" THEN Pf!Started(open, m, "latest", tok.how)
             ELSE IF m \in st.resolving THEN st
             ELSE Pf!Marked(Pf!Started(open, m, "texts", tok.how), m)
      BY DEF Pf!EnsureResponse, m, open
    <2> QED  BY <1>0, <2>3, <2>4, <2>5, <2>6
  <1>2. CASE tok.fn = "request"
    <2> DEFINE m == Pf!Value(tok.of, tok.how)
    <2>1. tok.of \in SentRequests /\ tok.how \in {"path", "query", "headers", "body"}
      BY <1>2 DEF Atoms, EnsureCall, Pf!Tokens
    <2>2. m \in SentNames /\ m.kind = "request"
      BY <2>1 DEF SentNames, Pf!Value
    <2>3. Pf!Render(st, i, tok) = Pf!ResolveValue(st, i, tok)
      BY <1>2 DEF Pf!Render
    <2>4. SentTurn(Pf!Marked(Pf!Started(open, m, "texts", None), m))
      BY <1>0, <2>2, StartedTurn
    <2>5. Pf!ResolveValue(st, i, tok) \in {st, Pf!Marked(Pf!Started(open, m, "texts", None), m)}
      BY DEF Pf!ResolveValue, open
    <2> QED  BY <2>3, <2>4, <2>5
  <1>3. CASE tok.fn = "ask"
    <2>1. Pf!Render(st, i, tok) = Pf!AskPrompt(st, i, tok)
      BY <1>3 DEF Pf!Render
    <2>2. ASSUME NEW ps PROVE SentTurn([open EXCEPT !.prompts = ps])
      <3>1. open = [task |-> open.task, resolving |-> open.resolving, prompts |-> open.prompts, open |-> open.open]
        BY <1>0 DEF SentTurn
      <3>2. [open EXCEPT !.prompts = ps] = [task |-> open.task, resolving |-> open.resolving,
                                            prompts |-> ps, open |-> open.open]
        BY <3>1
      <3> QED  BY <1>0, <3>2 DEF SentTurn
    <2>3. PICK ps : Pf!AskPrompt(st, i, tok) \in {st, [open EXCEPT !.prompts = ps]}
      BY DEF Pf!AskPrompt, open
    <2> QED  BY <2>1, <2>2, <2>3
  <1>4. CASE tok.fn = "ensure"
    <2>1. Pf!Render(st, i, tok) = open
      BY <1>4 DEF Pf!Render, open
    <2> QED  BY <1>0, <2>1
  <1> QED  BY <1>1, <1>2, <1>3, <1>4 DEF Atoms, EnsureCall, Pf!Tokens

LEMMA CalledTurn ==
    ASSUME MarksInv, NEW text \in SentText
    PROVE  SentTurn(Pf!Called(text))
  <1> DEFINE first == [task |-> pfTask, resolving |-> pfResolving, prompts |-> pfPrompts, open |-> {}]
             Turn(f, m) == f = [k \in 0..m |-> IF k = 0 THEN first ELSE Pf!Render(f[k - 1], k, text[k])]
  <1>1. \A m \in Nat : \E f : Turn(f, m)
    <2> DEFINE Bad == {m \in Nat : ~ \E f : Turn(f, m)}
    <2>1. ASSUME NEW m \in Bad, \A b \in Bad : m <= b PROVE FALSE
      <3> HIDE DEF first
      <3>1. CASE m = 0
        <4> DEFINE h == [k \in 0..0 |-> first]
        <4>1. h = [k \in 0..0 |-> IF k = 0 THEN first ELSE Pf!Render(h[k - 1], k, text[k])]
          OBVIOUS
        <4> QED  BY <2>1, <3>1, <4>1
      <3>2. CASE m # 0
        <4>0. m \in Nat
          BY <2>1
        <4>1. m \in Nat /\ m - 1 \in Nat /\ m - 1 \notin Bad
          <5> HIDE DEF Bad
          <5> QED  BY <2>1, <3>2, <4>0
        <4>2. PICK f : Turn(f, m - 1)
          BY <4>1
        <4> DEFINE h == [k \in 0..m |-> IF k = m THEN Pf!Render(f[m - 1], m, text[m]) ELSE f[k]]
        <4>3. ASSUME NEW k \in 0..m
              PROVE  h[k] = IF k = 0 THEN first ELSE Pf!Render(h[k - 1], k, text[k])
          <5>1. CASE k = m
            <6>1. k - 1 \in 0..m /\ k - 1 # m /\ k # 0
              BY <3>2, <4>1, <5>1
            <6> QED  BY <5>1, <6>1
          <5>2. CASE k # m
            <6>1. k \in 0..(m - 1) /\ (k # 0 => k - 1 \in 0..m /\ k - 1 # m)
              BY <4>1, <5>2
            <6>2. f[k] = IF k = 0 THEN first ELSE Pf!Render(f[k - 1], k, text[k])
              BY <4>2, <6>1
            <6> QED  BY <5>2, <6>1, <6>2
          <5> QED  BY <5>1, <5>2
        <4>4. h = [k \in 0..m |-> IF k = 0 THEN first ELSE Pf!Render(h[k - 1], k, text[k])]
          <5>1. h = [k \in 0..m |-> h[k]]
            OBVIOUS
          <5> QED  BY <4>3, <5>1
        <4>5. Turn(h, m)
          BY <4>4
        <4> QED  BY <2>1, <4>5
      <3> QED  BY <3>1, <3>2
    <2> HIDE DEF Turn
    <2>2. Bad = {}
      BY <2>1, LeastNatural
    <2> QED  BY <2>2
  <1> DEFINE turn == CHOOSE f : Turn(f, Len(text))
  <1>2. Pf!Called(text) = turn[Len(text)]
    BY DEF Pf!Called
  <1>3. Len(text) \in Nat /\ \A k \in 1..Len(text) : text[k] \in Atoms
    BY DEF SentText
  <1>4. Turn(turn, Len(text))
    <2> HIDE DEF Turn
    <2> QED  BY <1>1, <1>3
  <1> HIDE DEF turn, first
  <1>5. \A k \in 0..Len(text) :
            turn[k] = IF k = 0 THEN first ELSE Pf!Render(turn[k - 1], k, text[k])
    BY <1>4
  <1>6. SentTurn(first)
    BY DEF first, SentTurn, MarksInv
  <1> DEFINE Short == {k \in 0..Len(text) : ~ SentTurn(turn[k])}
  <1>7. ASSUME NEW k \in Short, \A b \in Short : k <= b PROVE FALSE
    <2>1. k \in 0..Len(text) /\ k \in Nat /\ ~ SentTurn(turn[k])
      BY <1>3, <1>7
    <2>2. CASE k = 0
      BY <1>5, <1>6, <2>1, <2>2
    <2>3. CASE k # 0
      <3>1. k - 1 \in 0..Len(text) /\ k - 1 \notin Short /\ k \in 1..Len(text)
        <4>1. k - 1 \in 0..Len(text) /\ k \in 1..Len(text) /\ ~ (k <= k - 1)
          BY <1>3, <2>1, <2>3
        <4> HIDE DEF Short
        <4> QED  BY <1>7, <4>1
      <3>2. SentTurn(turn[k - 1]) /\ text[k] \in Atoms
        BY <1>3, <3>1
      <3>3. SentTurn(Pf!Render(turn[k - 1], k, text[k]))
        BY <3>2, RenderTurn
      <3> QED  BY <1>5, <2>1, <2>3, <3>3
    <2> QED  BY <2>2, <2>3
  <1>8. SentTurn(turn[Len(text)])
    <2>1. Short \in SUBSET Nat
      BY <1>3
    <2>2. Short = {}
      <3> HIDE DEF Short
      <3> QED  BY <1>7, <2>1, LeastNatural
    <2> QED  BY <1>3, <2>2
  <1> QED  BY <1>2, <1>8

\* What is changed of a task that stays where it is.
LEMMA OpensTask ==
    ASSUME NEW n, NEW t, SentTask(n, t), NEW a, NEW u, u = [t EXCEPT !.open = a]
    PROVE  SentTask(n, u) /\ u.pc = t.pc
  <1>1. t = [pc |-> t.pc, how |-> t.how, at |-> t.at, open |-> t.open, aborted |-> t.aborted, cycle |-> t.cycle]
    BY DEF SentTask
  <1>2. u = [pc |-> t.pc, how |-> t.how, at |-> t.at, open |-> a, aborted |-> t.aborted, cycle |-> t.cycle]
    BY <1>1
  <1> QED  BY <1>2 DEF SentTask

LEMMA AbortsTask ==
    ASSUME NEW n, NEW t, SentTask(n, t), NEW b, NEW u, u = [t EXCEPT !.aborted = b]
    PROVE  SentTask(n, u) /\ u.pc = t.pc
  <1>1. t = [pc |-> t.pc, how |-> t.how, at |-> t.at, open |-> t.open, aborted |-> t.aborted, cycle |-> t.cycle]
    BY DEF SentTask
  <1>2. u = [pc |-> t.pc, how |-> t.how, at |-> t.at, open |-> t.open, aborted |-> b, cycle |-> t.cycle]
    BY <1>1
  <1> QED  BY <1>2 DEF SentTask

LEMMA AdvancesTask ==
    ASSUME NEW n, NEW t, SentTask(n, t), NEW b, NEW u, u = [t EXCEPT !.at = b]
    PROVE  SentTask(n, u) /\ u.pc = t.pc
  <1>1. t = [pc |-> t.pc, how |-> t.how, at |-> t.at, open |-> t.open, aborted |-> t.aborted, cycle |-> t.cycle]
    BY DEF SentTask
  <1>2. u = [pc |-> t.pc, how |-> t.how, at |-> b, open |-> t.open, aborted |-> t.aborted, cycle |-> t.cycle]
    BY <1>1
  <1> QED  BY <1>2 DEF SentTask

LEMMA MovesTask ==
    ASSUME NEW n, NEW t, SentTask(n, t), NEW stage, n.kind = "request" => stage = "texts"
    PROVE  SentTask(n, [t EXCEPT !.pc = stage]) /\ [t EXCEPT !.pc = stage].pc = stage
  <1>1. t = [pc |-> t.pc, how |-> t.how, at |-> t.at, open |-> t.open, aborted |-> t.aborted, cycle |-> t.cycle]
    BY DEF SentTask
  <1>2. [t EXCEPT !.pc = stage]
           = [pc |-> stage, how |-> t.how, at |-> t.at, open |-> t.open, aborted |-> t.aborted, cycle |-> t.cycle]
    BY <1>1
  <1> QED  BY <1>2 DEF SentTask

\* A task that ends takes its mark along.
LEMMA EndsTask ==
    ASSUME MarksInv, NEW n, NEW aborts, pfTask' = Pf!Without(n, aborts), pfResolving' = pfResolving \ {n}
    PROVE  MarksInv'
  <1>1. DOMAIN pfTask' = DOMAIN pfTask \ {n}
    BY DEF Pf!Without
  <1>2. ASSUME NEW m \in DOMAIN pfTask'
        PROVE  SentTask(m, pfTask'[m]) /\ pfTask'[m].pc = pfTask[m].pc
    <2> DEFINE t == pfTask[m]
               u == pfTask'[m]
    <2>1. PICK a, b : u = [t EXCEPT !.open = a, !.aborted = b]
      BY <1>1, <1>2 DEF Pf!Without
    <2>2. SentTask(m, t)
      BY <1>1, <1>2 DEF MarksInv, TasksRun
    <2> DEFINE d == [t EXCEPT !.open = a]
    <2>3. u = [d EXCEPT !.aborted = b]
      BY <2>1
    <2> HIDE DEF t, u
    <2>4. SentTask(m, d) /\ d.pc = t.pc
      BY <2>2, OpensTask
    <2> HIDE DEF d
    <2>5. SentTask(m, u) /\ u.pc = t.pc
      BY <2>3, <2>4, AbortsTask
    <2> QED  BY <2>5 DEF t, u
  <1> QED  BY <1>1, <1>2 DEF MarksInv, TasksRun, MarksHeld

LEMMA NextPartMarks == ASSUME MarksInv, NEW n, Pf!NextPart(n) PROVE MarksInv'
  <1> DEFINE left == Pf!Left(n, Pf!Texts(n))
             next == Pf!Min(left)
             st == Pf!Called(Pf!Texts(n)[next])
  <1>1. n \in DOMAIN pfTask /\ n \in SentNames
    BY DEF Pf!NextPart, Pf!At, Pf!Running, MarksInv, TasksRun, SentTask
  <1>2. Pf!Texts(n)[next] \in SentText
    <2>1. Pf!Texts(n) \in Seq(SentText)
      BY <1>1, TextsTyped
    <2>2. left \subseteq DOMAIN Pf!Texts(n) /\ left # {}
      BY DEF Pf!NextPart, Pf!Left
    <2>3. left \in SUBSET Nat
      BY <2>1, <2>2
    <2>4. next \in DOMAIN Pf!Texts(n)
      BY <2>2, <2>3, MinIs
    <2> HIDE DEF next
    <2> QED  BY <2>1, <2>4
  <1>3. SentTurn(st)
    BY <1>2, CalledTurn
  <1>4. pfTask' = [st.task EXCEPT ![n].at = next, ![n].open = st.open] /\ pfResolving' = st.resolving
    BY DEF Pf!NextPart
  <1> HIDE DEF st, next, left
  <1>5. /\ DOMAIN pfTask' = DOMAIN st.task
        /\ \A m \in DOMAIN st.task : m # n => pfTask'[m] = st.task[m]
        /\ n \in DOMAIN st.task
        /\ pfTask'[n] = [st.task[n] EXCEPT !.at = next, !.open = st.open]
    BY <1>1, <1>3, <1>4 DEF SentTurn
  <1>6. SentTask(n, pfTask'[n]) /\ pfTask'[n].pc = st.task[n].pc
    <2> DEFINE t == st.task[n]
               u == pfTask'[n]
               open == st.open
    <2>1. SentTask(n, t) /\ u = [t EXCEPT !.at = next, !.open = open]
      BY <1>3, <1>5 DEF SentTurn, TasksRun
    <2> DEFINE d == [t EXCEPT !.at = next]
    <2>2. u = [d EXCEPT !.open = open]
      BY <2>1
    <2> HIDE DEF t, u, open
    <2>3. SentTask(n, d) /\ d.pc = t.pc
      BY <2>1, AdvancesTask
    <2> HIDE DEF d
    <2>4. SentTask(n, u) /\ u.pc = t.pc
      BY <2>2, <2>3, OpensTask
    <2> QED  BY <2>4 DEF t, u
  <1>7. \A m \in DOMAIN pfTask' : SentTask(m, pfTask'[m]) /\ pfTask'[m].pc = st.task[m].pc
    BY <1>3, <1>5, <1>6 DEF SentTurn, TasksRun
  <1> QED  BY <1>3, <1>4, <1>5, <1>7 DEF MarksInv, TasksRun, MarksHeld, SentTurn

\* One task that goes on keeps all the others.
LEMMA GoesOn ==
    ASSUME MarksInv, NEW n \in DOMAIN pfTask, NEW t, SentTask(n, t), pfTask' = [pfTask EXCEPT ![n] = t],
           \A m \in pfResolving' : m \in pfResolving \/ m = n,
           n \in pfResolving' => t.pc \in {"texts", "wire"}
    PROVE  MarksInv'
  <1>1. /\ DOMAIN pfTask' = DOMAIN pfTask /\ pfTask'[n] = t
        /\ \A m \in DOMAIN pfTask : m # n => pfTask'[m] = pfTask[m]
    OBVIOUS
  <1> QED  BY <1>1 DEF MarksInv, TasksRun, MarksHeld

LEMMA StepMarks == ASSUME MarksInv, NEW n \in DOMAIN pfTask, Pf!Step(n) PROVE MarksInv'
  <1>0. SentTask(n, pfTask[n])
    BY DEF MarksInv, TasksRun
  <1>1. ASSUME Pf!Got(n) \/ Pf!Failed(n) PROVE MarksInv'
    BY <1>1, EndsTask DEF Pf!Got, Pf!Failed
  <1>2. ASSUME NEW stage, pfTask' = [pfTask EXCEPT ![n].pc = stage], n.kind = "request" => stage = "texts",
               \A m \in pfResolving' : m \in pfResolving \/ m = n,
               n \in pfResolving' => stage \in {"texts", "wire"}
        PROVE  MarksInv'
    <2> DEFINE t == [pfTask[n] EXCEPT !.pc = stage]
    <2>1. SentTask(n, t) /\ t.pc = stage
      BY <1>0, <1>2, MovesTask
    <2>2. pfTask' = [pfTask EXCEPT ![n] = t]
      BY <1>2
    <2> HIDE DEF t
    <2> QED  BY <1>2, <2>1, <2>2, GoesOn
  <1>3. CASE Pf!NextPart(n)
    BY <1>3, NextPartMarks
  <1>4. CASE Pf!Resolved(n)
    <2>1. CASE n.kind = "response" /\ pfTask' = [pfTask EXCEPT ![n].pc = "wire"] /\ UNCHANGED pfResolving
      BY <1>2, <2>1
    <2> QED  BY <1>1, <1>4, <2>1 DEF Pf!Resolved
  <1>5. CASE Pf!Aborted(n)
    BY <1>5, EndsTask DEF Pf!Aborted
  <1>6. CASE Pf!Latest(n)
    <2>1. CASE pfTask' = [pfTask EXCEPT ![n].pc = "texts"] /\ pfResolving' = pfResolving \cup {n}
      BY <1>2, <2>1
    <2> QED  BY <1>1, <1>6, <2>1 DEF Pf!Latest
  <1>7. CASE Pf!Wire(n)
    <2>1. n.kind # "request"
      BY <1>0, <1>7 DEF Pf!Wire, Pf!At, SentTask
    <2>2. CASE pfTask' = [pfTask EXCEPT ![n].pc = "fetch"] /\ pfResolving' = pfResolving \ {n}
      BY <1>2, <2>1, <2>2
    <2> QED  BY <1>1, <1>7, <2>2 DEF Pf!Wire
  <1>8. CASE Pf!Fetch(n)
    BY <1>1, <1>8 DEF Pf!Fetch
  <1>9. CASE Pf!EnsureDone(n)
    <2>1. ASSUME NEW i, pfTask' = [pfTask EXCEPT ![n].open = @ \ {i}], UNCHANGED pfResolving
          PROVE  MarksInv'
      <3> DEFINE t == [pfTask[n] EXCEPT !.open = @ \ {i}]
      <3>1. SentTask(n, t) /\ t.pc = pfTask[n].pc
        BY <1>0, OpensTask
      <3>2. pfTask' = [pfTask EXCEPT ![n] = t]
        BY <2>1
      <3>3. n \in pfResolving => pfTask[n].pc \in {"texts", "wire"}
        BY DEF MarksInv, MarksHeld
      <3> HIDE DEF t
      <3> QED  BY <2>1, <3>1, <3>2, <3>3, GoesOn
    <2> QED  BY <1>1, <1>9, <2>1 DEF Pf!EnsureDone
  <1> QED  BY <1>3, <1>4, <1>5, <1>6, <1>7, <1>8, <1>9 DEF Pf!Step

LEMMA MarksInductive == ASSUME MarksInv, Pf!Next PROVE MarksInv'
  <1>1. ASSUME NEW dismissed, Pf!AskDone(dismissed) PROVE MarksInv'
    <2>1. DOMAIN pfTask' = DOMAIN pfTask /\ UNCHANGED pfResolving
      BY <1>1 DEF Pf!AskDone
    <2>2. ASSUME NEW m \in DOMAIN pfTask
          PROVE  SentTask(m, pfTask'[m]) /\ pfTask'[m].pc = pfTask[m].pc
      <3> DEFINE t == pfTask[m]
                 u == pfTask'[m]
      <3>1. PICK a, b : u = [t EXCEPT !.open = a, !.aborted = b]
        BY <1>1, <2>2 DEF Pf!AskDone
      <3>2. SentTask(m, t)
        BY <2>2 DEF MarksInv, TasksRun
      <3> DEFINE d == [t EXCEPT !.open = a]
      <3>3. u = [d EXCEPT !.aborted = b]
        BY <3>1
      <3> HIDE DEF t, u
      <3>4. SentTask(m, d) /\ d.pc = t.pc
        BY <3>2, OpensTask
      <3> HIDE DEF d
      <3>5. SentTask(m, u) /\ u.pc = t.pc
        BY <3>3, <3>4, AbortsTask
      <3> QED  BY <3>5 DEF t, u
    <2> QED  BY <2>1, <2>2 DEF MarksInv, TasksRun, MarksHeld
  <1>2. ASSUME NEW question, Pf!Forget(question) PROVE MarksInv'
    BY <1>2 DEF Pf!Forget, MarksInv
  <1>3. ASSUME NEW s, Pf!Cancel(s) PROVE MarksInv'
    BY <1>3 DEF Pf!Cancel, MarksInv
  <1>4. ASSUME NEW s \in Sends, NEW r \in SentRequests, Pf!HandleSend(s, r) PROVE MarksInv'
    <2> DEFINE n == Pf!Send(s, r)
               t == Pf!Fresh("texts", None, pfCycle')
    <2>1. pfTask' = Pf!With(pfTask, n, t) /\ UNCHANGED pfResolving
      BY <1>4 DEF Pf!HandleSend
    <2>2. SentTask(n, t)
      BY DEF SentTask, SentNames, Pf!Send, Pf!Fresh
    <2> HIDE DEF n, t
    <2>3. /\ DOMAIN pfTask' = DOMAIN pfTask \cup {n}
          /\ \A m \in DOMAIN pfTask' : pfTask'[m] = IF m \in DOMAIN pfTask THEN pfTask[m] ELSE t
      BY <2>1 DEF Pf!With
    <2> QED  BY <2>1, <2>2, <2>3 DEF MarksInv, TasksRun, MarksHeld
  <1> QED  BY <1>1, <1>2, <1>3, <1>4, StepMarks DEF Pf!Next

\* "finally { unmarkResolving }" (builtins/response, builtins/request): whatever
\* is marked as being resolved is being resolved, and so refuses no later send.
THEOREM MarksAreLiveHolds == SpecAll => []MarksAreLive
  <1> DEFINE Inv == part = "preflight" => MarksInv
  <1>1. InitAll => Inv
    <2>1. ASSUME Pf!Init PROVE MarksInv
      <3>1. pfTask = <<>> /\ pfResolving = {} /\ DOMAIN <<>> = {}
        BY <2>1 DEF Pf!Init
      <3> QED  BY <3>1 DEF MarksInv, TasksRun, MarksHeld
    <2> QED  BY <2>1 DEF InitAll
  <1>2. Inv /\ [NextAll]_allVars => Inv'
    <2>1. ASSUME MarksInv, UNCHANGED pfVars PROVE MarksInv'
      BY <2>1 DEF MarksInv, pfVars
    <2> QED  BY <2>1, MarksInductive DEF NextAll, allVars, pfVars
  <1>3. Inv => MarksAreLive
    BY DEF MarksAreLive, Pf!MarksAreLive, Pf!Running, MarksInv, MarksHeld
  <1> QED  BY <1>1, <1>2, <1>3, PTL DEF SpecAll

----------------------------------------------------------------------------
(* The tree of the sidebar: what is under its rows. *)

\* What the tree is: a list of rows for each folder, and for the root.
Lists == [TreeFolders \cup {TreeRoot} -> Seq(Tr!Rows)]
Kids(ks, p) == Tr!ToSet(ks[p])

\* A list of rows has rows in it.
LEMMA KidsAreRows ==
    ASSUME NEW ks \in Lists, NEW p \in TreeFolders \cup {TreeRoot}
    PROVE  Kids(ks, p) \subseteq Tr!Rows
  BY DEF Lists, Kids, Tr!ToSet

\* What is under some rows has them, and the children of what is in it.
LEMMA UnderHas ==
    ASSUME NEW ks \in Lists, NEW rows \in SUBSET Tr!Rows
    PROVE  /\ rows \subseteq Tr!Under(ks, rows) /\ Tr!Under(ks, rows) \subseteq Tr!Rows
           /\ \A f \in Tr!Under(ks, rows) \cap TreeFolders :
                 Kids(ks, f) \subseteq Tr!Under(ks, rows)
  <1> DEFINE L(o) == Tr!Listed(ks, rows, o)
  <1>1. Tr!Under(ks, rows) =
           {i \in Tr!Rows : \A o \in SUBSET TreeFolders : L(o) \cap TreeFolders \subseteq o => i \in L(o)}
    BY DEF Tr!Under
  <1>2. \A o : L(o) = rows \cup UNION {Kids(ks, f) : f \in o}
    BY DEF Tr!Listed, Kids
  <1>3. ASSUME NEW f \in Tr!Under(ks, rows) \cap TreeFolders, NEW i \in Kids(ks, f)
        PROVE  i \in Tr!Under(ks, rows)
    <2>1. i \in Tr!Rows
      BY KidsAreRows
    <2>2. ASSUME NEW o \in SUBSET TreeFolders, L(o) \cap TreeFolders \subseteq o PROVE i \in L(o)
      <3>1. f \in o
        BY <1>1, <2>2
      <3> QED  BY <1>2, <3>1
    <2> HIDE DEF L
    <2> QED  BY <1>1, <2>1, <2>2
  <1> HIDE DEF L
  <1> QED  BY <1>1, <1>2, <1>3

\* And it is in every set that has them and the children of what is in it.
LEMMA UnderLeast ==
    ASSUME NEW ks \in Lists, NEW rows, NEW S, rows \subseteq S,
           \A f \in S \cap TreeFolders : Kids(ks, f) \subseteq S
    PROVE  Tr!Under(ks, rows) \subseteq S
  <1> DEFINE L(o) == Tr!Listed(ks, rows, o)
             o == S \cap TreeFolders
  <1>1. L(o) = rows \cup UNION {Kids(ks, f) : f \in o}
    BY DEF Tr!Listed, Kids
  <1>2. L(o) \subseteq S
    BY <1>1
  <1>3. \A i \in Tr!Under(ks, rows) : L(o) \cap TreeFolders \subseteq o => i \in L(o)
    BY DEF Tr!Under
  <1> QED  BY <1>2, <1>3

\* What is under some rows and not one of them is a child of what is there.
LEMMA UnderFolder ==
    ASSUME NEW ks \in Lists, NEW rows \in SUBSET Tr!Rows, NEW i \in Tr!Under(ks, rows) \ rows
    PROVE  \E f \in Tr!Under(ks, rows) \cap TreeFolders : i \in Kids(ks, f)
  <1> DEFINE U == Tr!Under(ks, rows)
             S == {x \in U : x \in rows \/ \E f \in U \cap TreeFolders : x \in Kids(ks, f)}
  <1>1. rows \subseteq S /\ \A f \in S \cap TreeFolders : Kids(ks, f) \subseteq S
    BY UnderHas
  <1>2. U \subseteq S
    <2> HIDE DEF S
    <2> QED  BY <1>1, UnderLeast
  <1> QED  BY <1>2

\* A forest, list by list.
LEMMA ForestIs ==
    ASSUME NEW ks \in Lists
    PROVE  Tr!Forest(ks) <=>
              /\ \A p \in TreeFolders \cup {TreeRoot} : IsInjective(ks[p])
              /\ \A p, q \in TreeFolders \cup {TreeRoot} :
                    Kids(ks, p) \cap Kids(ks, q) # {} => p = q
              /\ \A p \in TreeFolders \cup {TreeRoot} : Kids(ks, p) \subseteq Tr!Alive(ks)
  <1> DEFINE P == TreeFolders \cup {TreeRoot}
             Once == \A p, q \in DOMAIN ks : \A j \in DOMAIN ks[p], k \in DOMAIN ks[q] :
                        ks[p][j] = ks[q][k] => p = q /\ j = k
             Each == \A p \in P : IsInjective(ks[p])
             Apart == \A p, q \in P : Kids(ks, p) \cap Kids(ks, q) # {} => p = q
  <1>1. DOMAIN ks = P /\ \A p \in P : Kids(ks, p) = {ks[p][j] : j \in DOMAIN ks[p]}
    BY DEF Lists, Kids, Tr!ToSet
  <1>2. \A p \in P : IsInjective(ks[p]) <=>
           \A j, k \in DOMAIN ks[p] : ks[p][j] = ks[p][k] => j = k
    BY DEF IsInjective
  <1>3. ASSUME Once PROVE Each /\ Apart
    <2>1. Each
      BY <1>1, <1>2, <1>3
    <2>2. ASSUME NEW p \in P, NEW q \in P, NEW x \in Kids(ks, p) \cap Kids(ks, q) PROVE p = q
      <3>1. PICK j \in DOMAIN ks[p], k \in DOMAIN ks[q] : ks[p][j] = x /\ ks[q][k] = x
        BY <1>1
      <3> QED  BY <1>1, <1>3, <3>1
    <2> QED  BY <2>1, <2>2
  <1>4. ASSUME Each, Apart PROVE Once
    <2> SUFFICES ASSUME NEW p \in P, NEW q \in P, NEW j \in DOMAIN ks[p], NEW k \in DOMAIN ks[q],
                        ks[p][j] = ks[q][k]
                 PROVE  p = q /\ j = k
      BY <1>1
    <2>1. ks[p][j] \in Kids(ks, p) \cap Kids(ks, q)
      BY <1>1
    <2>2. p = q
      BY <1>4, <2>1
    <2> QED  BY <1>2, <1>4, <2>2
  <1>5. UNION {Tr!ToSet(ks[p]) : p \in DOMAIN ks} \subseteq Tr!Alive(ks)
           <=> \A p \in P : Kids(ks, p) \subseteq Tr!Alive(ks)
    BY <1>1 DEF Kids
  <1>6. Tr!Forest(ks) <=>
           Once /\ UNION {Tr!ToSet(ks[p]) : p \in DOMAIN ks} \subseteq Tr!Alive(ks)
    BY DEF Tr!Forest
  <1> HIDE DEF Once, Each, Apart
  <1>7. Tr!Forest(ks) <=>
           Each /\ Apart /\ \A p \in P : Kids(ks, p) \subseteq Tr!Alive(ks)
    BY <1>3, <1>4, <1>5, <1>6
  <1> QED  BY <1>7 DEF Each, Apart

\* The folders that hang from the root, and it.
AliveFolders(ks) == (TreeFolders \cap Tr!Alive(ks)) \cup {TreeRoot}

\* The root and the placeholder are no rows.
LEMMA RootIsNoRow == TreeRoot \notin Tr!Rows /\ None \notin Tr!Rows /\ TreeFolders \subseteq Tr!Rows
  BY TreeAssumption DEF Tr!Rows

\* What hangs from the root: its children, those of what hangs from it, no more.
LEMMA AliveHas ==
    ASSUME NEW ks \in Lists
    PROVE  /\ Tr!Alive(ks) \subseteq Tr!Rows
           /\ \A p \in AliveFolders(ks) : Kids(ks, p) \subseteq Tr!Alive(ks)
           /\ \A i \in Tr!Alive(ks) : \E p \in AliveFolders(ks) : i \in Kids(ks, p)
  <1>1. Kids(ks, TreeRoot) \in SUBSET Tr!Rows /\ Tr!Alive(ks) = Tr!Under(ks, Kids(ks, TreeRoot))
    BY KidsAreRows DEF Tr!Alive, Kids
  <1>2. ASSUME NEW i \in Tr!Alive(ks), i \notin Kids(ks, TreeRoot)
        PROVE  \E p \in AliveFolders(ks) : i \in Kids(ks, p)
    BY <1>1, <1>2, UnderFolder DEF AliveFolders
  <1>3. \A p \in AliveFolders(ks) : Kids(ks, p) \subseteq Tr!Alive(ks)
    BY <1>1, UnderHas DEF AliveFolders
  <1> QED  BY <1>1, <1>2, <1>3, UnderHas DEF AliveFolders

\* Whatever has the root's children and those of its folders has the tree.
LEMMA AliveLeast ==
    ASSUME NEW ks \in Lists, NEW S, Kids(ks, TreeRoot) \subseteq S,
           \A f \in S \cap TreeFolders : Kids(ks, f) \subseteq S
    PROVE  Tr!Alive(ks) \subseteq S
  BY UnderLeast DEF Tr!Alive, Kids

\* Rows that go with all that is beneath them leave the rest in the tree.
LEMMA CutForest ==
    ASSUME NEW ks \in Lists, Tr!Forest(ks), NEW kz \in Lists, NEW G, TreeRoot \notin G,
           \A f \in G \cap TreeFolders : Kids(ks, f) \subseteq G,
           \A p \in TreeFolders \cup {TreeRoot} : IsInjective(kz[p]),
           \A p \in TreeFolders \cup {TreeRoot} :
              Kids(kz, p) = IF p \in G THEN {} ELSE Kids(ks, p) \ G
    PROVE  Tr!Forest(kz) /\ Tr!Alive(ks) \ G \subseteq Tr!Alive(kz)
  <1>1. /\ \A p, q \in TreeFolders \cup {TreeRoot} : Kids(ks, p) \cap Kids(ks, q) # {} => p = q
        /\ \A p \in TreeFolders \cup {TreeRoot} : Kids(ks, p) \subseteq Tr!Alive(ks)
    BY ForestIs
  <1>2. Tr!Alive(ks) \subseteq Tr!Alive(kz) \cup G
    <2> DEFINE S == Tr!Alive(kz) \cup G
    <2>1. ASSUME NEW p \in AliveFolders(kz), p \notin G PROVE Kids(ks, p) \subseteq S
      <3>1. Kids(kz, p) = Kids(ks, p) \ G /\ Kids(kz, p) \subseteq Tr!Alive(kz)
        BY <2>1, AliveHas DEF AliveFolders
      <3> QED  BY <3>1
    <2>2. \A f \in S \cap TreeFolders : Kids(ks, f) \subseteq S
      BY <2>1 DEF AliveFolders
    <2>3. Kids(ks, TreeRoot) \subseteq S
      BY <2>1 DEF AliveFolders
    <2> HIDE DEF S
    <2>4. Tr!Alive(ks) \subseteq S
      BY <2>2, <2>3, AliveLeast
    <2> QED  BY <2>4 DEF S
  <1>3. \A p \in TreeFolders \cup {TreeRoot} : Kids(kz, p) \subseteq Tr!Alive(kz)
    BY <1>1, <1>2
  <1>4. \A p, q \in TreeFolders \cup {TreeRoot} : Kids(kz, p) \cap Kids(kz, q) # {} => p = q
    BY <1>1
  <1> QED  BY <1>2, <1>3, <1>4, ForestIs

\* The rows M come from where they were to p, which is not beneath them.
Grafted(ks, kz, M, p) ==
    /\ \A x \in M : p \notin Tr!Under(ks, {x})
    /\ \A q \in TreeFolders \cup {TreeRoot} : IsInjective(kz[q])
    /\ \A q \in TreeFolders \cup {TreeRoot} :
          Kids(kz, q) = (Kids(ks, q) \ M) \cup (IF q = p THEN M ELSE {})

\* move_items: rows that come to a folder that is not beneath them, or to the
\* root, leave a tree that has them and every other row.
LEMMA GraftForest ==
    ASSUME NEW ks \in Lists, Tr!Forest(ks), NEW kz \in Lists,
           NEW M \in SUBSET Tr!Rows, NEW p \in AliveFolders(ks), Grafted(ks, kz, M, p)
    PROVE  Tr!Forest(kz) /\ Tr!Alive(ks) \cup M \subseteq Tr!Alive(kz)
  <1> USE DEF Grafted
  <1> DEFINE A == Tr!Alive(kz)
             G == UNION {Tr!Under(ks, {x}) : x \in M}
  <1>1. /\ \A q, r \in TreeFolders \cup {TreeRoot} : Kids(ks, q) \cap Kids(ks, r) # {} => q = r
        /\ \A q \in TreeFolders \cup {TreeRoot} : Kids(ks, q) \subseteq Tr!Alive(ks)
    BY ForestIs
  <1>2. \A x \in M : /\ x \in Tr!Under(ks, {x})
                     /\ \A f \in Tr!Under(ks, {x}) \cap TreeFolders :
                           Kids(ks, f) \subseteq Tr!Under(ks, {x})
    <2> TAKE x \in M
    <2>1. {x} \in SUBSET Tr!Rows
      OBVIOUS
    <2> QED  BY <2>1, UnderHas
  <1>3. M \subseteq G /\ p \notin G /\ \A f \in G \cap TreeFolders : Kids(ks, f) \subseteq G
    <2>1. M \subseteq G /\ p \notin G
      BY <1>2
    <2>2. ASSUME NEW f \in G \cap TreeFolders PROVE Kids(ks, f) \subseteq G
      <3>1. PICK x \in M : f \in Tr!Under(ks, {x})
        OBVIOUS
      <3> QED  BY <1>2, <3>1
    <2> QED  BY <2>1, <2>2
  <1>4. \A q \in AliveFolders(kz) : Kids(kz, q) \subseteq A
    BY AliveHas
  <1>5. \A q \in AliveFolders(kz) : Kids(ks, q) \subseteq A \cup M
    BY <1>4 DEF AliveFolders
  <1> HIDE DEF G
  <1>6. Tr!Alive(ks) \subseteq A \cup G
    <2> DEFINE S == A \cup G
    <2>1. \A f \in S \cap TreeFolders : Kids(ks, f) \subseteq S
      BY <1>3, <1>5 DEF AliveFolders
    <2>2. Kids(ks, TreeRoot) \subseteq S
      BY <1>3, <1>5 DEF AliveFolders
    <2> HIDE DEF S
    <2>3. Tr!Alive(ks) \subseteq S
      BY <2>1, <2>2, AliveLeast
    <2> QED  BY <2>3 DEF S
  <1>7. p \in AliveFolders(kz)
    BY <1>3, <1>6 DEF AliveFolders
  <1>8. M \subseteq A
    <2>1. M \subseteq Kids(kz, p)
      BY DEF AliveFolders
    <2> QED  BY <1>4, <1>7, <2>1
  <1>9. Tr!Alive(ks) \subseteq A
    <2>1. \A q \in AliveFolders(kz) : Kids(ks, q) \subseteq A
      BY <1>5, <1>8
    <2> HIDE DEF A
    <2>2. \A f \in A \cap TreeFolders : Kids(ks, f) \subseteq A
      BY <2>1 DEF AliveFolders, A
    <2>3. Kids(ks, TreeRoot) \subseteq A
      BY <2>1 DEF AliveFolders
    <2> QED  BY <2>2, <2>3, AliveLeast
  <1>10. \A q \in TreeFolders \cup {TreeRoot} : Kids(kz, q) \subseteq Tr!Alive(kz)
    BY <1>1, <1>8, <1>9
  <1>11. \A q, r \in TreeFolders \cup {TreeRoot} : Kids(kz, q) \cap Kids(kz, r) # {} => q = r
    BY <1>1
  <1> QED  BY <1>8, <1>9, <1>10, <1>11, ForestIs

\* A row in no list has nothing beneath it.
LEMMA NewRow ==
    ASSUME NEW ks \in Lists, Tr!Forest(ks), NEW i \in Tr!Rows \ Tr!Alive(ks)
    PROVE  Tr!Under(ks, {i}) = {i} /\ \A p \in TreeFolders \cup {TreeRoot} : i \notin Kids(ks, p)
  <1>1. /\ \A q, r \in TreeFolders \cup {TreeRoot} : Kids(ks, q) \cap Kids(ks, r) # {} => q = r
        /\ \A q \in TreeFolders \cup {TreeRoot} : Kids(ks, q) \subseteq Tr!Alive(ks)
    BY ForestIs
  <1>2. ASSUME i \in TreeFolders PROVE Kids(ks, i) = {}
    <2>1. SUFFICES ASSUME NEW x \in Kids(ks, i) PROVE FALSE
      OBVIOUS
    <2>2. PICK p \in AliveFolders(ks) : x \in Kids(ks, p)
      BY <1>1, <1>2, AliveHas
    <2>3. p = i
      BY <1>1, <1>2, <2>2 DEF AliveFolders
    <2> QED  BY <2>2, <2>3, RootIsNoRow DEF AliveFolders
  <1>3. Tr!Under(ks, {i}) \subseteq {i}
    <2> DEFINE S == {i}
    <2>1. \A f \in S \cap TreeFolders : Kids(ks, f) \subseteq S
      BY <1>2
    <2> HIDE DEF S
    <2>2. Tr!Under(ks, S) \subseteq S
      BY <2>1, UnderLeast
    <2> QED  BY <2>2 DEF S
  <1>4. {i} \in SUBSET Tr!Rows
    OBVIOUS
  <1> QED  BY <1>1, <1>3, <1>4, UnderHas

\* A list with one more row at its end.
LEMMA AppendedList ==
    ASSUME NEW list \in Seq(Tr!Rows), NEW i \in Tr!Rows
    PROVE  /\ Append(list, i) \in Seq(Tr!Rows)
           /\ Tr!ToSet(Append(list, i)) = Tr!ToSet(list) \cup {i}
           /\ IsInjective(list) /\ i \notin Tr!ToSet(list) => IsInjective(Append(list, i))
  <1> DEFINE s == Append(list, i)
             n == Len(list)
  <1>1. /\ s \in Seq(Tr!Rows) /\ DOMAIN s = 1..(n + 1) /\ DOMAIN list = 1..n /\ n \in Nat
        /\ s[n + 1] = i /\ \A k \in 1..n : s[k] = list[k]
    OBVIOUS
  <1> HIDE DEF s
  <1>2. \A k \in 1..(n + 1) : k = n + 1 \/ k \in 1..n
    BY <1>1
  <1>3. Tr!ToSet(s) = Tr!ToSet(list) \cup {i}
    <2>1. \A x \in Tr!ToSet(s) : x \in Tr!ToSet(list) \cup {i}
      BY <1>1, <1>2 DEF Tr!ToSet
    <2>2. \A k \in 1..n : k \in 1..(n + 1)
      BY <1>1
    <2>3. i \in Tr!ToSet(s) /\ Tr!ToSet(list) \subseteq Tr!ToSet(s)
      BY <1>1, <2>2 DEF Tr!ToSet
    <2> QED  BY <2>1, <2>3
  <1>4. ASSUME IsInjective(list), i \notin Tr!ToSet(list) PROVE IsInjective(s)
    <2>1. \A k \in 1..n : list[k] # i
      BY <1>1, <1>4 DEF Tr!ToSet
    <2>2. \A j, k \in 1..n : list[j] = list[k] => j = k
      BY <1>1, <1>4 DEF IsInjective
    <2>3. ASSUME NEW j \in 1..(n + 1), NEW k \in 1..(n + 1), s[j] = s[k] PROVE j = k
      <3>1. CASE j \in 1..n /\ k \in 1..n
        BY <1>1, <2>2, <2>3, <3>1
      <3>2. CASE j = n + 1 \/ k = n + 1
        BY <1>1, <1>2, <2>1, <2>3, <3>2
      <3> QED  BY <1>2, <3>1, <3>2
    <2> QED  BY <1>1, <2>3 DEF IsInjective
  <1> QED  BY <1>1, <1>3, <1>4 DEF s

\* A new node is one more row of the tree.
LEMMA AppendForest ==
    ASSUME NEW ks \in Lists, Tr!Forest(ks), NEW i \in Tr!Rows \ Tr!Alive(ks),
           NEW p \in AliveFolders(ks), NEW kz \in Lists,
           \A q \in TreeFolders \cup {TreeRoot} : kz[q] = IF q = p THEN Append(ks[q], i) ELSE ks[q]
    PROVE  Tr!Forest(kz) /\ Tr!Alive(ks) \cup {i} \subseteq Tr!Alive(kz)
  <1>1. p \in TreeFolders \cup {TreeRoot} /\ p # i
    BY RootIsNoRow DEF AliveFolders
  <1>2. kz[p] = Append(ks[p], i) /\ \A q \in TreeFolders \cup {TreeRoot} : q # p => kz[q] = ks[q]
    BY <1>1
  <1>3. /\ ks[p] \in Seq(Tr!Rows)
        /\ \A q \in TreeFolders \cup {TreeRoot} : IsInjective(ks[q])
    BY <1>1, ForestIs DEF Lists
  <1>4. \A q \in TreeFolders \cup {TreeRoot} : i \notin Kids(ks, q)
    BY NewRow
  <1>5. \A q \in TreeFolders \cup {TreeRoot} : IsInjective(kz[q])
    BY <1>1, <1>2, <1>3, <1>4, AppendedList DEF Kids
  <1>6. Kids(kz, p) = Kids(ks, p) \cup {i}
    BY <1>2, <1>3, AppendedList DEF Kids
  <1>7. \A q \in TreeFolders \cup {TreeRoot} : q # p => Kids(kz, q) = Kids(ks, q)
    BY <1>2 DEF Kids
  <1> DEFINE M == {i}
  <1>8. \A q \in TreeFolders \cup {TreeRoot} :
           Kids(kz, q) = (Kids(ks, q) \ M) \cup (IF q = p THEN M ELSE {})
    BY <1>4, <1>6, <1>7
  <1>9. \A x \in M : p \notin Tr!Under(ks, {x})
    BY <1>1, NewRow
  <1>10. M \in SUBSET Tr!Rows
    OBVIOUS
  <1> HIDE DEF M
  <1>11. Tr!Forest(kz) /\ Tr!Alive(ks) \cup M \subseteq Tr!Alive(kz)
    <2>1. Grafted(ks, kz, M, p)
      BY <1>5, <1>8, <1>9 DEF Grafted
    <2> QED  BY <1>10, <2>1, GraftForest
  <1> QED  BY <1>2, <1>11 DEF M

----------------------------------------------------------------------------
(* Loops over lists. *)

\* What holds at first and at each next turn of a loop holds to its end.
LEMMA EveryTurn ==
    ASSUME NEW n \in Nat, NEW T, 0 \in T, \A i \in 1..n : i - 1 \in T => i \in T
    PROVE  \A i \in 0..n : i \in T
  <1> DEFINE S == {i \in 0..n : i \notin T}
  <1>1. SUFFICES ASSUME S # {} PROVE FALSE
    OBVIOUS
  <1>2. S \in SUBSET Nat
    OBVIOUS
  <1>3. PICK m \in S : \A i \in S : m <= i
    <2> HIDE DEF S
    <2> QED  BY <1>1, <1>2, LeastNatural
  <1>4. m \in 1..n /\ m - 1 \in 0..n /\ m \notin T
    BY <1>3
  <1>5. m - 1 \in T
    BY <1>3, <1>4
  <1> QED  BY <1>4, <1>5

\* A loop that starts with a value of D and stays in D, and its course.
Loop(n, D, base, step) == n \in Nat /\ base \in D /\ step \in [1..n -> [D -> D]]
IsCourse(g, n, D, base, step) ==
    /\ g \in [0..n -> D] /\ g[0] = base
    /\ \A i \in 1..n : g[i] = step[i][g[i - 1]]

\* A loop has a course, and stays in D.
LEMMA Course ==
    ASSUME NEW n, NEW D, NEW base, NEW step, Loop(n, D, base, step)
    PROVE  \E g : IsCourse(g, n, D, base, step)
  <1> USE DEF Loop, IsCourse
  <1> DEFINE Is(g, m) == IsCourse(g, m, D, base, step)
             T == {m \in 0..n : \E g : Is(g, m)}
  <1>1. 0 \in T
    <2>1. Is([i \in 0..0 |-> base], 0)
      OBVIOUS
    <2> HIDE DEF Is
    <2> QED  BY <2>1
  <1>2. ASSUME NEW m \in 1..n, m - 1 \in T PROVE m \in T
    <2>1. PICK g : Is(g, m - 1)
      BY <1>2
    <2> DEFINE h == [i \in 0..m |-> IF i = m THEN step[m][g[m - 1]] ELSE g[i]]
    <2>2. m - 1 \in 0..(m - 1) /\ g[m - 1] \in D /\ step[m][g[m - 1]] \in D
      BY <2>1
    <2>3. h \in [0..m -> D] /\ h[0] = base
      BY <2>1, <2>2
    <2>4. \A i \in 1..m : h[i] = step[i][h[i - 1]]
      <3> SUFFICES ASSUME NEW i \in 1..m PROVE h[i] = step[i][h[i - 1]]
        OBVIOUS
      <3>1. i - 1 \in 0..m /\ i - 1 # m /\ h[i - 1] = g[i - 1]
        OBVIOUS
      <3>2. CASE i = m
        BY <3>1, <3>2
      <3>3. CASE i # m
        BY <2>1, <3>1, <3>3
      <3> QED  BY <3>2, <3>3
    <2>5. Is(h, m)
      BY <2>3, <2>4
    <2> HIDE DEF Is, h
    <2> QED  BY <2>5
  <1>3. n \in T
    <2> HIDE DEF T
    <2>1. \A m \in 0..n : m \in T
      BY <1>1, <1>2, EveryTurn
    <2> QED  BY <2>1
  <1> QED  BY <1>3


\* FlattenSeq, turn by turn.
IsFlattened(f, seqs, D) ==
    /\ f \in [1..Len(seqs) -> Seq(D)] /\ f[1] = seqs[1]
    /\ \A k \in 2..Len(seqs) : f[k] = f[k - 1] \o seqs[k]
    /\ Tr!FlattenSeq(seqs) = f[Len(seqs)]

\* FlattenSeq is the last of its turns.
LEMMA Flattened ==
    ASSUME NEW D, NEW seqs \in Seq(Seq(D)), Len(seqs) # 0
    PROVE  \E f : IsFlattened(f, seqs, D)
  <1> DEFINE n == Len(seqs)
             V == Seq(D)
             Next1(k, d) == d \o seqs[k]
             step == [k \in 1..n |-> [d \in V |-> Next1(k, d)]]
             f == CHOOSE h : h = [k \in 1..Len(seqs) |->
                                    IF k = 1 THEN seqs[k] ELSE h[k - 1] \o seqs[k]]
  <1>1. /\ n \in Nat /\ n >= 1 /\ <<>> \in V /\ seqs[1] \in V /\ <<>> \o seqs[1] = seqs[1]
        /\ \A k \in 1..n, d \in V : Next1(k, d) \in V
    OBVIOUS
  <1>2. Tr!FlattenSeq(seqs) = f[n]
    BY DEF Tr!FlattenSeq
  <1> DEFINE Is(h) == h = [k \in 1..n |-> IF k = 1 THEN seqs[k] ELSE Next1(k, h[k - 1])]
  <1>3. Is(f)
    <2>1. step \in [1..n -> [V -> V]] /\ \A k \in 1..n, d \in V : step[k][d] = Next1(k, d)
      <3> HIDE DEF V, Next1, n
      <3> QED  BY <1>1
    <2> HIDE DEF V, n, step
    <2>2. PICK g : g \in [0..n -> V] /\ g[0] = <<>> /\ \A k \in 1..n : g[k] = step[k][g[k - 1]]
      <3> HIDE DEF Next1
      <3>1. Loop(n, V, <<>>, step)
        BY <1>1, <2>1 DEF Loop
      <3>2. PICK g : IsCourse(g, n, V, <<>>, step)
        BY <3>1, Course
      <3> QED  BY <3>2 DEF IsCourse
    <2> DEFINE e == [k \in 1..n |-> g[k]]
    <2>3. g[1] = seqs[1]
      <3>1. 1 \in 1..n /\ g[1 - 1] = <<>>
        BY <1>1, <2>2
      <3>2. g[1] = Next1(1, <<>>)
        <4> HIDE DEF Next1
        <4> QED  BY <1>1, <2>1, <2>2, <3>1
      <3> QED  BY <1>1, <3>2
    <2> HIDE DEF Next1
    <2>4. e \in [1..n -> V]
      <3>1. \A k \in 1..n : k \in 0..n
        BY <1>1
      <3> QED  BY <2>2, <3>1
    <2>5. ASSUME NEW k \in 1..n, k # 1 PROVE k - 1 \in 1..n /\ g[k] = Next1(k, g[k - 1])
      <3>1. k - 1 \in 1..n /\ k - 1 \in 0..n
        BY <1>1, <2>5
      <3> QED  BY <2>1, <2>2, <3>1
    <2>6. Is(e)
      BY <2>3, <2>5
    <2> HIDE DEF e
    <2>7. f = CHOOSE h : Is(h)
      BY DEF Next1, n
    <2>8. Is(f)
      <3> HIDE DEF Is, f
      <3> QED  BY <2>6, <2>7
    <2> QED  BY <2>8
  <1> HIDE DEF f, V, n, Next1
  <1>4. f[1] = seqs[1] /\ \A k \in 2..n : f[k] = Next1(k, f[k - 1])
    <2>1. 1 \in 1..n /\ \A k \in 2..n : k \in 1..n /\ k # 1
      BY <1>1
    <2> QED  BY <1>3, <2>1
  <1>5. \A k \in 1..n : f[k] \in V
    <2> DEFINE T == {k \in 0..(n - 1) : f[k + 1] \in V}
    <2>1. 0 \in T
      BY <1>1, <1>4
    <2>2. ASSUME NEW k \in 1..(n - 1), k - 1 \in T PROVE k \in T
      <3>1. f[k] \in V /\ k + 1 \in 2..n /\ k + 1 \in 1..n /\ (k + 1) - 1 = k /\ k \in 0..(n - 1)
        BY <1>1, <2>2
      <3> QED  BY <1>1, <1>4, <3>1
    <2> HIDE DEF T
    <2>3. \A k \in 0..(n - 1) : k \in T
      <3>1. n - 1 \in Nat
        BY <1>1
      <3> QED  BY <2>1, <2>2, <3>1, EveryTurn
    <2>4. \A k \in 1..n : k - 1 \in 0..(n - 1) /\ (k - 1) + 1 = k
      BY <1>1
    <2> QED  BY <2>3, <2>4 DEF T
  <1>6. f \in [1..n -> V]
    BY <1>3, <1>5
  <1>7. IsFlattened(f, seqs, D)
    BY <1>2, <1>4, <1>6 DEF IsFlattened, Next1, V, n
  <1> QED  BY <1>7

----------------------------------------------------------------------------
(* Lists without some rows, and what flattenVisible makes of them. *)

\* EveryTurn of a loop that starts at one: what holds after its last turn.
LEMMA LastTurn ==
    ASSUME NEW n \in Nat, n # 0, NEW T, 1 \in T, \A k \in 2..n : k - 1 \in T => k \in T
    PROVE  n \in T
  <1> DEFINE Z == {k \in 0..(n - 1) : k + 1 \in T}
  <1>1. n - 1 \in Nat /\ 0 \in Z
    OBVIOUS
  <1>2. ASSUME NEW k \in 1..(n - 1), k - 1 \in Z PROVE k \in Z
    <2>1. k \in T /\ k + 1 \in 2..n /\ (k + 1) - 1 = k /\ k \in 0..(n - 1)
      BY <1>2
    <2> QED  BY <2>1
  <1>3. \A k \in 0..(n - 1) : k \in Z
    <2> HIDE DEF Z
    <2> QED  BY <1>1, <1>2, EveryTurn
  <1>4. n - 1 \in 0..(n - 1) /\ (n - 1) + 1 = n
    OBVIOUS
  <1> QED  BY <1>3, <1>4

\* Removing rows from a list.
LEMMA WithoutIs ==
    ASSUME NEW list \in Seq(Tr!Rows), NEW gone
    PROVE  /\ Tr!Without(list, gone) \in Seq(Tr!Rows)
           /\ Tr!ToSet(Tr!Without(list, gone)) = Tr!ToSet(list) \ gone
           /\ IsInjective(list) => IsInjective(Tr!Without(list, gone))
  <1> DEFINE R == Tr!Rows
             n == Len(list)
             out == Tr!Without(list, gone)
             seqs == [k \in DOMAIN list |-> IF list[k] \in gone THEN <<>> ELSE <<list[k]>>]
  <1>1. out = Tr!FlattenSeq(seqs)
    BY DEF Tr!Without
  <1>2. /\ n \in Nat /\ DOMAIN list = 1..n /\ \A k \in 1..n : list[k] \in R
        /\ seqs \in Seq(Seq(R)) /\ Len(seqs) = n
        /\ \A k \in 1..n : seqs[k] = IF list[k] \in gone THEN <<>> ELSE <<list[k]>>
    <2>1. n \in Nat /\ DOMAIN list = 1..n /\ \A k \in 1..n : list[k] \in R
      OBVIOUS
    <2>2. \A k \in 1..n : seqs[k] \in Seq(R)
      BY <2>1
    <2> QED  BY <2>1, <2>2
  <1>3. Tr!ToSet(list) = {list[k] : k \in 1..n}
    BY <1>2 DEF Tr!ToSet
  <1> HIDE DEF n, seqs, out, R
  <1>4. CASE n = 0
    <2>1. out = <<>>
      <3>1. Tr!FlattenSeq(seqs) = seqs
        BY <1>2, <1>4 DEF Tr!FlattenSeq
      <3> QED  BY <1>1, <1>2, <1>4, <3>1
    <2>2. Tr!ToSet(list) = {} /\ Tr!ToSet(out) = {} /\ IsInjective(out)
      BY <1>3, <1>4, <2>1 DEF Tr!ToSet, IsInjective
    <2> QED  BY <2>1, <2>2 DEF out, R
  <1>5. CASE n # 0
    <2>1. PICK f : IsFlattened(f, seqs, R)
      BY <1>2, <1>5, Flattened
    <2>2. /\ f \in [1..n -> Seq(R)] /\ f[1] = seqs[1] /\ out = f[n]
          /\ \A k \in 2..n : f[k] = f[k - 1] \o seqs[k]
      BY <1>1, <1>2, <2>1 DEF IsFlattened
    <2> DEFINE Good(s, k) ==
                  /\ s \in Seq(R) /\ Tr!ToSet(s) = {list[j] : j \in 1..k} \ gone
                  /\ IsInjective(list) => IsInjective(s)
               T == {k \in 1..n : Good(f[k], k)}
    <2>3. ASSUME NEW s, NEW k \in 1..n, Good(s, k - 1)
          PROVE  Good(s \o seqs[k], k)
      <3>1. {list[j] : j \in 1..k} = {list[j] : j \in 1..(k - 1)} \cup {list[k]}
        <4>1. \A j \in 1..k : j \in 1..(k - 1) \/ j = k
          BY <1>2
        <4>2. \A j \in 1..(k - 1) : j \in 1..k
          BY <1>2
        <4>3. k \in 1..k
          BY <1>2
        <4> QED  BY <4>1, <4>2, <4>3
      <3>2. CASE list[k] \in gone
        <4>1. s \o seqs[k] = s
          BY <1>2, <2>3, <3>2
        <4> QED  BY <2>3, <3>1, <3>2, <4>1
      <3>3. CASE list[k] \notin gone
        <4>1. s \o seqs[k] = Append(s, list[k]) /\ s \in Seq(Tr!Rows) /\ list[k] \in Tr!Rows
          <5>1. s \in Seq(R) /\ list[k] \in R /\ seqs[k] = <<list[k]>>
            BY <1>2, <2>3, <3>3
          <5> HIDE DEF R
          <5>2. s \o <<list[k]>> = Append(s, list[k])
            BY <5>1, AppendIsConcat
          <5> QED  BY <5>1, <5>2 DEF R
        <4>2. ASSUME IsInjective(list) PROVE list[k] \notin Tr!ToSet(s)
          <5>1. \A j \in 1..(k - 1) : j \in 1..n /\ j # k
            BY <1>2
          <5>2. \A j \in 1..(k - 1) : list[j] # list[k]
            BY <1>2, <4>2, <5>1 DEF IsInjective
          <5> QED  BY <2>3, <5>2
        <4>3. /\ Append(s, list[k]) \in Seq(R)
              /\ Tr!ToSet(Append(s, list[k])) = Tr!ToSet(s) \cup {list[k]}
              /\ IsInjective(list) => IsInjective(Append(s, list[k]))
          BY <2>3, <4>1, <4>2, AppendedList DEF R
        <4> HIDE DEF R
        <4> QED  BY <2>3, <3>1, <3>3, <4>1, <4>3
      <3> QED  BY <3>2, <3>3
    <2>4. 1 \in T
      <3>1. Good(<<>>, 0)
        <4>1. 1..0 = {} /\ DOMAIN <<>> = {}
          OBVIOUS
        <4> QED  BY <4>1 DEF Tr!ToSet, IsInjective
      <3>2. 1 \in 1..n /\ 1 - 1 = 0
        BY <1>2, <1>5
      <3>3. <<>> \o seqs[1] = seqs[1]
        BY <1>2, <3>2
      <3> HIDE DEF Good
      <3>4. Good(<<>> \o seqs[1], 1)
        BY <2>3, <3>1, <3>2
      <3> QED  BY <2>2, <3>2, <3>3, <3>4
    <2>5. ASSUME NEW k \in 2..n, k - 1 \in T PROVE k \in T
      <3>1. k \in 1..n /\ Good(f[k - 1], k - 1)
        BY <1>2, <2>5
      <3> HIDE DEF Good
      <3> QED  BY <2>2, <2>3, <3>1
    <2>6. n \in T
      <3> HIDE DEF T
      <3> QED  BY <1>2, <1>5, <2>4, <2>5, LastTurn
    <2>7. Good(out, n)
      <3> HIDE DEF Good
      <3> QED  BY <2>2, <2>6
    <2> QED  BY <1>3, <2>7 DEF out, R
  <1> QED  BY <1>4, <1>5

\* Each row of a list is one of A, or a child of a folder before it.
Chained(ks, s, A) ==
    /\ s \in Seq(Tr!Rows)
    /\ \A k \in 1..Len(s) :
          s[k] \in A \/ \E j \in 1..(k - 1) : s[j] \in TreeFolders /\ s[k] \in Kids(ks, s[j])

\* Two such lists, one after the other, are such a list.
LEMMA ChainJoin ==
    ASSUME NEW ks, NEW A, NEW s, NEW t, Chained(ks, s, A), Chained(ks, t, A)
    PROVE  Chained(ks, s \o t, A)
  <1> DEFINE m == Len(s)
             n == Len(t)
             u == s \o t
  <1>1. /\ m \in Nat /\ n \in Nat /\ u \in Seq(Tr!Rows) /\ Len(u) = m + n
        /\ \A k \in 1..m : u[k] = s[k]
        /\ \A k \in 1..n : u[m + k] = t[k]
    BY DEF Chained
  <1> HIDE DEF u
  <1>2. SUFFICES ASSUME NEW k \in 1..(m + n)
                 PROVE  u[k] \in A \/ \E j \in 1..(k - 1) : u[j] \in TreeFolders /\ u[k] \in Kids(ks, u[j])
    BY <1>1 DEF Chained, u
  <1>3. CASE k \in 1..m
    <2>1. \A j \in 1..(k - 1) : u[j] = s[j]
      BY <1>1, <1>3
    <2> QED  BY <1>1, <1>3, <2>1 DEF Chained
  <1>4. CASE k \notin 1..m
    <2>1. k - m \in 1..n /\ m + (k - m) = k
      BY <1>1, <1>4
    <2>2. u[k] = t[k - m]
      BY <1>1, <2>1
    <2>3. \A j \in 1..((k - m) - 1) : m + j \in 1..(k - 1) /\ u[m + j] = t[j]
      BY <1>1, <2>1
    <2>4. t[k - m] \in A \/ \E j \in 1..((k - m) - 1) : t[j] \in TreeFolders /\ t[k - m] \in Kids(ks, t[j])
      BY <2>1 DEF Chained
    <2> HIDE DEF m, n
    <2> QED  BY <2>2, <2>3, <2>4
  <1> QED  BY <1>3, <1>4

\* And so is a row of A before a list of what is beneath it.
LEMMA ChainUnder ==
    ASSUME NEW ks, NEW A, NEW r \in A \cap Tr!Rows, NEW t,
           Chained(ks, t, Kids(ks, r)), t # <<>> => r \in TreeFolders
    PROVE  Chained(ks, <<r>> \o t, A)
  <1> DEFINE n == Len(t)
             u == <<r>> \o t
  <1>1. /\ n \in Nat /\ u \in Seq(Tr!Rows) /\ Len(u) = n + 1 /\ u[1] = r
        /\ \A k \in 1..n : u[k + 1] = t[k]
        /\ n # 0 => r \in TreeFolders
    BY DEF Chained
  <1> HIDE DEF u
  <1>2. SUFFICES ASSUME NEW k \in 1..(n + 1)
                 PROVE  u[k] \in A \/ \E j \in 1..(k - 1) : u[j] \in TreeFolders /\ u[k] \in Kids(ks, u[j])
    BY <1>1 DEF Chained, u
  <1>3. CASE k = 1
    BY <1>1, <1>3
  <1>4. CASE k # 1
    <2>1. k - 1 \in 1..n /\ (k - 1) + 1 = k /\ 1 \in 1..(k - 1) /\ n # 0
      BY <1>1, <1>4
    <2>2. u[k] = t[k - 1]
      BY <1>1, <2>1
    <2>3. t[k - 1] \in Kids(ks, r)
             \/ \E j \in 1..((k - 1) - 1) : t[j] \in TreeFolders /\ t[k - 1] \in Kids(ks, t[j])
      BY <2>1 DEF Chained
    <2>4. \A j \in 1..((k - 1) - 1) : j + 1 \in 1..(k - 1) /\ u[j + 1] = t[j]
      BY <1>1, <2>1
    <2> HIDE DEF n
    <2> QED  BY <1>1, <2>1, <2>2, <2>3, <2>4
  <1> QED  BY <1>3, <1>4

\* What has A and the children of what it has, has all of the list.
LEMMA ChainIn ==
    ASSUME NEW ks, NEW A, NEW s, Chained(ks, s, A), NEW S, A \subseteq S,
           \A f \in S \cap TreeFolders : Kids(ks, f) \subseteq S
    PROVE  \A k \in 1..Len(s) : s[k] \in S
  <1> DEFINE T == {k \in 1..Len(s) : s[k] \notin S}
  <1>1. SUFFICES ASSUME T # {} PROVE FALSE
    OBVIOUS
  <1>2. T \in SUBSET Nat /\ Len(s) \in Nat
    BY DEF Chained
  <1>3. PICK k \in T : \A j \in T : k <= j
    <2> HIDE DEF T
    <2> QED  BY <1>1, <1>2, LeastNatural
  <1>4. PICK j \in 1..(k - 1) : s[j] \in TreeFolders /\ s[k] \in Kids(ks, s[j])
    BY <1>3 DEF Chained
  <1>5. j \in 1..Len(s) /\ ~ (k <= j)
    BY <1>2, <1>3
  <1>6. s[j] \in S
    BY <1>3, <1>5
  <1> QED  BY <1>3, <1>4, <1>6

\* What is shown beneath each row.
IsBeneath(ks, b) ==
    /\ b \in [Tr!Rows -> Seq(Tr!Rows)]
    /\ \A r \in Tr!Rows : /\ Chained(ks, b[r], Kids(ks, r))
                          /\ b[r] # <<>> => r \in TreeFolders

\* What is beneath a row is no child of the root.
LEMMA ChildOfFolder ==
    ASSUME NEW ks \in Lists, Tr!Forest(ks), NEW b, IsBeneath(ks, b), NEW r \in Tr!Rows,
           NEW k \in 1..Len(b[r])
    PROVE  b[r][k] \notin Kids(ks, TreeRoot)
  <1>1. b[r] # <<>> /\ r \in TreeFolders
    BY DEF IsBeneath
  <1>2. PICK f \in TreeFolders : b[r][k] \in Kids(ks, f)
    BY <1>1 DEF IsBeneath, Chained
  <1>3. f # TreeRoot
    BY RootIsNoRow
  <1> QED  BY <1>2, <1>3, ForestIs

\* The rows of a list, each with what is beneath it.
LEMMA UnfoldIs ==
    ASSUME NEW ks \in Lists, NEW list \in Seq(Tr!Rows), NEW b, IsBeneath(ks, b)
    PROVE  Chained(ks, Tr!Unfold(list, b), Tr!ToSet(list))
  <1> DEFINE R == Tr!Rows
             n == Len(list)
             A == Tr!ToSet(list)
             Block(k) == <<list[k]>> \o b[list[k]]
             seqs == [k \in DOMAIN list |-> Block(k)]
  <1>1. n \in Nat /\ DOMAIN list = 1..n /\ \A k \in 1..n : list[k] \in A \cap R
    BY DEF Tr!ToSet
  <1>2. ASSUME NEW k \in 1..n PROVE Chained(ks, Block(k), A)
    BY <1>1, ChainUnder DEF IsBeneath
  <1>3. Tr!Unfold(list, b) = Tr!FlattenSeq(seqs)
    BY DEF Tr!Unfold
  <1> HIDE DEF Block, A
  <1>4. seqs \in Seq(Seq(R)) /\ Len(seqs) = n /\ \A k \in 1..n : seqs[k] = Block(k)
    BY <1>1, <1>2 DEF Chained
  <1> HIDE DEF seqs
  <1>5. CASE n = 0
    <2>1. Tr!Unfold(list, b) = <<>>
      <3>1. Tr!FlattenSeq(seqs) = seqs
        BY <1>4, <1>5 DEF Tr!FlattenSeq
      <3> QED  BY <1>3, <1>4, <1>5, <3>1
    <2> QED  BY <2>1 DEF Chained, A
  <1>6. CASE n # 0
    <2>1. PICK f : IsFlattened(f, seqs, R)
      BY <1>4, <1>6, Flattened
    <2> DEFINE T == {k \in 1..n : Chained(ks, f[k], A)}
    <2>2. f[1] = Block(1) /\ Tr!Unfold(list, b) = f[n]
          /\ \A k \in 2..n : f[k] = f[k - 1] \o Block(k)
      <3>1. 1 \in 1..n /\ \A k \in 2..n : k \in 1..n
        BY <1>1, <1>6
      <3> QED  BY <1>3, <1>4, <2>1, <3>1 DEF IsFlattened
    <2>3. 1 \in T
      BY <1>1, <1>2, <1>6, <2>2
    <2>4. ASSUME NEW k \in 2..n, k - 1 \in T PROVE k \in T
      <3>1. k \in 1..n
        BY <1>1
      <3>2. Chained(ks, f[k - 1], A) /\ Chained(ks, Block(k), A)
        BY <1>2, <2>4, <3>1
      <3>3. Chained(ks, f[k - 1] \o Block(k), A)
        BY <3>2, ChainJoin
      <3> QED  BY <2>2, <3>1, <3>3
    <2>5. n \in T
      <3> HIDE DEF T, n
      <3> QED  BY <1>1, <1>6, <2>3, <2>4, LastTurn
    <2>6. Chained(ks, f[n], A)
      BY <2>5
    <2> HIDE DEF n, T
    <2> QED  BY <2>2, <2>6 DEF A
  <1> QED  BY <1>5, <1>6

\* The first row of a list is there once, if no other row has it beneath.
FirstOnce(s, x) == s \in Seq(Tr!Rows) /\ s # <<>> /\ s[1] = x /\ \A k \in 2..Len(s) : s[k] # x

\* And still once with rows after it that are others.
LEMMA FirstJoin ==
    ASSUME NEW x, NEW s, FirstOnce(s, x), NEW t \in Seq(Tr!Rows), \A k \in 1..Len(t) : t[k] # x
    PROVE  FirstOnce(s \o t, x)
  <1> DEFINE m == Len(s)
             u == s \o t
  <1>1. /\ m \in Nat /\ m # 0 /\ Len(t) \in Nat /\ u \in Seq(Tr!Rows) /\ Len(u) = m + Len(t)
        /\ \A k \in 1..m : u[k] = s[k]
        /\ \A k \in 1..Len(t) : u[m + k] = t[k]
    BY DEF FirstOnce
  <1> HIDE DEF u
  <1>2. ASSUME NEW k \in 2..(m + Len(t)) PROVE u[k] # x
    <2>1. CASE k \in 1..m
      BY <1>1, <2>1 DEF FirstOnce
    <2>2. CASE k \notin 1..m
      <3>1. k - m \in 1..Len(t) /\ m + (k - m) = k
        BY <1>1, <2>2
      <3> QED  BY <1>1, <3>1
    <2> QED  BY <2>1, <2>2
  <1>3. u # <<>> /\ u[1] = x
    BY <1>1 DEF FirstOnce
  <1> QED  BY <1>1, <1>2, <1>3 DEF FirstOnce, u

\* A list with what is beneath its rows starts with its first row, once.
LEMMA UnfoldFirst ==
    ASSUME NEW list \in Seq(Tr!Rows), list # <<>>, IsInjective(list),
           NEW b \in [Tr!Rows -> Seq(Tr!Rows)],
           \A r \in Tr!Rows : \A k \in 1..Len(b[r]) : b[r][k] \notin Tr!ToSet(list)
    PROVE  FirstOnce(Tr!Unfold(list, b), list[1])
  <1> DEFINE R == Tr!Rows
             n == Len(list)
             x == list[1]
             Block(k) == <<list[k]>> \o b[list[k]]
             seqs == [k \in DOMAIN list |-> Block(k)]
             Others(s) == s \in Seq(R) /\ \A k \in 1..Len(s) : s[k] # x
  <1>1. /\ n \in Nat /\ n # 0 /\ DOMAIN list = 1..n /\ \A k \in 1..n : list[k] \in R
        /\ x \in Tr!ToSet(list) /\ \A k \in 2..n : list[k] # x
    BY DEF Tr!ToSet, IsInjective
  <1>2. \A r \in R : Others(b[r])
    BY <1>1
  <1>3. Tr!Unfold(list, b) = Tr!FlattenSeq(seqs)
    BY DEF Tr!Unfold
  <1>4. FirstOnce(Block(1), x)
    <2>1. FirstOnce(<<x>>, x)
      BY <1>1 DEF FirstOnce
    <2> DEFINE t == b[x]
    <2>2. t \in Seq(R) /\ \A k \in 1..Len(t) : t[k] # x
      BY <1>1, <1>2
    <2> HIDE DEF x, t
    <2>3. FirstOnce(<<x>> \o t, x)
      BY <2>1, <2>2, FirstJoin
    <2> QED  BY <2>3 DEF t, x
  <1>5. ASSUME NEW k \in 2..n PROVE Others(Block(k))
    <2>1. k \in 1..n /\ list[k] \in R /\ list[k] # x /\ Others(b[list[k]])
      BY <1>1, <1>2
    <2> DEFINE t == b[list[k]]
               y == list[k]
    <2> HIDE DEF t, y, x
    <2>2. t \in Seq(R) /\ y \in R /\ y # x /\ \A j \in 1..Len(t) : t[j] # x
      BY <2>1 DEF t, y
    <2>3. /\ <<y>> \o t \in Seq(R) /\ Len(<<y>> \o t) = Len(t) + 1
          /\ (<<y>> \o t)[1] = y /\ \A j \in 1..Len(t) : (<<y>> \o t)[j + 1] = t[j]
      BY <2>2
    <2>4. \A j \in 1..(Len(t) + 1) : j = 1 \/ (j - 1 \in 1..Len(t) /\ (j - 1) + 1 = j)
      BY <2>2
    <2>5. \A j \in 1..Len(<<y>> \o t) : (<<y>> \o t)[j] # x
      BY <2>2, <2>3, <2>4
    <2> QED  BY <2>3, <2>5 DEF t, y
  <1> HIDE DEF Block, x
  <1>6. seqs \in Seq(Seq(R)) /\ Len(seqs) = n /\ \A k \in 1..n : seqs[k] = Block(k)
    <2>1. \A k \in 1..n : k = 1 \/ k \in 2..n
      BY <1>1
    <2>2. \A k \in 1..n : Block(k) \in Seq(R)
      BY <1>4, <1>5, <2>1 DEF FirstOnce
    <2> QED  BY <1>1, <2>2
  <1> HIDE DEF seqs
  <1>7. PICK f : IsFlattened(f, seqs, R)
    BY <1>1, <1>6, Flattened
  <1> DEFINE T == {k \in 1..n : FirstOnce(f[k], x)}
  <1>8. f[1] = Block(1) /\ Tr!Unfold(list, b) = f[n]
        /\ \A k \in 2..n : f[k] = f[k - 1] \o Block(k)
    <2>1. 1 \in 1..n /\ \A k \in 2..n : k \in 1..n
      BY <1>1
    <2> QED  BY <1>3, <1>6, <1>7, <2>1 DEF IsFlattened
  <1>9. 1 \in T
    BY <1>1, <1>4, <1>8
  <1>10. ASSUME NEW k \in 2..n, k - 1 \in T PROVE k \in T
    <2>1. k \in 1..n
      BY <1>1
    <2>2. FirstOnce(f[k - 1], x) /\ Others(Block(k))
      BY <1>5, <1>10
    <2>3. FirstOnce(f[k - 1] \o Block(k), x)
      BY <2>2, FirstJoin
    <2> QED  BY <1>8, <2>1, <2>3
  <1>11. n \in T
    <2> HIDE DEF T, n
    <2> QED  BY <1>1, <1>9, <1>10, LastTurn
  <1> QED  BY <1>8, <1>11 DEF x

\* The folders are finitely many.
LEMMA TreeCardinality == Tr!Cardinality(TreeFolders) \in Nat
  <1>1. IsFiniteSet(TreeFolders)
    BY TreeAssumption, FS_Subset DEF Tr!Rows
  <1>2. Cardinality(TreeFolders) \in Nat
    BY <1>1, FS_CardinalityType
  <1>3. Tr!Cardinality(TreeFolders) = Cardinality(TreeFolders)
    BY DEF Tr!Cardinality, Cardinality
  <1> QED  BY <1>2, <1>3

\* flattenVisible: each row after its folder, and no row above the first again.
LEMMA FlatIs ==
    ASSUME treeKids \in Lists, Tr!Forest(treeKids)
    PROVE  /\ Chained(treeKids, Tr!Flat, Kids(treeKids, TreeRoot))
           /\ Tr!Flat # <<>> => FirstOnce(Tr!Flat, Tr!Flat[1])
  <1> DEFINE N == Tr!Cardinality(TreeFolders)
             R == Tr!Rows
             Next1(b) == [i \in R |-> IF i \notin TreeFolders \ treeClosed THEN <<>>
                                      ELSE Tr!Unfold(treeKids[i], b)]
             D == {b \in [R -> Seq(R)] : IsBeneath(treeKids, b)}
             base == [i \in R |-> <<>>]
             step == [n \in 1..N |-> [b \in D |-> Next1(b)]]
             h == CHOOSE f : f = [n \in 0..N |->
                      [i \in R |-> IF n = 0 \/ i \notin TreeFolders \ treeClosed THEN <<>>
                                   ELSE Tr!Unfold(treeKids[i], f[n - 1])]]
  <1>1. N \in Nat
    BY TreeCardinality
  <1>2. Tr!Flat = Tr!Unfold(treeKids[TreeRoot], h[N])
    BY DEF Tr!Flat
  <1>3. base \in D
    <2>1. \A r \in R : Chained(treeKids, <<>>, Kids(treeKids, r)) /\ base[r] = <<>>
      BY DEF Chained
    <2>2. base \in [R -> Seq(R)]
      OBVIOUS
    <2> HIDE DEF base
    <2> QED  BY <2>1, <2>2 DEF IsBeneath
  <1>4. ASSUME NEW b \in D PROVE Next1(b) \in D
    <2>1. ASSUME NEW i \in R, i \in TreeFolders \ treeClosed
          PROVE  Chained(treeKids, Tr!Unfold(treeKids[i], b), Kids(treeKids, i))
      <3>1. treeKids[i] \in Seq(Tr!Rows)
        BY <2>1 DEF Lists
      <3> QED  BY <3>1, UnfoldIs DEF Kids
    <2>2. ASSUME NEW i \in R PROVE /\ Chained(treeKids, Next1(b)[i], Kids(treeKids, i))
                                   /\ Next1(b)[i] # <<>> => i \in TreeFolders
      <3>1. CASE i \in TreeFolders \ treeClosed
        BY <2>1, <3>1
      <3>2. CASE i \notin TreeFolders \ treeClosed
        BY <3>2 DEF Chained
      <3> QED  BY <3>1, <3>2
    <2>3. Next1(b) \in [R -> Seq(R)]
      BY <2>2 DEF Chained
    <2> HIDE DEF Next1
    <2> QED  BY <2>2, <2>3 DEF IsBeneath
  <1>5. h[N] \in D
    <2> HIDE DEF D, Next1, N, base
    <2>1. step \in [1..N -> [D -> D]] /\ \A n \in 1..N, b \in D : step[n][b] = Next1(b)
      BY <1>4
    <2> HIDE DEF step
    <2>2. PICK g : g \in [0..N -> D] /\ g[0] = base /\ \A n \in 1..N : g[n] = step[n][g[n - 1]]
      <3>1. Loop(N, D, base, step)
        BY <1>1, <1>3, <2>1 DEF Loop
      <3>2. PICK g : IsCourse(g, N, D, base, step)
        BY <3>1, Course
      <3> QED  BY <3>2 DEF IsCourse
    <2>3. \A n \in 1..N : g[n - 1] \in D /\ n - 1 \in 0..N
      BY <1>1, <2>2
    <2>4. g = [n \in 0..N |-> IF n = 0 THEN base ELSE Next1(g[n - 1])]
      <3>1. \A n \in 0..N : n # 0 => n \in 1..N
        BY <1>1
      <3> QED  BY <2>1, <2>2, <2>3, <3>1
    <2> DEFINE Is(f) == f = [n \in 0..N |-> IF n = 0 THEN base ELSE Next1(f[n - 1])]
    <2>5. h = CHOOSE f : Is(f)
      <3> SUFFICES ASSUME NEW f
                   PROVE  [n \in 0..N |-> [i \in R |->
                              IF n = 0 \/ i \notin TreeFolders \ treeClosed THEN <<>>
                              ELSE Tr!Unfold(treeKids[i], f[n - 1])]]
                          = [n \in 0..N |-> IF n = 0 THEN base ELSE Next1(f[n - 1])]
        BY Zenon DEF N
      <3> QED  BY DEF base, Next1
    <2>6. Is(h)
      <3> HIDE DEF h, Is
      <3>1. Is(g)
        BY <2>4 DEF Is
      <3> QED  BY <2>5, <3>1
    <2> HIDE DEF h
    <2>7. h[0] \in D /\ \A n \in 1..N : h[n - 1] \in D => h[n] \in D
      <3>1. 0 \in 0..N /\ \A n \in 1..N : n \in 0..N /\ n # 0
        BY <1>1
      <3> QED  BY <1>3, <1>4, <2>6, <3>1
    <2> DEFINE T == {n \in 0..N : h[n] \in D}
    <2>8. 0 \in T /\ \A n \in 1..N : n - 1 \in T => n \in T
      BY <1>1, <2>7
    <2> HIDE DEF T
    <2>9. \A n \in 0..N : n \in T
      BY <1>1, <2>8, EveryTurn
    <2> QED  BY <1>1, <2>9 DEF T
  <1> DEFINE list == treeKids[TreeRoot]
             b == h[N]
  <1>6. b \in [R -> Seq(R)] /\ IsBeneath(treeKids, b) /\ Tr!Flat = Tr!Unfold(list, b)
    BY <1>2, <1>5
  <1>7. list \in Seq(R) /\ IsInjective(list) /\ Tr!ToSet(list) = Kids(treeKids, TreeRoot)
    BY ForestIs DEF Lists, Kids
  <1> HIDE DEF h, b, list
  <1>8. Chained(treeKids, Tr!Flat, Kids(treeKids, TreeRoot))
    BY <1>6, <1>7, UnfoldIs
  <1>9. ASSUME Tr!Flat # <<>> PROVE FirstOnce(Tr!Flat, Tr!Flat[1])
    <2>1. list # <<>>
      <3>1. SUFFICES ASSUME list = <<>> PROVE FALSE
        OBVIOUS
      <3>2. Kids(treeKids, TreeRoot) = {}
        BY <1>7, <3>1 DEF Tr!ToSet
      <3>3. \A k \in 1..Len(Tr!Flat) : Tr!Flat[k] \in {}
        BY <1>8, <3>2, ChainIn
      <3> QED  BY <1>8, <1>9, <3>3 DEF Chained
    <2>2. \A r \in R : \A k \in 1..Len(b[r]) : b[r][k] \notin Tr!ToSet(list)
      BY <1>6, <1>7, ChildOfFolder
    <2>3. FirstOnce(Tr!Unfold(list, b), list[1])
      BY <1>6, <1>7, <2>1, <2>2, UnfoldFirst
    <2> QED  BY <1>6, <2>3 DEF FirstOnce
  <1> QED  BY <1>8, <1>9

----------------------------------------------------------------------------
(* The invariant of the tree, and what is shown of it. *)

\* A tree: every list is one of rows, none is in two lists or twice in one, and
\* what is in a list hangs from the root.  What is chosen, or open, are rows of it
\* or were.
TreeInv ==
    /\ treeKids \in Lists /\ Tr!Forest(treeKids)
    /\ treeChosen \subseteq Tr!Rows /\ treePane.id \in Tr!Rows \cup {None}

\* flattenVisible lists rows of the tree.
LEMMA FlatAlive ==
    ASSUME TreeInv
    PROVE  /\ Tr!Flat \in Seq(Tr!Rows) /\ Tr!ToSet(Tr!Flat) = {Tr!Flat[k] : k \in 1..Len(Tr!Flat)}
           /\ Tr!ToSet(Tr!Flat) \subseteq Tr!Alive(treeKids)
           /\ Tr!Alive(treeKids) \subseteq Tr!Rows
  <1> DEFINE flat == Tr!Flat
             A == Tr!Alive(treeKids)
  <1>1. Chained(treeKids, flat, Kids(treeKids, TreeRoot)) /\ treeKids \in Lists
    BY FlatIs DEF TreeInv
  <1>2. flat \in Seq(Tr!Rows)
    BY <1>1 DEF Chained
  <1> HIDE DEF flat
  <1>3. Tr!ToSet(flat) = {flat[k] : k \in 1..Len(flat)}
    BY <1>2 DEF Tr!ToSet
  <1>4. /\ A \subseteq Tr!Rows /\ Kids(treeKids, TreeRoot) \subseteq A
        /\ \A f \in A \cap TreeFolders : Kids(treeKids, f) \subseteq A
    BY <1>1, AliveHas DEF AliveFolders
  <1>5. \A k \in 1..Len(flat) : flat[k] \in A
    <2> HIDE DEF A
    <2> QED  BY <1>1, <1>4, ChainIn
  <1> QED  BY <1>2, <1>3, <1>4, <1>5 DEF flat

\* findParent: the list a row of the tree is in.
LEMMA UpIs ==
    ASSUME TreeInv, NEW i \in Tr!Alive(treeKids)
    PROVE  /\ Tr!Up(i) \in AliveFolders(treeKids) /\ i \in Kids(treeKids, Tr!Up(i))
           /\ \A p \in TreeFolders \cup {TreeRoot} : i \in Kids(treeKids, p) => p = Tr!Up(i)
  <1>1. PICK p \in AliveFolders(treeKids) : i \in Kids(treeKids, p)
    BY AliveHas DEF TreeInv
  <1>2. Tr!Up(i) = CHOOSE q \in TreeFolders \cup {TreeRoot} : i \in Kids(treeKids, q)
    BY DEF Tr!Up, Kids
  <1>3. Tr!Up(i) \in TreeFolders \cup {TreeRoot} /\ i \in Kids(treeKids, Tr!Up(i))
    BY <1>1, <1>2 DEF AliveFolders
  <1>4. \A q, r \in TreeFolders \cup {TreeRoot} :
           i \in Kids(treeKids, q) /\ i \in Kids(treeKids, r) => q = r
    BY ForestIs DEF TreeInv
  <1>5. Tr!Up(i) = p
    BY <1>1, <1>3, <1>4 DEF AliveFolders
  <1> QED  BY <1>1, <1>3, <1>4, <1>5

\* The place of a row in a list is its first.
LEMMA IndexIs ==
    ASSUME NEW s \in Seq(Tr!Rows), NEW x \in Tr!ToSet(s)
    PROVE  /\ Tr!IndexIn(s, x) \in 1..Len(s) /\ s[Tr!IndexIn(s, x)] = x
           /\ \A j \in 1..(Tr!IndexIn(s, x) - 1) : s[j] # x
  <1> DEFINE T == {k \in 1..Len(s) : s[k] = x}
             Is(k) == s[k] = x /\ \A j \in 1..(k - 1) : s[j] # x
  <1>1. T # {} /\ T \in SUBSET Nat /\ Len(s) \in Nat /\ DOMAIN s = 1..Len(s)
    BY DEF Tr!ToSet
  <1>2. PICK k \in T : \A j \in T : k <= j
    <2> HIDE DEF T
    <2> QED  BY <1>1, LeastNatural
  <1>3. Is(k)
    <2> SUFFICES ASSUME NEW j \in 1..(k - 1), s[j] = x PROVE FALSE
      BY <1>2
    <2>1. j \in T /\ ~ (k <= j)
      BY <1>1, <1>2
    <2> QED  BY <1>2, <2>1
  <1>4. Tr!IndexIn(s, x) = CHOOSE m \in 1..Len(s) : Is(m)
    BY <1>1 DEF Tr!IndexIn
  <1> HIDE DEF Is
  <1>5. Tr!IndexIn(s, x) \in 1..Len(s) /\ Is(Tr!IndexIn(s, x))
    BY <1>2, <1>3, <1>4
  <1> QED  BY <1>5 DEF Is

\* What is beneath a row of the tree, as flattenVisible lists it.
LEMMA SubtreeIs ==
    ASSUME TreeInv, NEW i \in Tr!Rows
    PROVE  /\ i \in Tr!Subtree(i) /\ Tr!Subtree(i) \subseteq Tr!Rows
           /\ \A f \in Tr!Subtree(i) \cap TreeFolders : Kids(treeKids, f) \subseteq Tr!Subtree(i)
           /\ \A x \in Tr!Subtree(i) : x # i =>
                 /\ x \notin Kids(treeKids, TreeRoot)
                 /\ \A f \in TreeFolders : x \in Kids(treeKids, f) => f \in Tr!Subtree(i)
  <1> DEFINE U == Tr!Under(treeKids, {i})
             rows == {i}
  <1>1. treeKids \in Lists /\ rows \in SUBSET Tr!Rows /\ U = Tr!Under(treeKids, rows)
    BY DEF TreeInv
  <1>2. /\ rows \subseteq U /\ U \subseteq Tr!Rows
        /\ \A f \in U \cap TreeFolders : Kids(treeKids, f) \subseteq U
    <2> HIDE DEF rows, U
    <2> QED  BY <1>1, UnderHas
  <1>3. ASSUME NEW x \in U, x # i
        PROVE  /\ x \notin Kids(treeKids, TreeRoot)
               /\ \A f \in TreeFolders : x \in Kids(treeKids, f) => f \in U
    <2>1. PICK g \in U \cap TreeFolders : x \in Kids(treeKids, g)
      <3>1. x \notin rows
        BY <1>3
      <3> HIDE DEF rows, U
      <3> QED  BY <1>1, <1>3, <3>1, UnderFolder
    <2>2. \A p \in TreeFolders \cup {TreeRoot} : x \in Kids(treeKids, p) => p = g
      BY <2>1, ForestIs DEF TreeInv
    <2>3. g # TreeRoot
      BY <2>1, RootIsNoRow
    <2> QED  BY <2>1, <2>2, <2>3
  <1> QED  BY <1>2, <1>3 DEF Tr!Subtree

\* neighborAfterDelete: a row that is shown and not beneath the deleted one, or
\* all that is shown goes.
LEMMA NeighborIs ==
    ASSUME TreeInv, NEW i \in Tr!ToSet(Tr!Flat)
    PROVE  \/ Tr!NeighborAfterDelete(Tr!Flat, i) \in Tr!Alive(treeKids) \ Tr!Subtree(i)
           \/ Tr!NeighborAfterDelete(Tr!Flat, i) = None /\ Tr!ToSet(Tr!Flat) \subseteq Tr!Subtree(i)
  <1> DEFINE flat == Tr!Flat
             n == Len(flat)
             at == Tr!IndexIn(flat, i)
             U == Tr!Subtree(i)
             next == Tr!NeighborAfterDelete(Tr!Flat, i)
  <1>1. /\ flat \in Seq(Tr!Rows) /\ n \in Nat /\ i \in Tr!Rows
        /\ Tr!ToSet(flat) = {flat[k] : k \in 1..n}
        /\ \A k \in 1..n : flat[k] \in Tr!Alive(treeKids) /\ flat[k] \in Tr!Rows
    BY FlatAlive
  <1>2. /\ i \in U /\ \A f \in U \cap TreeFolders : Kids(treeKids, f) \subseteq U
        /\ \A x \in U : x # i =>
              /\ x \notin Kids(treeKids, TreeRoot)
              /\ \A f \in TreeFolders : x \in Kids(treeKids, f) => f \in U
    BY <1>1, SubtreeIs
  <1>3. \A k \in 1..n :
           \/ flat[k] \in Kids(treeKids, TreeRoot)
           \/ \E j \in 1..(k - 1) : flat[j] \in TreeFolders /\ flat[k] \in Kids(treeKids, flat[j])
    BY FlatIs DEF TreeInv, Chained
  <1>4. at \in 1..n /\ flat[at] = i /\ \A j \in 1..(at - 1) : flat[j] # i
    BY <1>1, IndexIs
  <1>5. next = IF at > 1 THEN flat[at - 1] ELSE Tr!PastSubtree(Tail(flat), {i})
    BY DEF Tr!NeighborAfterDelete
  <1>6. flat # <<>> /\ \A k \in 2..n : flat[k] # flat[1]
    <2>1. flat # <<>>
      BY <1>1, <1>4
    <2> QED  BY <2>1, FlatIs DEF TreeInv, FirstOnce
  <1> HIDE DEF flat, at, U, next
  <1>7. CASE at > 1
    <2> DEFINE T == {k \in 1..(at - 1) : flat[k] \in U}
    <2>1. T = {}
      <3>1. SUFFICES ASSUME T # {} PROVE FALSE
        OBVIOUS
      <3>2. PICK m \in T : \A k \in T : m <= k
        <4>1. T \in SUBSET Nat
          BY <1>4
        <4> HIDE DEF T
        <4> QED  BY <3>1, <4>1, LeastNatural
      <3>3. m \in 1..n /\ m \in 1..(at - 1) /\ flat[m] # i
        BY <1>4, <3>2
      <3>4. PICK j \in 1..(m - 1) : flat[j] \in TreeFolders /\ flat[m] \in Kids(treeKids, flat[j])
        BY <1>2, <1>3, <3>2, <3>3
      <3>5. flat[j] \in U
        BY <1>2, <3>2, <3>3, <3>4
      <3>6. j \in 1..(at - 1) /\ ~ (m <= j)
        BY <1>4, <3>3
      <3> QED  BY <3>2, <3>5, <3>6
    <2>2. at - 1 \in 1..(at - 1) /\ at - 1 \in 1..n
      BY <1>1, <1>4, <1>7
    <2> QED  BY <1>1, <1>5, <1>7, <2>1, <2>2 DEF U, next
  <1>8. CASE ~ (at > 1)
    <2> DEFINE rows == Tail(flat)
               Earlier(k) == {i} \cup {rows[j] : j \in 1..(k - 1)}
               past == {k \in DOMAIN rows : Tr!Up(rows[k]) \notin Earlier(k)}
    <2>1. at = 1 /\ flat[1] = i /\ n # 0
      BY <1>1, <1>4, <1>8
    <2>2. /\ DOMAIN rows = 1..(n - 1)
          /\ \A k \in 1..(n - 1) : rows[k] = flat[k + 1] /\ k + 1 \in 2..n /\ k + 1 \in 1..n
      BY <1>1, <1>6
    <2>3. next = IF past = {} THEN None ELSE rows[Tr!Min(past)]
      BY <1>5, <1>8 DEF Tr!PastSubtree, Tr!FirstWith
    <2> HIDE DEF rows
    <2>4. \A k \in 1..(n - 1) :
             /\ Tr!Up(rows[k]) \in TreeFolders \cup {TreeRoot} /\ rows[k] \in Kids(treeKids, Tr!Up(rows[k]))
             /\ \A f \in TreeFolders \cup {TreeRoot} : rows[k] \in Kids(treeKids, f) => f = Tr!Up(rows[k])
      <3> SUFFICES ASSUME NEW x \in Tr!Alive(treeKids)
                   PROVE  /\ Tr!Up(x) \in TreeFolders \cup {TreeRoot} /\ x \in Kids(treeKids, Tr!Up(x))
                          /\ \A f \in TreeFolders \cup {TreeRoot} : x \in Kids(treeKids, f) => f = Tr!Up(x)
        BY <1>1, <2>2
      <3> QED  BY UpIs DEF AliveFolders
    <2>5. CASE past = {}
      <3> DEFINE T == {k \in 1..(n - 1) : rows[k] \notin U}
      <3>1. T = {}
        <4>1. SUFFICES ASSUME T # {} PROVE FALSE
          OBVIOUS
        <4>2. PICK m \in T : \A k \in T : m <= k
          <5>1. T \in SUBSET Nat
            BY <1>1
          <5> HIDE DEF T
          <5> QED  BY <4>1, <5>1, LeastNatural
        <4>3. Tr!Up(rows[m]) \in Earlier(m)
          BY <2>2, <2>5, <4>2
        <4>4. \A j \in 1..(m - 1) : rows[j] \in U /\ rows[j] \in Tr!Rows
          <5> TAKE j \in 1..(m - 1)
          <5>1. j \in 1..(n - 1) /\ ~ (m <= j)
            BY <1>1, <4>2
          <5> QED  BY <1>1, <2>2, <4>2, <5>1
        <4>5. Tr!Up(rows[m]) \in U /\ Tr!Up(rows[m]) \in Tr!Rows
          BY <1>1, <1>2, <4>3, <4>4
        <4>6. Tr!Up(rows[m]) \in TreeFolders
          BY <2>4, <4>2, <4>5, RootIsNoRow
        <4> QED  BY <1>2, <2>4, <4>2, <4>5, <4>6
      <3>2. \A k \in 1..n : flat[k] \in U
        <4> TAKE k \in 1..n
        <4>1. k = 1 \/ (k - 1 \in 1..(n - 1) /\ (k - 1) + 1 = k)
          BY <1>1
        <4> QED  BY <1>2, <2>1, <2>2, <3>1, <4>1
      <3> QED  BY <1>1, <2>3, <2>5, <3>2 DEF U, next, flat
    <2>6. CASE past # {}
      <3> DEFINE m == Tr!Min(past)
      <3>1. m \in past
        <4>1. past \in SUBSET Nat
          BY <2>2
        <4> HIDE DEF past
        <4>2. \E k \in past : \A j \in past : k <= j
          BY <2>6, <4>1, LeastNatural
        <4> QED  BY <4>2 DEF Tr!Min
      <3>2. m \in 1..(n - 1) /\ Tr!Up(rows[m]) \notin Earlier(m) /\ next = rows[m]
        BY <2>2, <2>3, <2>6, <3>1
      <3> HIDE DEF m, past
      <3>3. rows[m] # i /\ rows[m] \in Tr!Alive(treeKids)
        BY <1>1, <1>6, <2>1, <2>2, <3>2
      <3>4. rows[m] \notin U
        <4>1. SUFFICES ASSUME rows[m] \in U PROVE FALSE
          OBVIOUS
        <4>2. rows[m] \notin Kids(treeKids, TreeRoot)
          BY <1>2, <3>3, <4>1
        <4>3. PICK j \in 1..((m + 1) - 1) :
                 flat[j] \in TreeFolders /\ rows[m] \in Kids(treeKids, flat[j])
          BY <1>3, <2>2, <3>2, <4>2
        <4>4. flat[j] = Tr!Up(rows[m])
          BY <2>4, <3>2, <4>3
        <4>5. j = 1 \/ (j - 1 \in 1..(m - 1) /\ j - 1 \in 1..(n - 1) /\ (j - 1) + 1 = j)
          BY <1>1, <3>2
        <4>6. flat[j] \in Earlier(m)
          BY <2>1, <2>2, <4>5
        <4> QED  BY <3>2, <4>4, <4>6
      <3> QED  BY <3>2, <3>3, <3>4 DEF U, next
    <2> QED  BY <2>5, <2>6
  <1> QED  BY <1>7, <1>8

----------------------------------------------------------------------------
(* Drops and deletes. *)

\* Rows put among those of a list.
LEMMA InsertedIs ==
    ASSUME NEW o \in Seq(Tr!Rows), NEW rows \in Seq(Tr!Rows), NEW at \in 0..Len(o),
           IsInjective(o), IsInjective(rows), Tr!ToSet(o) \cap Tr!ToSet(rows) = {}
    PROVE  LET u == SubSeq(o, 1, at) \o rows \o SubSeq(o, at + 1, Len(o))
           IN  /\ u \in Seq(Tr!Rows) /\ IsInjective(u)
               /\ Tr!ToSet(u) = Tr!ToSet(o) \cup Tr!ToSet(rows)
  <1> DEFINE R == Tr!Rows
             m == Len(rows)
             n == Len(o)
             a == SubSeq(o, 1, at)
             b == SubSeq(o, at + 1, n)
             c == a \o rows
             u == c \o b
  <1>1. m \in Nat /\ n \in Nat /\ DOMAIN o = 1..n /\ DOMAIN rows = 1..m
    OBVIOUS
  <1>2. a \in Seq(R) /\ Len(a) = at /\ \A k \in 1..at : a[k] = o[k]
    BY <1>1, SubSeqProperties
  <1>3. b \in Seq(R) /\ Len(b) = n - at /\ \A k \in 1..(n - at) : b[k] = o[at + k]
    <2> DEFINE f == at + 1
    <2>1. f \in 1..(n + 1) /\ n \in f - 1..n /\ n - f + 1 = n - at
      BY <1>1
    <2>2. \A k \in 1..(n - at) : f + k - 1 = at + k
      BY <1>1
    <2> HIDE DEF n, R
    <2>3. SubSeq(o, f, n) \in Seq(R) /\ Len(SubSeq(o, f, n)) = n - at
          /\ \A k \in 1..(n - at) : SubSeq(o, f, n)[k] = o[f + k - 1]
      <3> HIDE DEF f
      <3>1. f \in Int /\ n \in Int /\ \A k \in f..n : o[k] \in R
        BY <1>1, <2>1 DEF R, n
      <3>2. (IF f <= n THEN n - f + 1 ELSE 0) = n - at
        BY <1>1, <2>1
      <3>3. SubSeq(o, f, n) \in Seq(R) /\ Len(SubSeq(o, f, n)) = (IF f <= n THEN n - f + 1 ELSE 0)
            /\ \A k \in 1..(n - f + 1) : SubSeq(o, f, n)[k] = o[f + k - 1]
        BY <3>1, SubSeqProperties
      <3> QED  BY <2>1, <3>2, <3>3
    <2> QED  BY <2>2, <2>3
  <1> HIDE DEF a, b, R, n, m
  <1>4. c \in Seq(R) /\ Len(c) = at + m
        /\ \A k \in 1..(at + m) : c[k] = IF k <= at THEN o[k] ELSE rows[k - at]
    <2>1. rows \in Seq(R) /\ Len(rows) = m
      BY DEF R, m
    <2>2. c \in Seq(R) /\ Len(c) = at + m
          /\ \A k \in 1..(at + m) : c[k] = IF k <= at THEN a[k] ELSE rows[k - at]
      <3>1. c \in Seq(R) /\ Len(c) = Len(a) + Len(rows)
            /\ \A k \in 1..(Len(a) + Len(rows)) :
                  c[k] = IF k <= Len(a) THEN a[k] ELSE rows[k - Len(a)]
        BY <1>2, <2>1, ConcatProperties
      <3> HIDE DEF c
      <3> QED  BY <1>2, <2>1, <3>1
    <2> HIDE DEF c
    <2>3. \A k \in 1..(at + m) : k <= at => k \in 1..at
      BY <1>1
    <2> QED  BY <1>2, <2>2, <2>3
  <1> HIDE DEF c
  <1>5. at \in Nat /\ at <= n /\ n - at \in Nat
    BY <1>1 DEF n
  <1>6. u \in Seq(R) /\ Len(u) = m + n
        /\ \A k \in 1..(m + n) : u[k] = IF k <= at + m THEN c[k] ELSE b[k - (at + m)]
    <2>1. (at + m) + (n - at) = m + n
      BY <1>1, <1>5
    <2>2. u \in Seq(R) /\ Len(u) = (at + m) + (n - at)
          /\ \A k \in 1..((at + m) + (n - at)) : u[k] = IF k <= at + m THEN c[k] ELSE b[k - (at + m)]
      <3>1. u \in Seq(R) /\ Len(u) = Len(c) + Len(b)
            /\ \A k \in 1..(Len(c) + Len(b)) :
                  u[k] = IF k <= Len(c) THEN c[k] ELSE b[k - Len(c)]
        BY <1>3, <1>4, ConcatProperties
      <3> HIDE DEF u
      <3> QED  BY <1>3, <1>4, <3>1
    <2> HIDE DEF u
    <2> QED  BY <2>1, <2>2
  <1> HIDE DEF u
  <1>7. ASSUME NEW k \in 1..(m + n)
        PROVE  \/ k \in 1..at /\ u[k] = o[k]
               \/ k - at \in 1..m /\ u[k] = rows[k - at]
               \/ k - m \in (at + 1)..n /\ u[k] = o[k - m]
    <2>1. CASE k <= at
      BY <1>1, <1>4, <1>5, <1>6, <2>1
    <2>2. CASE k > at /\ k <= at + m
      BY <1>1, <1>4, <1>5, <1>6, <2>2
    <2>3. CASE k > at + m
      <3>1. k - (at + m) \in 1..(n - at) /\ at + (k - (at + m)) = k - m /\ k - m \in (at + 1)..n
        BY <1>1, <1>5, <2>3
      <3>2. u[k] = b[k - (at + m)]
        BY <1>1, <1>5, <1>6, <2>3
      <3> QED  BY <1>3, <3>1, <3>2
    <2> QED  BY <1>1, <1>5, <2>1, <2>2, <2>3
  <1>8. \A k \in 1..at : k \in 1..(m + n) /\ u[k] = o[k]
    <2> TAKE k \in 1..at
    <2>1. k \in 1..(m + n) /\ k <= at + m /\ k \in 1..(at + m)
      BY <1>1, <1>5
    <2>2. u[k] = c[k] /\ c[k] = o[k]
      BY <1>4, <1>6, <2>1
    <2> QED  BY <2>1, <2>2
  <1>9. \A k \in 1..m : at + k \in 1..(m + n) /\ u[at + k] = rows[k]
    <2> TAKE k \in 1..m
    <2>1. at + k \in 1..(m + n) /\ at + k <= at + m /\ at + k \in 1..(at + m)
          /\ ~ (at + k <= at) /\ (at + k) - at = k
      BY <1>1, <1>5
    <2>2. u[at + k] = c[at + k] /\ c[at + k] = rows[k]
      BY <1>4, <1>6, <2>1
    <2> QED  BY <2>1, <2>2
  <1>10. \A k \in (at + 1)..n : k + m \in 1..(m + n) /\ u[k + m] = o[k]
    <2> TAKE k \in (at + 1)..n
    <2>1. k + m \in 1..(m + n) /\ ~ (k + m <= at + m) /\ (k + m) - (at + m) = k - at
          /\ k - at \in 1..(n - at) /\ at + (k - at) = k
      BY <1>1, <1>5
    <2>2. u[k + m] = b[k - at] /\ b[k - at] = o[k]
      BY <1>3, <1>6, <2>1
    <2> QED  BY <2>1, <2>2
  <1>11. /\ DOMAIN u = 1..(m + n)
         /\ Tr!ToSet(o) = {o[k] : k \in 1..n} /\ Tr!ToSet(rows) = {rows[k] : k \in 1..m}
         /\ Tr!ToSet(u) = {u[k] : k \in 1..(m + n)}
    <2>1. DOMAIN u = 1..(m + n)
      BY <1>6
    <2>2. Tr!ToSet(u) = {u[k] : k \in 1..(m + n)}
      BY <2>1 DEF Tr!ToSet
    <2>3. Tr!ToSet(o) = {o[k] : k \in 1..n}
      BY <1>1 DEF Tr!ToSet
    <2>4. Tr!ToSet(rows) = {rows[k] : k \in 1..m}
      BY <1>1 DEF Tr!ToSet
    <2> QED  BY <2>1, <2>2, <2>3, <2>4
  <1>12. \A k \in 1..n : k \in 1..at \/ k \in (at + 1)..n
    BY <1>1, <1>5
  <1>13. \A k \in (at + 1)..n : k \in 1..n
    BY <1>1, <1>5
  <1>14. \A k \in 1..at : k \in 1..n
    BY <1>1, <1>5
  <1>15. Tr!ToSet(u) = Tr!ToSet(o) \cup Tr!ToSet(rows)
    <2>1. \A k \in 1..(m + n) : u[k] \in Tr!ToSet(o) \cup Tr!ToSet(rows)
      BY <1>7, <1>11, <1>13, <1>14
    <2>2. \A k \in 1..n : o[k] \in Tr!ToSet(u)
      BY <1>8, <1>10, <1>11, <1>12
    <2>3. \A k \in 1..m : rows[k] \in Tr!ToSet(u)
      BY <1>9, <1>11
    <2> QED  BY <1>11, <2>1, <2>2, <2>3
  <1>16. IsInjective(u)
    <2> SUFFICES ASSUME NEW j \in 1..(m + n), NEW k \in 1..(m + n), u[j] = u[k] PROVE j = k
      BY <1>11 DEF IsInjective
    <2>1. \A x, y \in 1..n : o[x] = o[y] => x = y
      BY <1>1 DEF IsInjective
    <2>2. \A x, y \in 1..m : rows[x] = rows[y] => x = y
      BY <1>1 DEF IsInjective
    <2>3. \A x \in 1..n, y \in 1..m : o[x] # rows[y]
      BY <1>11
    <2>4. CASE j - at \in 1..m /\ u[j] = rows[j - at]
      <3>1. ASSUME NEW x \in 1..n, u[k] = o[x] PROVE FALSE
        BY <2>3, <2>4, <3>1
      <3>2. k - at \in 1..m /\ u[k] = rows[k - at]
        BY <1>7, <1>13, <1>14, <3>1
      <3>3. j - at = k - at
        BY <2>2, <2>4, <3>2
      <3> QED  BY <1>5, <3>3
    <2>5. CASE j \in 1..at /\ u[j] = o[j]
      <3>1. ~ (k - at \in 1..m /\ u[k] = rows[k - at])
        BY <1>14, <2>3, <2>5
      <3>2. CASE k \in 1..at /\ u[k] = o[k]
        BY <1>14, <2>1, <2>5, <3>2
      <3>3. CASE k - m \in (at + 1)..n /\ u[k] = o[k - m]
        <4>1. j = k - m
          BY <1>13, <1>14, <2>1, <2>5, <3>3
        <4> QED  BY <1>5, <2>5, <3>3, <4>1
      <3> QED  BY <1>7, <3>1, <3>2, <3>3
    <2>6. CASE j - m \in (at + 1)..n /\ u[j] = o[j - m]
      <3>1. ~ (k - at \in 1..m /\ u[k] = rows[k - at])
        BY <1>13, <2>3, <2>6
      <3>2. CASE k \in 1..at /\ u[k] = o[k]
        <4>1. k = j - m
          BY <1>13, <1>14, <2>1, <2>6, <3>2
        <4> QED  BY <1>5, <2>6, <3>2, <4>1
      <3>3. CASE k - m \in (at + 1)..n /\ u[k] = o[k - m]
        <4>1. j - m = k - m
          BY <1>13, <2>1, <2>6, <3>3
        <4> QED  BY <1>1, <4>1
      <3> QED  BY <1>7, <3>1, <3>2, <3>3
    <2> QED  BY <1>7, <2>4, <2>5, <2>6
  <1> QED  BY <1>6, <1>15, <1>16 DEF u, c, a, b, n, R

\* The rows of a drop, each once and in some order.
LEMMA OrderedIs ==
    ASSUME NEW S \in SUBSET Tr!Rows, NEW rows \in Tr!SetToSeqs(S)
    PROVE  rows \in Seq(Tr!Rows) /\ IsInjective(rows) /\ Tr!ToSet(rows) \subseteq S
  <1>1. Cardinality(S) \in Nat
    BY TreeAssumption, FS_Subset, FS_CardinalityType
  <1>2. Tr!Cardinality(S) = Cardinality(S)
    BY DEF Tr!Cardinality, Cardinality
  <1> DEFINE n == Cardinality(S)
  <1>3. rows \in [1..n -> S] /\ \A i, j \in 1..n : i # j => rows[i] # rows[j]
    BY <1>2 DEF Tr!SetToSeqs
  <1> HIDE DEF n
  <1>4. n \in Nat
    BY <1>1 DEF n
  <1>5. rows \in Seq(S) /\ DOMAIN rows = 1..n
    BY <1>3, <1>4
  <1>6. rows \in Seq(Tr!Rows)
    BY <1>3, <1>4
  <1> QED  BY <1>3, <1>5, <1>6 DEF IsInjective, Tr!ToSet

\* move_items: the rows before the first that check_parent refuses.
LEMMA AcceptedIs ==
    ASSUME NEW rows \in Seq(Tr!Rows), IsInjective(rows), NEW p
    PROVE  LET acc == Tr!Accepted(rows, p)
           IN  /\ acc \in Seq(Tr!Rows) /\ IsInjective(acc) /\ Tr!ToSet(acc) \subseteq Tr!ToSet(rows)
               /\ \A x \in Tr!ToSet(acc) : p \notin Tr!Subtree(x)
  <1> DEFINE n == Len(rows)
             acc == Tr!Accepted(rows, p)
             refused == {k \in 1..n : p \in Tr!Subtree(rows[k])}
  <1>1. n \in Nat /\ DOMAIN rows = 1..n /\ \A k \in 1..n : rows[k] \in Tr!Rows
    OBVIOUS
  <1>2. acc = IF refused = {} THEN rows ELSE SubSeq(rows, 1, Tr!Min(refused) - 1)
    BY <1>1 DEF Tr!Accepted, Tr!Refused
  <1>3. PICK m \in 0..n : /\ acc \in Seq(Tr!Rows) /\ Len(acc) = m /\ \A k \in 1..m : acc[k] = rows[k]
                          /\ \A k \in 1..m : k \notin refused
    <2>1. CASE refused = {}
      <3>1. acc = rows /\ n \in 0..n /\ \A k \in 1..n : k \notin refused
        BY <1>1, <1>2, <2>1
      <3> HIDE DEF acc, refused
      <3> QED  BY <1>1, <3>1
    <2>2. CASE refused # {}
      <3> DEFINE f == Tr!Min(refused)
                 m == f - 1
      <3>1. f \in refused /\ \A k \in refused : f <= k
        <4>1. refused \in SUBSET Nat
          BY <1>1
        <4> HIDE DEF refused
        <4>2. \E k \in refused : \A j \in refused : k <= j
          BY <2>2, <4>1, LeastNatural
        <4> QED  BY <4>2 DEF Tr!Min
      <3> HIDE DEF f
      <3>2. f \in 1..n
        BY <3>1
      <3>3. m \in 0..n /\ \A k \in 1..m : k \in 1..n /\ ~ (f <= k)
        BY <1>1, <3>2
      <3>4. acc = SubSeq(rows, 1, m)
        BY <1>2, <2>2 DEF f
      <3> HIDE DEF m, acc
      <3>5. m \in Int /\ 1 \in Int /\ \A k \in 1..m : rows[k] \in Tr!Rows
        BY <1>1, <3>3
      <3>6. acc \in Seq(Tr!Rows) /\ Len(acc) = (IF 1 <= m THEN m - 1 + 1 ELSE 0)
            /\ \A k \in 1..(m - 1 + 1) : acc[k] = rows[1 + k - 1]
        BY <3>4, <3>5, SubSeqProperties
      <3>7. Len(acc) = m /\ m - 1 + 1 = m /\ \A k \in 1..m : 1 + k - 1 = k
        BY <3>3, <3>6
      <3>8. \A k \in 1..m : acc[k] = rows[k]
        BY <3>6, <3>7
      <3>9. \A k \in 1..m : k \notin refused
        BY <3>1, <3>3
      <3> HIDE DEF refused
      <3> QED  BY <3>3, <3>6, <3>7, <3>8, <3>9
    <2> QED  BY <2>1, <2>2
  <1> HIDE DEF acc
  <1>4. DOMAIN acc = 1..m /\ \A k \in 1..m : k \in 1..n
    BY <1>1, <1>3
  <1>5. IsInjective(acc)
    BY <1>1, <1>3, <1>4 DEF IsInjective
  <1>6. Tr!ToSet(acc) = {acc[k] : k \in 1..m} /\ Tr!ToSet(rows) = {rows[k] : k \in 1..n}
    BY <1>1, <1>4 DEF Tr!ToSet
  <1>7. Tr!ToSet(acc) \subseteq Tr!ToSet(rows)
    BY <1>3, <1>4, <1>6
  <1>8. \A x \in Tr!ToSet(acc) : p \notin Tr!Subtree(x)
    BY <1>3, <1>4, <1>6
  <1> QED  BY <1>3, <1>5, <1>7, <1>8 DEF acc

\* What a drop leaves: each list without the rows, and the rows in that of the
\* destination.
LEMMA DroppedIs ==
    ASSUME TreeInv, NEW rows \in Seq(Tr!Rows), IsInjective(rows),
           NEW type \in {"before", "after", "into"},
           NEW zone \in Tr!Alive(treeKids), zone \notin Tr!ToSet(rows),
           type = "into" => zone \in TreeFolders
    PROVE  LET kz == Tr!Dropped(rows, type, zone)
               p == Tr!Destination(type, zone)
           IN  /\ p \in AliveFolders(treeKids) /\ kz \in Lists
               /\ \A q \in TreeFolders \cup {TreeRoot} : IsInjective(kz[q])
               /\ \A q \in TreeFolders \cup {TreeRoot} :
                     Kids(kz, q) = (Kids(treeKids, q) \ Tr!ToSet(rows))
                                   \cup (IF q = p THEN Tr!ToSet(rows) ELSE {})
  <1> DEFINE P == TreeFolders \cup {TreeRoot}
             M == Tr!ToSet(rows)
             p == Tr!Destination(type, zone)
             kz == Tr!Dropped(rows, type, zone)
             O(q) == Tr!Without(treeKids[q], M)
             o == O(p)
             at == CASE type = "into" -> Len(o)
                     [] type = "before" -> Tr!IndexIn(o, zone) - 1
                     [] type = "after" -> Tr!IndexIn(o, zone)
             u == SubSeq(o, 1, at) \o rows \o SubSeq(o, at + 1, Len(o))
  <1>1. treeKids \in Lists /\ \A q \in P : treeKids[q] \in Seq(Tr!Rows) /\ IsInjective(treeKids[q])
    BY ForestIs DEF TreeInv, Lists
  <1>2. p \in AliveFolders(treeKids) /\ p \in P /\ (type # "into" => zone \in Kids(treeKids, p))
    <2>1. CASE type = "into"
      BY <2>1 DEF Tr!Destination, AliveFolders
    <2>2. CASE type # "into"
      BY <2>2, UpIs DEF Tr!Destination, AliveFolders
    <2> QED  BY <2>1, <2>2
  <1> HIDE DEF p, M
  <1>3. \A q \in P : O(q) \in Seq(Tr!Rows) /\ Tr!ToSet(O(q)) = Kids(treeKids, q) \ M /\ IsInjective(O(q))
    <2> TAKE q \in P
    <2>1. treeKids[q] \in Seq(Tr!Rows) /\ IsInjective(treeKids[q])
      BY <1>1
    <2> QED  BY <2>1, WithoutIs DEF Kids
  <1>4. DOMAIN treeKids = P
    BY <1>1 DEF Lists
  <1>5. kz = [[q \in P |-> O(q)] EXCEPT ![p] = u]
    BY <1>2, <1>4 DEF Tr!Dropped, Tr!Inserted, p, M
  <1> HIDE DEF O
  <1>6. o \in Seq(Tr!Rows) /\ Tr!ToSet(o) = Kids(treeKids, p) \ M /\ IsInjective(o)
    BY <1>2, <1>3
  <1> HIDE DEF o
  <1>7. at \in 0..Len(o)
    <2>1. CASE type = "into"
      BY <1>6, <2>1
    <2>2. CASE type # "into"
      <3>1. zone \in Tr!ToSet(o)
        BY <1>2, <1>6, <2>2 DEF M
      <3>2. Tr!IndexIn(o, zone) \in 1..Len(o)
        BY <1>6, <3>1, IndexIs
      <3>3. Len(o) \in Nat
        BY <1>6
      <3> QED  BY <2>2, <3>2, <3>3
    <2> QED  BY <2>1, <2>2
  <1> HIDE DEF at
  <1>8. u \in Seq(Tr!Rows) /\ IsInjective(u) /\ Tr!ToSet(u) = (Kids(treeKids, p) \ M) \cup M
    BY <1>6, <1>7, InsertedIs DEF M
  <1> HIDE DEF u, kz
  <1>9. kz \in Lists /\ \A q \in P : kz[q] = IF q = p THEN u ELSE O(q)
    BY <1>2, <1>3, <1>5, <1>8 DEF Lists
  <1>10. \A q \in P : IsInjective(kz[q])
    BY <1>3, <1>8, <1>9
  <1>11. \A q \in P : Kids(kz, q) = (Kids(treeKids, q) \ M) \cup (IF q = p THEN M ELSE {})
    <2> TAKE q \in P
    <2>1. CASE q = p
      BY <1>8, <1>9, <2>1 DEF Kids
    <2>2. CASE q # p
      BY <1>3, <1>9, <2>2 DEF Kids
    <2> QED  BY <2>1, <2>2
  <1> QED  BY <1>2, <1>9, <1>10, <1>11 DEF kz, p, M

\* A drop the backend does not refuse keeps the tree one.
LEMMA DropForest ==
    ASSUME TreeInv, NEW rows \in Seq(Tr!Rows), IsInjective(rows),
           NEW type \in {"before", "after", "into"},
           NEW zone \in Tr!Alive(treeKids), zone \notin Tr!ToSet(rows),
           type = "into" => zone \in TreeFolders,
           \A x \in Tr!ToSet(rows) : Tr!Destination(type, zone) \notin Tr!Subtree(x)
    PROVE  Tr!Dropped(rows, type, zone) \in Lists /\ Tr!Forest(Tr!Dropped(rows, type, zone))
  <1> DEFINE M == Tr!ToSet(rows)
             p == Tr!Destination(type, zone)
             kz == Tr!Dropped(rows, type, zone)
  <1>1. /\ p \in AliveFolders(treeKids) /\ kz \in Lists
        /\ \A q \in TreeFolders \cup {TreeRoot} : IsInjective(kz[q])
        /\ \A q \in TreeFolders \cup {TreeRoot} :
              Kids(kz, q) = (Kids(treeKids, q) \ M) \cup (IF q = p THEN M ELSE {})
    BY DroppedIs
  <1>2. M \in SUBSET Tr!Rows
    BY DEF Tr!ToSet
  <1>3. \A x \in M : p \notin Tr!Under(treeKids, {x})
    BY DEF Tr!Subtree
  <1> HIDE DEF M, p, kz
  <1>4. Grafted(treeKids, kz, M, p)
    BY <1>1, <1>3 DEF Grafted
  <1>5. Tr!Forest(kz)
    BY <1>1, <1>2, <1>4, GraftForest DEF TreeInv
  <1> QED  BY <1>1, <1>5 DEF kz

\* No folder is beneath itself: what a row is in is not beneath the row.
LEMMA UpOutside ==
    ASSUME TreeInv, NEW i \in Tr!Alive(treeKids)
    PROVE  Tr!Up(i) \notin Tr!Subtree(i) /\ Tr!Subtree(i) \subseteq Tr!Alive(treeKids)
  <1> DEFINE A == Tr!Alive(treeKids)
             U == Tr!Subtree(i)
             u == Tr!Up(i)
             S == A \ U
  <1>1. /\ treeKids \in Lists /\ i \in Tr!Rows /\ A \subseteq Tr!Rows
        /\ \A q \in AliveFolders(treeKids) : Kids(treeKids, q) \subseteq A
    BY AliveHas DEF TreeInv
  <1>2. /\ i \in U /\ U \subseteq Tr!Rows
        /\ \A x \in U : x # i =>
              /\ x \notin Kids(treeKids, TreeRoot)
              /\ \A f \in TreeFolders : x \in Kids(treeKids, f) => f \in U
    BY <1>1, SubtreeIs
  <1>3. \A p \in TreeFolders \cup {TreeRoot} : i \in Kids(treeKids, p) => p = u
    BY UpIs
  <1>4. U \subseteq A
    <2> DEFINE rows == {i}
    <2>1. rows \subseteq A /\ \A f \in A \cap TreeFolders : Kids(treeKids, f) \subseteq A
      BY <1>1 DEF AliveFolders
    <2>2. U = Tr!Under(treeKids, rows)
      BY DEF Tr!Subtree
    <2> HIDE DEF rows, A, U
    <2> QED  BY <1>1, <2>1, <2>2, UnderLeast
  <1>5. ASSUME u \in U PROVE FALSE
    <2>1. u # TreeRoot
      BY <1>2, <1>5, RootIsNoRow
    <2>2. Kids(treeKids, TreeRoot) \subseteq S
      BY <1>1, <1>2, <1>3, <2>1 DEF AliveFolders
    <2>3. \A f \in S \cap TreeFolders : Kids(treeKids, f) \subseteq S
      BY <1>1, <1>2, <1>3, <1>5 DEF AliveFolders
    <2> HIDE DEF S
    <2>4. A \subseteq S
      BY <1>1, <2>2, <2>3, AliveLeast
    <2> QED  BY <1>2, <2>4 DEF S
  <1> QED  BY <1>4, <1>5

\* The lists kz that have, with what they had, copies of a row and of what is
\* beneath it.
CopyMade(from, copy, kz) ==
    LET C == Tr!Copied(from)
    IN  /\ \A q \in TreeFolders \cup {TreeRoot} : IsInjective(kz[q])
        /\ Kids(kz, Tr!Up(from)) = Kids(treeKids, Tr!Up(from)) \cup {copy[from]}
        /\ \A q \in TreeFolders \cup {TreeRoot} :
              q # Tr!Up(from) /\ (\A x \in C : copy[x] # q) => Kids(kz, q) = Kids(treeKids, q)
        /\ \A f \in C \cap TreeFolders :
              Kids(kz, copy[f]) = {copy[x] : x \in Kids(treeKids, f) \ Grpcs}

\* What a copy is of, and that its rows are new ones of the same kinds.
LEMMA CopyIs ==
    ASSUME TreeInv, NEW from \in Tr!Alive(treeKids),
           NEW copy \in Tr!CopiesOf(from, Tr!Rows \ Tr!Alive(treeKids))
    PROVE  LET C == Tr!Copied(from)
           IN  /\ from \in C /\ C \subseteq Tr!Subtree(from) /\ C \subseteq Tr!Alive(treeKids)
               /\ DOMAIN copy = C /\ \A x \in C : copy[x] \in Tr!Rows \ Tr!Alive(treeKids)
               /\ \A x, y \in C : copy[x] = copy[y] => x = y
               /\ \A x \in C : copy[x] \in TreeFolders <=> x \in TreeFolders
               /\ \A f \in C \cap TreeFolders : Kids(treeKids, f) \ Grpcs \subseteq C
               /\ \A x \in C, f \in TreeFolders :
                     x # from /\ x \in Kids(treeKids, f) => f \in C /\ x \notin Grpcs
  <1> DEFINE C == Tr!Copied(from)
             U == Tr!Subtree(from)
  <1>1. from \in Tr!Rows
    BY FlatAlive
  <1>2. /\ from \in U /\ \A f \in U \cap TreeFolders : Kids(treeKids, f) \subseteq U
        /\ \A x \in U : x # from =>
              /\ x \notin Kids(treeKids, TreeRoot)
              /\ \A f \in TreeFolders : x \in Kids(treeKids, f) => f \in U
    BY <1>1, SubtreeIs
  <1>3. U \subseteq Tr!Alive(treeKids)
    BY UpOutside
  <1>4. TreeFolders \cap Grpcs = {}
    BY TreeAssumption
  <1>5. C = {from} \cup (U \ Grpcs)
    BY DEF Tr!Copied
  <1>6. /\ DOMAIN copy = C /\ \A x \in C : copy[x] \in Tr!Rows \ Tr!Alive(treeKids)
        /\ \A x, y \in C : copy[x] = copy[y] => x = y
        /\ \A x \in C : Tr!RowKind(copy[x]) = Tr!RowKind(x)
    BY DEF Tr!CopiesOf, Tr!Injection, Tr!IsInjective
  <1>7. \A x : Tr!RowKind(x) = "folder" <=> x \in TreeFolders
    BY DEF Tr!RowKind
  <1> HIDE DEF C, U
  <1>8. \A x \in C : copy[x] \in TreeFolders <=> x \in TreeFolders
    BY <1>6, <1>7
  <1>9. from \in C /\ C \subseteq U /\ C \subseteq Tr!Alive(treeKids)
    BY <1>2, <1>3, <1>5
  <1>10. \A f \in C \cap TreeFolders : Kids(treeKids, f) \ Grpcs \subseteq C
    BY <1>2, <1>5, <1>9
  <1>11. \A x \in C, f \in TreeFolders :
            x # from /\ x \in Kids(treeKids, f) => f \in C /\ x \notin Grpcs
    BY <1>2, <1>4, <1>5
  <1> QED  BY <1>6, <1>8, <1>9, <1>10, <1>11 DEF C, U

\* Copies of a row and of what is beneath it, beside the row, leave a tree.
LEMMA CopyForest ==
    ASSUME TreeInv, NEW from \in Tr!Alive(treeKids),
           NEW copy \in Tr!CopiesOf(from, Tr!Rows \ Tr!Alive(treeKids)),
           NEW kz \in Lists, CopyMade(from, copy, kz)
    PROVE  Tr!Forest(kz)
  <1> DEFINE P == TreeFolders \cup {TreeRoot}
             A == Tr!Alive(treeKids)
             Z == Tr!Alive(kz)
             C == Tr!Copied(from)
             u == Tr!Up(from)
             new == {copy[x] : x \in C}
  <1>1. /\ from \in C /\ C \subseteq Tr!Subtree(from) /\ C \subseteq A
        /\ \A x \in C : copy[x] \in Tr!Rows \ A
        /\ \A x, y \in C : copy[x] = copy[y] => x = y
        /\ \A x \in C : copy[x] \in TreeFolders <=> x \in TreeFolders
        /\ \A f \in C \cap TreeFolders : Kids(treeKids, f) \ Grpcs \subseteq C
        /\ \A x \in C, f \in TreeFolders :
              x # from /\ x \in Kids(treeKids, f) => f \in C /\ x \notin Grpcs
    BY CopyIs
  <1>2. /\ Kids(kz, u) = Kids(treeKids, u) \cup {copy[from]}
        /\ \A q \in P : q # u /\ q \notin new => Kids(kz, q) = Kids(treeKids, q)
        /\ \A f \in C \cap TreeFolders :
              Kids(kz, copy[f]) = {copy[x] : x \in Kids(treeKids, f) \ Grpcs}
        /\ \A q \in P : IsInjective(kz[q])
    BY DEF CopyMade
  <1>3. /\ u \in AliveFolders(treeKids) /\ u \in P /\ u \notin C /\ u \notin new
        /\ \A p \in P : from \in Kids(treeKids, p) => p = u
    <2>1. u \in AliveFolders(treeKids) /\ \A p \in P : from \in Kids(treeKids, p) => p = u
      BY UpIs
    <2>2. u \notin C
      BY <1>1, UpOutside
    <2>3. \A x \in C : copy[x] # TreeRoot
      BY <1>1, RootIsNoRow
    <2> QED  BY <1>1, <2>1, <2>2, <2>3 DEF AliveFolders
  <1>4. /\ \A p, q \in P : Kids(treeKids, p) \cap Kids(treeKids, q) # {} => p = q
        /\ \A p \in P : Kids(treeKids, p) \subseteq A
        /\ treeKids \in Lists
    BY ForestIs DEF TreeInv
  <1>5. \A f \in new \cap TreeFolders : \E g \in C \cap TreeFolders : f = copy[g]
    BY <1>1
  <1>6. \A f \in new \cap TreeFolders : Kids(treeKids, f) = {}
    <2> TAKE f \in new \cap TreeFolders
    <2>1. f \in Tr!Rows \ A
      BY <1>1
    <2>2. Tr!Under(treeKids, {f}) = {f} /\ \A p \in P : f \notin Kids(treeKids, p)
      BY <1>4, <2>1, NewRow DEF TreeInv
    <2>3. \A q \in Tr!Subtree(f) \cap TreeFolders : Kids(treeKids, q) \subseteq Tr!Subtree(f)
      BY <2>1, SubtreeIs
    <2> QED  BY <2>2, <2>3 DEF Tr!Subtree
  <1> HIDE DEF A, Z, C, u, new, P
  <1>7. \A p \in AliveFolders(kz) : Kids(kz, p) \subseteq Z
    BY AliveHas DEF Z
  <1>8. A \subseteq Z
    <2>1. \A p \in P : Kids(treeKids, p) \subseteq Kids(kz, p)
      BY <1>2, <1>3, <1>6, RootIsNoRow, <1>1 DEF P, new
    <2>2. Kids(treeKids, TreeRoot) \subseteq Z /\ \A f \in Z \cap TreeFolders : Kids(treeKids, f) \subseteq Z
      BY <1>7, <2>1 DEF AliveFolders, P, Z
    <2> QED  BY <1>4, <2>2, AliveLeast DEF A
  <1>9. \A x \in C : copy[x] \in Z
    <2> DEFINE S == {x \in Tr!Rows : x \in C => copy[x] \in Z}
               rows == {from}
    <2>1. copy[from] \in Z
      BY <1>2, <1>3, <1>7, <1>8 DEF AliveFolders, A, Z
    <2>2. ASSUME NEW f \in S \cap TreeFolders, NEW x \in Kids(treeKids, f) PROVE x \in S
      <3>1. x \in Tr!Rows
        BY <1>4, KidsAreRows
      <3>2. ASSUME x \in C, x # from PROVE copy[x] \in Z
        <4>1. f \in C /\ x \notin Grpcs
          BY <1>1, <3>2
        <4>2. copy[f] \in Z \cap TreeFolders
          BY <1>1, <4>1
        <4>3. copy[x] \in Kids(kz, copy[f])
          BY <1>2, <4>1
        <4> QED  BY <1>7, <4>2, <4>3 DEF AliveFolders, Z
      <3> QED  BY <2>1, <3>1, <3>2
    <2>3. rows \subseteq S
      BY <2>1, FlatAlive
    <2>4. Tr!Subtree(from) = Tr!Under(treeKids, rows)
      BY DEF Tr!Subtree
    <2> HIDE DEF S, rows
    <2>5. Tr!Under(treeKids, rows) \subseteq S
      BY <1>4, <2>2, <2>3, UnderLeast
    <2> QED  BY <1>1, <2>4, <2>5 DEF S
  <1>10. ASSUME NEW p \in P PROVE Kids(kz, p) \subseteq Z
    <2>1. CASE p \in new
      <3>1. p \in TreeFolders
        BY <1>1, <2>1, RootIsNoRow DEF P, new
      <3>2. PICK g \in C \cap TreeFolders : p = copy[g]
        BY <1>5, <2>1, <3>1
      <3> QED  BY <1>1, <1>2, <1>9, <3>2
    <2>2. CASE p = u
      BY <1>1, <1>2, <1>4, <1>8, <1>9, <2>2
    <2>3. CASE p \notin new /\ p # u
      BY <1>2, <1>4, <1>8, <2>3
    <2> QED  BY <2>1, <2>2, <2>3
  <1>11. ASSUME NEW p \in P, NEW q \in P, NEW x \in Kids(kz, p) \cap Kids(kz, q) PROVE p = q
    <2>1. ASSUME NEW r \in P, x \in Kids(kz, r), x \in new, r \notin new
          PROVE  r = u /\ x = copy[from]
      <3>1. x \notin Kids(treeKids, r)
        BY <1>1, <1>4, <2>1 DEF new
      <3> QED  BY <1>2, <2>1, <3>1
    <2>2. ASSUME NEW r \in P, x \in Kids(kz, r), x \notin new
          PROVE  r \notin new /\ x \in Kids(treeKids, r)
      <3>1. r \notin new
        <4>1. SUFFICES ASSUME r \in new PROVE FALSE
          OBVIOUS
        <4>2. r \in TreeFolders
          BY <1>1, <4>1, RootIsNoRow DEF P, new
        <4>3. PICK g \in C \cap TreeFolders : r = copy[g]
          BY <1>5, <4>1, <4>2
        <4> QED  BY <1>1, <1>2, <2>2, <4>3 DEF new
      <3> QED  BY <1>1, <1>2, <2>2, <3>1 DEF new
    <2>3. ASSUME NEW r \in P, x \in Kids(kz, r), r \in new
          PROVE  \E g \in C \cap TreeFolders, y \in C :
                    r = copy[g] /\ x = copy[y] /\ y \in Kids(treeKids, g)
      <3>1. r \in TreeFolders
        BY <1>1, <2>3, RootIsNoRow DEF P, new
      <3>2. PICK g \in C \cap TreeFolders : r = copy[g]
        BY <1>5, <2>3, <3>1
      <3> QED  BY <1>1, <1>2, <2>3, <3>2
    <2>4. CASE x \notin new
      BY <1>4, <2>2, <2>4
    <2>5. CASE x \in new /\ p \notin new /\ q \notin new
      BY <2>1, <2>5
    <2>6. ASSUME NEW r \in P, NEW s \in P, x \in Kids(kz, r), x \in Kids(kz, s),
                 x \in new, r \in new, s \notin new
          PROVE  FALSE
      <3>1. x = copy[from]
        BY <2>1, <2>6
      <3>2. PICK g \in C \cap TreeFolders, y \in C : x = copy[y] /\ y \in Kids(treeKids, g)
        BY <2>3, <2>6
      <3>3. y = from
        BY <1>1, <3>1, <3>2
      <3> QED  BY <1>3, <3>2, <3>3 DEF P
    <2>7. CASE p \in new /\ q \in new
      <3>1. PICK g \in C \cap TreeFolders, y \in C :
               p = copy[g] /\ x = copy[y] /\ y \in Kids(treeKids, g)
        BY <2>3, <2>7
      <3>2. PICK h \in C \cap TreeFolders, z \in C :
               q = copy[h] /\ x = copy[z] /\ z \in Kids(treeKids, h)
        BY <2>3, <2>7
      <3>3. y = z
        BY <1>1, <3>1, <3>2
      <3> QED  BY <1>4, <3>1, <3>2, <3>3 DEF P
    <2> QED  BY <2>4, <2>5, <2>6, <2>7
  <1>12. \A p, q \in P : Kids(kz, p) \cap Kids(kz, q) # {} => p = q
    BY <1>11
  <1>13. \A p \in P : Kids(kz, p) \subseteq Z
    BY <1>10
  <1> QED  BY <1>2, <1>12, <1>13, ForestIs DEF P, Z

\* The lists that a duplicate leaves have the copies.
LEMMA DuplicatedIs ==
    ASSUME TreeInv, NEW from \in Tr!Alive(treeKids),
           NEW copy \in Tr!CopiesOf(from, Tr!Rows \ Tr!Alive(treeKids)),
           NEW at \in Tr!IndexIn(treeKids[Tr!Up(from)], from)..Len(treeKids[Tr!Up(from)])
    PROVE  LET kz == Tr!Duplicated(from, copy, at) IN kz \in Lists /\ CopyMade(from, copy, kz)
  <1> DEFINE P == TreeFolders \cup {TreeRoot}
             C == Tr!Copied(from)
             u == Tr!Up(from)
             kz == Tr!Duplicated(from, copy, at)
             list == treeKids[u]
             top == <<copy[from]>>
             Remains(f) == Tr!Without(treeKids[f], Grpcs)
  <1>1. /\ from \in C /\ C \subseteq Tr!Subtree(from) /\ DOMAIN copy = C
        /\ \A x \in C : copy[x] \in Tr!Rows \ Tr!Alive(treeKids)
        /\ \A x, y \in C : copy[x] = copy[y] => x = y
        /\ \A x \in C : copy[x] \in TreeFolders <=> x \in TreeFolders
        /\ \A f \in C \cap TreeFolders : Kids(treeKids, f) \ Grpcs \subseteq C
    BY CopyIs
  <1>2. /\ DOMAIN treeKids = P
        /\ \A q \in P : /\ treeKids[q] \in Seq(Tr!Rows) /\ IsInjective(treeKids[q])
                        /\ Kids(treeKids, q) \subseteq Tr!Alive(treeKids)
    BY ForestIs DEF TreeInv, Lists
  <1>3. u \in P /\ from \in Kids(treeKids, u) /\ u \in AliveFolders(treeKids)
    BY UpIs DEF AliveFolders
  <1>4. \A x \in C : copy[x] # u
    BY <1>1, <1>3, RootIsNoRow DEF AliveFolders
  <1>5. kz = [p \in P |->
                 IF p = u THEN Tr!Inserted(list, at, top)
                 ELSE IF p \in {copy[x] : x \in C}
                      THEN Tr!CopiedList(copy, CHOOSE f \in C : copy[f] = p)
                      ELSE treeKids[p]]
    BY <1>1, <1>2 DEF Tr!Duplicated, Tr!Range
  <1> HIDE DEF C, u, kz
  <1>6. LET new == Tr!Inserted(list, at, top)
        IN  new \in Seq(Tr!Rows) /\ IsInjective(new) /\ Tr!ToSet(new) = Kids(treeKids, u) \cup {copy[from]}
    <2>1. list \in Seq(Tr!Rows) /\ IsInjective(list) /\ from \in Tr!ToSet(list)
      BY <1>2, <1>3 DEF Kids
    <2>2. at \in 0..Len(list)
      <3>1. Tr!IndexIn(list, from) \in 1..Len(list) /\ Len(list) \in Nat
        BY <2>1, IndexIs
      <3>2. at \in Tr!IndexIn(list, from)..Len(list)
        BY DEF u
      <3> QED  BY <3>1, <3>2
    <2>3. /\ top \in Seq(Tr!Rows) /\ IsInjective(top) /\ Tr!ToSet(top) = {copy[from]}
          /\ copy[from] \notin Tr!ToSet(list)
      BY <1>1, <1>2, <1>3 DEF IsInjective, Tr!ToSet, Kids
    <2> HIDE DEF list, top
    <2>4. Tr!ToSet(list) \cap Tr!ToSet(top) = {}
      BY <2>3
    <2>5. Kids(treeKids, u) = Tr!ToSet(list)
      BY DEF list, Kids
    <2> QED  BY <2>1, <2>2, <2>3, <2>4, <2>5, InsertedIs DEF Tr!Inserted
  <1>7. ASSUME NEW f \in C \cap TreeFolders
        PROVE  LET new == Tr!CopiedList(copy, f)
               IN  /\ new \in Seq(Tr!Rows) /\ IsInjective(new)
                   /\ Tr!ToSet(new) = {copy[x] : x \in Kids(treeKids, f) \ Grpcs}
    <2> DEFINE left == Remains(f)
               new == Tr!CopiedList(copy, f)
               n == Len(left)
    <2>1. left \in Seq(Tr!Rows) /\ Tr!ToSet(left) = Kids(treeKids, f) \ Grpcs /\ IsInjective(left)
      BY <1>2, WithoutIs DEF Kids
    <2>2. new = [k \in DOMAIN left |-> copy[left[k]]]
      BY DEF Tr!CopiedList
    <2> HIDE DEF left, new
    <2>3. DOMAIN left = 1..n /\ n \in Nat /\ \A k \in 1..n : left[k] \in C
      BY <1>1, <2>1 DEF Tr!ToSet
    <2>4. DOMAIN new = 1..n /\ \A k \in 1..n : new[k] = copy[left[k]] /\ new[k] \in Tr!Rows
      BY <1>1, <2>2, <2>3
    <2>5. new \in Seq(Tr!Rows)
      <3>1. new \in [1..n -> Tr!Rows]
        BY <2>2, <2>3, <2>4
      <3> QED  BY <2>3, <3>1
    <2>6. IsInjective(new)
      <3> SUFFICES ASSUME NEW j \in 1..n, NEW k \in 1..n, new[j] = new[k] PROVE j = k
        BY <2>4 DEF IsInjective
      <3>1. left[j] = left[k]
        BY <1>1, <2>3, <2>4
      <3> QED  BY <2>1, <2>3, <3>1 DEF IsInjective
    <2>7. Tr!ToSet(new) = {copy[x] : x \in Tr!ToSet(left)}
      BY <2>3, <2>4 DEF Tr!ToSet
    <2> QED  BY <2>1, <2>5, <2>6, <2>7 DEF new
  <1>8. \A f \in C : (CHOOSE g \in C : copy[g] = copy[f]) = f
    BY <1>1
  <1> HIDE DEF list, top
  <1>9. /\ kz[u] = Tr!Inserted(list, at, top)
        /\ \A f \in C \cap TreeFolders : kz[copy[f]] = Tr!CopiedList(copy, f)
        /\ \A q \in P : q # u /\ (\A x \in C : copy[x] # q) => kz[q] = treeKids[q]
    <2>1. kz[u] = Tr!Inserted(list, at, top)
      BY <1>3, <1>5
    <2>2. ASSUME NEW f \in C \cap TreeFolders PROVE kz[copy[f]] = Tr!CopiedList(copy, f)
      <3>1. copy[f] \in P /\ copy[f] # u /\ (CHOOSE g \in C : copy[g] = copy[f]) = f
        BY <1>1, <1>4, <1>8
      <3> QED  BY <1>5, <3>1
    <2>3. \A q \in P : q # u /\ (\A x \in C : copy[x] # q) => kz[q] = treeKids[q]
      BY <1>5
    <2> QED  BY <2>1, <2>2, <2>3
  <1>10. \A q \in P : \/ q = u
                      \/ \E f \in C \cap TreeFolders : q = copy[f]
                      \/ q # u /\ \A x \in C : copy[x] # q
    BY <1>1, RootIsNoRow DEF P
  <1>11. ASSUME NEW q \in P PROVE kz[q] \in Seq(Tr!Rows) /\ IsInjective(kz[q])
    <2>1. CASE q = u
      BY <1>6, <1>9, <2>1
    <2>2. CASE \E f \in C \cap TreeFolders : q = copy[f]
      BY <1>7, <1>9, <2>2
    <2>3. CASE q # u /\ \A x \in C : copy[x] # q
      BY <1>2, <1>9, <2>3
    <2> QED  BY <1>10, <2>1, <2>2, <2>3
  <1>12. kz \in Lists
    <2>1. DOMAIN kz = P /\ kz = [q \in P |-> kz[q]]
      BY <1>5
    <2> QED  BY <1>11, <2>1 DEF Lists
  <1>13. /\ Kids(kz, u) = Kids(treeKids, u) \cup {copy[from]}
         /\ \A f \in C \cap TreeFolders :
               Kids(kz, copy[f]) = {copy[x] : x \in Kids(treeKids, f) \ Grpcs}
         /\ \A q \in P : q # u /\ (\A x \in C : copy[x] # q) => Kids(kz, q) = Kids(treeKids, q)
    <2>1. Kids(kz, u) = Kids(treeKids, u) \cup {copy[from]}
      BY <1>6, <1>9 DEF Kids
    <2>2. \A f \in C \cap TreeFolders :
             Kids(kz, copy[f]) = {copy[x] : x \in Kids(treeKids, f) \ Grpcs}
      BY <1>7, <1>9 DEF Kids
    <2>3. \A q \in P : q # u /\ (\A x \in C : copy[x] # q) => Kids(kz, q) = Kids(treeKids, q)
      BY <1>9 DEF Kids
    <2> QED  BY <2>1, <2>2, <2>3
  <1>14. \A q \in P : IsInjective(kz[q])
    BY <1>11
  <1> QED  BY <1>12, <1>13, <1>14 DEF CopyMade, C, u, kz, P

\* A delete takes whole subtrees out, and all else stays in the tree.
LEMMA CutIs ==
    ASSUME TreeInv, NEW gone \in SUBSET Tr!Rows,
           \A f \in gone \cap TreeFolders : Kids(treeKids, f) \subseteq gone
    PROVE  /\ Tr!TreeWithout(gone) \in Lists /\ Tr!Forest(Tr!TreeWithout(gone))
           /\ Tr!Alive(treeKids) \ gone \subseteq Tr!Alive(Tr!TreeWithout(gone))
  <1> DEFINE P == TreeFolders \cup {TreeRoot}
             kz == Tr!TreeWithout(gone)
             O(q) == Tr!Without(treeKids[q], gone)
  <1>1. treeKids \in Lists /\ \A q \in P : treeKids[q] \in Seq(Tr!Rows) /\ IsInjective(treeKids[q])
    BY ForestIs DEF TreeInv, Lists
  <1>2. \A q \in P : O(q) \in Seq(Tr!Rows) /\ Tr!ToSet(O(q)) = Kids(treeKids, q) \ gone /\ IsInjective(O(q))
    <2> TAKE q \in P
    <2>1. treeKids[q] \in Seq(Tr!Rows) /\ IsInjective(treeKids[q])
      BY <1>1
    <2> QED  BY <2>1, WithoutIs DEF Kids
  <1>3. kz = [q \in P |-> IF q \in gone THEN <<>> ELSE O(q)]
    BY <1>1 DEF Tr!TreeWithout, Lists
  <1> HIDE DEF O, kz
  <1>4. /\ <<>> \in Seq(Tr!Rows) /\ IsInjective(<<>>) /\ Tr!ToSet(<<>>) = {}
    BY DEF IsInjective, Tr!ToSet
  <1>5. kz \in Lists /\ \A q \in P : kz[q] = IF q \in gone THEN <<>> ELSE O(q)
    BY <1>2, <1>3, <1>4 DEF Lists
  <1>6. \A q \in P : IsInjective(kz[q])
    BY <1>2, <1>4, <1>5
  <1>7. \A q \in P : Kids(kz, q) = IF q \in gone THEN {} ELSE Kids(treeKids, q) \ gone
    BY <1>2, <1>4, <1>5 DEF Kids
  <1>8. TreeRoot \notin gone
    BY RootIsNoRow
  <1>9. Tr!Forest(kz) /\ Tr!Alive(treeKids) \ gone \subseteq Tr!Alive(kz)
    BY <1>1, <1>5, <1>6, <1>7, <1>8, CutForest DEF TreeInv
  <1> QED  BY <1>5, <1>9 DEF kz

----------------------------------------------------------------------------
(* The steps of the tree. *)

\* rangeIds and what the keys and the mouse choose are rows.
LEMMA ChosenAreRows ==
    ASSUME TreeInv, NEW i \in Tr!Rows, NEW shift \in BOOLEAN,
           Tr!SelectOnly(i) \/ Tr!SelectTo(Tr!Flat, i) \/ Tr!MoveTo(Tr!Flat, i, shift)
    PROVE  treeChosen' \subseteq Tr!Rows
  <1> DEFINE flat == Tr!Flat
             from == Tr!AnchorOr(i)
             a == Tr!IndexIn(flat, from)
             b == Tr!IndexIn(flat, i)
  <1>1. treeChosen' = {i} \/ treeChosen' = Tr!RangeIds(flat, from, i)
    BY DEF Tr!SelectOnly, Tr!SelectTo, Tr!MoveTo
  <1>2. CASE {from, i} \subseteq Tr!ToSet(flat)
    <2>1. flat \in Seq(Tr!Rows) /\ Len(flat) \in Nat /\ \A k \in 1..Len(flat) : flat[k] \in Tr!Rows
      BY FlatAlive
    <2>2. a \in 1..Len(flat) /\ b \in 1..Len(flat)
      BY <1>2, <2>1, IndexIs
    <2>3. Tr!RangeIds(flat, from, i) = {flat[k] : k \in (IF a <= b THEN a..b ELSE b..a)}
      BY <1>2 DEF Tr!RangeIds
    <2> HIDE DEF flat, a, b
    <2>4. \A k \in (IF a <= b THEN a..b ELSE b..a) : k \in 1..Len(flat)
      BY <2>1, <2>2
    <2> QED  BY <1>1, <2>1, <2>3, <2>4
  <1>3. CASE ~ ({from, i} \subseteq Tr!ToSet(flat))
    BY <1>1, <1>3 DEF Tr!RangeIds
  <1> QED  BY <1>2, <1>3

\* usePruneSelection leaves rows of a tree.
LEMMA PrunedAreRows ==
    ASSUME NEW ks \in Lists, NEW sel, NEW foc, NEW anc, Tr!Prune(ks, sel, foc, anc)
    PROVE  treeChosen' \subseteq Tr!Rows
  BY AliveHas DEF Tr!Prune

\* The rows above and below the focus.
LEMMA FlatRows ==
    ASSUME TreeInv
    PROVE  /\ Len(Tr!Flat) \in Nat /\ \A k \in 1..Len(Tr!Flat) : Tr!Flat[k] \in Tr!Rows
           /\ Tr!Place(Tr!Flat) \in 0..Len(Tr!Flat)
           /\ Tr!Flat # <<>> => Len(Tr!Flat) # 0
           /\ \A k \in 1..Len(Tr!Flat) : Tr!Flat[k] \in Tr!Alive(treeKids)
           /\ \A i \in Tr!ToSet(Tr!Flat) : i \in Tr!Rows /\ i \in Tr!Alive(treeKids)
  <1>1. /\ Tr!Flat \in Seq(Tr!Rows) /\ Tr!ToSet(Tr!Flat) = {Tr!Flat[k] : k \in 1..Len(Tr!Flat)}
        /\ Tr!ToSet(Tr!Flat) \subseteq Tr!Alive(treeKids) /\ Tr!Alive(treeKids) \subseteq Tr!Rows
    BY FlatAlive
  <1>2. Len(Tr!Flat) \in Nat /\ (Tr!Flat # <<>> => Len(Tr!Flat) # 0)
    BY <1>1
  <1>3. Tr!Place(Tr!Flat) \in 0..Len(Tr!Flat)
    <2>1. CASE treeFocused \in Tr!ToSet(Tr!Flat)
      <3>1. Tr!IndexIn(Tr!Flat, treeFocused) \in 1..Len(Tr!Flat)
        BY <1>1, <2>1, IndexIs
      <3> QED  BY <1>2, <2>1, <3>1 DEF Tr!Place
    <2>2. CASE treeFocused \notin Tr!ToSet(Tr!Flat)
      BY <1>2, <2>2 DEF Tr!Place
    <2> QED  BY <2>1, <2>2
  <1> QED  BY <1>1, <1>2, <1>3

\* The steps that move no node.
LEMMA MouseStepTree ==
    ASSUME TreeInv, Tr!MouseStep(Tr!Flat, Tr!Alive(treeKids)) PROVE TreeInv'
  <1> DEFINE Typed == treeChosen \subseteq Tr!Rows /\ treePane.id \in Tr!Rows \cup {None}
  <1>1. UNCHANGED treeKids /\ Typed'
    <2>1. ASSUME NEW i \in Tr!ToSet(Tr!Flat),
                 Tr!ClickLeaf(i) \/ Tr!ClickFolder(i) \/ Tr!ShiftClick(Tr!Flat, i) \/ Tr!ToggleFolder(i)
          PROVE  UNCHANGED treeKids /\ Typed'
      <3>1. i \in Tr!Rows /\ TRUE \in BOOLEAN
        BY <2>1, FlatRows
      <3>2. /\ UNCHANGED treeKids /\ (Tr!SelectOnly(i) \/ Tr!SelectTo(Tr!Flat, i))
            /\ UNCHANGED treePane \/ treePane' = Tr!ClickOpens(i)
        BY <2>1 DEF Tr!ClickLeaf, Tr!ClickFolder, Tr!ShiftClick, Tr!ToggleFolder
      <3>3. treeChosen' \subseteq Tr!Rows
        BY <3>1, <3>2, ChosenAreRows
      <3>4. treePane'.id \in Tr!Rows \cup {None}
        BY <3>1, <3>2 DEF TreeInv, Tr!ClickOpens
      <3> QED  BY <3>2, <3>3, <3>4
    <2>2. ASSUME NEW i \in Tr!ToSet(Tr!Flat), Tr!ToggleSelected(i)
          PROVE  UNCHANGED treeKids /\ Typed'
      <3>1. i \in Tr!Rows
        BY <2>2, FlatRows
      <3> QED  BY <2>2, <3>1 DEF Tr!ToggleSelected, TreeInv
    <2>3. ASSUME NEW i \in Tr!Alive(treeKids), Tr!SelectFiltered(i)
          PROVE  UNCHANGED treeKids /\ Typed'
      <3>1. i \in Tr!Rows
        BY <2>3, FlatAlive
      <3> QED  BY <2>3, <3>1 DEF Tr!SelectFiltered, Tr!ClickOpens, TreeInv
    <2>4. ASSUME NEW i \in Tr!Alive(treeKids), Tr!Navigate(i)
          PROVE  UNCHANGED treeKids /\ Typed'
      <3>1. i \in Tr!Rows
        BY <2>4, FlatAlive
      <3> QED  BY <2>4, <3>1 DEF Tr!Navigate, Tr!RevealInTree, Tr!SelectOnly, Tr!ClickOpens
    <2> QED  BY <2>1, <2>2, <2>3, <2>4 DEF Tr!MouseStep
  <1> QED  BY <1>1 DEF TreeInv

\* The same of the keys.
LEMMA KeyStepTree ==
    ASSUME TreeInv, Tr!KeyStep(Tr!Flat, Tr!Alive(treeKids)) PROVE TreeInv'
  <1> DEFINE Typed == treeChosen \subseteq Tr!Rows /\ treePane.id \in Tr!Rows \cup {None}
  <1>1. UNCHANGED treeKids /\ Typed'
    <2>1. ASSUME NEW flat, flat = Tr!Flat, NEW here, here = Tr!Place(Tr!Flat), NEW shift \in BOOLEAN,
                 \/ Tr!ArrowUp(flat, here, shift) \/ Tr!ArrowDown(flat, here, shift)
                 \/ Tr!ArrowLeft(flat, here, shift) \/ Tr!ArrowRight(flat, here, shift)
          PROVE  UNCHANGED treeKids /\ Typed'
      <3> DEFINE n == Len(flat)
      <3>1. /\ n \in Nat /\ here \in 0..n /\ (flat # <<>> => n # 0)
            /\ \A k \in 1..n : flat[k] \in Tr!Rows /\ flat[k] \in Tr!Alive(treeKids)
        BY <2>1, FlatRows
      <3>2. UNCHANGED treeKids /\ UNCHANGED treePane
        BY <2>1 DEF Tr!ArrowUp, Tr!ArrowDown, Tr!ArrowLeft, Tr!ArrowRight
      <3>3. \/ UNCHANGED treeChosen
            \/ \E k \in 1..n : Tr!MoveTo(flat, flat[k], shift)
            \/ \E k \in 1..n : Tr!FirstChild(flat[k]) /\ Tr!MoveTo(flat, Tr!Up(flat[k]), shift)
        <4>1. CASE Tr!ArrowUp(flat, here, shift)
          <5>1. /\ flat # <<>> /\ here # 1
                /\ Tr!MoveTo(flat, flat[IF here = 0 THEN n ELSE here - 1], shift)
            BY <4>1 DEF Tr!ArrowUp
          <5>2. (IF here = 0 THEN n ELSE here - 1) \in 1..n
            BY <3>1, <5>1
          <5> QED  BY <5>1, <5>2
        <4>2. CASE Tr!ArrowDown(flat, here, shift)
          <5>1. here < n /\ Tr!MoveTo(flat, flat[here + 1], shift)
            BY <4>2 DEF Tr!ArrowDown
          <5>2. here + 1 \in 1..n
            BY <3>1, <5>1
          <5> QED  BY <5>1, <5>2
        <4>3. CASE Tr!ArrowLeft(flat, here, shift)
          <5>1. /\ here > 0
                /\ \/ UNCHANGED treeChosen
                   \/ Tr!FirstChild(flat[here]) /\ Tr!MoveTo(flat, Tr!Up(flat[here]), shift)
                   \/ here > 1 /\ Tr!MoveTo(flat, flat[here - 1], shift)
            BY <4>3 DEF Tr!ArrowLeft
          <5>2. here \in 1..n /\ (here > 1 => here - 1 \in 1..n)
            BY <3>1, <5>1
          <5> QED  BY <5>1, <5>2
        <4>4. CASE Tr!ArrowRight(flat, here, shift)
          <5>1. here > 0 /\ (UNCHANGED treeChosen \/ (here < n /\ Tr!MoveTo(flat, flat[here + 1], shift)))
            BY <4>4 DEF Tr!ArrowRight
          <5>2. here < n => here + 1 \in 1..n
            BY <3>1, <5>1
          <5> QED  BY <5>1, <5>2
        <4> QED  BY <2>1, <4>1, <4>2, <4>3, <4>4
      <3> HIDE DEF n
      <3>4. ASSUME NEW k \in 1..n, Tr!MoveTo(flat, flat[k], shift) PROVE treeChosen' \subseteq Tr!Rows
        BY <2>1, <3>1, <3>4, ChosenAreRows
      <3>5. ASSUME NEW k \in 1..n, Tr!FirstChild(flat[k]), Tr!MoveTo(flat, Tr!Up(flat[k]), shift)
            PROVE  treeChosen' \subseteq Tr!Rows
        <4>1. flat[k] \in Tr!Alive(treeKids)
          BY <3>1, <3>5
        <4>2. Tr!Up(flat[k]) \in Tr!Rows
          BY <3>5, <4>1, UpIs, RootIsNoRow DEF Tr!FirstChild, AliveFolders
        <4> QED  BY <2>1, <3>5, <4>2, ChosenAreRows
      <3> QED  BY <3>2, <3>3, <3>4, <3>5 DEF TreeInv
    <2>2. CASE Tr!OpenNode
      <3>1. UNCHANGED <<treeKids, treeChosen>> /\ treeFocused \in Tr!ToSet(Tr!Flat)
            /\ treePane'.id = treeFocused
        BY <2>2 DEF Tr!OpenNode, Tr!Visible, Tr!KeyOpens
      <3> QED  BY <3>1, FlatRows DEF TreeInv
    <2>3. CASE Tr!CollapseAll(Tr!Alive(treeKids)) \/ Tr!ExpandAll
      BY <2>3 DEF Tr!CollapseAll, Tr!ExpandAll, TreeInv
    <2>4. CASE Tr!FocusActive(Tr!Alive(treeKids))
      BY <2>4 DEF Tr!FocusActive, Tr!RevealInTree, Tr!SelectOnly, TreeInv
    <2> QED  BY <2>1, <2>2, <2>3, <2>4 DEF Tr!KeyStep
  <1> QED  BY <1>1 DEF TreeInv

\* A new node, whatever action makes it.
LEMMA AppendedTree ==
    ASSUME TreeInv, NEW i \in Tr!Rows \ Tr!Alive(treeKids), NEW p \in AliveFolders(treeKids),
           treeKids' = Tr!Appended(i, p), treeChosen' \subseteq Tr!Rows,
           treePane'.id \in Tr!Rows \cup {None}
    PROVE  TreeInv'
  <1> DEFINE kz == Tr!Appended(i, p)
  <1>1. treeKids \in Lists /\ p \in TreeFolders \cup {TreeRoot} /\ treeKids[p] \in Seq(Tr!Rows)
    BY DEF TreeInv, AliveFolders, Lists
  <1>2. Append(treeKids[p], i) \in Seq(Tr!Rows)
    BY <1>1, AppendedList
  <1>3. /\ kz \in Lists
        /\ \A q \in TreeFolders \cup {TreeRoot} : kz[q] = IF q = p THEN Append(treeKids[q], i) ELSE treeKids[q]
    BY <1>1, <1>2 DEF Tr!Appended, Lists
  <1> HIDE DEF kz
  <1>4. Tr!Forest(kz)
    BY <1>3, AppendForest DEF TreeInv
  <1>5. treeKids' = kz
    BY DEF kz
  <1> QED  BY <1>3, <1>4, <1>5 DEF TreeInv

\* What deletes take: the row, or the rows, and all that is beneath them.
LEMMA GoneIs ==
    ASSUME TreeInv, NEW i \in Tr!Rows
    PROVE  \A gone \in {Tr!Subtree(i), Tr!Under(treeKids, treeChosen)} :
              /\ gone \in SUBSET Tr!Rows
              /\ \A f \in gone \cap TreeFolders : Kids(treeKids, f) \subseteq gone
  <1>1. treeKids \in Lists /\ treeChosen \in SUBSET Tr!Rows
    BY DEF TreeInv
  <1>2. /\ Tr!Under(treeKids, treeChosen) \subseteq Tr!Rows
        /\ \A f \in Tr!Under(treeKids, treeChosen) \cap TreeFolders :
              Kids(treeKids, f) \subseteq Tr!Under(treeKids, treeChosen)
    BY <1>1, UnderHas
  <1> QED  BY <1>2, SubtreeIs

\* What takes the focus is a row, or nothing does.
LEMMA NextIsRow ==
    ASSUME TreeInv, NEW i \in Tr!Rows
    PROVE  Tr!NeighborAfterDelete(Tr!Flat, i) \in Tr!Rows \/ Tr!NeighborAfterDelete(Tr!Flat, i) = None
  <1>1. CASE i \in Tr!ToSet(Tr!Flat)
    BY <1>1, NeighborIs, FlatAlive
  <1>2. CASE i \notin Tr!ToSet(Tr!Flat)
    BY <1>2 DEF Tr!NeighborAfterDelete
  <1> QED  BY <1>1, <1>2

\* Making, moving and deleting nodes.
LEMMA EditStepTree ==
    ASSUME TreeInv, Tr!EditStep(Tr!Flat, Tr!Alive(treeKids)) PROVE TreeInv'
  <1>1. ASSUME NEW i \in Tr!Rows \ Tr!Alive(treeKids),
               NEW p \in (TreeFolders \cap Tr!Alive(treeKids)) \cup {TreeRoot}, Tr!CreateItem(i, p)
        PROVE  TreeInv'
    <2>1. /\ p \in AliveFolders(treeKids) /\ treeKids' = Tr!Appended(i, p)
          /\ treeChosen' = {i} /\ treePane'.id = i
      BY <1>1 DEF Tr!CreateItem, Tr!SelectOnly, Tr!ClickOpens, AliveFolders
    <2>2. treeChosen' \subseteq Tr!Rows /\ treePane'.id \in Tr!Rows \cup {None}
      BY <2>1
    <2> QED  BY <2>1, <2>2, AppendedTree
  <1>2. ASSUME NEW from \in Tr!Alive(treeKids), Tr!DuplicateItem(from, Tr!Alive(treeKids))
        PROVE  TreeInv'
    <2>1. PICK copy \in Tr!CopiesOf(from, Tr!Rows \ Tr!Alive(treeKids)),
               at \in Tr!IndexIn(treeKids[Tr!Up(from)], from)..Len(treeKids[Tr!Up(from)]) :
             /\ treeKids' = Tr!Duplicated(from, copy, at)
             /\ treeChosen' = {copy[from]} /\ treePane'.id = copy[from]
      BY <1>2 DEF Tr!DuplicateItem, Tr!SelectOnly, Tr!ClickOpens
    <2>2. treeKids' \in Lists /\ Tr!Forest(treeKids')
      BY <2>1, DuplicatedIs, CopyForest
    <2>3. copy[from] \in Tr!Rows
      BY CopyIs
    <2> QED  BY <2>1, <2>2, <2>3 DEF TreeInv
  <1>3. ASSUME NEW i \in Tr!Rows \ Tr!Alive(treeKids), Tr!PasteFromClipboard(i) PROVE TreeInv'
    <2> DEFINE p == Tr!PasteTarget
    <2>1. /\ treeKids' = Tr!Appended(i, p) /\ treeChosen' \subseteq Tr!Rows
          /\ treePane'.id \in Tr!Rows \cup {None}
      BY <1>3 DEF Tr!PasteFromClipboard, Tr!ClickOpens, TreeInv
    <2>2. p \in AliveFolders(treeKids)
      <3>1. CASE treeFocused \in TreeFolders \cap Tr!Alive(treeKids)
        BY <3>1 DEF Tr!PasteTarget, AliveFolders
      <3>2. CASE treeFocused \notin TreeFolders \cap Tr!Alive(treeKids)
                 /\ treeFocused \in TreeRequests \cap Tr!Alive(treeKids)
        BY <3>2, UpIs DEF Tr!PasteTarget
      <3>3. CASE treeFocused \notin TreeFolders \cap Tr!Alive(treeKids)
                 /\ treeFocused \notin TreeRequests \cap Tr!Alive(treeKids)
        BY <3>3 DEF Tr!PasteTarget, AliveFolders
      <3> QED  BY <3>1, <3>2, <3>3
    <2> HIDE DEF p
    <2> QED  BY <2>1, <2>2, AppendedTree
  <1>4. ASSUME NEW i \in Tr!ToSet(Tr!Flat), NEW zone \in Tr!ToSet(Tr!Flat),
               NEW type \in {"before", "after", "into"}, Tr!Drop(Tr!Flat, i, type, zone)
        PROVE  TreeInv'
    <2> DEFINE S == (Tr!Dragged(i) \cap Tr!Alive(treeKids)) \ {zone}
               p == Tr!Destination(type, zone)
    <2>1. PICK rows \in Tr!SetToSeqs(S) :
             /\ treeKids' = Tr!Dropped(Tr!Accepted(rows, p), type, zone)
             /\ Tr!Prune(Tr!Dropped(rows, type, zone), treeChosen, treeFocused, treeAnchor)
      BY <1>4 DEF Tr!Drop
    <2>2. zone \notin S /\ (type = "into" => zone \in TreeFolders) /\ UNCHANGED treePane
      BY <1>4 DEF Tr!Drop, Tr!Zone
    <2>3. S \in SUBSET Tr!Rows /\ zone \in Tr!Alive(treeKids)
      BY <1>4, FlatRows DEF Tr!Dragged, TreeInv
    <2> DEFINE acc == Tr!Accepted(rows, p)
    <2> HIDE DEF S
    <2>4. rows \in Seq(Tr!Rows) /\ IsInjective(rows) /\ Tr!ToSet(rows) \subseteq S
      BY <2>3, OrderedIs
    <2>5. /\ acc \in Seq(Tr!Rows) /\ IsInjective(acc) /\ Tr!ToSet(acc) \subseteq Tr!ToSet(rows)
          /\ \A x \in Tr!ToSet(acc) : p \notin Tr!Subtree(x)
      BY <2>4, AcceptedIs
    <2>6. treeChosen' \subseteq Tr!Rows
      <3>1. Tr!Dropped(rows, type, zone) \in Lists
        BY <1>4, <2>2, <2>3, <2>4, DroppedIs
      <3> QED  BY <2>1, <3>1, PrunedAreRows
    <2>7. treeKids' \in Lists /\ Tr!Forest(treeKids')
      <3> HIDE DEF acc
      <3>1. Tr!Dropped(acc, type, zone) \in Lists /\ Tr!Forest(Tr!Dropped(acc, type, zone))
        BY <1>4, <2>2, <2>3, <2>4, <2>5, DropForest
      <3> QED  BY <2>1, <3>1 DEF acc
    <2> QED  BY <2>2, <2>6, <2>7 DEF TreeInv
  <1>5. ASSUME NEW i \in Tr!Alive(treeKids), Tr!ConfirmDelete(Tr!Flat, i) PROVE TreeInv'
    <2> DEFINE gone == Tr!Subtree(i)
    <2>1. /\ treeKids' = Tr!TreeWithout(gone)
          /\ \E sel, foc, anc : Tr!Prune(treeKids', sel, foc, anc)
      BY <1>5 DEF Tr!ConfirmDelete
    <2>2. i \in Tr!Rows /\ Tr!Alive(treeKids) \subseteq Tr!Rows
      BY <1>5, FlatAlive
    <2>3. gone \in SUBSET Tr!Rows /\ \A f \in gone \cap TreeFolders : Kids(treeKids, f) \subseteq gone
      BY <2>2, GoneIs
    <2> HIDE DEF gone
    <2>4. treeKids' \in Lists /\ Tr!Forest(treeKids')
      BY <2>1, <2>3, CutIs
    <2>5. treePane'.id \in Tr!Rows \cup {None}
      <3> DEFINE next == Tr!NeighborAfterDelete(Tr!Flat, i)
      <3>1. next \in Tr!Rows \/ next = None
        BY <1>5, <2>2, NextIsRow
      <3>2. (next # None /\ treePane' = Tr!ClickOpens(next)) \/ treePane' \in {Tr!NoPane, treePane}
        BY <1>5 DEF Tr!ConfirmDelete, Tr!PaneAfter
      <3> HIDE DEF next
      <3> QED  BY <3>1, <3>2 DEF Tr!ClickOpens, Tr!NoPane, TreeInv
    <2> QED  BY <2>1, <2>4, <2>5, PrunedAreRows DEF TreeInv
  <1>6. ASSUME Tr!ConfirmDeleteBatch PROVE TreeInv'
    <2> DEFINE gone == Tr!Under(treeKids, treeChosen)
    <2>1. /\ treeKids' = Tr!TreeWithout(gone)
          /\ Tr!Prune(treeKids', treeChosen, treeFocused, treeAnchor)
      BY <1>6 DEF Tr!ConfirmDeleteBatch
    <2>2. gone \in SUBSET Tr!Rows /\ \A f \in gone \cap TreeFolders : Kids(treeKids, f) \subseteq gone
      BY UnderHas DEF TreeInv
    <2> HIDE DEF gone
    <2>3. treeKids' \in Lists /\ Tr!Forest(treeKids')
      BY <2>1, <2>2, CutIs
    <2>4. treePane'.id \in Tr!Rows \cup {None}
      BY <1>6 DEF Tr!ConfirmDeleteBatch, Tr!PaneAfter, Tr!NoPane, TreeInv
    <2> QED  BY <2>1, <2>3, <2>4, PrunedAreRows DEF TreeInv
  <1> QED  BY <1>1, <1>2, <1>3, <1>4, <1>5, <1>6 DEF Tr!EditStep

\* Every step keeps the tree one.
LEMMA TreeInductive == ASSUME TreeInv, Tr!Next PROVE TreeInv'
  BY MouseStepTree, KeyStepTree, EditStepTree DEF Tr!Next

\* And it is one at first.
LEMMA TreeAtFirst == ASSUME Tr!Init PROVE TreeInv
  BY TreeAssumption DEF Tr!Init, Tr!NoPane, TreeInv, Lists

\* What a delete of a shown row leaves chosen.
LEMMA DeleteLands ==
    ASSUME TreeInv, NEW i \in Tr!ToSet(Tr!Flat), Tr!ConfirmDelete(Tr!Flat, i)
    PROVE  Tr!OnSurvivor \/ Tr!ToSet(Tr!Flat) \subseteq Tr!Subtree(i)
  <1> DEFINE next == Tr!NeighborAfterDelete(Tr!Flat, i)
             gone == Tr!Subtree(i)
  <1>1. next \in Tr!Alive(treeKids) \ gone \/ Tr!ToSet(Tr!Flat) \subseteq gone
    BY NeighborIs
  <1>2. ASSUME next \in Tr!Alive(treeKids) \ gone PROVE Tr!OnSurvivor
    <2>1. i \in Tr!Rows /\ None \notin Tr!Rows /\ Tr!Alive(treeKids) \subseteq Tr!Rows
      BY FlatRows, FlatAlive, RootIsNoRow
    <2>2. treeKids' = Tr!TreeWithout(gone) /\ Tr!Prune(treeKids', {next}, next, next)
      BY <1>2, <2>1 DEF Tr!ConfirmDelete
    <2>3. gone \in SUBSET Tr!Rows /\ \A f \in gone \cap TreeFolders : Kids(treeKids, f) \subseteq gone
      BY <2>1, GoneIs
    <2> HIDE DEF next, gone
    <2>4. Tr!Alive(treeKids) \ gone \subseteq Tr!Alive(treeKids')
      BY <2>2, <2>3, CutIs
    <2>5. next \in Tr!Alive(treeKids')
      BY <1>2, <2>4
    <2> QED  BY <2>2, <2>5 DEF Tr!Prune, Tr!OnSurvivor
  <1> QED  BY <1>1, <1>2

\* The tree is one in every state.
LEMMA TreeAlways == SpecAll => [](part = "tree" => TreeInv)
  <1> DEFINE Inv == part = "tree" => TreeInv
  <1>1. InitAll => Inv
    BY TreeAtFirst DEF InitAll
  <1>2. Inv /\ [NextAll]_allVars => Inv'
    <2>1. ASSUME TreeInv, UNCHANGED treeVars PROVE TreeInv'
      BY <2>1 DEF TreeInv, treeVars
    <2> QED  BY <2>1, TreeInductive DEF NextAll, allVars, treeVars
  <1> QED  BY <1>1, <1>2, PTL DEF SpecAll

\* buildTree shows what hangs from the root: whatever is made, dropped, refused
\* or deleted, every row that is in a list is in one list, once, and is under
\* the root.
THEOREM NothingOutOfSightHolds == SpecAll => []NothingOutOfSight
  <1>1. (part = "tree" => TreeInv) => NothingOutOfSight
    BY DEF NothingOutOfSight, Tr!NothingOutOfSight, TreeInv
  <1> QED  BY <1>1, TreeAlways, PTL

\* neighborAfterDelete: the delete of a shown row leaves the selection and the
\* focus on a row that is still in the tree, unless all that is shown goes.
THEOREM DeleteLandsOnSurvivorHolds == SpecAll => DeleteLandsOnSurvivor
  <1>1. (part = "tree" => TreeInv) => (part = "tree" => Tr!LandsOnSurvivor)
    BY DeleteLands DEF Tr!LandsOnSurvivor
  <1> DEFINE Lands == part = "tree" => Tr!LandsOnSurvivor
  <1>2. (part = "tree" => TreeInv) => [Lands]_allVars
    BY <1>1
  <1>3. [][Lands]_allVars => DeleteLandsOnSurvivor
    BY PTL DEF DeleteLandsOnSurvivor
  <1> QED  BY <1>2, <1>3, TreeAlways, PTL
=============================================================================
