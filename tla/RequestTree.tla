---------------------------- MODULE RequestTree ----------------------------
(* The sidebar tree of the web UI (src-web/src/components/ApiRequestTree): *)
(* which rows are shown, the selection, focus and anchor that the keyboard *)
(* and the mouse move, drag and drop, and the deletes that leave the focus *)
(* on a row that is still there.  The store's nodes are changed by         *)
(* RequestStore; here a change is one step, and what it does to the tree.  *)
EXTENDS Integers, FiniteSets, Sequences, SequencesExt

CONSTANTS Folders, Requests, Grpcs, Root, None,
          Start,      \* the tree at first: folder or Root -> its children in order
          MaxEdits    \* bounds the nodes made and moved

Rows == Folders \cup Requests \cup Grpcs

VARIABLES
    kids,      \* folder or Root -> the sequence of its children
    closed,    \* closedFolderIds
    focused,   \* focusedNodeId
    chosen,    \* selectedIds
    anchor,    \* selectionAnchorId
    pane,      \* what the workspace shows: [kind, id]
    edits      \* nodes made and moved so far

treeVars == <<kids, closed, focused, chosen, anchor, pane, edits>>

NoPane == [kind |-> "none", id |-> None]

----------------------------------------------------------------------------
(* The tree. *)

\* The rows of a list, each with what is beneath it.
Unfold(list, beneath) ==
    FlattenSeq([k \in DOMAIN list |-> <<list[k]>> \o beneath[list[k]]])

\* What is shown, top down: Beneath[n][i] is what is shown beneath row i, n
\* levels deep.
Flat ==
    LET Beneath[n \in 0..Cardinality(Folders)] ==
            [i \in Rows |-> IF n = 0 \/ i \notin Folders \ closed THEN <<>>
                            ELSE Unfold(kids[i], Beneath[n - 1])]
    IN Unfold(kids[Root], Beneath[Cardinality(Folders)])

\* These rows and all that is beneath them, shown or not: what is in every list
\* of the rows, with the children of the open folders, that has no other folder.
Listed(ks, rows, open) == rows \cup UNION {ToSet(ks[f]) : f \in open}
Under(ks, rows) ==
    LET Full(open) == Listed(ks, rows, open) \cap Folders \subseteq open
        full == {Listed(ks, rows, open) : open \in {fs \in SUBSET Folders : Full(fs)}}
    IN {i \in Rows : \A listed \in full : i \in listed}

\* A node whose folder is gone is in nobody's list: it is no longer in the tree.
Alive(ks) == Under(ks, ToSet(ks[Root]))
Subtree(i) == Under(kids, {i})

IndexIn(s, i) == CHOOSE k \in DOMAIN s : s[k] = i /\ \A j \in 1..(k - 1) : s[j] # i
Visible(i) == i \in ToSet(Flat)

Up(i) == CHOOSE p \in Folders \cup {Root} : i \in ToSet(kids[p])

\* The folders from f up.
AncestorFolderIds(f) ==
    LET Above[n \in 0..Cardinality(Folders)] ==
            IF n = 0 THEN {f} \ {Root}
            ELSE Above[n - 1] \cup ({Up(g) : g \in Above[n - 1]} \ {Root})
    IN Above[Cardinality(Folders)]

Without(list, gone) ==
    FlattenSeq([k \in DOMAIN list |-> IF list[k] \in gone THEN <<>> ELSE <<list[k]>>])

\* A delete takes whole subtrees out of the tree; gRPC requests in them stay in
\* the store, where no list shows them.
TreeWithout(gone) ==
    [p \in DOMAIN kids |-> IF p \in gone THEN <<>> ELSE Without(kids[p], gone)]

\* usePruneSelection, after every change of the tree.
Prune(ks, sel, foc, anc) ==
    \E alive \in {Alive(ks)} :
        /\ chosen' = sel \cap alive
        /\ focused' = IF foc \in alive THEN foc ELSE None
        /\ anchor' = IF anc \in alive THEN anc ELSE None

Init ==
    /\ kids = Start
    /\ closed \in {{}, Folders \cap Alive(Start)}   \* what localStorage remembers
    /\ focused = None /\ chosen = {} /\ anchor = None
    /\ pane = NoPane /\ edits = 0

----------------------------------------------------------------------------
(* Selection with the mouse and the keyboard. *)

\* What a click on the row opens.
RowKind(i) == IF i \in Folders THEN "folder" ELSE IF i \in Requests THEN "request" ELSE "grpc"
ClickOpens(i) == [kind |-> RowKind(i), id |-> i]

\* flattenVisible names every row that is neither a folder nor a connection a
\* request, and the keyboard opens by that name.
FlatKind(i) == IF i \in Folders THEN "folder" ELSE "request"
KeyOpens(i) == [kind |-> FlatKind(i), id |-> i]

\* rangeIds: the rows between the two, or the second when one is not shown.
\* Here and below flat is Flat, what is shown, and alive the nodes of the tree.
RangeIds(flat, from, to) ==
    LET a == IndexIn(flat, from)
        b == IndexIn(flat, to)
    IN IF {from, to} \subseteq ToSet(flat)
       THEN {flat[k] : k \in (IF a <= b THEN a..b ELSE b..a)}
       ELSE {to}

AnchorOr(i) == IF anchor # None THEN anchor ELSE IF focused # None THEN focused ELSE i

SelectOnly(i) == chosen' = {i} /\ anchor' = i /\ focused' = i
SelectTo(flat, i) ==
    /\ chosen' = RangeIds(flat, AnchorOr(i), i)
    /\ anchor' = AnchorOr(i)
    /\ focused' = i

ToggleSelected(i) ==
    /\ chosen' = IF i \in chosen THEN chosen \ {i} ELSE chosen \cup {i}
    /\ focused' = i /\ anchor' = i
    /\ UNCHANGED <<kids, closed, pane, edits>>

ClickLeaf(i) ==
    /\ i \notin Folders
    /\ SelectOnly(i) /\ pane' = ClickOpens(i)
    /\ UNCHANGED <<kids, closed, edits>>

ClickFolder(i) ==
    /\ i \in Folders
    /\ SelectOnly(i) /\ pane' = ClickOpens(i)
    /\ UNCHANGED <<kids, closed, edits>>

ShiftClick(flat, i) ==
    /\ SelectTo(flat, i)
    /\ UNCHANGED <<kids, closed, pane, edits>>

Toggled(i) == IF i \in closed THEN closed \ {i} ELSE closed \cup {i}

ToggleFolder(i) ==
    /\ i \in Folders /\ kids[i] # <<>>
    /\ closed' = Toggled(i) /\ SelectOnly(i)
    /\ UNCHANGED <<kids, pane, edits>>

CollapseAll(alive) ==
    /\ closed' = Folders \cap alive
    /\ UNCHANGED <<kids, focused, chosen, anchor, pane, edits>>

ExpandAll ==
    /\ closed' = {}
    /\ UNCHANGED <<kids, focused, chosen, anchor, pane, edits>>

\* A focus on a row that a collapse hides has no place in the list.
Place(flat) == IF focused \in ToSet(flat) THEN IndexIn(flat, focused) ELSE 0

MoveTo(flat, i, shift) == IF shift THEN SelectTo(flat, i) ELSE SelectOnly(i)

\* The keys, with what is shown and the place of the focus in it.
ArrowUp(flat, here, shift) ==
    /\ flat # <<>> /\ here # 1
    /\ MoveTo(flat, flat[IF here = 0 THEN Len(flat) ELSE here - 1], shift)
    /\ UNCHANGED <<kids, closed, pane, edits>>

ArrowDown(flat, here, shift) ==
    /\ here < Len(flat) /\ MoveTo(flat, flat[here + 1], shift)
    /\ UNCHANGED <<kids, closed, pane, edits>>

FirstChild(i) == Up(i) # Root /\ Head(kids[Up(i)]) = i

ArrowLeft(flat, here, shift) ==
    /\ here > 0
    /\ LET i == flat[here]
           up == Up(i)
       IN \/ /\ i \in Folders \ closed
             /\ closed' = Toggled(i) /\ UNCHANGED <<chosen, anchor, focused>>
          \/ /\ i \notin Folders \ closed /\ FirstChild(i)
             /\ MoveTo(flat, up, shift) /\ closed' = Toggled(up)
          \/ /\ i \notin Folders \ closed /\ ~FirstChild(i) /\ here > 1
             /\ MoveTo(flat, flat[here - 1], shift) /\ UNCHANGED closed
    /\ UNCHANGED <<kids, pane, edits>>

ArrowRight(flat, here, shift) ==
    /\ here > 0
    /\ LET i == flat[here]
       IN \/ /\ i \in Folders \cap closed
             /\ closed' = Toggled(i) /\ UNCHANGED <<chosen, anchor, focused>>
          \/ /\ i \notin Folders \cap closed /\ here < Len(flat)
             /\ MoveTo(flat, flat[here + 1], shift)
             /\ closed' = IF i \notin Folders THEN closed \ {flat[here + 1]} ELSE closed
    /\ UNCHANGED <<kids, pane, edits>>

\* Space and Enter open the focused row.
OpenNode ==
    /\ Visible(focused)
    /\ pane' = KeyOpens(focused)
    /\ UNCHANGED <<kids, closed, focused, chosen, anchor, edits>>

\* A result of the search is opened and its folders with it.
SelectFiltered(i) ==
    /\ i \in Requests
    /\ closed' = closed \ AncestorFolderIds(Up(i))
    /\ pane' = ClickOpens(i)
    /\ UNCHANGED <<kids, focused, chosen, anchor, edits>>

\* revealInTree: from the running footer, the palette and Focus Active.
RevealInTree(i) ==
    /\ closed' = closed \ AncestorFolderIds(Up(i))
    /\ SelectOnly(i)

Navigate(i) ==
    /\ RevealInTree(i) /\ i \notin Folders /\ pane' = ClickOpens(i)
    /\ UNCHANGED <<kids, edits>>

\* The pane may be on a gRPC request that no list shows any more.
FocusActive(alive) ==
    /\ pane.id # None
    /\ \/ pane.id \in alive /\ RevealInTree(pane.id)
       \/ pane.id \notin alive /\ SelectOnly(pane.id) /\ UNCHANGED closed
    /\ UNCHANGED <<kids, pane, edits>>

----------------------------------------------------------------------------
(* Making, moving and deleting nodes. *)

\* A new node is last in its folder: it has no order yet, only its time.  Its id
\* is new, and that of no folder that was closed.
Appended(i, p) == [kids EXCEPT ![p] = Append(@, i)]
Room == edits < MaxEdits /\ edits' = edits + 1

CreateItem(i, p) ==
    /\ Room
    /\ kids' = Appended(i, p)
    /\ closed' = closed \ {p, i}
    /\ SelectOnly(i) /\ pane' = ClickOpens(i)     \* focusNewItem

Inserted(list, at, rows) == SubSeq(list, 1, at) \o rows \o SubSeq(list, at + 1, Len(list))

\* With a folder its folders and requests are copied, in their order.
Copied(from) == {from} \cup (Subtree(from) \ Grpcs)
CopiesOf(from, unused) ==
    {copy \in Injection(Copied(from), unused) : \A i \in Copied(from) : RowKind(copy[i]) = RowKind(i)}
CopiedList(copy, f) ==
    LET list == Without(kids[f], Grpcs) IN [k \in DOMAIN list |-> copy[list[k]]]

\* The copy is below the original, directly (order_after), or past rows whose
\* order is not looked at: those of another store, or dropped along with it.
Duplicated(from, copy, at) ==
    [p \in DOMAIN kids |->
        IF p = Up(from) THEN Inserted(kids[p], at, <<copy[from]>>)
        ELSE IF p \in Range(copy) THEN CopiedList(copy, CHOOSE f \in DOMAIN copy : copy[f] = p)
        ELSE kids[p]]

DuplicateItem(from, alive) ==
    /\ Room
    /\ \E copy \in CopiesOf(from, Rows \ alive),
          at \in IndexIn(kids[Up(from)], from)..Len(kids[Up(from)]) :
          /\ kids' = Duplicated(from, copy, at)
          /\ closed' = closed \ (AncestorFolderIds(Up(from)) \cup Range(copy))
          /\ SelectOnly(copy[from]) /\ pane' = ClickOpens(copy[from])

\* pasteFromClipboard: into the focused folder, or beside the focused request.
PasteTarget ==
    IF focused \in Folders \cap Alive(kids) THEN focused
    ELSE IF focused \in Requests \cap Alive(kids) THEN Up(focused) ELSE Root

PasteFromClipboard(i) ==
    /\ Room /\ i \in Requests
    /\ kids' = Appended(i, PasteTarget)
    /\ pane' = ClickOpens(i)
    /\ UNCHANGED <<closed, focused, chosen, anchor>>

\* Where the drop zone puts the rows: among the zone's siblings or in the
\* folder, next to each other.
Destination(type, zone) == IF type = "into" THEN zone ELSE Up(zone)

Dropped(rows, type, zone) ==
    LET out == [p \in DOMAIN kids |-> Without(kids[p], ToSet(rows))]
        p == Destination(type, zone)
        at == CASE type = "into" -> Len(out[p])
                [] type = "before" -> IndexIn(out[p], zone) - 1
                [] type = "after" -> IndexIn(out[p], zone)
    IN [out EXCEPT ![p] = Inserted(@, at, rows)]

\* Seeded fault: only a folder into itself is refused.
RefusedItself(i, p) == p = i

\* The backend moves the rows one by one (move_items) and stops at the first it
\* refuses: a folder into itself or one of its subfolders (check_parent).
Refused(i, p) == p \in Subtree(i)

Accepted(rows, p) ==
    LET refused == {k \in DOMAIN rows : Refused(rows[k], p)}
    IN IF refused = {} THEN rows ELSE SubSeq(rows, 1, Min(refused) - 1)

\* The whole selection moves when the dragged row is part of it, but for what
\* computeUpdate does not find in the tree.
Dragged(i) == IF i \in chosen THEN chosen ELSE {i}

\* resolveZone: a shown row that is not dragged or, after it, one of the folders it
\* is in, which may be dragged and then stays where it is.
Zone(flat, dragged, type, zone) ==
    /\ type = "into" => zone \in Folders
    /\ \/ zone \notin dragged
       \/ type = "after" /\ \E hit \in ToSet(flat) \ dragged : zone \in AncestorFolderIds(Up(hit))

\* Each row's place is found in the tree before the drop, so that rows dropped
\* together come in any order.  The store shows them all moved, and the selection
\* is pruned to that; what the backend refused is then read back.
Drop(flat, i, type, zone) ==
    /\ Room /\ Zone(flat, Dragged(i), type, zone)
    /\ \E rows \in SetToSeqs((Dragged(i) \cap Alive(kids)) \ {zone}) :
       \E accepted \in {Accepted(rows, Destination(type, zone))}, shown \in {Dropped(rows, type, zone)} :
          /\ rows # <<>>
          /\ kids' = Dropped(accepted, type, zone)
          /\ Prune(shown, chosen, focused, anchor)
    /\ UNCHANGED <<closed, pane>>

\* The row that takes the focus: the one above, or the first below that is not
\* in the deleted subtree.
FirstWith(rows, Past(_)) ==
    LET past == {k \in DOMAIN rows : Past(k)}
    IN IF past = {} THEN None ELSE rows[Min(past)]

\* Seeded fault: only the children of the deleted row are passed over.
FirstPastChildren(rows, gone) == FirstWith(rows, LAMBDA k : Up(rows[k]) \notin gone)

PastSubtree(rows, gone) ==
    FirstWith(rows, LAMBDA k : Up(rows[k]) \notin gone \cup {rows[j] : j \in 1..(k - 1)})

NeighborAfterDelete(flat, i) ==
    LET at == IndexIn(flat, i)
    IN IF i \notin ToSet(flat) THEN None
       ELSE IF at > 1 THEN flat[at - 1]
       ELSE PastSubtree(Tail(flat), {i})

\* deleteFolder and deleteRequest close the panes of what is gone.
PaneAfter(gone) == IF pane.id \in gone THEN NoPane ELSE pane

ConfirmDelete(flat, i) ==
    /\ chosen # {i} => i \in ToSet(flat)   \* by the row's menu; the Delete key takes what is chosen
    /\ \E gone \in {Subtree(i)}, next \in {NeighborAfterDelete(flat, i)} :
          /\ kids' = TreeWithout(gone)
          /\ IF next # None THEN Prune(kids', {next}, next, next)
                            ELSE Prune(kids', chosen, focused, anchor)
          /\ pane' = IF next # None /\ pane.id = i THEN ClickOpens(next)
                     ELSE PaneAfter(gone \ Grpcs)
    /\ UNCHANGED <<closed, edits>>

\* Every selected row goes; one that an earlier delete took with its folder
\* fails quietly.
ConfirmDeleteBatch ==
    /\ Cardinality(chosen) > 1
    /\ LET gone == Under(kids, chosen)
       IN /\ kids' = TreeWithout(gone)
          /\ pane' = PaneAfter((gone \ Grpcs) \cup chosen)
    /\ Prune(kids', chosen, focused, anchor)
    /\ UNCHANGED <<closed, edits>>

----------------------------------------------------------------------------
\* Only a shown row is under the mouse.
MouseStep(flat, alive) ==
    \/ \E i \in ToSet(flat) : \/ ClickLeaf(i) \/ ClickFolder(i) \/ ShiftClick(flat, i)
                              \/ ToggleSelected(i) \/ ToggleFolder(i)
    \/ \E i \in alive : SelectFiltered(i) \/ Navigate(i)
KeyStep(flat, alive) ==
    \/ \E here \in {Place(flat)}, shift \in BOOLEAN :
          \/ ArrowUp(flat, here, shift) \/ ArrowDown(flat, here, shift)
          \/ ArrowLeft(flat, here, shift) \/ ArrowRight(flat, here, shift)
    \/ OpenNode \/ CollapseAll(alive) \/ ExpandAll \/ FocusActive(alive)
EditStep(flat, alive) ==
    \/ edits < MaxEdits /\ \E i \in Rows \ alive :
          \/ \E p \in (Folders \cap alive) \cup {Root} : CreateItem(i, p)
          \/ PasteFromClipboard(i)
    \/ edits < MaxEdits /\ \E from \in alive : DuplicateItem(from, alive)
    \/ edits < MaxEdits /\ \E i, zone \in ToSet(flat), type \in {"before", "after", "into"} :
          Drop(flat, i, type, zone)
    \/ \E i \in alive : ConfirmDelete(flat, i)
    \/ ConfirmDeleteBatch

Next == \E flat \in {Flat}, alive \in {Alive(kids)} :
            MouseStep(flat, alive) \/ KeyStep(flat, alive) \/ EditStep(flat, alive)

Spec == Init /\ [][Next]_treeVars

----------------------------------------------------------------------------
\* Every row is in one list and there once, and under the root: nothing that is
\* dropped, made or left behind by a delete goes out of sight (buildTree shows
\* what hangs from the root only).
Forest(ks) ==
    /\ \A p, q \in DOMAIN ks : \A j \in DOMAIN ks[p], k \in DOMAIN ks[q] :
          ks[p][j] = ks[q][k] => p = q /\ j = k
    /\ UNION {ToSet(ks[p]) : p \in DOMAIN ks} \subseteq Alive(ks)
NothingOutOfSight == Forest(kids)

\* Deleting a row that is shown leaves the selection and the focus on a row
\* that is still in the tree, the row above, "never a descendant", or the first
\* one past the subtree (neighborAfterDelete), unless all that is shown goes.
OnSurvivor == focused' \in Alive(kids') /\ chosen' = {focused'}
LandsOnSurvivor ==
    kids' # kids /\ edits' = edits /\ ~ OnSurvivor => \A i \in ToSet(Flat) :
        ConfirmDelete(Flat, i) => ToSet(Flat) \subseteq Subtree(i)
DeleteLandsOnSurvivor == [][LandsOnSurvivor]_treeVars

----------------------------------------------------------------------------
(* What the comments of the code say and the code does not keep. *)

\* The keyboard opens a row "in its pane, exactly as a click would"
\* (ApiRequestTree/index.tsx, openNode).
OpensAsClick == [][OpenNode => pane' = ClickOpens(focused)]_treeVars
=============================================================================
