------------------------------ MODULE GitReview -----------------------------
(* What changed since the last commit, as the app shows it: the badges of   *)
(* the tree (gitChangeMap), the list of changed entities with their fields  *)
(* (lib/gitEntityDiff/review), and the ways to take a change back: of a     *)
(* field, of an entity, of the contents of a folder.                        *)
EXTENDS Integers, FiniteSets

CONSTANTS Folders, Leaves, \* entities
          Root, None,      \* the top of the tree; no entity
          Values,          \* of a field
          MaxEdits         \* edits

VARIABLES
    committed, \* per entity: its committed version or None
    working,   \* per entity: the file in the worktree or None
    live,      \* per entity: what the stores of the app hold
    files,     \* the status: the changed entities, with HEAD's parent of deleted ones
    within,    \* the folders the badges know a change below (folderDescendantChanged)
    review,    \* per entity: the change under review, <<old, new>> or <<>>
    target,    \* the rollback that waits for a confirmation
    hung,      \* a walk up the folders has no end: the window answers no more
    edits

reviewVars == <<committed, working, live, files, within, review, target, hung, edits>>

Nodes == Folders \cup Leaves
Places == Folders \cup {Root}
Versions == [name : Values, header : Values \cup {None}, in : Places]

----------------------------------------------------------------------------
(* Readings. *)

Status(c, w) ==
    {[node |-> n, parent |-> IF w[n] = None THEN c[n].in ELSE Root]
        : n \in {x \in Nodes : c[x] # w[x]}}
Changes(c, w) == [n \in Nodes |-> IF c[n] = w[n] THEN <<>> ELSE <<c[n], w[n]>>]

\* A parent that is the top is none: the next place is asked.
LiveIn(n) == IF live[n] # None THEN {live[n].in} \ {Root} ELSE {}
DeletedIn(fs, n) == {x.parent : x \in {y \in fs : y.node = n}} \ {Root}
FirstOr(places, otherwise) == IF places # {} THEN CHOOSE p \in places : TRUE ELSE otherwise

\* A seeded fault: a deleted entity has no parent.
LiveParent(fs, n) == FirstOr(LiveIn(n), Root)
\* The live parent first; of a deleted entity HEAD's.
ParentOf(fs, n) == FirstOr(LiveIn(n), FirstOr(DeletedIn(fs, n), Root))

\* Where `while (p)` comes to from an entity: further steps than there are
\* folders come to nothing new.  It ends at the top, or never.
Walk(fs, n) ==
    LET up[k \in 0..Cardinality(Folders)] ==
            IF k = 0 THEN {ParentOf(fs, n)}
            ELSE up[k - 1] \cup {ParentOf(fs, x) : x \in up[k - 1] \ {Root}}
    IN up[Cardinality(Folders)]
Below(f) == {n \in Nodes \ {f} : f \in Walk(files, n)}

\* The fields of a change: those that differ, or where it moved to, or nothing in particular.
Part(e, f) == IF e = None THEN None ELSE e[f]
Differ(old, new) == {f \in {"name", "header"} : Part(old, f) # Part(new, f)}
Residual(old, new) == IF old.in # new.in THEN {"location"} ELSE {"details"}
Fields(old, new) ==
    IF Differ(old, new) # {} \/ None \in {old, new} THEN Differ(old, new) ELSE Residual(old, new)

Init ==
    /\ committed \in [Nodes -> {[name |-> CHOOSE v \in Values : TRUE, header |-> None, in |-> p] : p \in Places}
                                \cup {None}]
    /\ \A n \in Nodes : committed[n] # None =>
          /\ committed[n].in \in {Root} \cup {f \in Folders : committed[f] # None}
          /\ n \in Folders => committed[n].in # n
    /\ \A S \in SUBSET Folders \ {{}} : 
          {f \in S : committed[f] # None => committed[f].in \notin S} # {}
    /\ working = committed /\ live = committed
    /\ files = {} /\ within = {} /\ review = [n \in Nodes |-> <<>>]
    /\ target = <<>> /\ hung = FALSE /\ edits = 0

----------------------------------------------------------------------------
(* The app and other programs edit.                                         *)

Edit == edits < MaxEdits /\ edits' = edits + 1
Saved(n, e) == working' = [working EXCEPT ![n] = e] /\ live' = [live EXCEPT ![n] = e]

\* The tree has the rows that hang from its top, by the parents in the stores.
LiveAbove(n) == Walk({}, n)
Shown(n) ==
    /\ live[n] # None /\ Root \in LiveAbove(n)
    /\ \A f \in LiveAbove(n) \ {Root} : live[f] # None

Change(n, e) ==
    /\ Edit /\ live[n] # None /\ e # live[n] /\ e.in = live[n].in
    /\ Saved(n, e) /\ UNCHANGED <<committed, files, within, review, target, hung>>
Move(n, p) ==
    /\ Edit /\ Shown(n) /\ p \in {Root} \cup {f \in Folders : Shown(f)} /\ p # live[n].in
    /\ p # n /\ (p \in Folders => n \notin LiveAbove(p))
    /\ Saved(n, [live[n] EXCEPT !.in = p])
    /\ UNCHANGED <<committed, files, within, review, target, hung>>
\* A folder goes with everything below it.
Delete(n) ==
    /\ Edit /\ Shown(n)
    /\ LET gone == {n} \cup {x \in Nodes : live[x] # None /\ n \in LiveAbove(x)} IN
         /\ working' = [x \in Nodes |-> IF x \in gone THEN None ELSE working[x]]
         /\ live' = [x \in Nodes |-> IF x \in gone THEN None ELSE live[x]]
    /\ UNCHANGED <<committed, files, within, review, target, hung>>

\* Another window, or an editor, writes the file.
Elsewhere(n, e) ==
    /\ Edit /\ working[n] # None /\ e # working[n] /\ e.in = working[n].in
    /\ working' = [working EXCEPT ![n] = e]
    /\ UNCHANGED <<committed, live, files, within, review, target, hung>>

----------------------------------------------------------------------------
(* What is shown is read again, on the events of edits and after each taking *)
(* back, whose handlers await one reading after the other: any may come late. *)

\* The badges are built along with the status, walking up from each change.
Refresh ==
    LET fs == Status(committed, working)
        walks == {Walk(fs, x.node) : x \in fs} IN
    /\ hung' = \E w \in walks : Root \notin w
    /\ files' = IF hung' THEN files ELSE fs
    /\ within' = IF hung' THEN within ELSE UNION walks \ {Root}
    /\ UNCHANGED <<committed, working, live, review, target, edits>>
LoadChanges ==
    /\ review' = Changes(committed, working)
    /\ UNCHANGED <<committed, working, live, files, within, target, hung, edits>>
Reload ==
    /\ live # working /\ live' = working
    /\ UNCHANGED <<committed, working, files, within, review, target, hung, edits>>

----------------------------------------------------------------------------
(* Taking back. *)

Discarded(ns) ==
    /\ working' = [n \in Nodes |-> IF n \in ns THEN committed[n] ELSE working[n]]
    /\ UNCHANGED <<committed, live, files, within, review, edits>>

\* The menu offers what the badges say.
Offered(what, n) ==
    /\ \/ what = "entity" /\ n \in {x.node : x \in files}
       \/ what = "contents" /\ n \in Folders \cap within
    /\ Shown(n)
Ask(what, n) ==
    /\ target = <<>> /\ Offered(what, n) /\ target' = <<what, n>>
    /\ UNCHANGED <<committed, working, live, files, within, review, hung, edits>>
Cancel ==
    /\ target # <<>> /\ target' = <<>>
    /\ UNCHANGED <<committed, working, live, files, within, review, hung, edits>>

RollbackEntity ==
    /\ target # <<>> /\ target[1] = "entity" /\ Discarded({target[2]}) /\ target' = <<>>
    /\ UNCHANGED hung
\* Walking up from each change, to the folder or to the top.
RollbackContents ==
    /\ target # <<>> /\ target[1] = "contents"
    /\ LET changed == {x.node : x \in files} \ {target[2]} IN
         /\ hung' = \E n \in changed : {target[2], Root} \cap Walk(files, n) = {}
         /\ Discarded(IF hung' THEN {} ELSE changed \cap Below(target[2]))
    /\ target' = <<>>

DiscardEntity(n) == review[n] # <<>> /\ Discarded({n}) /\ UNCHANGED <<target, hung>>

\* The change that is shown, with one field as it was committed, is written.
Reverted(old, new, f) ==
    IF old = None THEN [new EXCEPT ![f] = None] ELSE [new EXCEPT ![f] = old[f]]
DiscardField(n, f) ==
    /\ review[n] # <<>> /\ review[n][2] # None /\ f \in Fields(review[n][1], review[n][2])
    /\ working' = [working EXCEPT ![n] = Reverted(review[n][1], review[n][2], f)]
    /\ UNCHANGED <<committed, live, files, within, review, target, hung, edits>>

Next ==
    /\ ~hung
    /\ \/ Refresh \/ LoadChanges \/ Reload \/ Cancel \/ RollbackEntity \/ RollbackContents
       \/ \E n \in Nodes :
            \/ \E e \in Versions : Change(n, e) \/ Elsewhere(n, e)
            \/ \E p \in Places : Move(n, p)
            \/ Delete(n) \/ DiscardEntity(n)
            \/ \E what \in {"entity", "contents"} : Ask(what, n)
            \/ \E f \in {"name", "header"} : DiscardField(n, f)

Spec == Init /\ [][Next]_reviewVars

----------------------------------------------------------------------------
\* Rolling back the contents of a folder (changedPathsUnderFolder) is asked of
\* badges and made of paths that are both read earlier.  When these readings are
\* of the worktree as it is, and the search for the paths comes to an end,
\* everything that lies in the folder, at any depth, or lay there when it was
\* deleted, is as it was committed.
UpFrom(x) == IF working[x] # None THEN working[x].in
             ELSE IF committed[x] # None THEN committed[x].in ELSE Root
InFolder(n, f) ==
    n # f /\ \A S \in SUBSET Places :
                 UpFrom(n) \in S /\ (\A x \in S \ {Root} : UpFrom(x) \in S) => f \in S
Restores ==
    RollbackContents /\ ~hung' /\ files = Status(committed, working) /\ live = working
        => \A n \in Nodes : InFolder(n, target[2]) => working'[n] = committed[n]
ContentsRestored == [][Restores]_reviewVars

----------------------------------------------------------------------------
(* What the comments of the code say and the code does not keep. *)

\* "Roll back just one field, keeping the entity's other changes."
OtherChangesKept ==
    [][\A n \in Nodes, f \in {"name", "header"} : DiscardField(n, f) /\ working[n] # None
        => \A g \in {"name", "header", "in"} \ {f} : working'[n][g] = working[n][g]]_reviewVars

\* `while (p)` comes to the top, as in a tree.  A rollback of a folder that was
\* moved out of another, which was then moved into it, leaves the two in a circle.
NeverHangs == ~hung
=============================================================================
