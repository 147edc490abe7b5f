------------------------------ MODULE GitMerge ------------------------------
(* Resolving the conflicts of a pull (ResolveConflicts): every conflicting  *)
(* entity is merged field by field (lib/gitEntityDiff), the fields that     *)
(* clash are chosen by the user, and saving writes the merged entities one  *)
(* after the other before it finishes the merge.                            *)
EXTENDS FiniteSets, Sequences, SequencesExt

CONSTANTS Paths,     \* the conflicting entities
          Deletable, \* those that one side deleted
          Values,    \* values of a field
          Lists,     \* lists of the rows of one name
          MaxPicks,  \* choices of a field
          MaxSaves,  \* saves at a time
          None       \* no entity, no choice

VARIABLES
    conflict,   \* per path: base, ours and theirs
    left,       \* entityConflicts: the paths that are not written yet
    choices,    \* the choice per path and field
    author,     \* an identity is configured
    autoDone,   \* autoFinished: the merge was finished without a click once
    saves,      \* saves: the paths still to write, and the choices it started with
    merging,    \* the repository is in a merge
    written,    \* per path: {}, or what was last written, and by which choices
    picks

mergeVars == <<conflict, left, choices, author, autoDone,
               saves, merging, written, picks>>
disk == <<left, merging, written>>
choosing == <<choices, picks>>

----------------------------------------------------------------------------
(* Entities: a scalar, the rows of a list that have one name, and a body    *)
(* that is either text or a GraphQL query with variables.                   *)

Text == [kind : {"text"}, main : Values, vars : {None}]
Old == CHOOSE v \in Values : TRUE         \* which value is the old one makes no difference
Graphql == [kind : {"graphql"}, main : {Old}, vars : {Old}]
Once == {<<>>} \cup {<<v>> : v \in Values}   \* lists with the name once
Entities == [url : Values, item : Lists, body : Text \cup Graphql]
\* By name, the last row is all there is (the Map of merge3List).
LastRow(rows) == IF rows = <<>> THEN <<>> ELSE <<Last(rows)>>
Bases == {e \in Entities : e.url = Old /\ LastRow(e.item) = <<Old>>
                           /\ e.body \in Text /\ e.body.main = Old}

ItemBoth == "both"
Fields == <<"url", "item", "body", "query", "variables", "auth">>

\* What a field of an entity compares as: of a body, the blobs see their part.
Compare(f, e) ==
    CASE f = "url" -> e.url
      [] f = "item" -> LastRow(e.item)
      [] f = "body" -> IF e.body.kind = "text" THEN e.body.main ELSE None
      [] f = "query" -> IF e.body.kind = "graphql" THEN e.body.main ELSE None
      [] f = "variables" -> e.body.vars
      [] OTHER -> None

\* merge3: both sides changed the field, and differently.
Clash(f, c) == /\ Compare(f, c.ours) # Compare(f, c.theirs)
               /\ Compare(f, c.ours) # Compare(f, c.base)
               /\ Compare(f, c.theirs) # Compare(f, c.base)

Whole(c) == c.ours = None \/ c.theirs = None
Clashing(c) == IF Whole(c) THEN {"entity"} ELSE {f \in ToSet(Fields) : Clash(f, c)}

\* The conflicts that arise here keep to text bodies.
Edited == {e \in Entities : e.body \in Text}

\* A seeded fault: what only they changed is taken for unchanged.
OnlyOurs(f, c, ch) == IF Clash(f, c) /\ ch = "theirs" THEN "theirs" ELSE "ours"
\* The side a field is taken from.
Side(f, c, ch) ==
    IF Clash(f, c) THEN IF ch = "theirs" THEN "theirs" ELSE "ours"
    ELSE IF Compare(f, c.ours) = Compare(f, c.base) /\ Compare(f, c.theirs) # Compare(f, c.base)
         THEN "theirs" ELSE "ours"

\* The blobs of a body copy the whole of it, one after the other.
Merged(c, ch) ==
    [url |-> c[Side("url", c, ch["url"])].url,
     item |-> IF Clash("item", c) /\ ch["item"] = ItemBoth
              THEN LastRow(c.ours.item) \o LastRow(c.theirs.item)
              ELSE LastRow(c[Side("item", c, ch["item"])].item),
     body |-> FoldLeft(LAMBDA body, f : c[Side(f, c, ch[f])].body,
                       c.ours.body, <<"body", "query", "variables">>)]

\* The entity to write back: the kept side of a deletion, or the merged one.
MergeChoice(c, ch) ==
    IF ~Whole(c) THEN Merged(c, ch)
    ELSE IF ch["entity"] = "theirs" THEN c.theirs ELSE c.ours

----------------------------------------------------------------------------
Pending == {p \in left : Clashing(conflict[p]) # {}}
Remaining(p) == {f \in Clashing(conflict[p]) : choices[p][f] = None}
AllDone == \A p \in Pending : Remaining(p) = {}

\* The button: only the finishing of a merge counts as an operation.  An author
\* that is not configured is typed beside it.
CanSave == merging /\ AllDone /\ \A v \in saves : v.todo # {}

Init ==
    /\ \E base \in Bases, e \in [(Paths \ Deletable) \X {"ours", "theirs"} -> Edited],
          gone \in [Deletable -> {"ours", "theirs"}] :
         conflict = [p \in Paths |-> [s \in {"base", "ours", "theirs"} |->
                        IF p \in Deletable THEN IF s = gone[p] THEN None ELSE base
                        ELSE IF s = "base" THEN base ELSE e[<<p, s>>]]]
    /\ left = Paths /\ merging = TRUE /\ written = [p \in Paths |-> {}]
    /\ choices = [p \in Paths |-> [f \in ToSet(Fields) \cup {"entity"} |-> None]]
    /\ picks = 0 /\ author \in BOOLEAN
    /\ autoDone = FALSE /\ saves = {}

Pick(p, f, ch) ==
    /\ merging /\ p \in left /\ picks < MaxPicks /\ picks' = picks + 1
    /\ ch = ItemBoth => f = "item"
    /\ f \in Clashing(conflict[p])
    /\ choices' = [choices EXCEPT ![p][f] = ch]
    /\ UNCHANGED <<conflict, disk, author, autoDone, saves>>

\* Keeping all of one side forgets the other choices.
KeepAll(ch) ==
    /\ merging /\ Pending # {}
    /\ choices' = [p \in Paths |-> [f \in ToSet(Fields) \cup {"entity"} |->
                      IF p \in left /\ f \in Clashing(conflict[p]) THEN ch ELSE None]]
    /\ UNCHANGED <<conflict, picks, disk, author, autoDone, saves>>

\* While entities are written, another save may start.
Starts ==
    /\ CanSave
    /\ Cardinality(saves) < MaxSaves /\ saves' = saves \cup {[todo |-> left, by |-> choices]}
Save ==
    /\ Starts
    /\ UNCHANGED <<conflict, disk, choosing, author, autoDone>>

\* With nothing to choose the merge is finished by itself, once.
AutoFinish ==
    /\ ~autoDone /\ author /\ left # {} /\ Pending = {} /\ Starts
    /\ autoDone' = TRUE
    /\ UNCHANGED <<conflict, disk, choosing, author>>

\* resolveEntity: an entity is written, or deleted, and is no conflict any more.
Write(v, p) ==
    /\ p \in v.todo
    /\ written' = [written EXCEPT ![p] = {[as |-> MergeChoice(conflict[p], v.by[p]), by |-> v.by[p]]}]
    /\ left' = left \ {p} /\ saves' = (saves \ {v}) \cup {[v EXCEPT !.todo = @ \ {p}]}
    /\ UNCHANGED <<conflict, choosing, author, autoDone, merging>>
Finish(v) ==
    /\ v.todo = {} /\ saves' = saves \ {v} /\ merging' = FALSE /\ left' = {}
    /\ UNCHANGED <<conflict, choosing, author, autoDone, written>>

\* Whatever command is refused, the save is over; the rest stays to be saved.
Fail(v) ==
    /\ saves' = saves \ {v}
    /\ UNCHANGED <<conflict, disk, choosing, author, autoDone>>

Next ==
    \/ \E p \in Paths, f \in ToSet(Fields) \cup {"entity"}, ch \in {"ours", "theirs", ItemBoth} : Pick(p, f, ch)
    \/ \E ch \in {"ours", "theirs"} : KeepAll(ch)
    \/ \E v \in saves : Finish(v) \/ Fail(v) \/ \E p \in Paths : Write(v, p)
    \/ Save \/ AutoFinish

Spec == Init /\ [][Next]_mergeVars

----------------------------------------------------------------------------
\* "Entities where each side touched different fields merge unambiguously", the
\* others are chosen (ResolveConflicts/index.tsx): in an entity that was written,
\* the URL and the listed name are of the side that changed them, or of the side
\* that was chosen when that save began: a save that failed half way and is repeated with
\* other choices, or one that overlaps another, is no excuse.  Of a name that is
\* listed more than once the last row counts (see RepeatedRowsKept).
BothSidesKept ==
    \A p \in Paths : \A w \in {x \in written[p] : ~Whole(conflict[p])} :
        \A f \in {"url", "item"} :
            LET b == Compare(f, conflict[p].base) o == Compare(f, conflict[p].ours)
                t == Compare(f, conflict[p].theirs) m == w.as[f] IN
            /\ o = b => m = t
            /\ t = b => m = o
            /\ o # b /\ t # b /\ o # t =>
                  m = CASE w.by[f] = "theirs" -> t
                        [] w.by[f] = ItemBoth -> o \o t
                        [] OTHER -> o

----------------------------------------------------------------------------
(* What the comments of the code say and the code does not keep. *)

\* "non-conflicting edits merge silently and only real clashes ask the user to
\* choose" (merge3.ts), of the body.
TheirBodyKept ==
    \A p \in Paths : \A w \in {x \in written[p] : ~Whole(conflict[p])} :
        conflict[p].ours.body = conflict[p].base.body => w.as.body = conflict[p].theirs.body

\* The same of a list in which a name is repeated: the choice "both" leaves such
\* a list, and at the next merge all but the last of its rows are gone.
RepeatedRowsKept ==
    \A p \in Paths : \A w \in {x \in written[p] : ~Whole(conflict[p])} :
        conflict[p].ours.item = conflict[p].base.item => w.as.item = conflict[p].theirs.item
=============================================================================
