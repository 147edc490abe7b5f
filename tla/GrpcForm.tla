------------------------------ MODULE GrpcForm ------------------------------
(* The form of a protobuf message (ProtoMessageForm): a value tree whose    *)
(* widgets each write a new copy of the whole.  A recursive message is      *)
(* described only when it is expanded, and the answer writes the copy the   *)
(* widget had when it asked.  The raw editor may put in any value.          *)
EXTENDS Naturals, Sequences, FiniteSets, SequencesExt, Functions

CONSTANTS Oneof,     \* the members of a oneof
          Keys,      \* keys of a map field
          NewKey,    \* the key of an entry just added, one of Keys
          MaxItems   \* items of a repeated field

VARIABLES
    value,      \* [scalar, chosen, items, entries, nested, typed]
    asked,      \* the value a widget expanded its message in, or none: {} or {value}
    expanded,   \* the recursive message: "no" (a button), "open" or "folded"
    editor      \* the raw editor shows instead of the form

formVars == <<value, asked, expanded, editor>>

\* emptyMessage: no member of a oneof is materialized.
EmptyMessage == [scalar |-> FALSE, chosen |-> {}, items |-> <<>>, entries |-> <<>>,
                 nested |-> "none", typed |-> FALSE]

Init == value = EmptyMessage /\ asked = {} /\ expanded = "no" /\ editor = FALSE

\* setKey
Set(v) == ~editor /\ value' = v /\ UNCHANGED <<asked, expanded, editor>>

SetScalar == Set([value EXCEPT !.scalar = ~@])

\* A seeded fault: the members that were chosen before stay.
OnlyAdds(m) == value.chosen \cup m
\* All members go, then the one that is picked is put in.
Chosen(m) == m
PickOneof(m) == Set([value EXCEPT !.chosen = Chosen(m), !.typed = FALSE])

AddItem == Len(value.items) < MaxItems /\ Set([value EXCEPT !.items = Append(@, FALSE)])
SetItem(i) == i \in DOMAIN value.items /\ Set([value EXCEPT !.items[i] = ~@])
RemoveItem(i) == i \in DOMAIN value.items /\ Set([value EXCEPT !.items = RemoveAt(@, i)])

\* The entry of an added row has the blank key, also when there is one already;
\* a row that is given the key of another takes its place.
Entries(f) == Set([value EXCEPT !.entries = f])
AddEntry == Entries([k \in DOMAIN value.entries \cup {NewKey} |->
                        IF k = NewKey THEN FALSE ELSE value.entries[k]])
RenameEntry(k, to) ==
    /\ k \in DOMAIN value.entries /\ to # k
    /\ LET kept == DOMAIN value.entries \ {k} IN
       \E later \in {k, to} \cap (kept \cup {k}) :
           Entries([j \in kept \cup {to} |-> IF j = to THEN value.entries[later]
                                                       ELSE value.entries[j]])
RemoveEntry(k) == k \in DOMAIN value.entries /\ Entries(Restrict(value.entries, DOMAIN value.entries \ {k}))

----------------------------------------------------------------------------
Expand == ~editor /\ expanded = "no" /\ asked = {} /\ asked' = {value} /\ UNCHANGED <<value, expanded, editor>>
\* An empty message is filled in, in the value of that time.
Expanded ==
    \E v \in asked :
        /\ asked' = {} /\ \E known \in BOOLEAN :
             /\ expanded' = IF known THEN "open" ELSE expanded
             /\ value' = IF known /\ v.nested = "none" THEN [v EXCEPT !.nested = "empty"] ELSE value
        /\ UNCHANGED editor
FoldNested ==
    /\ expanded # "no" /\ expanded' = IF expanded = "open" THEN "folded" ELSE "open"
    /\ UNCHANGED <<value, asked, editor>>
EditNested == expanded = "open" /\ Set([value EXCEPT !.nested = "edited"])

\* The form is unmounted while the raw editor is shown; an answer to it still counts.
ShowEditor == editor' = ~editor /\ expanded' = "no" /\ UNCHANGED <<value, asked>>
TypeRaw(chosen) ==
    /\ editor /\ value' = [value EXCEPT !.chosen = chosen, !.typed = TRUE]
    /\ UNCHANGED <<asked, expanded, editor>>

Next ==
    \/ SetScalar \/ AddItem \/ AddEntry \/ Expand \/ Expanded \/ FoldNested \/ EditNested \/ ShowEditor
    \/ \E m \in SUBSET Oneof : (Cardinality(m) <= 1 /\ PickOneof(m)) \/ TypeRaw(m)
    \/ \E i \in 1..MaxItems : SetItem(i) \/ RemoveItem(i)
    \/ \E k, to \in Keys : RenameEntry(k, to) \/ RemoveEntry(k)

Spec == Init /\ [][Next]_formVars

----------------------------------------------------------------------------
\* "only the chosen one is materialized" (formValue.ts): a oneof holds one member
\* at most, in every copy that is written, unless it was typed in the raw editor
\* and not picked since.
OneofExclusive == ~value.typed => Cardinality(value.chosen) <= 1
=============================================================================
