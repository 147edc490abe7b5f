---------------------------- MODULE WindowedBody ----------------------------
(* The viewer of a large response body (ResponsePane/VirtualBody): the     *)
(* body stays with the backend, which is asked for blocks of lines, for    *)
(* matches of a search, and for a JSONPath filter that derives a second    *)
(* body; what has been read is cached by block.  Lines that open a block   *)
(* can be folded, so the rows on the screen are not the lines of the body. *)
EXTENDS Integers, Sequences, FiniteSets, SequencesExt, FiniteSetsExt

CONSTANTS Responses, Queries, None,
          NLines,      \* lines of every body
          BlockSize,   \* lines of a block (BLOCK)
          OpensAt,     \* <<response, query or None>> -> line -> where its block closes, or 0
          MaxCalls     \* calls under way at once

VARIABLES
    resp,       \* the response on the screen
    filter,     \* "off", "on", or "error"
    derived,    \* backend: response -> the query of its derived body, or None
    cached,     \* block -> the body it was read from, or None
    pending,    \* blocks that are being read
    calls,      \* calls under way
    collapsed,  \* the lines that are folded
    found       \* the line of the active match, or None

bodyVars == <<resp, filter, derived, cached, pending, calls, collapsed, found>>

Lines == 0..(NLines - 1)
BlockOf(l) == l \div BlockSize
Blocks == {BlockOf(l) : l \in Lines}
Nothing == [b \in Blocks |-> None]

Init ==
    /\ resp \in Responses /\ filter = "off" /\ derived = [r \in Responses |-> None]
    /\ cached = Nothing /\ pending = {} /\ calls = {}
    /\ collapsed = {} /\ found = None

\* activeKey: the response, or its derived body, whatever it was derived by.
KeyOf(r, f) == <<r, f = "on">>
Key == KeyOf(resp, filter)
\* The body a key stands for at the backend.
BodyOf(key) == <<key[1], IF key[2] THEN derived[key[1]] ELSE None>>

----------------------------------------------------------------------------
(* Folds (lib/lineFolds.ts). *)

FoldEnd(l) == IF cached[BlockOf(l)] = None THEN 0 ELSE OpensAt[cached[BlockOf(l)]][l]

\* A line whose fold hides the lines under it, down to the end of its block.
Folded(c) == c \in collapsed /\ FoldEnd(c) > c

\* A seeded fault: a run inside another ends it.
MergeInner(runs, run) ==
    IF runs # <<>> /\ run[1] <= Last(runs)[2] + 1
    THEN Front(runs) \o << <<Last(runs)[1], run[2]>> >>
    ELSE Append(runs, run)
Merge(runs, run) ==
    IF runs # <<>> /\ run[1] <= Last(runs)[2] + 1
    THEN Front(runs) \o << <<Last(runs)[1], Max({Last(runs)[2], run[2]})>> >>
    ELSE Append(runs, run)
\* The lines that are hidden, as runs with runs that meet made one: each starts
\* below the line that folds it, so the lines in order give the runs sorted.
Merged ==
    LET upTo[l \in 0..NLines] ==
            IF l = 0 THEN <<>>
            ELSE IF Folded(l - 1) THEN Merge(upTo[l - 1], <<l, FoldEnd(l - 1)>>)
            ELSE upTo[l - 1]
    IN upTo[NLines]

SizeOf(run) == run[2] - run[1] + 1
HiddenCount(runs) ==
    LET count[i \in 0..Len(runs)] ==
            IF i = 0 THEN 0 ELSE count[i - 1] + SizeOf(runs[i])
    IN count[Len(runs)]

ToReal(runs, visual) ==
    LET real[i \in 0..Len(runs)] ==
            IF i = 0 THEN visual
            ELSE IF runs[i][1] > real[i - 1] THEN real[i - 1]
            ELSE real[i - 1] + SizeOf(runs[i])
    IN real[Len(runs)]
ToVisual(runs, real) ==
    LET visual[i \in 0..Len(runs)] ==
            IF i = 0 THEN real
            ELSE IF runs[i][1] > real THEN visual[i - 1]
            ELSE visual[i - 1] - (Min({runs[i][2], real}) - runs[i][1] + 1)
    IN visual[Len(runs)]

Toggle(l) ==
    /\ FoldEnd(l) # 0
    /\ collapsed' = (collapsed \ {l}) \cup ({l} \ collapsed)
    /\ UNCHANGED <<resp, filter, derived, cached, pending, calls, found>>

\* Every fold that hides the line is opened.
Opened(l) == {c \in collapsed : ~(l > c /\ l <= FoldEnd(c))}

----------------------------------------------------------------------------
(* Blocks. *)

MayCall(new) == Cardinality(calls \cup new) <= MaxCalls
Call(new) == MayCall(new) /\ calls' = calls \cup new

\* What scrolling asks for: a block that is neither read nor being read.
EnsureRange(b) ==
    /\ cached[b] = None /\ b \notin pending
    /\ Call({[kind |-> "block", of |-> Key, arg |-> b]})
    /\ pending' = pending \cup {b}
    /\ UNCHANGED <<resp, filter, derived, cached, collapsed, found>>

\* The answer does not look at the key it was asked for.
BlockAnswer(call) ==
    /\ call.kind = "block"
    /\ calls' = calls \ {call} /\ pending' = pending \ {call.arg}
    /\ \/ cached' = [cached EXCEPT ![call.arg] = BodyOf(call.of)]
       \/ UNCHANGED cached
    /\ UNCHANGED <<resp, filter, derived, collapsed, found>>

\* The effect on activeKey: nothing that was read is kept, no line is folded.
Rekeyed(r, f) ==
    IF KeyOf(r, f) # Key
    THEN cached' = Nothing /\ pending' = {} /\ collapsed' = {}
    ELSE UNCHANGED <<cached, pending, collapsed>>

Show(r) ==
    /\ r # resp
    /\ resp' = r /\ filter' = "off" /\ Rekeyed(r, "off") /\ found' = None
    /\ UNCHANGED <<derived, calls>>

----------------------------------------------------------------------------
(* The filter and the search. *)

\* Typed, and quiet for a while.
ApplyFilter(q) ==
    /\ Call({[kind |-> "filter", of |-> <<resp, FALSE>>, arg |-> q]})
    /\ UNCHANGED <<resp, filter, derived, cached, pending, collapsed, found>>

ClearFilter ==
    /\ filter # "off"
    /\ filter' = "off" /\ Rekeyed(resp, "off")
    /\ UNCHANGED <<resp, derived, calls, found>>

\* The backend derives the body, and its answer switches to it; a path that
\* does not parse is an error.
FilterAnswer(call) ==
    /\ call.kind = "filter"
    /\ calls' = calls \ {call}
    /\ \/ /\ derived' = [derived EXCEPT ![call.of[1]] = call.arg]
          /\ filter' = "on"
       \/ UNCHANGED derived /\ filter' = "error"
    /\ Rekeyed(resp, filter')
    /\ UNCHANGED <<resp, found>>

RunSearch ==
    /\ Call({[kind |-> "search", of |-> Key, arg |-> None]})
    /\ UNCHANGED <<resp, filter, derived, cached, pending, collapsed, found>>

\* The first match is scrolled to, and what hides it is opened.
SearchAnswer(call, l) ==
    /\ call.kind = "search"
    /\ calls' = calls \ {call}
    /\ found' = l /\ collapsed' = Opened(l)
    /\ UNCHANGED <<resp, filter, derived, cached, pending>>

StepMatch(l) ==
    /\ found # None
    /\ found' = l /\ collapsed' = Opened(l)
    /\ UNCHANGED <<resp, filter, derived, cached, pending, calls>>

Next ==
    \/ \E r \in Responses : Show(r)
    \/ \E l \in Lines : Toggle(l) \/ StepMatch(l)
    \/ \E b \in Blocks : EnsureRange(b)
    \/ \E q \in Queries : ApplyFilter(q)
    \/ \E call \in calls : BlockAnswer(call) \/ FilterAnswer(call) \/ \E l \in Lines : SearchAnswer(call, l)
    \/ ClearFilter \/ RunSearch

Spec == Init /\ [][Next]_bodyVars

----------------------------------------------------------------------------
Hidden(runs, l) == \E i \in DOMAIN runs : runs[i][1] <= l /\ l <= runs[i][2]
\* By the folds themselves, with no arithmetic: what each of them swallows.
Swallowed == {l \in Lines : \E c \in collapsed : c < l /\ l <= FoldEnd(c)}
RowsAbove(hidden, l) == Cardinality({k \in Lines : k < l} \ hidden)

\* Rows and lines translate into each other however folds are nested or meet:
\* the rows are the lines no fold swallows, in order, and a swallowed line
\* stands on the row of the fold that shows for it ("A hidden line maps to the
\* collapsed row standing in for it", lineFolds.ts).
FoldMapsAgree ==
    LET runs == Merged
        hidden == Swallowed
        visible == NLines - HiddenCount(runs)
    IN /\ visible = Cardinality(Lines \ hidden)
       /\ \A l \in Lines :
              ToVisual(runs, l) = RowsAbove(hidden, l) - (IF l \in hidden THEN 1 ELSE 0)
       /\ \A v \in 0..(visible - 1) :
              ToReal(runs, v) \notin hidden /\ RowsAbove(hidden, ToReal(runs, v)) = v

----------------------------------------------------------------------------
(* What the comments of the code say and the code does not keep. *)

\* "Switching response or filter view invalidates every cached block."
\* (useWindowedBody.ts): the lines shown are of the body on the screen.
CachedIsOfView == \A b \in Blocks : cached[b] \in {None, BodyOf(Key)}
=============================================================================
