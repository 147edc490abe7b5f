----------------------------- MODULE StreamView -----------------------------
(* An event stream as the web UI shows it: the store that collects frames  *)
(* and timeline rows from the backend's events (store/sse.ts), and the tab *)
(* that filters, expands and follows them (SseStreamTab, TimelineTab), a   *)
(* list of which one is open at a time.                                    *)
(* The events of one send are not tied to it: those of a stream that was   *)
(* cancelled can arrive after the next send has cleared the store.         *)
EXTENDS Integers, Sequences, FiniteSets, SequencesExt

CONSTANTS Types,      \* event types of frames
          Cap,        \* LIVE_HISTORY_CAP
          MaxFrames   \* frames a stream sends

VARIABLES
    got,        \* frames: [seq, type], oldest first
    rows,       \* timeline: "setup" or "frame", oldest first
    header,     \* the response line has arrived
    streaming,  \* the request is loading
    upcoming,   \* the sequence number of the stream's next frame
    late,       \* frames of an earlier stream that are still to arrive
    mixed,      \* history: one of those did arrive
    heard,      \* history: frames of this stream that arrived
    matching,   \* the event types the filter and the query let through
    searching, raw,
    expanded,   \* the frames that are open, by sequence number
    tab,        \* "frames", or the group of timeline rows that is listed
    following,  \* stick: the newest row is kept in sight
    pinDue,     \* an animation frame will scroll to the bottom
    below       \* rows below the ones in sight

viewVars == <<got, rows, header, streaming, upcoming, late, mixed, heard, matching,
              searching, raw, expanded, tab, following, pinDue, below>>
store == <<got, rows, header>>
source == <<streaming, upcoming, late, mixed, heard>>
panel == <<matching, searching, raw, expanded, tab>>
scroll == <<following, pinDue, below>>

Fresh == /\ matching = Types /\ searching = FALSE /\ raw = FALSE /\ expanded = {}

Init ==
    /\ got = <<>> /\ rows = <<>> /\ header = FALSE
    /\ streaming = FALSE /\ upcoming = 0 /\ late = 0 /\ mixed = FALSE /\ heard = 0
    /\ Fresh /\ tab = "frames"
    /\ following = TRUE /\ pinDue = FALSE /\ below = 0

\* capPushMany: the oldest go first.
Capped(s) == IF Len(s) > Cap THEN SubSeq(s, Len(s) - Cap + 1, Len(s)) ELSE s

Shown == SelectSeq(got, LAMBDA f : f.type \in matching)
\* The number of frames the status bar tells.
\* A seeded fault: the frames that are kept are counted.
TotalKept == Len(got)
Total == IF got = <<>> THEN 0 ELSE Last(got).seq + 1

\* The line above the tabs, and the status bar below the frames.
StatusLine == CASE streaming /\ ~header -> "sending"
                [] streaming /\ header -> "streaming"
                [] OTHER -> "answered"
StatusBar == [live |-> streaming, shown |-> Len(Shown), total |-> Total]

\* How many rows a list has, and whether a frame adds one; the raw view is none.
Groups == [all |-> {"setup", "frame"}, setup |-> {"setup"}, frame |-> {"frame"}]
Rows(list) == IF list # "frames" THEN Len(SelectSeq(rows, LAMBDA x : x \in Groups[list]))
              ELSE IF raw THEN 0 ELSE Len(Shown)
Adds(f) == IF tab = "frames" THEN ~raw /\ f.type \in matching ELSE "frame" \in Groups[tab]

----------------------------------------------------------------------------
(* The backend's events. *)

\* sendRequest clears the store before it calls the backend.
Send ==
    /\ ~streaming
    /\ streaming' = TRUE /\ upcoming' = 0 /\ heard' = 0 /\ mixed' = FALSE
    /\ got' = <<>> /\ rows' = <<>> /\ header' = FALSE
    /\ below' = 0 /\ following' \in {following, TRUE}
    /\ UNCHANGED <<late, panel, pinDue>>

\* The setup rows go before the rows of frames that overtook them.
Prepended(s) == s \o rows

SetOpen ==
    /\ streaming /\ ~header
    /\ header' = TRUE /\ rows' = Prepended(<<"setup", "setup">>)
    /\ UNCHANGED <<got, source, panel, scroll>>

\* While the tab follows the stream, a new row has it scroll to the bottom.
Arrive(f) ==
    /\ got' = Capped(Append(got, f))
    /\ rows' = Capped(Append(rows, "frame"))
    /\ below' = IF Adds(f) /\ below < Cap THEN below + 1 ELSE below
    /\ pinDue' = IF Adds(f) THEN following /\ streaming ELSE pinDue
    /\ UNCHANGED <<header, panel, following>>

AppendFrame(type) ==
    /\ streaming /\ upcoming < MaxFrames
    /\ Arrive([seq |-> upcoming, type |-> type])
    /\ upcoming' = upcoming + 1 /\ heard' = heard + 1
    /\ UNCHANGED <<streaming, late, mixed>>

LateFrame(type) ==
    /\ late > 0
    /\ Arrive([seq |-> MaxFrames - late, type |-> type])
    /\ late' = late - 1 /\ mixed' = TRUE
    /\ UNCHANGED <<streaming, upcoming, heard>>

\* The end of the stream calls off a scroll that is due.
EndStream ==
    /\ streaming' = FALSE /\ pinDue' = FALSE
    /\ UNCHANGED <<store, upcoming, mixed, heard, panel, following, below>>
StreamEnds == streaming /\ EndStream /\ UNCHANGED late
\* The UI stops waiting at once; the backend flushes what it has.
Cancel == streaming /\ EndStream /\ late' = MaxFrames - upcoming

----------------------------------------------------------------------------
(* The tab. *)

\* Each list follows its own end: one that is opened starts to.
Opened(n) ==
    /\ following' = TRUE /\ below' \in 0..n /\ pinDue' = (streaming /\ n > 0)

OpenTimeline ==
    /\ tab = "frames" /\ tab' = "all" /\ Opened(Rows("all"))
    /\ UNCHANGED <<store, source, matching, searching, raw, expanded>>
OpenFrames ==
    /\ tab # "frames" /\ tab' = "frames" /\ Opened(Rows("frames"))
    /\ UNCHANGED <<store, source, matching, searching, raw, expanded>>
ToggleRaw ==
    /\ tab = "frames" /\ raw' = ~raw
    /\ Opened(IF raw THEN Len(Shown) ELSE 0)
    /\ UNCHANGED <<store, source, matching, searching, expanded, tab>>

\* onScroll, and a relayout: at the bottom it follows again.
Recompute(n) == following' = (following \/ n = 0) /\ below' = n

\* Another last row has a list that follows scroll.
Relayout(most) ==
    /\ \E n \in 0..most : Recompute(n)
    /\ pinDue' \in {pinDue, following /\ streaming}
Listed(kept) == IF raw THEN UNCHANGED scroll
                ELSE Relayout(Len(SelectSeq(got, LAMBDA f : f.type \in kept)))

PickGroup(g) ==
    /\ tab \notin {"frames", g} /\ tab' = g /\ Relayout(Rows(g))
    /\ UNCHANGED <<store, source, matching, searching, raw, expanded>>
SetFilter(kept) ==
    /\ tab = "frames" /\ searching /\ matching' = kept /\ Listed(kept)
    /\ UNCHANGED <<store, source, searching, raw, expanded, tab>>
OpenSearch ==
    /\ tab = "frames" /\ ~searching /\ searching' = TRUE
    /\ UNCHANGED <<store, source, matching, raw, expanded, tab, scroll>>
\* Closing the search shows every frame again.
CloseSearch ==
    /\ tab = "frames" /\ searching /\ searching' = FALSE /\ matching' = Types /\ Listed(Types)
    /\ UNCHANGED <<store, source, raw, expanded, tab>>

ToggleRow(f) ==
    /\ tab = "frames" /\ ~raw
    /\ expanded' = (expanded \ {f.seq}) \cup ({f.seq} \ expanded)
    /\ pinDue' = (following /\ streaming)
    /\ UNCHANGED <<store, source, matching, searching, raw, tab, following, below>>

\* Wheel, scroll bar and keys say that the reader leaves the bottom.
Detach ==
    /\ following /\ Rows(tab) > 0 /\ following' = FALSE
    /\ below' = IF below < Cap THEN below + 1 ELSE below
    /\ UNCHANGED <<store, source, panel, pinDue>>
ScrollTo(n) == Recompute(n) /\ UNCHANGED <<store, source, panel, pinDue>>
Pin == pinDue /\ pinDue' = FALSE /\ below' = 0 /\ UNCHANGED <<store, source, panel, following>>
ScrollToBottom ==
    /\ ~following /\ Rows(tab) > 0
    /\ following' = TRUE /\ below' = 0
    /\ UNCHANGED <<store, source, panel, pinDue>>

\* Another request: the tab starts afresh, and shows that one's store.
SwitchRequest ==
    /\ ~streaming
    /\ matching' = Types /\ searching' = FALSE /\ raw' = FALSE /\ expanded' = {}
    /\ UNCHANGED <<store, source, tab, scroll>>

Next ==
    \/ Send \/ SetOpen \/ StreamEnds \/ Cancel
    \/ \E type \in Types : AppendFrame(type) \/ LateFrame(type)
    \/ \E kept \in SUBSET Types : SetFilter(kept)
    \/ \E g \in DOMAIN Groups : PickGroup(g)
    \/ OpenSearch \/ CloseSearch \/ ToggleRaw \/ SwitchRequest \/ OpenTimeline \/ OpenFrames
    \/ \E i \in DOMAIN Shown : ToggleRow(Shown[i])
    \/ Detach \/ Pin \/ ScrollToBottom \/ \E n \in 0..below : ScrollTo(n)

Spec == Init /\ [][Next]_viewVars

----------------------------------------------------------------------------

\* The status bar counts the frames the stream has sent, also when most of them
\* are no longer kept; only frames of an earlier stream confuse it.
CountsWhatWasSent == ~mixed => StatusBar.total = heard

----------------------------------------------------------------------------
(* What the comments of the code say and the code does not keep. *)

\* "re-derive stick/atBottom so the button shows even at the top of a finished
\* run" (TimelineTab/index.tsx): recomputeStick never takes following back, so a
\* list that is opened at its top has no button that leads to its end.
ButtonAtTop == ~streaming /\ ~mixed /\ below > 0 => ~following
=============================================================================
