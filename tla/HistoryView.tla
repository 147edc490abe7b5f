---------------------------- MODULE HistoryView ----------------------------
(* What the response pane shows of a request (ResponsePane): the live      *)
(* response of the HTTP store, or one of the responses kept on disk, read  *)
(* by four readers that nothing orders: opening the request, an event that *)
(* a response was stored, a click in the history picker, and the picker's  *)
(* own list.  The user changes requests while they read.                   *)
EXTENDS Integers, Sequences, FiniteSets, SequencesExt

CONSTANTS Requests,
          None,
          MaxStored,   \* responses: those of before, of sends and of others
          MaxReads     \* reads under way at once

VARIABLES
    stored,    \* disk: request -> its responses, newest first
    made,      \* responses so far, with those that sends may still bring
    live,      \* http store: request -> its response, or None
    sending,   \* http store: the requests that are loading
    running,   \* request -> what its send that has not answered brings, or None
    viewed,    \* the active request, or None
    past,      \* historicalResponse: which response of which request, or None
    checking,  \* historyChecking: the pane is blank until this is over
    listed,    \* the history picker's items, and the request they were read for
    reads,     \* reads under way
    asked      \* history: the user picked a past response since the last reset

historyVars == <<stored, made, live, sending, running, viewed, past, checking, listed,
                 reads, asked>>

NoList == [of |-> None, ids |-> <<>>]

Init ==
    /\ stored \in {[r \in Requests |-> IF r \in full THEN <<1>> ELSE <<>>] : full \in SUBSET Requests}
    /\ made = 1
    /\ live = [r \in Requests |-> None] /\ sending = {} /\ running = [r \in Requests |-> None]
    /\ viewed = None /\ past = None /\ checking = FALSE
    /\ listed = NoList /\ reads = {} /\ asked = FALSE

Newest(r) == Head(stored[r])
Empty(r) == stored[r] = <<>>
Kept(r, id) == Contains(stored[r], id)

\* A response that the disk has not: of a send that was cancelled or broke off.
Shell == 0

\* commands.responseList, and then responseGet of the newest: two calls.
Listing(by, r) == [by |-> by, req |-> r, step |-> "list", id |-> None]
Getting(by, r, id) == [by |-> by, req |-> r, step |-> "get", id |-> id]

\* The pane starts a read of every kind that applies.
MayRead(new) == Cardinality(reads \cup new) <= MaxReads

Room == made < MaxStored /\ made' = made + 1
Store(r, id) == stored' = [stored EXCEPT ![r] = <<id>> \o @]

ResetSelection == past' = None /\ checking' = FALSE /\ asked' = FALSE

----------------------------------------------------------------------------
(* The active request changes.  The effect's reads are cancelled by its    *)
(* cleanup; a pick compares the request it was made for; the picker's list *)
(* is not told.                                                            *)

Outlives(read) == read.by \in {"pick", "list", "clear"}

Select(r) ==
    /\ r # viewed
    /\ LET unknown == live[r] = None /\ r \notin sending
           new == {Listing("list", r)} \cup IF unknown THEN {Listing("open", r)} ELSE {}
           left == {read \in reads : Outlives(read)}
       IN /\ Cardinality(left \cup new) <= MaxReads
          /\ reads' = left \cup new
          /\ checking' = unknown
    /\ viewed' = r /\ past' = None /\ asked' = FALSE
    /\ listed' = [of |-> r, ids |-> <<>>]
    /\ UNCHANGED <<stored, made, live, sending, running>>

Deselect ==
    /\ viewed # None
    /\ viewed' = None /\ ResetSelection
    /\ reads' = {read \in reads : Outlives(read)} /\ listed' = NoList
    /\ UNCHANGED <<stored, made, live, sending, running>>

\* A send of the active request drops what is shown from the history.  A request
\* is not sent again before its last send has answered.
SendStarts(r) ==
    /\ r \notin sending /\ running[r] = None /\ Room
    /\ sending' = sending \cup {r} /\ running' = [running EXCEPT ![r] = made']
    /\ IF r = viewed THEN ResetSelection ELSE UNCHANGED <<past, checking, asked>>
    /\ UNCHANGED <<stored, live, viewed, listed, reads>>

\* The pane stops loading at once, and the send answers after that.
CancelRequest(r) ==
    /\ r \in sending
    /\ sending' = sending \ {r}
    /\ UNCHANGED <<stored, made, live, running, viewed, past, checking, listed, reads, asked>>

\* A send answers: with a response that was stored, with one that was not, or
\* with an error alone.  The picker reads its list again for a live response.
Answered(r, response) ==
    /\ running[r] # None
    /\ sending' = sending \ {r} /\ running' = [running EXCEPT ![r] = None]
    /\ live' = [live EXCEPT ![r] = response]
    /\ IF r = viewed /\ response # None
       THEN ResetSelection /\ MayRead({Listing("list", r)}) /\ reads' = reads \cup {Listing("list", r)}
       ELSE UNCHANGED <<past, checking, asked, reads>>
    /\ UNCHANGED <<viewed, listed>>

SendEnds(r) ==
    /\ \/ Answered(r, running[r]) /\ Store(r, running[r])
       \/ \E response \in {Shell, None} : Answered(r, response) /\ UNCHANGED stored
    /\ UNCHANGED made

\* An agent or a pre-flight send stores a response of its own
\* (mcpResponseStored, responseStored).
StoredElsewhere(r) ==
    /\ Room /\ Store(r, made')
    /\ LET new == IF r = viewed THEN {Listing("list", r), Listing("stored", r)} ELSE {}
       IN MayRead(new) /\ reads' = reads \cup new
    /\ UNCHANGED <<live, sending, running, viewed, past, checking, listed, asked>>

----------------------------------------------------------------------------
(* The history picker. *)

\* The items are those of the list, whichever request it was read for.
Pick(i) ==
    /\ viewed # None /\ i \in DOMAIN listed.ids
    /\ MayRead({Getting("pick", viewed, listed.ids[i])})
    /\ reads' = reads \cup {Getting("pick", viewed, listed.ids[i])}
    /\ asked' = TRUE
    /\ UNCHANGED <<stored, made, live, sending, running, viewed, past, checking, listed>>

\* The entry of the stream that is running.
ShowLive ==
    /\ viewed \in sending
    /\ ResetSelection
    /\ UNCHANGED <<stored, made, live, sending, running, viewed, listed, reads>>

ConfirmClear ==
    /\ viewed # None /\ listed.ids # <<>>
    /\ MayRead({Listing("clear", viewed)})
    /\ reads' = reads \cup {Listing("clear", viewed)}
    /\ stored' = [stored EXCEPT ![viewed] = <<>>] /\ UNCHANGED made
    /\ UNCHANGED <<live, sending, running, viewed, past, checking, listed, asked>>

\* handleClear goes on with the request it was clicked for.
Cleared(read) ==
    /\ read.by = "clear"
    /\ reads' = reads \ {read}
    /\ listed' = [listed EXCEPT !.ids = <<>>]
    /\ live' = [live EXCEPT ![read.req] = None]
    /\ sending' = sending \ {read.req}
    /\ ResetSelection
    /\ UNCHANGED <<stored, made, running, viewed>>

----------------------------------------------------------------------------
(* Answers. *)

\* A seeded fault: the early return of an empty history leaves the pane blank.
NoFinally(read) == UNCHANGED checking

\* Only the pane's first read shows that it is under way.
EndCheck(read) == checking' = (checking /\ read.by # "open")

ListAnswer(read) ==
    /\ read.step = "list" /\ read.by \in {"open", "stored"}
    /\ IF Empty(read.req)
       THEN reads' = reads \ {read} /\ EndCheck(read)
       ELSE /\ reads' = (reads \ {read}) \cup {Getting(read.by, read.req, Newest(read.req))}
            /\ UNCHANGED checking
    /\ UNCHANGED <<stored, made, live, sending, running, viewed, past, listed, asked>>

ItemsAnswer(read) ==
    /\ read.by = "list"
    /\ listed' = [of |-> read.req, ids |-> stored[read.req]]
    /\ reads' = reads \ {read}
    /\ UNCHANGED <<stored, made, live, sending, running, viewed, past, checking, asked>>

\* A seeded fault: a pick does not ask whether its request is still shown.
Unguarded(read) == TRUE

\* activeRef is compared by a pick; the others were cancelled with the request.
StillShown(read) == read.by = "pick" => read.req = viewed

GetAnswer(read) ==
    /\ read.step = "get"
    /\ reads' = reads \ {read}
    /\ IF StillShown(read) /\ Kept(read.req, read.id)
       THEN past' = [req |-> read.req, id |-> read.id]
       ELSE UNCHANGED past
    /\ EndCheck(read)
    /\ UNCHANGED <<stored, made, live, sending, running, viewed, listed, asked>>

\* The command fails: nothing is shown of it.
ReadFails(read) ==
    /\ read.by # "clear"
    /\ reads' = reads \ {read} /\ EndCheck(read)
    /\ UNCHANGED <<stored, made, live, sending, running, viewed, past, listed, asked>>

Answer(read) ==
    ListAnswer(read) \/ ItemsAnswer(read) \/ GetAnswer(read) \/ ReadFails(read) \/ Cleared(read)

Next ==
    \/ \E r \in Requests : Select(r) \/ SendStarts(r) \/ CancelRequest(r) \/ SendEnds(r)
                           \/ StoredElsewhere(r)
    \/ \E read \in reads : Answer(read)
    \/ \E i \in 1..MaxStored : Pick(i)
    \/ Deselect \/ ShowLive \/ ConfirmClear

\* Every command answers.
AnswerTo(by, r) == \E read \in reads : read.by = by /\ read.req = r /\ Answer(read)
Spec ==
    /\ Init /\ [][Next]_historyVars
    /\ \A by \in {"open", "stored", "pick", "list", "clear"}, r \in Requests :
           WF_historyVars(AnswerTo(by, r))

\* The body of the pane: a past response goes before the live one.
Screen ==
    CASE viewed = None -> "nothing"
      [] past # None \/ live[viewed] # None -> "response"
      [] checking -> "blank"
      [] viewed \in sending -> "waiting"
      [] OTHER -> "shortcuts or the error"

----------------------------------------------------------------------------
\* A past response on the screen is one of the request on the screen, however
\* the reads of two requests interleave ("Guards async resolves against a
\* request/workspace switch mid-fetch.", useHistorySync.ts).
PastIsOfViewed == past # None => past.req = viewed

\* The pane is not left blank by a read that finds nothing, fails, or is
\* overtaken by a send: again and again a request has left the screen or shows
\* something.
BlankEnds == \A r \in Requests : []<>(viewed # r \/ Screen # "blank")

----------------------------------------------------------------------------
(* What the comments of the code say and the code does not keep. *)

\* "Reset immediately on request change to prevent showing stale list."
\* (HistoryPicker.tsx): the list offered is of the request on the screen.
ListIsOfViewed == listed.ids # <<>> => listed.of = viewed

\* "A send starting (or landing on an already-streaming request) snaps to the
\* live/active response -- the user can still pick a historical one
\* afterward." (useHistorySync.ts).
SendShowsLive == viewed \in sending /\ Screen = "response" /\ past # None => asked
=============================================================================
