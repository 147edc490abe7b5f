---------------------------- MODULE GrpcResults -----------------------------
(* The response pane of a unary gRPC request (GrpcResponsePane): the live   *)
(* response or error of the store, the responses stored by the backend      *)
(* (external), the one picked in the history, and the latest stored one,    *)
(* which is shown when this session has neither a response nor an error.    *)
EXTENDS Integers, FiniteSets

CONSTANTS None,        \* no response
          MaxStored,   \* stored responses
          MaxCalls     \* calls and clearings

VARIABLES
    stored,     \* how many responses are stored, numbered from 1
    loading,    \* the spinner of a call
    response,   \* the live response, or None
    failed,     \* the live error is shown
    inCall,     \* calls without an answer
    picked,     \* histId
    past,       \* histUnary
    latest,     \* latestUnary
    gets,       \* reads of a picked response without an answer
    round,      \* which run of the preload effect is current
    preloads,   \* its reads: [run, step, id], "list" and then "get"
    known,      \* hasHistory
    checked,    \* the first list has been answered
    listed,     \* the history menu lists the responses up to this one
    open, asked, \* it is open, and asks whether to clear
    calls

resultVars == <<stored, loading, response, failed, inCall, picked, past, latest, gets,
                round, preloads, known, checked, listed, open, asked, calls>>
live == <<loading, response, failed, inCall, calls>>
hist == <<picked, past, gets>>
pre == <<latest, round, preloads, known, checked>>
look == <<listed, open, asked>>

Init ==
    /\ stored \in 0..1
    /\ loading = FALSE /\ response = None /\ failed = FALSE /\ inCall = 0 /\ calls = 0
    /\ picked = None /\ past = None /\ gets = {}
    /\ latest = None /\ round = 0 /\ preloads = {[run |-> 0, step |-> "list", id |-> None]}
    /\ known = FALSE /\ checked = FALSE
    /\ listed = 0 /\ open = FALSE /\ asked = FALSE

\* A new result runs the preload effect again; the runs before are void.
Rerun ==
    /\ round' = round + 1
    /\ preloads' = preloads \cup {[run |-> round + 1, step |-> "list", id |-> None]}
    /\ UNCHANGED <<latest, known, checked>>

\* What the pane shows, and the line above it; without any of it there is no menu.
Shown == IF past # None THEN past ELSE IF response # None THEN response ELSE latest
Badge == CASE loading -> "sending"
           [] ~loading /\ failed /\ Shown = None -> "error"
           [] ~loading /\ Shown # None -> "response"
           [] OTHER -> "hint"
ShowHeader == Badge # "hint" \/ known

----------------------------------------------------------------------------
(* Calls. *)

\* Nothing stops a second call while one runs.
Call ==
    /\ calls < MaxCalls /\ calls' = calls + 1
    /\ loading' = TRUE /\ inCall' = inCall + 1
    /\ failed' = FALSE
    /\ IF failed THEN Rerun ELSE UNCHANGED pre
    /\ UNCHANGED <<stored, response, hist, look>>

CallOk ==
    /\ inCall > 0 /\ stored < MaxStored
    /\ stored' = stored + 1
    /\ response' = stored' /\ loading' = FALSE /\ inCall' = inCall - 1
    /\ Rerun
    /\ UNCHANGED <<failed, calls, hist, look>>

CallFails ==
    /\ inCall > 0
    /\ failed' = TRUE /\ loading' = FALSE /\ inCall' = inCall - 1
    /\ IF failed THEN UNCHANGED pre ELSE Rerun
    /\ UNCHANGED <<stored, response, calls, hist, look>>

----------------------------------------------------------------------------
(* What was stored before. *)

\* A seeded fault: the answers of an earlier run of the effect count.
AnyRun(p) == TRUE
\* The effect was not run again since: "alive".
Current(p) == p.run = round

ListAnswer(p) ==
    /\ p \in preloads /\ p.step = "list"
    /\ LET get == [p EXCEPT !.step = "get", !.id = stored]
           wanted == Current(p) /\ stored > 0 /\ response = None /\ ~failed
       IN preloads' = (preloads \ {p}) \cup IF wanted THEN {get} ELSE {}
    /\ IF Current(p)
       THEN /\ known' = (stored > 0) /\ checked' = TRUE
            /\ latest' = IF stored > 0 /\ response = None /\ ~failed THEN latest ELSE None
       ELSE UNCHANGED <<known, checked, latest>>
    /\ UNCHANGED <<stored, live, hist, round, look>>

GetAnswer(p) ==
    /\ p \in preloads /\ p.step = "get"
    /\ preloads' = preloads \ {p}
    /\ latest' = IF Current(p) /\ p.id <= stored THEN p.id ELSE latest
    /\ UNCHANGED <<stored, live, hist, round, known, checked, look>>

\* The menu has a list of its own, read now and then; an answer may be late.
List ==
    /\ ShowHeader /\ listed # stored /\ listed' = stored
    /\ UNCHANGED <<stored, live, hist, pre, open, asked>>
ToggleHistory ==
    /\ ShowHeader /\ listed > 0 /\ open' = ~open /\ asked' = FALSE
    /\ UNCHANGED <<stored, live, hist, pre, listed>>

\* The newest one is the live view.
Pick(n) ==
    /\ open /\ n \in 1..listed /\ open' = FALSE
    /\ IF n = listed
       THEN picked' = None /\ past' = None /\ UNCHANGED gets
       ELSE picked' = n /\ gets' = gets \cup {n} /\ UNCHANGED past
    /\ UNCHANGED <<stored, live, pre, listed, asked>>

\* It is not checked against what is picked by now.
PickAnswer(n) ==
    /\ n \in gets /\ gets' = gets \ {n}
    /\ past' \in {past} \cup {k \in {n} : k <= stored}
    /\ UNCHANGED <<stored, live, picked, pre, look>>

\* The clear button asks; the cancel button takes the question back.
AskClear == open /\ listed > 0 /\ asked' = ~asked /\ UNCHANGED <<stored, live, hist, pre, listed, open>>
Clear ==
    /\ open /\ asked /\ calls < MaxCalls /\ calls' = calls + 1
    /\ open' = FALSE /\ asked' = FALSE /\ listed' = 0
    /\ stored' = 0
    /\ picked' = None /\ past' = None /\ response' = None /\ failed' = FALSE
    /\ round' = round + 1
    /\ preloads' = preloads \cup {[run |-> round + 1, step |-> "list", id |-> None]}
    /\ latest' = None
    /\ UNCHANGED <<loading, inCall, gets, known, checked>>

----------------------------------------------------------------------------
Next ==
    \/ Call \/ CallOk \/ CallFails \/ List \/ ToggleHistory \/ AskClear \/ Clear
    \/ \E p \in preloads : ListAnswer(p) \/ GetAnswer(p)
    \/ \E n \in 1..MaxStored : Pick(n) \/ PickAnswer(n)

Spec == Init /\ [][Next]_resultVars

----------------------------------------------------------------------------
\* "a failed call must surface the error, not history" (useGrpcHistory.ts): when
\* the reads are done, a response of an earlier session never stands in the place
\* of an error or a response of this one, whatever the order of calls and answers.
FailureNotHidden ==
    preloads = {} /\ past = None =>
        /\ response # None => Shown = response
        /\ failed /\ response = None => Badge \in {"sending", "error"}

----------------------------------------------------------------------------
(* What the comments of the code say and the code does not keep. *)

\* With nothing being read, the response shown from the history is the picked one.
PastIsPicked == gets = {} => past \in {None, picked}
=============================================================================
