---------------------------- MODULE SendPipeline ----------------------------
(* Sending from the web UI: the request pane's Send and Cancel             *)
(* (RequestPane/useRequestSend.ts), a folder's run (FolderRunPanel), and   *)
(* the HTTP store that both feed (store/http.ts).  Before a request is     *)
(* sent its pending edits are saved and its templates resolved, and each   *)
(* of these waits: `loading` says both that the request is being sent and  *)
(* that nobody has cancelled it.                                           *)
EXTENDS Integers, FiniteSets, Sequences, SequencesExt

CONSTANTS Reqs,       \* the requests of the open folder
          Ordered,    \* the same, in tree order
          PaneSends,  \* the sends that the pane has under way
          Loops,      \* the folder runs that happen, each once
          None

\* A run has at most one send of a request under way: it goes by the name of
\* the request.
Sends == PaneSends \cup Reqs

VARIABLES
    loading,      \* http store: request -> BOOLEAN
    shown,        \* http store: request -> the kind of response shown, or None
    failure,      \* http store: request -> BOOLEAN, an error banner
    send,         \* send -> its request, step, and the loop that started it
    included,     \* folder run store: the checked requests
    strategy,     \* "sequential" or "parallel"
    running,      \* folder run store: status = "running"
    row,          \* folder run store: request -> run status, or None
    cancelling,   \* folder run store: cancelRequested
    loop,         \* loop -> what is left to send and how far it is
    busy          \* runningRef of the mounted panel

sendVars == <<loading, shown, failure, send, included, strategy, running, row,
              cancelling, loop, busy>>
httpVars == <<loading, shown, failure>>
runVars == <<included, strategy, running, row, cancelling, loop, busy>>

IdleSend == [req |-> None, pc |-> "idle", loop |-> None]
IdleLoop == [pc |-> "idle", left |-> <<>>, parallel |-> FALSE]

Init ==
    /\ loading = [r \in Reqs |-> FALSE]
    /\ shown = [r \in Reqs |-> None]
    /\ failure = [r \in Reqs |-> FALSE]
    /\ send = [s \in Sends |-> IdleSend]
    /\ included = Reqs /\ strategy = "sequential"
    /\ running = FALSE /\ row = [r \in Reqs |-> None] /\ cancelling = FALSE
    /\ loop = [l \in Loops |-> IdleLoop] /\ busy = FALSE

At(s, pc) == send[s].pc = pc
Pane(s) == s \in PaneSends

----------------------------------------------------------------------------
(* The request pane. *)

\* The button and the shortcut cancel while the request is loading.  The edits
\* are saved before anything says so.
HandleSend(s, r) ==
    /\ At(s, "idle") /\ ~loading[r]
    /\ send' = [send EXCEPT ![s] = [req |-> r, pc |-> "committing", loop |-> None]]
    /\ UNCHANGED <<httpVars, runVars>>

CommitsDone(s) ==
    /\ At(s, "committing")
    /\ send' = [send EXCEPT ![s].pc = "resolving"]
    /\ loading' = [loading EXCEPT ![send[s].req] = TRUE]
    /\ UNCHANGED <<shown, failure, runVars>>

\* What the store does when the command is called.
Dispatch(s) ==
    /\ send' = [send EXCEPT ![s].pc = "sent"]
    /\ loading' = [loading EXCEPT ![send[s].req] = TRUE]
    /\ failure' = [failure EXCEPT ![send[s].req] = FALSE]
    /\ UNCHANGED shown

Drop(s) == send' = [send EXCEPT ![s] = IdleSend]

\* A pane's send looks at loading to see whether it was cancelled.
ResolvedInPane(s) ==
    /\ At(s, "resolving") /\ Pane(s)
    /\ IF loading[send[s].req] THEN Dispatch(s) ELSE Drop(s) /\ UNCHANGED httpVars
    /\ UNCHANGED <<runVars>>

\* A seeded fault: a dismissed prompt is only dropped.
AbortedStillLoading(s) ==
    /\ At(s, "resolving") /\ Pane(s)
    /\ Drop(s)
    /\ UNCHANGED <<httpVars, runVars>>

\* The prompt of an ask() template was dismissed.
AbortedInPane(s) ==
    /\ At(s, "resolving") /\ Pane(s)
    /\ Drop(s)
    /\ loading' = [loading EXCEPT ![send[s].req] = FALSE]
    /\ UNCHANGED <<shown, failure, runVars>>

\* A template or a token could not be had: an error banner, unless cancelled.
FailedInPane(s) ==
    /\ At(s, "resolving") /\ Pane(s)
    /\ Drop(s)
    /\ IF loading[send[s].req]
       THEN /\ loading' = [loading EXCEPT ![send[s].req] = FALSE]
            /\ failure' = [failure EXCEPT ![send[s].req] = TRUE]
       ELSE UNCHANGED <<loading, failure>>
    /\ UNCHANGED <<shown, runVars>>

\* The commands of the requests are told to stop; their answers come later.
Stopped(reqs) ==
    [s \in Sends |-> IF At(s, "sent") /\ send[s].req \in reqs
                     THEN [send[s] EXCEPT !.pc = "stopping"] ELSE send[s]]

CancelRequest(r) ==
    /\ loading[r]
    /\ loading' = [loading EXCEPT ![r] = FALSE]
    /\ send' = Stopped({r})
    /\ UNCHANGED <<shown, failure, runVars>>

----------------------------------------------------------------------------
(* The answer of the command (applySendRequestResult): it is shown for the *)
(* request, whichever send it belongs to.                                  *)

Applied(s, what, bad) ==
    /\ send' = [send EXCEPT ![s] = IF Pane(s) THEN IdleSend ELSE [@ EXCEPT !.pc = "answered"]]
    /\ loading' = [loading EXCEPT ![send[s].req] = FALSE]
    /\ shown' = [shown EXCEPT ![send[s].req] = what]
    /\ failure' = [failure EXCEPT ![send[s].req] = bad]
    /\ UNCHANGED <<runVars>>

Called(s) == send[s].pc \in {"sent", "stopping"}

AnswerOk(s) == Called(s) /\ Applied(s, "response", FALSE)
AnswerCancelled(s) == At(s, "stopping") /\ Applied(s, "cancelled", FALSE)
\* The shell of a response, beside the banner.
AnswerHttpFailed(s) == Called(s) /\ Applied(s, "response", TRUE)
AnswerError(s) == Called(s) /\ Applied(s, None, TRUE)

\* The call itself throws: what is shown stays.
AnswerThrows(s) ==
    /\ Called(s)
    /\ Applied(s, shown[send[s].req], TRUE)

----------------------------------------------------------------------------
(* The folder run. *)

Outcome(r) == IF failure[r] THEN "error" ELSE IF shown[r] = "cancelled" THEN "skipped" ELSE "done"

ToRun == SelectSeq(Ordered, LAMBDA r : r \in included)

\* requestStart, and the effect that consumes it.
StartRun(l) ==
    /\ ~running /\ ~busy /\ included # {} /\ loop[l].pc = "idle"
    /\ busy' = TRUE /\ running' = TRUE /\ cancelling' = FALSE
    /\ row' = [r \in Reqs |-> IF r \in included THEN "pending" ELSE None]
    /\ loop' = [loop EXCEPT ![l] = [pc |-> "next", left |-> ToRun,
                                    parallel |-> strategy = "parallel"]]
    /\ UNCHANGED <<httpVars, send, included, strategy>>

Begin(l, r) == send' = [send EXCEPT ![r] = [req |-> r, pc |-> "resolving", loop |-> l]]

\* runSequential sends one and waits, and skips the rest once cancelled;
\* runParallel starts them all.
NextInRun(l) ==
    /\ loop[l].pc = "next" /\ loop[l].left # <<>>
    /\ LET r == Head(loop[l].left)
       IN IF ~loop[l].parallel /\ cancelling
          THEN /\ row' = [row EXCEPT ![r] = "skipped"]
               /\ loop' = [loop EXCEPT ![l].left = Tail(@)]
               /\ UNCHANGED send
          ELSE /\ Begin(l, r)
               /\ row' = [row EXCEPT ![r] = "running"]
               /\ loop' = [loop EXCEPT ![l].left = Tail(@),
                               ![l].pc = IF loop[l].parallel THEN "next" ELSE "wait"]
    /\ UNCHANGED <<httpVars, included, strategy, running, cancelling, busy>>

\* A stored send does not look at loading when it has been resolved.
ResolvedInRun(s) ==
    /\ At(s, "resolving") /\ ~Pane(s)
    /\ Dispatch(s)
    /\ UNCHANGED <<runVars>>

\* The loop goes on when the send it waits for is over.
GoOn(l) == [loop EXCEPT ![l].pc = "next"]
Settled(s, status) ==
    /\ send' = [send EXCEPT ![s] = IdleSend]
    /\ row' = [row EXCEPT ![send[s].req] = status]
    /\ loop' = GoOn(send[s].loop)
    /\ UNCHANGED <<httpVars, included, strategy, running, cancelling, busy>>

AbortedInRun(s) == At(s, "resolving") /\ ~Pane(s) /\ Settled(s, "skipped")
SettledInRun(s) == At(s, "answered") /\ ~Pane(s) /\ Settled(s, Outcome(send[s].req))

\* A seeded fault: the panel is given back only after the last request.
ThrownOutOfRun(s) ==
    /\ At(s, "resolving") /\ ~Pane(s)
    /\ send' = [send EXCEPT ![s] = IdleSend]
    /\ UNCHANGED <<httpVars, runVars>>

\* A resolver throws: a parallel row says so, a sequential run ends there.
FailedInRun(s) ==
    /\ At(s, "resolving") /\ ~Pane(s)
    /\ send' = [send EXCEPT ![s] = IdleSend]
    /\ LET l == send[s].loop
       IN IF loop[l].parallel
          THEN /\ row' = [row EXCEPT ![send[s].req] = "error"]
               /\ UNCHANGED loop
          ELSE /\ loop' = [loop EXCEPT ![l].pc = "next", ![l].left = <<>>]
               /\ UNCHANGED row
    /\ UNCHANGED <<httpVars, included, strategy, running, cancelling, busy>>

Finish(l) ==
    /\ loop[l].pc = "next" /\ loop[l].left = <<>>
    /\ \A s \in Sends : send[s].loop # l
    /\ loop' = [loop EXCEPT ![l].pc = "over"]
    /\ busy' = FALSE /\ running' = FALSE /\ cancelling' = FALSE
    /\ UNCHANGED <<httpVars, send, included, strategy, row>>

\* requestCancel, and the effect that stops every running row.
CancelRun ==
    /\ running /\ ~cancelling
    /\ cancelling' = TRUE
    /\ LET rs == {r \in Reqs : row[r] = "running"}
       IN /\ send' = Stopped(rs)
          /\ loading' = [r \in Reqs |-> loading[r] /\ r \notin rs]
    /\ UNCHANGED <<shown, failure, included, strategy, running, row, loop, busy>>

\* The checks and the strategy are read when a run begins: changing them is
\* only interesting before one.
Choosing == ~busy /\ \E l \in Loops : loop[l].pc = "idle"

ToggleIncluded(r) ==
    /\ Choosing
    /\ included' = (included \ {r}) \cup ({r} \ included)
    /\ UNCHANGED <<httpVars, send, strategy, running, row, cancelling, loop, busy>>

SetAll(checked) ==
    /\ Choosing
    /\ included' = IF checked THEN Reqs ELSE {}
    /\ UNCHANGED <<httpVars, send, strategy, running, row, cancelling, loop, busy>>

SetStrategy(to) ==
    /\ ~running /\ Choosing
    /\ strategy' = to
    /\ UNCHANGED <<httpVars, send, included, running, row, cancelling, loop, busy>>

\* initFor: another folder is opened, or this one gets or loses a request.  The
\* loop that is running goes on.
InitFor ==
    /\ running
    /\ included' = Reqs /\ row' = [r \in Reqs |-> None]
    /\ running' = FALSE /\ cancelling' = FALSE
    /\ UNCHANGED <<httpVars, send, strategy, loop, busy>>

----------------------------------------------------------------------------
PaneStep(s) ==
    \/ \E r \in Reqs : HandleSend(s, r)
    \/ CommitsDone(s) \/ ResolvedInPane(s) \/ AbortedInPane(s) \/ FailedInPane(s)
AnswerStep(s) ==
    \/ AnswerOk(s) \/ AnswerCancelled(s) \/ AnswerHttpFailed(s) \/ AnswerError(s) \/ AnswerThrows(s)
RunStep(s) ==
    \/ ResolvedInRun(s) \/ AbortedInRun(s) \/ SettledInRun(s) \/ FailedInRun(s)
LoopStep(l) == Finish(l) \/ NextInRun(l)
UserStep ==
    \/ \E r \in Reqs : CancelRequest(r) \/ ToggleIncluded(r)
    \/ \E checked \in BOOLEAN : SetAll(checked)
    \/ \E to \in {"sequential", "parallel"} : SetStrategy(to)
    \/ \E l \in Loops : StartRun(l)
    \/ CancelRun \/ InitFor

Next ==
    \/ \E s \in PaneSends : PaneStep(s)
    \/ \E r \in Reqs : RunStep(r)
    \/ \E s \in Sends : AnswerStep(s)
    \/ \E l \in Loops : LoopStep(l)
    \/ UserStep

\* A resolver and a command answer, and a loop goes on.
Fairness ==
    /\ \A s \in PaneSends : WF_sendVars(CommitsDone(s) \/ ResolvedInPane(s) \/ AbortedInPane(s)
                                        \/ FailedInPane(s) \/ AnswerStep(s))
    /\ \A r \in Reqs : WF_sendVars(AnswerStep(r) \/ RunStep(r))
    /\ \A l \in Loops : WF_sendVars(LoopStep(l))

Spec == Init /\ [][Next]_sendVars /\ Fairness

----------------------------------------------------------------------------
\* The spinner never sticks, whatever is cancelled, dismissed, refused or
\* thrown ("would otherwise leave `loading` stuck true, wedging the send button
\* into cancel mode", store/http.ts): again and again it does not spin, which is
\* that after every moment it spins there is one it does not.
NoStuckSpinner == \A r \in Reqs : []<>~loading[r]

\* A folder run that has begun gives the panel back: the Run button is not left
\* as a Cancel button, whether the run is cancelled, fails or is left alone.
\* Again and again no run has the panel.
RunGivesBack == []<>~running

----------------------------------------------------------------------------
(* What the comments of the code say and the code does not keep. *)

\* "Cancel clicked while resolution was in flight -- don't send."
\* (useRequestSend.ts): what was cancelled while it was resolved is not sent.  A
\* folder run sends it all the same.
CancelledNotSent == [][\A r \in Reqs : cancelling => ~ResolvedInRun(r)]_sendVars
=============================================================================
