--------------------------- MODULE CancelRegistry ---------------------------
(***************************************************************************)
(* What a registry of cancel handles promises its callers, for the HTTP    *)
(* and the unary gRPC executor alike: at any time at most one running send *)
(* of a request id is not doomed; starting another dooms it, and so does   *)
(* cancelling the id; and a send answers Cancelled exactly when it was     *)
(* doomed while it ran, unless its caller abandoned it.                    *)
(***************************************************************************)
CONSTANTS
    Sends,   \* calls of send
    Ids,     \* request ids
    IdOf     \* the request id each send is for

VARIABLES
    running,  \* the sends between registering and answering
    doomed,   \* the running sends told to stop
    answer    \* what each send answered: "none", "response", "cancelled", or
              \* "abandoned" when its caller gave up on it

vars == <<running, doomed, answer>>

RunningFor(id) == {s \in running : IdOf[s] = id}

Init ==
    /\ running = {}
    /\ doomed = {}
    /\ answer = [s \in Sends |-> "none"]

\* A send starts and dooms every other of its id.
Start(s) ==
    /\ s \notin running
    /\ answer[s] = "none"
    /\ running' = running \cup {s}
    /\ doomed' = doomed \cup RunningFor(IdOf[s])
    /\ UNCHANGED answer

\* The user cancels an id.
Cancel(id) ==
    /\ doomed' = doomed \cup RunningFor(id)
    /\ UNCHANGED <<running, answer>>

\* A send stops running and answers.
Answer(s) ==
    /\ s \in running
    /\ running' = running \ {s}
    /\ doomed' = doomed \ {s}
    /\ answer' = [answer EXCEPT ![s] = IF s \in doomed THEN "cancelled" ELSE "response"]

\* The caller of a send stops waiting for it.
Abandon(s) ==
    /\ s \in running
    /\ running' = running \ {s}
    /\ doomed' = doomed \ {s}
    /\ answer' = [answer EXCEPT ![s] = "abandoned"]

Next ==
    \/ \E s \in Sends : Start(s) \/ Answer(s) \/ Abandon(s)
    \/ \E id \in Ids : Cancel(id)

Spec == Init /\ [][Next]_vars
=============================================================================
