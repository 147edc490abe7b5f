----------------------------- MODULE GrpcUnary -----------------------------
(***************************************************************************)
(* GrpcExecutor's cancel handles (crates/voleeo-grpc): as HttpInFlight, but *)
(* an entry carries no token and a call's cleanup removes the entry of its *)
(* id whoever registered it.  The desktop command and the MCP tool share   *)
(* one executor, so two calls of one request may overlap.                  *)
(***************************************************************************)
CONSTANTS
    Calls,    \* calls of GrpcExecutor::call
    Ids,      \* request ids
    IdOf,     \* the request id each call is for
    None      \* no entry

VARIABLES
    inFlight,  \* id -> the call whose oneshot sender the map holds, or None
    pc,        \* where each call is
    rx,        \* the oneshot a call races: "armed", "fired" or "dropped"
    result,    \* what the race of each call gave
    told       \* history: the calls cancelled or replaced while they waited

vars == <<inFlight, pc, rx, result, told>>

TypeOK ==
    /\ inFlight \in [Ids -> Calls \cup {None}]
    /\ pc \in [Calls -> {"idle", "racing", "polled", "cleanup", "done"}]
    /\ rx \in [Calls -> {"armed", "fired", "dropped"}]
    /\ result \in [Calls -> {"none", "response", "cancelled"}]
    /\ told \subseteq Calls

Init ==
    /\ inFlight = [id \in Ids |-> None]
    /\ pc = [c \in Calls |-> "idle"]
    /\ rx = [c \in Calls |-> "armed"]
    /\ result = [c \in Calls |-> "none"]
    /\ told = {}

Goto(c, from, to) ==
    /\ pc[c] = from
    /\ pc' = [pc EXCEPT ![c] = to]

\* What becomes of the oneshot whose sender the map gave up.
Release(c, how) ==
    rx' = IF c = None THEN rx ELSE [rx EXCEPT ![c] = how]

\* The calls of an id that wait for their answer.
Waiting(id) == {c \in Calls : IdOf[c] = id /\ pc[c] = "racing"}

----------------------------------------------------------------------------
\* Under the lock: insert, then fire the sender that was replaced.
Register(c) ==
    /\ Goto(c, "idle", "racing")
    /\ inFlight' = [inFlight EXCEPT ![IdOf[c]] = c]
    /\ Release(inFlight[IdOf[c]], "fired")
    /\ told' = told \cup Waiting(IdOf[c])
    /\ UNCHANGED result

\* Seeded fault: the race waits for `Ok(()) = cancel_rx`.
Signalled(c) == rx[c] = "fired"

\* `_ = cancel_rx` matches a signal and a dropped sender alike.
Resolved(c) == rx[c] # "armed"

\* The race is biased: the oneshot is polled first, then the call.
RaceCancelled(c) ==
    /\ Resolved(c)
    /\ Goto(c, "racing", "cleanup")
    /\ result' = [result EXCEPT ![c] = "cancelled"]
    /\ UNCHANGED <<inFlight, rx, told>>

PollCall(c) ==
    /\ ~Resolved(c)
    /\ Goto(c, "racing", "polled")
    /\ UNCHANGED <<inFlight, rx, result, told>>

CallPending(c) ==
    /\ Goto(c, "polled", "racing")
    /\ UNCHANGED <<inFlight, rx, result, told>>

RaceResponse(c) ==
    /\ Goto(c, "polled", "cleanup")
    /\ result' = [result EXCEPT ![c] = "response"]
    /\ UNCHANGED <<inFlight, rx, told>>

\* Under the lock: remove the entry of the id and drop the sender it held.
Cleanup(c) ==
    /\ Goto(c, "cleanup", "done")
    /\ inFlight' = [inFlight EXCEPT ![IdOf[c]] = None]
    /\ Release(inFlight[IdOf[c]], "dropped")
    /\ UNCHANGED <<result, told>>

\* Cancelling an id that has no entry does nothing.
Cancel(id) ==
    /\ inFlight' = [inFlight EXCEPT ![id] = None]
    /\ Release(inFlight[id], "fired")
    /\ told' = told \cup Waiting(id)
    /\ UNCHANGED <<pc, result>>

Next ==
    \/ \E c \in Calls :
          \/ Register(c) \/ RaceCancelled(c)
          \/ PollCall(c) \/ CallPending(c)
          \/ RaceResponse(c) \/ Cleanup(c)
    \/ \E id \in Ids : Cancel(id)

\* A call whose oneshot resolved is woken, and cleans up without awaiting.
Fairness == \A c \in Calls : WF_vars(RaceCancelled(c)) /\ WF_vars(Cleanup(c))

Spec == Init /\ [][Next]_vars

FairSpec == Spec /\ Fairness

----------------------------------------------------------------------------
(* Properties                                                              *)

\* A call that waits for its answer when its id is cancelled, or when another
\* call of the id takes its place, ends as cancelled and never answers - also
\* one whose handle the cleanup of an earlier call of the id has removed, of
\* which cancel finds no entry ("Abort an in-flight unary call": the waiting
\* call "returns Cancelled").
ToldIsCancelled == \A c \in Calls : result[c] = "response" => c \notin told

----------------------------------------------------------------------------
(* What the comments of the code say and the code does not keep. *)

\* A call returns Cancelled only when it was told to stop, by cancel or by
\* the call that replaced it: what cancel's comment says of the calls it aborts,
\* and what HttpExecutor's token secures ("lets a completing send remove only
\* its own handle, never a later send's").
CancelledOnlyOnRequest ==
    \A c \in Calls : result[c] = "cancelled" => rx[c] = "fired"
=============================================================================
