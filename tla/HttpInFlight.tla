---------------------------- MODULE HttpInFlight ----------------------------
(***************************************************************************)
(* HttpExecutor's cancel handles (crates/voleeo-http): the in_flight map   *)
(* from a request id to the token and the oneshot sender of the last send  *)
(* that registered, the race in send_scoped, and cancel.                   *)
(*                                                                         *)
(* A send takes its token before it takes the lock, so tokens may register *)
(* out of order, and cleans up after the race in a later critical section. *)
(***************************************************************************)
EXTENDS Naturals

CONSTANTS
    Sends,    \* calls of send, send_streamed or send_guarded
    Ids,      \* request ids
    IdOf,     \* the request id each send is for
    None      \* no entry, no token

ASSUME HttpInFlightAssumption ==
    /\ IdOf \in [Sends -> Ids]
    /\ None \notin Nat
    /\ None \notin [token : Nat, tx : Sends]

VARIABLES
    sendSeq,   \* the next token
    token,     \* the token each send drew
    inFlight,  \* id -> the entry [token, tx], or None
    pc,        \* where each send is
    rx,        \* the oneshot a send races: "armed", "fired" or "dropped"
    result     \* what the race of each send gave

vars == <<sendSeq, token, inFlight, pc, rx, result>>

\* CancelEntry: tx names the send whose oneshot the entry's sender fires.
CancelEntry == [token : Nat, tx : Sends]

TypeOK ==
    /\ sendSeq \in Nat
    /\ token \in [Sends -> Nat \cup {None}]
    /\ inFlight \in [Ids -> CancelEntry \cup {None}]
    /\ pc \in [Sends -> {"idle", "token", "racing", "cleanup", "done", "abandoned"}]
    /\ rx \in [Sends -> {"armed", "fired", "dropped"}]
    /\ result \in [Sends -> {"none", "response", "cancelled", "abandoned"}]

Init ==
    /\ sendSeq = 0
    /\ token = [s \in Sends |-> None]
    /\ inFlight = [id \in Ids |-> None]
    /\ pc = [s \in Sends |-> "idle"]
    /\ rx = [s \in Sends |-> "armed"]
    /\ result = [s \in Sends |-> "none"]

Goto(s, from, to) ==
    /\ pc[s] = from
    /\ pc' = [pc EXCEPT ![s] = to]

\* Firing the sender of an entry, if there is one.
Fire(entry) ==
    rx' = IF entry = None THEN rx ELSE [rx EXCEPT ![entry.tx] = "fired"]

----------------------------------------------------------------------------
\* fetch_add, outside the lock.
DrawToken(s) ==
    /\ Goto(s, "idle", "token")
    /\ token' = [token EXCEPT ![s] = sendSeq]
    /\ sendSeq' = sendSeq + 1
    /\ UNCHANGED <<inFlight, rx, result>>

\* Seeded fault: the replaced send is not told to stop.
RegisterOnly(s) ==
    /\ Goto(s, "token", "racing")
    /\ inFlight' = [inFlight EXCEPT ![IdOf[s]] = [token |-> token[s], tx |-> s]]
    /\ UNCHANGED <<sendSeq, token, rx, result>>

\* Under the lock: replace the entry of the id and fire the one replaced.
Register(s) ==
    /\ Goto(s, "token", "racing")
    /\ inFlight' = [inFlight EXCEPT ![IdOf[s]] = [token |-> token[s], tx |-> s]]
    /\ Fire(inFlight[IdOf[s]])
    /\ UNCHANGED <<sendSeq, token, result>>

\* The select is biased: a cancel that is ready wins over a response.  A sender
\* dropped without a signal resolves the cancel branch too.
RaceCancelled(s) ==
    /\ rx[s] # "armed"
    /\ Goto(s, "racing", "cleanup")
    /\ result' = [result EXCEPT ![s] = "cancelled"]
    /\ UNCHANGED <<sendSeq, token, inFlight, rx>>

RaceResponse(s) ==
    /\ rx[s] = "armed"
    /\ Goto(s, "racing", "cleanup")
    /\ result' = [result EXCEPT ![s] = "response"]
    /\ UNCHANGED <<sendSeq, token, inFlight, rx>>

\* Seeded fault: the token is not compared.
CleanupAny(s) ==
    LET entry == inFlight[IdOf[s]] IN
    /\ Goto(s, "cleanup", "done")
    /\ inFlight' = [inFlight EXCEPT ![IdOf[s]] = None]
    /\ rx' = IF entry = None \/ rx[entry.tx] # "armed" THEN rx
             ELSE [rx EXCEPT ![entry.tx] = "dropped"]
    /\ UNCHANGED <<sendSeq, token, result>>

\* Seeded fault: only the send that drew the newest token cleans up.
CleanupIfNewest(s) ==
    LET entry == inFlight[IdOf[s]] IN
    /\ Goto(s, "cleanup", "done")
    /\ inFlight' = IF entry # None /\ token[s] + 1 = sendSeq
                   THEN [inFlight EXCEPT ![IdOf[s]] = None] ELSE inFlight
    /\ UNCHANGED <<sendSeq, token, rx, result>>

\* Under the lock: remove the entry only if it still carries this send's token.
Cleanup(s) ==
    LET entry == inFlight[IdOf[s]] IN
    /\ Goto(s, "cleanup", "done")
    /\ \/ /\ entry # None /\ entry.token = token[s]
          /\ inFlight' = [inFlight EXCEPT ![IdOf[s]] = None]
          /\ rx' = [rx EXCEPT ![entry.tx] = IF @ = "armed" THEN "dropped" ELSE @]
       \/ /\ ~(entry # None /\ entry.token = token[s])
          /\ UNCHANGED <<inFlight, rx>>
    /\ UNCHANGED <<sendSeq, token, result>>

\* The MCP tool's 30 s timeout drops the future while it races: no cleanup runs
\* and the entry stays, its oneshot without a receiver.
Abandon(s) ==
    /\ Goto(s, "racing", "abandoned")
    /\ result' = [result EXCEPT ![s] = "abandoned"]
    /\ UNCHANGED <<sendSeq, token, inFlight, rx>>

\* cancel, under the lock.
Cancel(id) ==
    /\ inFlight[id] # None
    /\ inFlight' = [inFlight EXCEPT ![id] = None]
    /\ Fire(inFlight[id])
    /\ UNCHANGED <<sendSeq, token, pc, result>>

----------------------------------------------------------------------------
Next ==
    \/ \E s \in Sends :
          \/ DrawToken(s) \/ Register(s)
          \/ RaceCancelled(s) \/ RaceResponse(s)
          \/ Cleanup(s) \/ Abandon(s)
    \/ \E id \in Ids : Cancel(id)

\* A send whose handle fired is woken; its cleanup has no await before it.
\* Nobody has to send, to cancel or to answer.
Fairness == \A s \in Sends : WF_vars(RaceCancelled(s)) /\ WF_vars(Cleanup(s))

Spec == Init /\ [][Next]_vars

FairSpec == Spec /\ Fairness

----------------------------------------------------------------------------
(* Properties                                                              *)

\* A send still racing either has been told to stop or is the one its id's
\* handle stops: no send is ever beyond the reach of cancel, whatever sends
\* and cleanups of the same id overlap it.
RunningIsCancellable ==
    \A s \in Sends : (pc[s] = "racing" /\ rx[s] # "fired") =>
        /\ inFlight[IdOf[s]] # None
        /\ inFlight[IdOf[s]].tx = s

\* No entry outlives a send that ran to its end, whatever order overlapping
\* sends drew tokens, registered and cleaned up in: in_flight does not grow with
\* finished requests.
NoStaleHandle ==
    \A id \in Ids : inFlight[id] # None => pc[inFlight[id].tx] # "done"

\* The strengthening that makes the two inductive.  Tokens are unique, whatever
\* order sends register in; an entry is for a send of that very id, carries that
\* send's token, and its oneshot has neither fired nor been dropped.
TokenInv ==
    /\ \A s \in Sends : token[s] # None => token[s] < sendSeq
    /\ \A s, t \in Sends : (s # t /\ token[s] # None) => token[s] # token[t]
    /\ \A s \in Sends : pc[s] # "idle" => token[s] # None

EntryInv(id) ==
    LET s == inFlight[id].tx IN
    /\ IdOf[s] = id
    /\ inFlight[id].token = token[s]
    /\ pc[s] \in {"racing", "cleanup", "abandoned"}
    /\ rx[s] = "armed"

SendInv(s) ==
    /\ pc[s] \in {"idle", "token"} => rx[s] = "armed"
    /\ pc[s] \in {"idle", "token", "racing"} => result[s] = "none"

IInv ==
    /\ TypeOK
    /\ TokenInv
    /\ \A id \in Ids : inFlight[id] # None => EntryInv(id)
    /\ \A s \in Sends : SendInv(s)
    /\ RunningIsCancellable

\* HttpExecutor keeps the promise of CancelRegistry.
running == {s \in Sends : pc[s] = "racing"}
doomed == {s \in Sends : pc[s] = "racing" /\ rx[s] = "fired"}

Promise == INSTANCE CancelRegistry WITH answer <- result

KeepsPromise == Promise!Spec
=============================================================================
