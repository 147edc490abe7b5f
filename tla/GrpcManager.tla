---------------------------- MODULE GrpcManager ----------------------------
(***************************************************************************)
(* The registry of streaming gRPC calls: GrpcManager of crates/voleeo-grpc *)
(* and the reader task and request stream of each call.                    *)
(*                                                                         *)
(* Unlike WsManager, start_stream spawns the reader before it inserts the  *)
(* entry, so the reader may end, and forget its id, first.  Forgetting,    *)
(* closing the send side and cancelling act on whatever entry the id has.  *)
(* Client-streaming and bidirectional calls feed a request stream;         *)
(* server-streaming calls do not.                                          *)
(***************************************************************************)
EXTENDS Integers, Sequences

CONSTANTS
    Ids,      \* request ids
    Calls,    \* calls of start_stream
    Senders,  \* calls of send_message
    First,    \* the optional first frame of a request stream
    None      \* no entry, no call, no id

ASSUME GrpcManagerAssumption ==
    /\ None \notin Ids
    /\ None \notin Calls
    /\ First \notin Senders

VARIABLES
    calls,     \* the registry: id -> the live call's entry, or None
    pc,        \* where each start_stream call is
    target,    \* the id it was made for
    status,    \* the last status it or its reader gave the sink
    reader,    \* the state of the reader task it spawned
    aborted,   \* JoinHandle::abort was called on that reader
    request,   \* the state of its request stream
    queue,     \* the unbounded channel that feeds the request stream
    sent,      \* the frames the request stream put on the connection
    accepted,  \* history: the frames the channel took, in order
    send       \* where each send_message call is, and the sender it cloned

vars == <<calls, pc, target, status, reader, aborted, request, queue, sent,
          accepted, send>>

\* LiveCall: owner is the call the reader belongs to, outbound whether the
\* entry still holds the sender of its request stream.
LiveCall == [owner : Calls, outbound : BOOLEAN]

TypeOK ==
    /\ calls \in [Ids -> LiveCall \cup {None}]
    /\ pc \in [Calls -> {"idle", "connecting", "streaming", "spawned",
                         "returned", "failed"}]
    /\ target \in [Calls -> Ids \cup {None}]
    /\ status \in [Calls -> {"none", "connecting", "streaming", "done", "error"}]
    /\ reader \in [Calls -> {"none", "idle", "polling", "forget", "finished", "cancelled"}]
    /\ aborted \in [Calls -> BOOLEAN]
    /\ request \in [Calls -> {"none", "open", "stalled", "ended", "reset"}]
    /\ queue \in [Calls -> Seq(Senders \cup {First})]
    /\ sent \in [Calls -> Seq(Senders \cup {First})]
    /\ accepted \in [Calls -> Seq(Senders \cup {First})]
    /\ send \in [Senders -> [pc : {"idle", "cloned", "done"}, tx : Calls \cup {None}]]

Init ==
    /\ calls = [id \in Ids |-> None]
    /\ pc = [c \in Calls |-> "idle"]
    /\ target = [c \in Calls |-> None]
    /\ status = [c \in Calls |-> "none"]
    /\ reader = [c \in Calls |-> "none"]
    /\ aborted = [c \in Calls |-> FALSE]
    /\ request = [c \in Calls |-> "none"]
    /\ queue = [c \in Calls |-> <<>>]
    /\ sent = [c \in Calls |-> <<>>]
    /\ accepted = [c \in Calls |-> <<>>]
    /\ send = [s \in Senders |-> [pc |-> "idle", tx |-> None]]

----------------------------------------------------------------------------
Goto(c, from, to) ==
    /\ pc[c] = from
    /\ pc' = [pc EXCEPT ![c] = to]

Emit(c, what) == status' = [status EXCEPT ![c] = what]

AbortReader(entry) ==
    IF entry = None THEN UNCHANGED <<reader, aborted>>
    ELSE /\ reader' = [reader EXCEPT ![entry.owner] = IF @ = "idle" THEN "cancelled" ELSE @]
         /\ aborted' = [aborted EXCEPT ![entry.owner] = TRUE]

\* The entry of some id holds the sender of c's request stream.
Registered(c) == \E id \in Ids : calls[id] # None /\ calls[id].owner = c /\ calls[id].outbound

\* Seeded fault: the reader task keeps a clone of the sender.
SenderHeldByReader(c) ==
    \/ pc[c] = "spawned"
    \/ Registered(c)
    \/ \E s \in Senders : send[s].tx = c
    \/ reader[c] \in {"idle", "polling", "forget"}

\* The request stream of c is not closed while the call, an entry or a
\* send_message call holds its sender.
SenderHeld(c) ==
    \/ pc[c] = "spawned"
    \/ Registered(c)
    \/ \E s \in Senders : send[s].tx = c

----------------------------------------------------------------------------
(* start_stream                                                            *)

Start(c, id) ==
    /\ Goto(c, "idle", "connecting")
    /\ target' = [target EXCEPT ![c] = id]
    /\ Emit(c, "connecting")
    /\ UNCHANGED <<calls, reader, aborted, request, queue, sent, accepted, send>>

\* A failed connection emits "error"; a bad path, first message or a service
\* that is not ready returns with the status left at "connecting".
StartFail(c) ==
    /\ Goto(c, "connecting", "failed")
    /\ \/ Emit(c, "error")
       \/ UNCHANGED status
    /\ UNCHANGED <<calls, target, reader, aborted, request, queue, sent, accepted, send>>

Ready(c) ==
    /\ Goto(c, "connecting", "streaming")
    /\ Emit(c, "streaming")
    /\ UNCHANGED <<calls, target, reader, aborted, request, queue, sent, accepted, send>>

\* Bad metadata, or a unary method: nothing is spawned.
SpawnFail(c) ==
    /\ Goto(c, "streaming", "failed")
    /\ UNCHANGED <<calls, target, status, reader, aborted, request, queue, sent, accepted, send>>

\* The reader starts; a client-streaming or bidirectional call opens its
\* request stream, with the first frame in it if there is one.
Spawn(c) ==
    /\ Goto(c, "streaming", "spawned")
    /\ reader' = [reader EXCEPT ![c] = "idle"]
    /\ \/ UNCHANGED <<request, queue, accepted>>
       \/ \E first \in {<<>>, <<First>>} :
             /\ request' = [request EXCEPT ![c] = "open"]
             /\ queue' = [queue EXCEPT ![c] = first]
             /\ accepted' = [accepted EXCEPT ![c] = first]
    /\ UNCHANGED <<calls, target, status, aborted, sent, send>>

\* Seeded fault: the status is announced once the call is registered.
InsertAnnouncing(c) ==
    LET id == target[c] IN
    /\ Goto(c, "spawned", "returned")
    /\ calls' = [calls EXCEPT ![id] = [owner |-> c, outbound |-> request[c] # "none"]]
    /\ AbortReader(calls[id])
    /\ Emit(c, "streaming")
    /\ UNCHANGED <<target, request, queue, sent, accepted, send>>

\* Under the lock: insert, and abort the reader of the entry replaced.
Insert(c) ==
    LET id == target[c] IN
    /\ Goto(c, "spawned", "returned")
    /\ calls' = [calls EXCEPT ![id] = [owner |-> c, outbound |-> request[c] # "none"]]
    /\ AbortReader(calls[id])
    /\ UNCHANGED <<target, status, request, queue, sent, accepted, send>>

----------------------------------------------------------------------------
(* The reader task.  A response message leaves it polling.                 *)

ReaderWake(c) ==
    /\ reader[c] = "idle"
    /\ reader' = [reader EXCEPT ![c] = "polling"]
    /\ UNCHANGED <<calls, pc, target, status, aborted, request, queue, sent, accepted, send>>

\* Nothing is ready: it yields, where an abort takes effect.
ReaderPark(c) ==
    /\ reader[c] = "polling"
    /\ reader' = [reader EXCEPT ![c] = IF aborted[c] THEN "cancelled" ELSE "idle"]
    /\ UNCHANGED <<calls, pc, target, status, aborted, request, queue, sent, accepted, send>>

\* The response stream ends or fails.
ReaderEnd(c) ==
    /\ reader[c] = "polling"
    /\ reader' = [reader EXCEPT ![c] = "forget"]
    /\ \E last \in {"done", "error"} : Emit(c, last)
    /\ UNCHANGED <<calls, pc, target, aborted, request, queue, sent, accepted, send>>

\* Under the lock: remove whatever entry the id has now.
Forget(c) ==
    /\ reader[c] = "forget"
    /\ reader' = [reader EXCEPT ![c] = "finished"]
    /\ calls' = [calls EXCEPT ![target[c]] = None]
    /\ UNCHANGED <<pc, target, status, aborted, request, queue, sent, accepted, send>>

----------------------------------------------------------------------------
(* The request stream, which the HTTP/2 connection pulls.                  *)

\* The connection pulls from the reader's first poll on; an earlier pull would
\* only find the same frames.
RequestPull(c) ==
    /\ request[c] = "open"
    /\ queue[c] # <<>>
    /\ sent' = [sent EXCEPT ![c] = Append(@, Head(queue[c]))]
    /\ queue' = [queue EXCEPT ![c] = Tail(@)]
    /\ UNCHANGED <<calls, pc, target, status, reader, aborted, request, accepted, send>>

\* Seeded fault: it closes as soon as every sender is dropped.
RequestEndUndrained(c) ==
    /\ request[c] = "open"
    /\ ~SenderHeld(c)
    /\ request' = [request EXCEPT ![c] = "ended"]
    /\ UNCHANGED <<calls, pc, target, status, reader, aborted, queue, sent, accepted, send>>

\* Drained and every sender dropped: the half-close the peer sees.
RequestEnd(c) ==
    /\ request[c] = "open"
    /\ queue[c] = <<>>
    /\ ~SenderHeld(c)
    /\ request' = [request EXCEPT ![c] = "ended"]
    /\ UNCHANGED <<calls, pc, target, status, reader, aborted, queue, sent, accepted, send>>

\* The peer's flow-control window closes or opens.
RequestStall(c) ==
    /\ \/ request[c] = "open" /\ request' = [request EXCEPT ![c] = "stalled"]
       \/ request[c] = "stalled" /\ request' = [request EXCEPT ![c] = "open"]
    /\ UNCHANGED <<calls, pc, target, status, reader, aborted, queue, sent, accepted, send>>

\* The peer ends the call early, the connection fails, or the reader was
\* dropped: the receiver goes, with what it had not sent.
RequestReset(c) ==
    /\ request[c] \in {"open", "stalled"}
    /\ request' = [request EXCEPT ![c] = "reset"]
    /\ UNCHANGED <<calls, pc, target, status, reader, aborted, queue, sent, accepted, send>>

----------------------------------------------------------------------------
(* send_message: clone the sender under the lock, decode, send.            *)

SendLookup(s, id) ==
    /\ send[s].pc = "idle"
    /\ send' = [send EXCEPT ![s] =
                    IF calls[id] # None /\ calls[id].outbound
                    THEN [pc |-> "cloned", tx |-> calls[id].owner]
                    ELSE [pc |-> "done", tx |-> None]]
    /\ UNCHANGED <<calls, pc, target, status, reader, aborted, request, queue, sent, accepted>>

\* An undecodable payload or a closed channel is an error to the caller.
SendPush(s) ==
    LET c == send[s].tx IN
    /\ send[s].pc = "cloned"
    /\ send' = [send EXCEPT ![s] = [pc |-> "done", tx |-> None]]
    /\ \/ UNCHANGED <<queue, accepted>>
       \/ /\ request[c] \in {"open", "stalled"}
          /\ queue' = [queue EXCEPT ![c] = Append(@, s)]
          /\ accepted' = [accepted EXCEPT ![c] = Append(@, s)]
    /\ UNCHANGED <<calls, pc, target, status, reader, aborted, request, sent>>

CloseSend(id) ==
    /\ calls[id] # None
    /\ calls' = [calls EXCEPT ![id].outbound = FALSE]
    /\ UNCHANGED <<pc, target, status, reader, aborted, request, queue, sent, accepted, send>>

Cancel(id) ==
    /\ calls[id] # None
    /\ calls' = [calls EXCEPT ![id] = None]
    /\ AbortReader(calls[id])
    /\ UNCHANGED <<pc, target, status, request, queue, sent, accepted, send>>

----------------------------------------------------------------------------
StartStep(c) == StartFail(c) \/ Ready(c) \/ SpawnFail(c) \/ Spawn(c) \/ Insert(c)

ReaderStep(c) == ReaderWake(c) \/ ReaderPark(c) \/ ReaderEnd(c) \/ Forget(c)

RequestStep(c) == RequestPull(c) \/ RequestEnd(c)

Next ==
    \/ \E c \in Calls, id \in Ids : Start(c, id)
    \/ \E c \in Calls :
          StartStep(c) \/ ReaderStep(c) \/ RequestStep(c)
             \/ RequestStall(c) \/ RequestReset(c)
    \/ \E s \in Senders, id \in Ids : SendLookup(s, id)
    \/ \E s \in Senders : SendPush(s)
    \/ \E id \in Ids : CloseSend(id) \/ Cancel(id)

\* start_stream has no await from "streaming" on, a polled reader yields, and
\* a request stream with an open window goes on.  Nobody has to send, close or
\* cancel, and the peer need never answer.
Fairness ==
    /\ \A c \in Calls :
          WF_vars(Insert(c)) /\ WF_vars(ReaderPark(c)) /\ WF_vars(Forget(c))
             /\ WF_vars(RequestStep(c))
    /\ \A s \in Senders : WF_vars(SendPush(s))

Spec == Init /\ [][Next]_vars

FairSpec == Spec /\ Fairness

----------------------------------------------------------------------------
(* Properties                                                              *)

Rank == [none |-> 0, connecting |-> 1, streaming |-> 2, done |-> 3, error |-> 3]

\* What a call tells its sink never goes back: no "streaming" comes after the
\* reader's "done" or "error", although the reader runs beside start_stream.
StatusForward == [][\A c \in Calls : Rank[status[c]] <= Rank[status'[c]]]_vars

\* A half-closed request stream has carried every frame send_message reported
\* as sent, in order, although close_send, cancel or a newer call dropped the
\* entry's sender while a send_message call still held a clone; only a reset
\* loses frames.
HalfCloseAfterFrames ==
    \A c \in Calls :
        /\ request[c] \in {"open", "stalled"} => accepted[c] = sent[c] \o queue[c]
        /\ request[c] = "ended" => accepted[c] = sent[c]

\* Once the registry has let go of a call's sender the peer sees the half-close,
\* whatever clones were out, unless its window stays closed or it reset.
ReleasedHalfCloses ==
    \A c \in Calls :
        (pc[c] = "returned" /\ ~Registered(c)) ~> request[c] # "open"

\* The registry tracks live calls, as the module comment says and as hydrate in
\* the UI's store reads it: an entry's reader has not ended.
RegisteredIsLive ==
    \A id \in Ids : calls[id] # None => reader[calls[id].owner] # "finished"
=============================================================================
