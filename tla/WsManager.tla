----------------------------- MODULE WsManager -----------------------------
(***************************************************************************)
(* The registry of live WebSocket connections: WsManager of                *)
(* crates/voleeo-ws and the ws_disconnect command that drives it.          *)
(*                                                                         *)
(* A connect call, the reader and the writer task it spawns, a             *)
(* send_message call and a ws_disconnect call are processes.  A step ends  *)
(* where the code takes or releases the registry lock, spawns or aborts a  *)
(* task, awaits, or emits a status.  Nothing in the code keeps two         *)
(* connects of one id apart: Disconnect is offered while a connect is      *)
(* still shaking hands, leaves it running, and makes Connect available     *)
(* again.                                                                  *)
(***************************************************************************)
EXTENDS Integers, Sequences

CONSTANTS
    Ids,          \* connection ids
    Attempts,     \* calls of connect; each spawns at most one reader and writer
    Senders,      \* calls of send_message
    Disconnects,  \* calls of ws_disconnect
    OutboundCap,  \* OUTBOUND_CAP, the bound of an outbound channel
    None          \* no entry, no reader handle, no attempt, no id

ASSUME WsManagerAssumption ==
    /\ None \notin Ids
    /\ None \notin Attempts
    /\ OutboundCap \in Nat \ {0}

VARIABLES
    conns,     \* the registry: id -> the live connection's entry, or None
    pc,        \* where each connect call is
    target,    \* the id a connect call was made for
    reader,    \* the state of the reader task each connect call spawned
    aborted,   \* JoinHandle::abort was called on the reader task
    writer,    \* the state of the writer task
    queue,     \* the outbound channel of each connection
    wire,      \* what the writer put on the socket
    send,      \* where each send_message call is, and the sender it cloned
    accepted,  \* history: the messages try_send took, in order
    disc,      \* where each ws_disconnect call is, and its id
    shown      \* the last ws:status emitted for an id

vars == <<conns, pc, target, reader, aborted, writer, queue, wire, send,
          accepted, disc, shown>>

\* LiveConn: owner is the connect call whose sender the entry holds, reader
\* the call whose JoinHandle was stored in it.
LiveConn == [owner : Attempts, reader : Attempts \cup {None}]

Frames == Senders \cup {"Close"}

TypeOK ==
    /\ conns \in [Ids -> LiveConn \cup {None}]
    /\ pc \in [Attempts -> {"idle", "handshake", "opened", "inserted",
                            "spawned", "returned", "failed"}]
    /\ target \in [Attempts -> Ids \cup {None}]
    /\ reader \in [Attempts -> {"none", "idle", "polling", "teardown",
                                "finished", "cancelled"}]
    /\ aborted \in [Attempts -> BOOLEAN]
    /\ writer \in [Attempts -> {"none", "running", "stalled", "closed", "failed"}]
    /\ queue \in [Attempts -> Seq(Senders)]
    /\ \A a \in Attempts : Len(queue[a]) <= OutboundCap
    /\ wire \in [Attempts -> Seq(Frames)]
    /\ send \in [Senders -> [pc : {"idle", "cloned", "done"},
                             tx : Attempts \cup {None}]]
    /\ accepted \in [Attempts -> Seq(Senders)]
    /\ disc \in [Disconnects -> [pc : {"idle", "removed", "done"},
                                 id : Ids \cup {None}]]
    /\ shown \in [Ids -> {"none", "connecting", "open", "closed", "error"}]

Init ==
    /\ conns = [id \in Ids |-> None]
    /\ pc = [a \in Attempts |-> "idle"]
    /\ target = [a \in Attempts |-> None]
    /\ reader = [a \in Attempts |-> "none"]
    /\ aborted = [a \in Attempts |-> FALSE]
    /\ writer = [a \in Attempts |-> "none"]
    /\ queue = [a \in Attempts |-> <<>>]
    /\ wire = [a \in Attempts |-> <<>>]
    /\ send = [s \in Senders |-> [pc |-> "idle", tx |-> None]]
    /\ accepted = [a \in Attempts |-> <<>>]
    /\ disc = [d \in Disconnects |-> [pc |-> "idle", id |-> None]]
    /\ shown = [id \in Ids |-> "none"]

----------------------------------------------------------------------------
Goto(a, from, to) ==
    /\ pc[a] = from
    /\ pc' = [pc EXCEPT ![a] = to]

Show(id, status) == shown' = [shown EXCEPT ![id] = status]

\* Aborting a task that is parked or not yet polled drops it; one that is
\* being polled runs on until its next await yields.  A finished one ignores it.
AfterAbort(state) == IF state = "idle" THEN "cancelled" ELSE state

AbortReader(h) ==
    IF h = None THEN UNCHANGED <<reader, aborted>>
    ELSE /\ reader' = [reader EXCEPT ![h] = AfterAbort(@)]
         /\ aborted' = [aborted EXCEPT ![h] = TRUE]

\* The handle an entry holds, if there is an entry and it holds one.
HandleIn(entry) == IF entry = None THEN None ELSE entry.reader

\* Seeded fault: the reader task captures a clone of the outbound sender.
SenderHeldByReader(a) ==
    \/ pc[a] = "opened"
    \/ \E id \in Ids : conns[id] # None /\ conns[id].owner = a
    \/ \E s \in Senders : send[s].tx = a
    \/ reader[a] \in {"idle", "polling", "teardown"}

\* The outbound channel of a is open while its sender is held by the connect
\* call, by a registry entry or by a send_message call.
SenderHeld(a) ==
    \/ pc[a] = "opened"
    \/ \E id \in Ids : conns[id] # None /\ conns[id].owner = a
    \/ \E s \in Senders : send[s].tx = a

----------------------------------------------------------------------------
(* connect                                                                 *)

Connect(a, id) ==
    /\ Goto(a, "idle", "handshake")
    /\ target' = [target EXCEPT ![a] = id]
    /\ Show(id, "connecting")
    /\ UNCHANGED <<conns, reader, aborted, writer, queue, wire, send, accepted, disc>>

\* An unparsable URL or a bad header returns before any socket is opened and
\* emits no status; a refused handshake emits "error".
ConnectFail(a) ==
    /\ Goto(a, "handshake", "failed")
    /\ \/ UNCHANGED shown
       \/ Show(target[a], "error")
    /\ UNCHANGED <<conns, target, reader, aborted, writer, queue, wire, send, accepted, disc>>

HandshakeDone(a) ==
    /\ Goto(a, "handshake", "opened")
    /\ writer' = [writer EXCEPT ![a] = "running"]
    /\ Show(target[a], "open")
    /\ UNCHANGED <<conns, target, reader, aborted, queue, wire, send, accepted, disc>>

\* Under the lock: insert before the reader exists, abort the reader of the
\* entry this one replaces.
Insert(a) ==
    /\ Goto(a, "opened", "inserted")
    /\ conns' = [conns EXCEPT ![target[a]] = [owner |-> a, reader |-> None]]
    /\ AbortReader(HandleIn(conns[target[a]]))
    /\ UNCHANGED <<target, writer, queue, wire, send, accepted, disc, shown>>

\* Seeded fault: the reader's handle is dropped instead of stored.
SpawnReaderDetached(a) ==
    /\ Goto(a, "inserted", "returned")
    /\ reader' = [reader EXCEPT ![a] = "idle"]
    /\ UNCHANGED <<conns, target, aborted, writer, queue, wire, send, accepted, disc, shown>>

SpawnReader(a) ==
    /\ Goto(a, "inserted", "spawned")
    /\ reader' = [reader EXCEPT ![a] = "idle"]
    /\ UNCHANGED <<conns, target, aborted, writer, queue, wire, send, accepted, disc, shown>>

\* Seeded fault: insert again instead of updating the entry that is there.
StoreHandleReinsert(a) ==
    /\ Goto(a, "spawned", "returned")
    /\ conns' = [conns EXCEPT ![target[a]] = [owner |-> a, reader |-> a]]
    /\ UNCHANGED <<target, reader, aborted, writer, queue, wire, send, accepted, disc, shown>>

\* Under the lock: whatever entry the id has now gets this handle.
StoreHandle(a) ==
    LET id == target[a] IN
    /\ Goto(a, "spawned", "returned")
    /\ \/ /\ conns[id] # None
          /\ conns' = [conns EXCEPT ![id].reader = a]
          /\ UNCHANGED <<reader, aborted>>
       \/ /\ conns[id] = None
          /\ AbortReader(a)
          /\ UNCHANGED conns
    /\ UNCHANGED <<target, writer, queue, wire, send, accepted, disc, shown>>

----------------------------------------------------------------------------
(* The reader task.  A frame that is not a Close leaves it polling.        *)

ReaderWake(a) ==
    /\ reader[a] = "idle"
    /\ reader' = [reader EXCEPT ![a] = "polling"]
    /\ UNCHANGED <<conns, pc, target, aborted, writer, queue, wire, send, accepted, disc, shown>>

\* Seeded fault: the reader swallows its cancellation.
ReaderParkDetached(a) ==
    /\ reader[a] = "polling"
    /\ reader' = [reader EXCEPT ![a] = "idle"]
    /\ UNCHANGED <<conns, pc, target, aborted, writer, queue, wire, send, accepted, disc, shown>>

\* read.next() finds nothing ready and yields, where an abort takes effect.
ReaderPark(a) ==
    /\ reader[a] = "polling"
    /\ reader' = [reader EXCEPT ![a] = IF aborted[a] THEN "cancelled" ELSE "idle"]
    /\ UNCHANGED <<conns, pc, target, aborted, writer, queue, wire, send, accepted, disc, shown>>

\* A Close frame or the end of the stream, or a read error.
ReaderEnd(a) ==
    /\ reader[a] = "polling"
    /\ reader' = [reader EXCEPT ![a] = "teardown"]
    /\ \E status \in {"closed", "error"} : Show(target[a], status)
    /\ UNCHANGED <<conns, pc, target, aborted, writer, queue, wire, send, accepted, disc>>

\* Seeded fault: remove the entry only if it already holds this reader's handle.
TeardownIfStored(a) ==
    /\ reader[a] = "teardown"
    /\ reader' = [reader EXCEPT ![a] = "finished"]
    /\ conns' = [conns EXCEPT ![target[a]] = IF HandleIn(@) = a THEN None ELSE @]
    /\ UNCHANGED <<pc, target, aborted, writer, queue, wire, send, accepted, disc, shown>>

\* Under the lock: remove whatever entry the id has now.
Teardown(a) ==
    /\ reader[a] = "teardown"
    /\ reader' = [reader EXCEPT ![a] = "finished"]
    /\ conns' = [conns EXCEPT ![target[a]] = None]
    /\ UNCHANGED <<pc, target, aborted, writer, queue, wire, send, accepted, disc, shown>>

----------------------------------------------------------------------------
(* The writer task                                                         *)

WriterSend(a) ==
    /\ writer[a] = "running"
    /\ queue[a] # <<>>
    /\ queue' = [queue EXCEPT ![a] = Tail(@)]
    /\ \/ /\ wire' = [wire EXCEPT ![a] = Append(@, Head(queue[a]))]
          /\ UNCHANGED writer
       \/ /\ writer' = [writer EXCEPT ![a] = "failed"]
          /\ UNCHANGED wire
    /\ UNCHANGED <<conns, pc, target, reader, aborted, send, accepted, disc, shown>>

\* Seeded fault: close as soon as every sender is dropped.
WriterCloseUndrained(a) ==
    /\ writer[a] = "running"
    /\ ~SenderHeld(a)
    /\ wire' = [wire EXCEPT ![a] = Append(@, "Close")]
    /\ writer' = [writer EXCEPT ![a] = "closed"]
    /\ UNCHANGED <<conns, pc, target, reader, aborted, queue, send, accepted, disc, shown>>

\* Every sender dropped and the channel drained: close cleanly, if the Close
\* frame can still be written.
WriterClose(a) ==
    /\ writer[a] = "running"
    /\ queue[a] = <<>>
    /\ ~SenderHeld(a)
    /\ \/ /\ wire' = [wire EXCEPT ![a] = Append(@, "Close")]
          /\ writer' = [writer EXCEPT ![a] = "closed"]
       \/ /\ writer' = [writer EXCEPT ![a] = "failed"]
          /\ UNCHANGED wire
    /\ UNCHANGED <<conns, pc, target, reader, aborted, queue, send, accepted, disc, shown>>

\* The peer stops or resumes draining the socket while a write is pending.
PeerStall(a) ==
    /\ \/ /\ writer[a] = "running"
          /\ writer' = [writer EXCEPT ![a] = "stalled"]
       \/ /\ writer[a] = "stalled"
          /\ writer' = [writer EXCEPT ![a] = "running"]
    /\ UNCHANGED <<conns, pc, target, reader, aborted, queue, wire, send, accepted, disc, shown>>

----------------------------------------------------------------------------
(* send_message: clone the sender under the lock, then try_send.           *)

SendLookup(s, id) ==
    /\ send[s].pc = "idle"
    /\ send' = [send EXCEPT ![s] =
                    IF conns[id] = None
                    THEN [pc |-> "done", tx |-> None]
                    ELSE [pc |-> "cloned", tx |-> conns[id].owner]]
    /\ UNCHANGED <<conns, pc, target, reader, aborted, writer, queue, wire, accepted, disc, shown>>

\* Seeded fault: an unbounded channel.
TrySendUnbounded(s) ==
    LET a == send[s].tx IN
    /\ send[s].pc = "cloned"
    /\ writer[a] \in {"running", "stalled"}
    /\ send' = [send EXCEPT ![s] = [pc |-> "done", tx |-> None]]
    /\ queue' = [queue EXCEPT ![a] = Append(@, s)]
    /\ accepted' = [accepted EXCEPT ![a] = Append(@, s)]
    /\ UNCHANGED <<conns, pc, target, reader, aborted, writer, wire, disc, shown>>

\* A payload that is not base64, a full channel or one whose writer failed is an
\* error to the caller.
TrySend(s) ==
    LET a == send[s].tx IN
    /\ send[s].pc = "cloned"
    /\ send' = [send EXCEPT ![s] = [pc |-> "done", tx |-> None]]
    /\ \/ /\ writer[a] \in {"running", "stalled"}
          /\ Len(queue[a]) < OutboundCap
          /\ queue' = [queue EXCEPT ![a] = Append(@, s)]
          /\ accepted' = [accepted EXCEPT ![a] = Append(@, s)]
       \/ UNCHANGED <<queue, accepted>>
    /\ UNCHANGED <<conns, pc, target, reader, aborted, writer, wire, disc, shown>>

----------------------------------------------------------------------------
(* ws_disconnect: WsManager::disconnect, then the "closed" status.         *)

Disconnect(d, id) ==
    /\ disc[d].pc = "idle"
    /\ disc' = [disc EXCEPT ![d] = [pc |-> "removed", id |-> id]]
    /\ conns' = [conns EXCEPT ![id] = None]
    /\ AbortReader(HandleIn(conns[id]))
    /\ UNCHANGED <<pc, target, writer, queue, wire, send, accepted, shown>>

DisconnectEmit(d) ==
    /\ disc[d].pc = "removed"
    /\ disc' = [disc EXCEPT ![d].pc = "done"]
    /\ Show(disc[d].id, "closed")
    /\ UNCHANGED <<conns, pc, target, reader, aborted, writer, queue, wire, send, accepted>>

----------------------------------------------------------------------------
ConnectStep(a) ==
    \/ ConnectFail(a) \/ HandshakeDone(a) \/ Insert(a)
    \/ SpawnReader(a) \/ StoreHandle(a)

ReaderStep(a) == ReaderWake(a) \/ ReaderPark(a) \/ ReaderEnd(a) \/ Teardown(a)

WriterStep(a) == WriterSend(a) \/ WriterClose(a)

Next ==
    \/ \E a \in Attempts, id \in Ids : Connect(a, id)
    \/ \E a \in Attempts :
          ConnectStep(a) \/ ReaderStep(a) \/ WriterStep(a) \/ PeerStall(a)
    \/ \E s \in Senders, id \in Ids : SendLookup(s, id)
    \/ \E s \in Senders : TrySend(s)
    \/ \E d \in Disconnects, id \in Ids : Disconnect(d, id)
    \/ \E d \in Disconnects : DisconnectEmit(d)

\* The runtime keeps running tasks that can run: past the handshake a connect
\* call has no await, a polled reader yields (tokio's cooperative budget), and
\* a writer whose peer drains goes on.  Nobody has to connect, send or
\* disconnect, and the peer need never answer, send or drain.
Fairness ==
    /\ \A a \in Attempts :
          /\ WF_vars(Insert(a))
          /\ WF_vars(SpawnReader(a))
          /\ WF_vars(StoreHandle(a))
          /\ WF_vars(ReaderPark(a))
          /\ WF_vars(Teardown(a))
          /\ WF_vars(WriterStep(a))
    /\ \A s \in Senders : WF_vars(TrySend(s))
    /\ \A d \in Disconnects : WF_vars(DisconnectEmit(d))

Spec == Init /\ [][Next]_vars

FairSpec == Spec /\ Fairness

----------------------------------------------------------------------------
(* Properties                                                              *)

Registered(a) == \E id \in Ids : conns[id] # None /\ conns[id].owner = a

\* An entry never outlives its own reader: a connection that closes at once,
\* while its connect call is still between the insert and storing the handle,
\* cannot leave an entry that no teardown will ever remove.
NoDeadEntry ==
    \A id \in Ids : conns[id] # None =>
        /\ reader[conns[id].owner] \notin {"finished", "cancelled"}
        /\ ~aborted[conns[id].owner]

\* An entry lacks a reader handle only while the connect call that inserted it
\* is between its insert and its store, whatever other calls did to the id
\* meanwhile: afterwards a disconnect always finds a handle to abort.
NoneOnlyInWindow ==
    \A id \in Ids : (conns[id] # None /\ conns[id].reader = None) =>
        pc[conns[id].owner] \in {"inserted", "spawned"}

\* The strengthening that makes the two invariants above inductive: an entry
\* belongs to a connect call for that very id that is past its insert, whose
\* reader, once spawned, is alive; and a stored handle belongs to a call for
\* that id that has returned, so it is never the handle of another id's owner.
EntryInv(id) ==
    LET o == conns[id].owner
        h == conns[id].reader
    IN
    /\ target[o] = id
    /\ pc[o] \in {"inserted", "spawned", "returned"}
    /\ ~aborted[o]
    /\ reader[o] \notin {"finished", "cancelled"}
    /\ h = None => pc[o] # "returned"
    /\ h # None => target[h] = id /\ pc[h] = "returned"

AttemptInv(a) ==
    /\ pc[a] # "idle" => target[a] \in Ids
    /\ pc[a] \notin {"spawned", "returned"} => reader[a] = "none" /\ ~aborted[a]

RegistryInv ==
    /\ \A id \in Ids : conns[id] # None => EntryInv(id)
    /\ \A a \in Attempts : AttemptInv(a)

\* What send_message accepted reaches the socket in order and before the Close
\* frame, even if the entry is removed between cloning the sender and try_send;
\* only a failed write loses the rest.
AcceptedReachWire ==
    \A a \in Attempts :
        /\ writer[a] \in {"running", "stalled"} => accepted[a] = wire[a] \o queue[a]
        /\ writer[a] = "closed" => wire[a] = Append(accepted[a], "Close")
        /\ writer[a] = "failed" => wire[a] = SubSeq(accepted[a], 1, Len(wire[a]))

\* A reader that saw its connection end gets that connection out of the
\* registry, whatever connects and disconnects of the id do meanwhile.
EndedReaderUnregisters ==
    \A a \in Attempts : reader[a] = "teardown" ~> ~Registered(a)

\* An aborted reader stops delivering frames, also when the abort came while
\* it was being polled.
AbortedReaderStops ==
    \A a \in Attempts : aborted[a] ~> reader[a] \in {"finished", "cancelled"}

\* A connection that lost its entry, to a disconnect, to a newer connection
\* or to a teardown, has its socket closed by its writer unless the peer stopped
\* draining: no socket is leaked.
DroppedSocketCloses ==
    \A a \in Attempts :
        (pc[a] \in {"inserted", "spawned", "returned"} /\ ~Registered(a))
            ~> writer[a] \in {"closed", "failed", "stalled"}

\* What the round-trip test asserts of a connect that emitted "open" and
\* returned Ok: the id is connected.  Stated once no connect and no teardown of
\* the id is under way and the last status shown is "open".
OpenIsConnected ==
    \A id \in Ids :
        (/\ shown[id] = "open"
         /\ \A a \in Attempts : target[a] = id =>
                /\ pc[a] \in {"returned", "failed"}
                /\ reader[a] # "teardown"
         /\ \A d \in Disconnects : disc[d].id # id)
            => conns[id] # None
=============================================================================
