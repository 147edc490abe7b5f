-------------------------- MODULE WsManagerProofs --------------------------
(***************************************************************************)
(* Theorems about WsManager for any number of ids, connects, messages and  *)
(* disconnects: its type invariant, that the registry holds no dead entry  *)
(* and no entry without a handle once its connect returned, and that what  *)
(* a send was told is accepted reaches the socket.                         *)
(***************************************************************************)
EXTENDS WsManager, SequenceTheorems, TLAPS

\* The next-state relation split into the actions a proof treats one by one.
LEMMA NextCases ==
    ASSUME Next
    PROVE  \/ \E a \in Attempts, id \in Ids : Connect(a, id)
           \/ \E a \in Attempts :
                 \/ ConnectFail(a) \/ HandshakeDone(a) \/ Insert(a)
                 \/ SpawnReader(a) \/ StoreHandle(a)
                 \/ ReaderWake(a) \/ ReaderPark(a) \/ ReaderEnd(a) \/ Teardown(a)
                 \/ WriterSend(a) \/ WriterClose(a) \/ PeerStall(a)
           \/ \E s \in Senders, id \in Ids : SendLookup(s, id)
           \/ \E s \in Senders : TrySend(s)
           \/ \E d \in Disconnects, id \in Ids : Disconnect(d, id)
           \/ \E d \in Disconnects : DisconnectEmit(d)
  BY DEF Next, ConnectStep, ReaderStep, WriterStep

\* What an entry is, from the type of the registry.
LEMMA EntryType ==
    ASSUME TypeOK, NEW id \in Ids, conns[id] # None
    PROVE  /\ conns[id] \in LiveConn
           /\ conns[id].owner \in Attempts
           /\ conns[id].reader \in Attempts \cup {None}
  BY DEF TypeOK, LiveConn

\* Aborting a handle keeps the reader's and the flag's type, and reaches no
\* task but the one the handle is for.
LEMMA AbortReaderEffect ==
    ASSUME TypeOK, NEW h \in Attempts \cup {None}, AbortReader(h)
    PROVE  /\ reader' \in [Attempts -> {"none", "idle", "polling", "teardown",
                                        "finished", "cancelled"}]
           /\ aborted' \in [Attempts -> BOOLEAN]
           /\ \A a \in Attempts : a # h => /\ reader'[a] = reader[a]
                                           /\ aborted'[a] = aborted[a]
  <1>1. CASE h = None
    BY <1>1, WsManagerAssumption DEF AbortReader, TypeOK
  <1>2. CASE h # None
    <2>1. /\ reader' = [reader EXCEPT ![h] = AfterAbort(reader[h])]
          /\ aborted' = [aborted EXCEPT ![h] = TRUE]
          /\ h \in Attempts
      BY <1>2 DEF AbortReader
    <2>2. AfterAbort(reader[h]) \in {"none", "idle", "polling", "teardown",
                                     "finished", "cancelled"}
      BY <2>1 DEF AfterAbort, TypeOK
    <2>3. reader \in [Attempts -> {"none", "idle", "polling", "teardown",
                                  "finished", "cancelled"}]
      BY DEF TypeOK
    <2>4. aborted \in [Attempts -> BOOLEAN]
      BY DEF TypeOK
    <2> HIDE DEF TypeOK, AbortReader, AfterAbort
    <2>5. reader' \in [Attempts -> {"none", "idle", "polling", "teardown",
                                   "finished", "cancelled"}]
      BY <2>1, <2>2, <2>3
    <2>6. aborted' \in [Attempts -> BOOLEAN]
      BY <2>1, <2>4, Zenon
    <2>7. \A a \in Attempts : a # h => reader'[a] = reader[a]
      BY <2>1, <2>3
    <2>8. \A a \in Attempts : a # h => aborted'[a] = aborted[a]
      BY <2>1, <2>4, Zenon
    <2> QED  BY <2>5, <2>6, <2>7, <2>8
  <1> QED  BY <1>1, <1>2

LEMMA HandleType ==
    ASSUME TypeOK, NEW id \in Ids
    PROVE  HandleIn(conns[id]) \in Attempts \cup {None}
  BY EntryType DEF HandleIn

----------------------------------------------------------------------------
LEMMA InitTypeOK == Init => TypeOK
  BY WsManagerAssumption DEF Init, TypeOK

LEMMA NextTypeOK ==
    ASSUME TypeOK, RegistryInv, [Next]_vars
    PROVE  TypeOK'
  <1> USE WsManagerAssumption
  <1>1. ASSUME NEW a \in Attempts, NEW id \in Ids, Connect(a, id)
        PROVE  TypeOK'
    BY <1>1 DEF Connect, Goto, Show, TypeOK
  <1>2. ASSUME NEW a \in Attempts, ConnectFail(a)
        PROVE  TypeOK'
    <2>1. target[a] \in Ids
      BY <1>2 DEF ConnectFail, Goto, RegistryInv, AttemptInv
    <2> QED  BY <1>2, <2>1 DEF ConnectFail, Goto, Show, TypeOK
  <1>3. ASSUME NEW a \in Attempts, HandshakeDone(a)
        PROVE  TypeOK'
    <2>1. target[a] \in Ids
      BY <1>3 DEF HandshakeDone, Goto, RegistryInv, AttemptInv
    <2> QED  BY <1>3, <2>1 DEF HandshakeDone, Goto, Show, TypeOK
  <1>4. ASSUME NEW a \in Attempts, Insert(a)
        PROVE  TypeOK'
    <2>1. target[a] \in Ids
      BY <1>4 DEF Insert, Goto, RegistryInv, AttemptInv
    <2>2. HandleIn(conns[target[a]]) \in Attempts \cup {None}
      BY <2>1, HandleType
    <2>3. /\ reader' \in [Attempts -> {"none", "idle", "polling", "teardown",
                                       "finished", "cancelled"}]
          /\ aborted' \in [Attempts -> BOOLEAN]
      BY <1>4, <2>2, AbortReaderEffect DEF Insert
    <2>4. conns' \in [Ids -> LiveConn \cup {None}]
      BY <1>4, <2>1 DEF Insert, LiveConn, TypeOK
    <2> QED  BY <1>4, <2>3, <2>4 DEF Insert, Goto, TypeOK
  <1>5. ASSUME NEW a \in Attempts, SpawnReader(a)
        PROVE  TypeOK'
    BY <1>5 DEF SpawnReader, Goto, TypeOK
  <1>6. ASSUME NEW a \in Attempts, StoreHandle(a)
        PROVE  TypeOK'
    <2>1. target[a] \in Ids
      BY <1>6 DEF StoreHandle, Goto, RegistryInv, AttemptInv
    <2>2. CASE conns[target[a]] # None
      <3>1. [conns[target[a]] EXCEPT !.reader = a] \in LiveConn
        BY <2>1, <2>2, EntryType DEF LiveConn
      <3>2. conns' = [conns EXCEPT ![target[a]] =
                         [conns[target[a]] EXCEPT !.reader = a]]
        BY <1>6, <2>2 DEF StoreHandle
      <3>3. conns' \in [Ids -> LiveConn \cup {None}]
        BY <3>1, <3>2 DEF TypeOK
      <3> QED  BY <1>6, <2>2, <3>3 DEF StoreHandle, Goto, TypeOK
    <2>3. CASE conns[target[a]] = None
      <3>1. /\ reader' \in [Attempts -> {"none", "idle", "polling", "teardown",
                                         "finished", "cancelled"}]
            /\ aborted' \in [Attempts -> BOOLEAN]
        BY <1>6, <2>3, AbortReaderEffect DEF StoreHandle
      <3> QED  BY <1>6, <2>3, <3>1 DEF StoreHandle, Goto, TypeOK
    <2> QED  BY <2>2, <2>3
  <1>7. ASSUME NEW a \in Attempts, ReaderWake(a) \/ ReaderPark(a) \/ Teardown(a)
        PROVE  TypeOK'
    <2>1. CASE ReaderWake(a)
      BY <2>1 DEF ReaderWake, TypeOK
    <2>2. CASE ReaderPark(a)
      BY <2>2 DEF ReaderPark, TypeOK
    <2>3. CASE Teardown(a)
      BY <2>3 DEF Teardown, TypeOK
    <2> QED  BY <1>7, <2>1, <2>2, <2>3
  <1>8. ASSUME NEW a \in Attempts, ReaderEnd(a)
        PROVE  TypeOK'
    <2>1. target[a] \in Ids
      BY <1>8 DEF ReaderEnd, RegistryInv, AttemptInv
    <2> QED  BY <1>8, <2>1 DEF ReaderEnd, Show, TypeOK
  <1>9. ASSUME NEW a \in Attempts, WriterSend(a)
        PROVE  TypeOK'
    <2>1. /\ Head(queue[a]) \in Senders
          /\ Tail(queue[a]) \in Seq(Senders)
          /\ Len(Tail(queue[a])) <= OutboundCap
      BY <1>9 DEF WriterSend, TypeOK
    <2>2. /\ queue' \in [Attempts -> Seq(Senders)]
          /\ \A b \in Attempts : Len(queue'[b]) <= OutboundCap
      BY <1>9, <2>1 DEF WriterSend, TypeOK
    <2>3. CASE wire' = [wire EXCEPT ![a] = Append(@, Head(queue[a]))] /\ UNCHANGED writer
      <3>1. Append(wire[a], Head(queue[a])) \in Seq(Frames)
        BY <2>1 DEF Frames, TypeOK
      <3>2. wire' \in [Attempts -> Seq(Frames)]
        BY <2>3, <3>1 DEF TypeOK
      <3> QED  BY <1>9, <2>2, <2>3, <3>2 DEF WriterSend, TypeOK
    <2>4. CASE writer' = [writer EXCEPT ![a] = "failed"] /\ UNCHANGED wire
      BY <1>9, <2>2, <2>4 DEF WriterSend, TypeOK
    <2> QED  BY <1>9, <2>3, <2>4 DEF WriterSend
  <1>10. ASSUME NEW a \in Attempts, WriterClose(a)
         PROVE  TypeOK'
    <2>1. /\ writer' \in [Attempts -> {"none", "running", "stalled", "closed", "failed"}]
          /\ UNCHANGED <<conns, pc, target, reader, aborted, queue, send, accepted, disc, shown>>
      BY <1>10 DEF WriterClose, TypeOK
    <2>2. Append(wire[a], "Close") \in Seq(Frames)
      BY DEF Frames, TypeOK
    <2>3. wire' \in [Attempts -> Seq(Frames)]
      BY <1>10, <2>2 DEF WriterClose, TypeOK
    <2> QED  BY <2>1, <2>3 DEF TypeOK
  <1>11. ASSUME NEW a \in Attempts, PeerStall(a)
         PROVE  TypeOK'
    BY <1>11 DEF PeerStall, TypeOK
  <1>12. ASSUME NEW s \in Senders, NEW id \in Ids, SendLookup(s, id)
         PROVE  TypeOK'
    BY <1>12, EntryType DEF SendLookup, TypeOK
  <1>13. ASSUME NEW s \in Senders, TrySend(s)
         PROVE  TypeOK'
    <2>1. CASE UNCHANGED <<queue, accepted>>
      BY <1>13, <2>1 DEF TrySend, TypeOK
    <2>2. ASSUME NEW a \in Attempts, Len(queue[a]) < OutboundCap,
                 queue' = [queue EXCEPT ![a] = Append(@, s)],
                 accepted' = [accepted EXCEPT ![a] = Append(@, s)]
          PROVE  TypeOK'
      <3>1. /\ queue' \in [Attempts -> Seq(Senders)]
            /\ \A b \in Attempts : Len(queue'[b]) <= OutboundCap
            /\ accepted' \in [Attempts -> Seq(Senders)]
        BY <2>2 DEF TypeOK
      <3> QED  BY <1>13, <3>1 DEF TrySend, TypeOK
    <2>3. CASE send[s].tx \notin Attempts
      \* Not a behaviour of the model: queue and accepted have no such index.
      BY <1>13, <2>3 DEF TrySend, TypeOK
    <2> QED  BY <1>13, <2>1, <2>2, <2>3 DEF TrySend
  <1>14. ASSUME NEW d \in Disconnects, NEW id \in Ids, Disconnect(d, id)
         PROVE  TypeOK'
    <2>1. /\ reader' \in [Attempts -> {"none", "idle", "polling", "teardown",
                                       "finished", "cancelled"}]
          /\ aborted' \in [Attempts -> BOOLEAN]
      BY <1>14, HandleType, AbortReaderEffect DEF Disconnect
    <2>2. conns' \in [Ids -> LiveConn \cup {None}]
      BY <1>14 DEF Disconnect, TypeOK
    <2>3. /\ disc' = [disc EXCEPT ![d] = [pc |-> "removed", id |-> id]]
          /\ UNCHANGED <<pc, target, writer, queue, wire, send, accepted, shown>>
      BY <1>14 DEF Disconnect
    <2> QED  BY <2>1, <2>2, <2>3 DEF TypeOK
  <1>15. ASSUME NEW d \in Disconnects, DisconnectEmit(d)
         PROVE  TypeOK'
    <2>1. /\ disc' = [disc EXCEPT ![d].pc = "done"]
          /\ UNCHANGED <<conns, pc, target, reader, aborted, writer, queue, wire, send, accepted>>
      BY <1>15 DEF DisconnectEmit
    <2>2. shown' \in [Ids -> {"none", "connecting", "open", "closed", "error"}]
      BY <1>15 DEF DisconnectEmit, Show, TypeOK
    <2>3. disc' \in [Disconnects -> [pc : {"idle", "removed", "done"}, id : Ids \cup {None}]]
      <3>1. /\ disc \in [Disconnects -> [pc : {"idle", "removed", "done"}, id : Ids \cup {None}]]
            /\ disc' = [disc EXCEPT ![d].pc = "done"]
        BY <2>1 DEF TypeOK
      <3> QED  BY <3>1
    <2> QED  BY <2>1, <2>2, <2>3 DEF TypeOK
  <1>16. CASE UNCHANGED vars
    BY <1>16 DEF vars, TypeOK
  <1> QED
    BY <1>1, <1>2, <1>3, <1>4, <1>5, <1>6, <1>7, <1>8, <1>9, <1>10, <1>11,
       <1>12, <1>13, <1>14, <1>15, <1>16, NextCases

----------------------------------------------------------------------------
LEMMA InitRegistryInv == Init => RegistryInv
  BY DEF Init, RegistryInv, AttemptInv

\* RegistryInv depends on the registry, the connect calls and their readers only.
LEMMA RegistryInvUnchanged ==
    ASSUME RegistryInv, UNCHANGED <<conns, pc, target, reader, aborted>>
    PROVE  RegistryInv'
  BY DEF RegistryInv, EntryInv, AttemptInv

\* Aborting the handle an entry holds, while that entry goes, harms no other
\* entry: the handle is of a call for the same id, and an owner is for its own.
LEMMA AbortSparesOwners ==
    ASSUME TypeOK, RegistryInv, NEW id \in Ids, NEW h, h = HandleIn(conns[id]),
           AbortReader(h), NEW other \in Ids, other # id, conns[other] # None
    PROVE  /\ reader'[conns[other].owner] = reader[conns[other].owner]
           /\ aborted'[conns[other].owner] = aborted[conns[other].owner]
  <1>1. h \in Attempts \cup {None}
    BY HandleType
  <1>2. conns[other].owner \in Attempts /\ target[conns[other].owner] = other
    BY EntryType DEF RegistryInv, EntryInv
  <1>3. h # None => target[h] = id
    BY DEF HandleIn, RegistryInv, EntryInv
  <1>4. conns[other].owner # h
    BY <1>2, <1>3, WsManagerAssumption
  <1> QED  BY <1>1, <1>2, <1>4, AbortReaderEffect

\* The call a stored handle belongs to has returned.
LEMMA HandleReturned ==
    ASSUME TypeOK, RegistryInv, NEW id \in Ids, NEW h, h = HandleIn(conns[id]), h # None
    PROVE  h \in Attempts /\ pc[h] = "returned" /\ target[h] = id
  BY HandleType DEF HandleIn, RegistryInv, EntryInv

LEMMA NextRegistryInv ==
    ASSUME TypeOK, RegistryInv, [Next]_vars
    PROVE  RegistryInv'
  <1> USE WsManagerAssumption
  <1>1. ASSUME NEW a \in Attempts, NEW id \in Ids, Connect(a, id)
        PROVE  RegistryInv'
    <2>1. \A b \in Attempts : AttemptInv(b)'
      BY <1>1 DEF Connect, Goto, RegistryInv, AttemptInv, TypeOK
    <2>2. ASSUME NEW i \in Ids, conns'[i] # None
          PROVE  EntryInv(i)'
      BY <1>1, <2>2, EntryType DEF Connect, Goto, RegistryInv, EntryInv, TypeOK
    <2> QED  BY <2>1, <2>2 DEF RegistryInv
  <1>2. ASSUME NEW a \in Attempts, ConnectFail(a) \/ HandshakeDone(a)
        PROVE  RegistryInv'
    <2>1. /\ pc[a] = "handshake"
          /\ \/ pc' = [pc EXCEPT ![a] = "opened"]
             \/ pc' = [pc EXCEPT ![a] = "failed"]
          /\ UNCHANGED <<conns, target, reader, aborted>>
      BY <1>2 DEF ConnectFail, HandshakeDone, Goto
    <2>2. \A b \in Attempts : AttemptInv(b)'
      BY <2>1 DEF RegistryInv, AttemptInv, TypeOK
    <2>3. ASSUME NEW i \in Ids, conns'[i] # None
          PROVE  EntryInv(i)'
      <3>1. /\ conns[i] # None /\ EntryInv(i)
            /\ conns[i].owner \in Attempts
            /\ conns[i].reader \in Attempts \cup {None}
        BY <2>1, <2>3, EntryType DEF RegistryInv
      <3>2. pc'[conns[i].owner] = pc[conns[i].owner]
        BY <2>1, <3>1 DEF EntryInv, TypeOK
      <3>3. conns[i].reader # None => pc'[conns[i].reader] = pc[conns[i].reader]
        BY <2>1, <3>1 DEF EntryInv, TypeOK
      <3> QED  BY <2>1, <3>1, <3>2, <3>3 DEF EntryInv
    <2> QED  BY <2>2, <2>3 DEF RegistryInv
  <1>3. ASSUME NEW a \in Attempts, Insert(a)
        PROVE  RegistryInv'
    <2> DEFINE id == target[a]
               h == HandleIn(conns[id])
    <2>1. /\ id \in Ids
          /\ pc[a] = "opened"
          /\ pc' = [pc EXCEPT ![a] = "inserted"]
          /\ conns' = [conns EXCEPT ![id] = [owner |-> a, reader |-> None]]
          /\ AbortReader(h)
          /\ UNCHANGED target
          /\ reader[a] = "none"
          /\ ~aborted[a]
      BY <1>3 DEF Insert, Goto, RegistryInv, AttemptInv
    <2>2. h \in Attempts \cup {None} /\ (h # None => pc[h] = "returned")
      BY <2>1, HandleType, HandleReturned
    <2>3. \A b \in Attempts : b # h => reader'[b] = reader[b] /\ aborted'[b] = aborted[b]
      BY <2>1, <2>2, AbortReaderEffect
    <2>4. a # h
      BY <2>1, <2>2
    <2> HIDE DEF id, h
    <2>5. \A b \in Attempts : AttemptInv(b)'
      BY <2>1, <2>2, <2>3, <2>4 DEF RegistryInv, AttemptInv, TypeOK
    <2>6. ASSUME NEW i \in Ids, conns'[i] # None
          PROVE  EntryInv(i)'
      <3>1. CASE i = id
        <4>1. conns'[i] = [owner |-> a, reader |-> None]
          BY <2>1, <3>1 DEF TypeOK
        <4> QED  BY <2>1, <2>3, <2>4, <3>1, <4>1 DEF EntryInv, TypeOK, id
      <3>2. CASE i # id
        <4>1. conns'[i] = conns[i] /\ conns[i] # None
          BY <2>1, <2>6, <3>2 DEF TypeOK
        <4>2. /\ reader'[conns[i].owner] = reader[conns[i].owner]
              /\ aborted'[conns[i].owner] = aborted[conns[i].owner]
          BY <2>1, <3>2, <4>1, AbortSparesOwners DEF h
        <4>3. EntryInv(i) /\ conns[i].owner \in Attempts
                          /\ conns[i].reader \in Attempts \cup {None}
          BY <4>1, EntryType DEF RegistryInv
        <4>4. pc'[conns[i].owner] = pc[conns[i].owner]
          BY <2>1, <4>3 DEF EntryInv, TypeOK
        <4>5. conns[i].reader # None => pc'[conns[i].reader] = pc[conns[i].reader]
          BY <2>1, <4>3 DEF EntryInv, TypeOK
        <4> QED  BY <2>1, <4>1, <4>2, <4>3, <4>4, <4>5 DEF EntryInv
      <3> QED  BY <3>1, <3>2
    <2> QED  BY <2>5, <2>6 DEF RegistryInv
  <1>4. ASSUME NEW a \in Attempts, SpawnReader(a)
        PROVE  RegistryInv'
    <2>1. /\ pc[a] = "inserted"
          /\ pc' = [pc EXCEPT ![a] = "spawned"]
          /\ reader' = [reader EXCEPT ![a] = "idle"]
          /\ UNCHANGED <<conns, target, aborted>>
      BY <1>4 DEF SpawnReader, Goto
    <2>2. \A b \in Attempts : AttemptInv(b)'
      BY <2>1 DEF RegistryInv, AttemptInv, TypeOK
    <2>3. ASSUME NEW i \in Ids, conns'[i] # None
          PROVE  EntryInv(i)'
      BY <2>1, <2>3, EntryType DEF RegistryInv, EntryInv, TypeOK
    <2> QED  BY <2>2, <2>3 DEF RegistryInv
  <1>5. ASSUME NEW a \in Attempts, StoreHandle(a), conns[target[a]] # None
        PROVE  RegistryInv'
    <2> DEFINE id == target[a]
    <2>1. /\ id \in Ids
          /\ pc[a] = "spawned"
          /\ pc' = [pc EXCEPT ![a] = "returned"]
          /\ conns' = [conns EXCEPT ![id] = [conns[id] EXCEPT !.reader = a]]
          /\ UNCHANGED <<target, reader, aborted>>
      BY <1>5 DEF StoreHandle, Goto, RegistryInv, AttemptInv
    <2>2. conns[id] # None
      BY <1>5
    <2> HIDE DEF id
    <2>3. \A b \in Attempts : AttemptInv(b)'
      BY <2>1 DEF RegistryInv, AttemptInv, TypeOK
    <2>4. ASSUME NEW i \in Ids, conns'[i] # None
          PROVE  EntryInv(i)'
      <3>1. conns[i] # None
        BY <2>1, <2>2, <2>4 DEF TypeOK
      <3>2. /\ EntryInv(i)
            /\ conns[i] \in LiveConn
            /\ conns[i].owner \in Attempts
            /\ conns[i].reader \in Attempts \cup {None}
        BY <3>1, EntryType DEF RegistryInv
      <3>3. CASE i = id
        <4>1. conns'[i].owner = conns[i].owner /\ conns'[i].reader = a
          BY <2>1, <3>2, <3>3 DEF TypeOK, LiveConn
        <4> QED  BY <2>1, <3>2, <3>3, <4>1 DEF EntryInv, TypeOK, id
      <3>4. CASE i # id
        <4>1. conns'[i] = conns[i]
          BY <2>1, <3>4 DEF TypeOK
        <4>2. conns[i].owner # a
          BY <3>2, <3>4 DEF EntryInv, id
        <4> QED  BY <2>1, <3>2, <4>1, <4>2 DEF EntryInv, TypeOK
      <3> QED  BY <3>3, <3>4
    <2> QED  BY <2>3, <2>4 DEF RegistryInv
  <1>6. ASSUME NEW a \in Attempts, StoreHandle(a), conns[target[a]] = None
        PROVE  RegistryInv'
    <2>1. /\ pc[a] = "spawned"
          /\ pc' = [pc EXCEPT ![a] = "returned"]
          /\ AbortReader(a)
          /\ UNCHANGED <<conns, target>>
      BY <1>6 DEF StoreHandle, Goto
    <2>2. \A b \in Attempts : b # a => reader'[b] = reader[b] /\ aborted'[b] = aborted[b]
      BY <2>1, AbortReaderEffect
    <2>3. \A b \in Attempts : AttemptInv(b)'
      BY <2>1, <2>2 DEF RegistryInv, AttemptInv, TypeOK
    <2>4. ASSUME NEW i \in Ids, conns'[i] # None
          PROVE  EntryInv(i)'
      <3>1. conns'[i] = conns[i] /\ conns[i] # None
        BY <2>1, <2>4
      <3>2. /\ EntryInv(i)
            /\ conns[i].owner \in Attempts
            /\ conns[i].reader \in Attempts \cup {None}
        BY <3>1, EntryType DEF RegistryInv
      <3>3. conns[i].owner # a
        BY <1>6, <3>1, <3>2 DEF EntryInv
      <3> QED  BY <2>1, <2>2, <3>1, <3>2, <3>3 DEF EntryInv, TypeOK
    <2> QED  BY <2>3, <2>4 DEF RegistryInv
  <1>7. ASSUME NEW a \in Attempts, ReaderWake(a) \/ ReaderPark(a) \/ ReaderEnd(a)
        PROVE  RegistryInv'
    <2>1. /\ reader[a] \in {"idle", "polling"}
          /\ reader' = [reader EXCEPT ![a] = reader'[a]]
          /\ reader'[a] \in {"idle", "polling", "teardown", "cancelled"}
          /\ reader'[a] = "cancelled" => aborted[a]
          /\ UNCHANGED <<conns, pc, target, aborted>>
      BY <1>7 DEF ReaderWake, ReaderPark, ReaderEnd, TypeOK
    <2>2. \A b \in Attempts : AttemptInv(b)'
      BY <2>1 DEF RegistryInv, AttemptInv, TypeOK
    <2>3. ASSUME NEW i \in Ids, conns'[i] # None
          PROVE  EntryInv(i)'
      BY <2>1, <2>3, EntryType DEF RegistryInv, EntryInv, TypeOK
    <2> QED  BY <2>2, <2>3 DEF RegistryInv
  <1>8. ASSUME NEW a \in Attempts, Teardown(a)
        PROVE  RegistryInv'
    <2>1. /\ reader[a] = "teardown"
          /\ reader' = [reader EXCEPT ![a] = "finished"]
          /\ conns' = [conns EXCEPT ![target[a]] = None]
          /\ UNCHANGED <<pc, target, aborted>>
      BY <1>8 DEF Teardown
    <2>2. \A b \in Attempts : AttemptInv(b)'
      BY <2>1 DEF RegistryInv, AttemptInv, TypeOK
    <2>3. ASSUME NEW i \in Ids, conns'[i] # None
          PROVE  EntryInv(i)'
      <3>1. i # target[a] /\ conns'[i] = conns[i] /\ conns[i] # None
        BY <2>1, <2>3 DEF TypeOK
      <3>2. EntryInv(i) /\ conns[i].owner \in Attempts
        BY <3>1, EntryType DEF RegistryInv
      <3>3. conns[i].owner # a
        BY <3>1, <3>2 DEF EntryInv
      <3> QED  BY <2>1, <3>1, <3>2, <3>3 DEF EntryInv, TypeOK
    <2> QED  BY <2>2, <2>3 DEF RegistryInv
  <1>9. ASSUME NEW d \in Disconnects, NEW id \in Ids, Disconnect(d, id)
        PROVE  RegistryInv'
    <2> DEFINE h == HandleIn(conns[id])
    <2>1. /\ conns' = [conns EXCEPT ![id] = None]
          /\ AbortReader(h)
          /\ UNCHANGED <<pc, target>>
      BY <1>9 DEF Disconnect
    <2>2. h \in Attempts \cup {None} /\ (h # None => pc[h] = "returned")
      BY HandleType, HandleReturned
    <2>3. \A b \in Attempts : b # h => reader'[b] = reader[b] /\ aborted'[b] = aborted[b]
      BY <2>1, <2>2, AbortReaderEffect
    <2> HIDE DEF h
    <2>4. \A b \in Attempts : AttemptInv(b)'
      BY <2>1, <2>2, <2>3 DEF RegistryInv, AttemptInv, TypeOK
    <2>5. ASSUME NEW i \in Ids, conns'[i] # None
          PROVE  EntryInv(i)'
      <3>1. i # id /\ conns'[i] = conns[i] /\ conns[i] # None
        BY <2>1, <2>5 DEF TypeOK
      <3>2. /\ reader'[conns[i].owner] = reader[conns[i].owner]
            /\ aborted'[conns[i].owner] = aborted[conns[i].owner]
        BY <2>1, <3>1, AbortSparesOwners DEF h
      <3>3. EntryInv(i)
        BY <3>1 DEF RegistryInv
      <3> QED  BY <2>1, <3>1, <3>2, <3>3 DEF EntryInv
    <2> QED  BY <2>4, <2>5 DEF RegistryInv
  <1>10. ASSUME \/ \E a \in Attempts : WriterSend(a) \/ WriterClose(a) \/ PeerStall(a)
                \/ \E s \in Senders, id \in Ids : SendLookup(s, id)
                \/ \E s \in Senders : TrySend(s)
                \/ \E d \in Disconnects : DisconnectEmit(d)
                \/ UNCHANGED vars
         PROVE  RegistryInv'
    <2>1. UNCHANGED <<conns, pc, target, reader, aborted>>
      BY <1>10 DEF WriterSend, WriterClose, PeerStall, SendLookup, TrySend,
                   DisconnectEmit, vars
    <2> QED  BY <2>1, RegistryInvUnchanged
  <1> QED
    BY <1>1, <1>2, <1>3, <1>4, <1>5, <1>6, <1>7, <1>8, <1>9, <1>10, NextCases

----------------------------------------------------------------------------
\* TypeOK and RegistryInv hold together: each step preserves both.
LEMMA Inductive == Spec => [](TypeOK /\ RegistryInv)
  <1>1. Init => TypeOK /\ RegistryInv
    BY InitTypeOK, InitRegistryInv
  <1>2. TypeOK /\ RegistryInv /\ [Next]_vars => (TypeOK /\ RegistryInv)'
    BY NextTypeOK, NextRegistryInv
  <1> QED  BY <1>1, <1>2, PTL DEF Spec

\* Every variable of the manager keeps its type, the outbound channels their
\* bound OUTBOUND_CAP, in every behaviour.
THEOREM TypeCorrect == Spec => []TypeOK
  BY Inductive, PTL

\* The insert-before-spawn order of connect does what its comment says, for any
\* number of overlapping connects and disconnects: no entry outlives its reader.
THEOREM NoDeadEntryHolds == Spec => []NoDeadEntry
  <1>1. RegistryInv => NoDeadEntry
    BY DEF RegistryInv, EntryInv, NoDeadEntry
  <1> QED  BY <1>1, Inductive, PTL

\* LiveConn.reader is None only in the insert-before-spawn window of connect.
THEOREM NoneOnlyInWindowHolds == Spec => []NoneOnlyInWindow
  <1>1. RegistryInv => NoneOnlyInWindow
    BY DEF RegistryInv, EntryInv, NoneOnlyInWindow
  <1> QED  BY <1>1, Inductive, PTL

----------------------------------------------------------------------------
(* The outbound channel                                                    *)

\* AcceptedReachWire, and what it rests on: a call has no writer before its
\* handshake is done, and a call without a writer has accepted nothing.
Unopened(a) ==
    /\ pc[a] \in {"idle", "handshake"} => writer[a] = "none"
    /\ writer[a] = "none" =>
          accepted[a] = <<>> /\ wire[a] = <<>> /\ queue[a] = <<>>

Carried(a) ==
    /\ writer[a] \in {"running", "stalled"} => accepted[a] = wire[a] \o queue[a]
    /\ writer[a] = "closed" => wire[a] = Append(accepted[a], "Close")
    /\ writer[a] = "failed" => wire[a] = SubSeq(accepted[a], 1, Len(wire[a]))

ChannelInv == \A a \in Attempts : Unopened(a) /\ Carried(a)

\* Moving the head of the channel to the end of the wire keeps their
\* concatenation.
LEMMA PulledFrame ==
    ASSUME NEW w \in Seq(Frames), NEW q \in Seq(Senders), q # <<>>
    PROVE  Append(w, Head(q)) \o Tail(q) = w \o q
  <1>1. Len(q) > 0 /\ q = <<Head(q)>> \o Tail(q)
    BY HeadTailProperties, EmptySeq
  <1>2. Head(q) \in Senders /\ Tail(q) \in Seq(Senders)
    BY HeadTailProperties
  <1>3. Head(q) \in Frames /\ <<Head(q)>> \in Seq(Frames) /\ Tail(q) \in Seq(Frames)
    BY <1>2 DEF Frames
  <1>4. Append(w, Head(q)) = w \o <<Head(q)>>
    BY <1>3, AppendIsConcat
  <1>5. (w \o <<Head(q)>>) \o Tail(q) = w \o (<<Head(q)>> \o Tail(q))
    BY <1>3, ConcatAssociative
  <1> QED  BY <1>1, <1>4, <1>5

\* A message put behind the others.
LEMMA PushedFrame ==
    ASSUME NEW w \in Seq(Frames), NEW q \in Seq(Senders), NEW s \in Senders
    PROVE  Append(w \o q, s) = w \o Append(q, s)
  BY DEF Frames

\* What is on the wire is a prefix of the wire followed by the channel.
LEMMA WirePrefix ==
    ASSUME NEW w \in Seq(Frames), NEW q \in Seq(Senders)
    PROVE  w = SubSeq(w \o q, 1, Len(w))
  BY DEF Frames

\* The invariant of a call depends on these five only.
LEMMA ChannelKept ==
    ASSUME NEW a \in Attempts, Unopened(a), Carried(a),
           UNCHANGED <<writer[a], queue[a], wire[a], accepted[a]>>,
           pc'[a] \in {"idle", "handshake"} => pc[a] \in {"idle", "handshake"}
    PROVE  Unopened(a)' /\ Carried(a)'
  BY DEF Unopened, Carried

LEMMA InitChannelInv == Init => ChannelInv
  BY DEF Init, ChannelInv, Unopened, Carried

LEMMA NextChannelInv ==
    ASSUME TypeOK, ChannelInv, [Next]_vars
    PROVE  ChannelInv'
  <1>1. ASSUME NEW a \in Attempts, HandshakeDone(a)
        PROVE  ChannelInv'
    <2>1. /\ pc[a] = "handshake"
          /\ pc' = [pc EXCEPT ![a] = "opened"]
          /\ writer' = [writer EXCEPT ![a] = "running"]
          /\ UNCHANGED <<queue, wire, accepted>>
      BY <1>1 DEF HandshakeDone, Goto
    <2>2. accepted[a] = <<>> /\ wire[a] = <<>> /\ queue[a] = <<>>
      BY <2>1 DEF ChannelInv, Unopened
    <2>3. Unopened(a)' /\ Carried(a)'
      BY <2>1, <2>2 DEF TypeOK, Unopened, Carried
    <2>4. ASSUME NEW b \in Attempts, b # a
          PROVE  Unopened(b)' /\ Carried(b)'
      BY <2>1, <2>4, ChannelKept DEF TypeOK, ChannelInv
    <2> QED  BY <2>3, <2>4 DEF ChannelInv
  <1>2. ASSUME NEW a \in Attempts, WriterSend(a)
        PROVE  ChannelInv'
    <2> DEFINE w == wire[a]
               q == queue[a]
    <2>1. /\ writer[a] = "running" /\ q # <<>>
          /\ w \in Seq(Frames) /\ q \in Seq(Senders)
          /\ accepted[a] = w \o q
          /\ queue' = [queue EXCEPT ![a] = Tail(q)]
          /\ UNCHANGED <<pc, accepted>>
      BY <1>2 DEF WriterSend, TypeOK, ChannelInv, Carried
    <2>2. \/ /\ wire' = [wire EXCEPT ![a] = Append(w, Head(q))]
             /\ UNCHANGED writer
          \/ /\ writer' = [writer EXCEPT ![a] = "failed"]
             /\ UNCHANGED wire
      BY <1>2 DEF WriterSend
    <2>3. ASSUME NEW b \in Attempts, b # a
          PROVE  Unopened(b)' /\ Carried(b)'
      BY <2>1, <2>2, <2>3, ChannelKept DEF TypeOK, ChannelInv
    <2>4. CASE wire' = [wire EXCEPT ![a] = Append(w, Head(q))] /\ UNCHANGED writer
      <3>1. wire'[a] = Append(w, Head(q)) /\ queue'[a] = Tail(q)
        BY <2>1, <2>4 DEF TypeOK
      <3>2. accepted'[a] = wire'[a] \o queue'[a]
        BY <2>1, <3>1, PulledFrame
      <3>3. Unopened(a)' /\ Carried(a)'
        BY <2>1, <2>4, <3>2 DEF ChannelInv, Unopened, Carried
      <3> QED  BY <2>3, <3>3 DEF ChannelInv
    <2>5. CASE writer' = [writer EXCEPT ![a] = "failed"] /\ UNCHANGED wire
      <3>1. writer'[a] = "failed"
        BY <2>5 DEF TypeOK
      <3>2. wire'[a] = SubSeq(accepted'[a], 1, Len(wire'[a]))
        BY <2>1, <2>5, WirePrefix
      <3>3. Unopened(a)' /\ Carried(a)'
        BY <2>1, <3>1, <3>2 DEF ChannelInv, Unopened, Carried
      <3> QED  BY <2>3, <3>3 DEF ChannelInv
    <2> QED  BY <2>2, <2>4, <2>5
  <1>3. ASSUME NEW a \in Attempts, WriterClose(a)
        PROVE  ChannelInv'
    <2>1. /\ writer[a] = "running" /\ queue[a] = <<>>
          /\ wire[a] \in Seq(Frames)
          /\ UNCHANGED <<pc, queue, accepted>>
      BY <1>3 DEF WriterClose, TypeOK
    <2>2. accepted[a] = wire[a]
      BY <2>1, ConcatEmptySeq DEF ChannelInv, Carried
    <2>3. \/ /\ wire' = [wire EXCEPT ![a] = Append(wire[a], "Close")]
             /\ writer' = [writer EXCEPT ![a] = "closed"]
          \/ /\ writer' = [writer EXCEPT ![a] = "failed"]
             /\ UNCHANGED wire
      BY <1>3 DEF WriterClose
    <2>4. ASSUME NEW b \in Attempts, b # a
          PROVE  Unopened(b)' /\ Carried(b)'
      BY <2>1, <2>3, <2>4, ChannelKept DEF TypeOK, ChannelInv
    <2>5. Unopened(a)'
      BY <2>1, <2>3 DEF TypeOK, ChannelInv, Unopened
    <2>6. Carried(a)'
      BY <2>1, <2>2, <2>3 DEF TypeOK, Carried
    <2> QED  BY <2>4, <2>5, <2>6 DEF ChannelInv
  <1>4. ASSUME NEW a \in Attempts, PeerStall(a)
        PROVE  ChannelInv'
    <2>1. /\ writer[a] \in {"running", "stalled"}
          /\ writer' = [writer EXCEPT ![a] = writer'[a]]
          /\ writer'[a] \in {"running", "stalled"}
          /\ UNCHANGED <<pc, queue, wire, accepted>>
      BY <1>4 DEF PeerStall, TypeOK
    <2>2. Unopened(a)' /\ Carried(a)'
      BY <2>1 DEF ChannelInv, Unopened, Carried
    <2>3. ASSUME NEW b \in Attempts, b # a
          PROVE  Unopened(b)' /\ Carried(b)'
      BY <2>1, <2>3, ChannelKept DEF TypeOK, ChannelInv
    <2> QED  BY <2>2, <2>3 DEF ChannelInv
  <1>5. ASSUME NEW s \in Senders, TrySend(s)
        PROVE  ChannelInv'
    <2>1. UNCHANGED <<pc, writer, wire>>
      BY <1>5 DEF TrySend
    <2>2. CASE UNCHANGED <<queue, accepted>>
      BY <2>1, <2>2, ChannelKept DEF ChannelInv
    <2>3. ASSUME NEW a \in Attempts, writer[a] \in {"running", "stalled"},
                 queue' = [queue EXCEPT ![a] = Append(queue[a], s)],
                 accepted' = [accepted EXCEPT ![a] = Append(accepted[a], s)]
          PROVE  ChannelInv'
      <3>1. ASSUME NEW b \in Attempts, b # a
            PROVE  Unopened(b)' /\ Carried(b)'
        BY <2>1, <2>3, <3>1, ChannelKept DEF TypeOK, ChannelInv
      <3>2. /\ queue'[a] = Append(queue[a], s)
            /\ accepted'[a] = Append(accepted[a], s)
            /\ wire'[a] = wire[a] /\ writer'[a] = writer[a] /\ pc'[a] = pc[a]
        BY <2>1, <2>3 DEF TypeOK
      <3>3. /\ accepted[a] = wire[a] \o queue[a]
            /\ wire[a] \in Seq(Frames) /\ queue[a] \in Seq(Senders)
        BY <2>3 DEF TypeOK, ChannelInv, Carried
      <3>4. accepted'[a] = wire'[a] \o queue'[a]
        BY <3>2, <3>3, PushedFrame
      <3>5. Unopened(a)' /\ Carried(a)'
        BY <2>3, <3>2, <3>4 DEF ChannelInv, Unopened, Carried
      <3> QED  BY <3>1, <3>5 DEF ChannelInv
    <2>4. CASE send[s].tx \notin Attempts
      \* Not a behaviour of the model: queue and accepted have no such index.
      <3>1. UNCHANGED <<queue, accepted>>
        BY <1>5, <2>4 DEF TrySend, TypeOK
      <3> QED  BY <2>2, <3>1
    <2> QED  BY <1>5, <2>2, <2>3, <2>4 DEF TrySend
  <1>6. ASSUME \/ \E a \in Attempts, id \in Ids : Connect(a, id)
               \/ \E a \in Attempts :
                     \/ ConnectFail(a) \/ Insert(a) \/ SpawnReader(a) \/ StoreHandle(a)
                     \/ ReaderWake(a) \/ ReaderPark(a) \/ ReaderEnd(a) \/ Teardown(a)
               \/ \E s \in Senders, id \in Ids : SendLookup(s, id)
               \/ \E d \in Disconnects, id \in Ids : Disconnect(d, id)
               \/ \E d \in Disconnects : DisconnectEmit(d)
               \/ UNCHANGED vars
        PROVE  ChannelInv'
    <2>1. UNCHANGED <<writer, queue, wire, accepted>>
      BY <1>6 DEF Connect, ConnectFail, Insert, SpawnReader, StoreHandle, ReaderWake,
                  ReaderPark, ReaderEnd, Teardown, SendLookup, Disconnect,
                  DisconnectEmit, vars
    <2>2. \/ UNCHANGED pc
          \/ \E a \in Attempts : /\ pc[a] = "idle"
                                /\ pc' = [pc EXCEPT ![a] = "handshake"]
          \/ \E a \in Attempts, to \in {"failed", "inserted", "spawned", "returned"} :
                 pc' = [pc EXCEPT ![a] = to]
      BY <1>6 DEF Connect, ConnectFail, Insert, SpawnReader, StoreHandle, ReaderWake,
                  ReaderPark, ReaderEnd, Teardown, SendLookup, Disconnect,
                  DisconnectEmit, Goto, vars
    <2>3. ASSUME NEW b \in Attempts
          PROVE  pc'[b] \in {"idle", "handshake"} => pc[b] \in {"idle", "handshake"}
      BY <2>2 DEF TypeOK
    <2> QED  BY <2>1, <2>3, ChannelKept DEF ChannelInv
  <1> QED
    BY <1>1, <1>2, <1>3, <1>4, <1>5, <1>6, NextCases

\* What send_message was told is accepted is on the socket, in order and before
\* the Close, or still in the channel, unless a write failed: for any number of
\* connections, sends and disconnects, in any order.
THEOREM AcceptedReachWireHolds == Spec => []AcceptedReachWire
  <1>1. Init => ChannelInv
    BY InitChannelInv
  <1>2. TypeOK /\ ChannelInv /\ [Next]_vars => ChannelInv'
    BY NextChannelInv
  <1>3. ChannelInv => AcceptedReachWire
    BY DEF ChannelInv, Carried, AcceptedReachWire
  <1> QED  BY <1>1, <1>2, <1>3, TypeCorrect, PTL DEF Spec
=============================================================================
