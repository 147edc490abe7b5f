------------------------- MODULE GrpcManagerProofs -------------------------
(***************************************************************************)
(* Theorems about GrpcManager for any number of request ids, calls and     *)
(* messages: what a half-closed request stream has carried, and that a     *)
(* call's statuses never go back.                                          *)
(***************************************************************************)
EXTENDS GrpcManager, SequenceTheorems, TLAPS

Frames == Senders \cup {First}

\* A call that has not spawned its reader has no request stream.
NotOpened(c) ==
    pc[c] \notin {"spawned", "returned"} =>
        /\ request[c] = "none" /\ queue[c] = <<>>
        /\ sent[c] = <<>> /\ accepted[c] = <<>>
        /\ reader[c] = "none"

\* Each frame that was accepted is on the wire or waits, in order.
Carried(c) ==
    /\ request[c] \in {"open", "stalled"} => accepted[c] = sent[c] \o queue[c]
    /\ request[c] = "ended" => accepted[c] = sent[c]

\* A call's own statuses come before those of its reader.
Announced(c) ==
    /\ pc[c] = "idle" => status[c] = "none"
    /\ pc[c] = "connecting" => status[c] = "connecting"
    /\ pc[c] = "streaming" => status[c] = "streaming"
    /\ reader[c] \in {"idle", "polling"} => status[c] = "streaming"

\* A call that started knows its id.
Aimed(c) == pc[c] # "idle" => target[c] \in Ids

IInv ==
    /\ TypeOK
    /\ \A s \in Senders : send[s].pc = "cloned" => send[s].tx \in Calls
    /\ \A c \in Calls : Aimed(c) /\ NotOpened(c) /\ Carried(c) /\ Announced(c)

\* Taking a frame off the queue and putting it on the wire.
LEMMA PulledFrame ==
    ASSUME NEW s \in Seq(Frames), NEW q \in Seq(Frames), q # <<>>
    PROVE  /\ Append(s, Head(q)) \in Seq(Frames) /\ Tail(q) \in Seq(Frames)
           /\ Append(s, Head(q)) \o Tail(q) = s \o q
  <1>1. Len(q) > 0 /\ q = <<Head(q)>> \o Tail(q)
    BY HeadTailProperties, EmptySeq
  <1>2. /\ Head(q) \in Frames /\ Tail(q) \in Seq(Frames)
        /\ <<Head(q)>> \in Seq(Frames)
    BY HeadTailProperties
  <1>3. Append(s, Head(q)) \in Seq(Frames) /\ Append(s, Head(q)) = s \o <<Head(q)>>
    BY <1>2, AppendProperties, AppendIsConcat
  <1>4. (s \o <<Head(q)>>) \o Tail(q) = s \o (<<Head(q)>> \o Tail(q))
    BY <1>2, ConcatAssociative
  <1> QED  BY <1>1, <1>2, <1>3, <1>4

\* A frame behind the others.
LEMMA PushedFrame ==
    ASSUME NEW s \in Seq(Frames), NEW q \in Seq(Frames), NEW f \in Frames
    PROVE  /\ Append(q, f) \in Seq(Frames)
           /\ Append(s \o q, f) = s \o Append(q, f)
  OBVIOUS

\* Aborting a reader that runs changes no other part of its call.
LEMMA AbortFacts ==
    ASSUME IInv, NEW entry \in LiveCall \cup {None}, AbortReader(entry)
    PROVE  /\ reader' \in [Calls -> {"none", "idle", "polling", "forget", "finished", "cancelled"}]
           /\ aborted' \in [Calls -> BOOLEAN]
           /\ \A c \in Calls : reader'[c] \in {reader[c], "cancelled"}
           /\ \A c \in Calls : reader[c] = "none" => reader'[c] = "none"
  <1>1. CASE entry = None
    BY <1>1 DEF AbortReader, IInv, TypeOK
  <1>2. CASE entry # None
    <2>1. entry.owner \in Calls
      BY <1>2 DEF LiveCall
    <2>2. /\ reader' = [reader EXCEPT ![entry.owner] =
                            IF reader[entry.owner] = "idle" THEN "cancelled"
                            ELSE reader[entry.owner]]
          /\ aborted' = [aborted EXCEPT ![entry.owner] = TRUE]
      BY <1>2 DEF AbortReader
    <2>3. /\ reader' \in [Calls -> {"none", "idle", "polling", "forget", "finished", "cancelled"}]
          /\ \A c \in Calls : reader'[c] \in {reader[c], "cancelled"}
          /\ \A c \in Calls : reader[c] = "none" => reader'[c] = "none"
      BY <2>1, <2>2 DEF IInv, TypeOK
    <2>4. aborted' \in [Calls -> BOOLEAN]
      BY <2>1, <2>2 DEF IInv, TypeOK
    <2> QED  BY <2>3, <2>4
  <1> QED  BY <1>1, <1>2

\* The first frame, if there is one, is a sequence of frames.
LEMMA FirstFrames == {<<>>, <<First>>} \subseteq Seq(Frames)
  <1>1. <<>> \in Seq(Frames)
    BY EmptySeq
  <1>2. <<First>> \in Seq(Frames)
    BY DEF Frames
  <1> QED  BY <1>1, <1>2

LEMMA InitIInv == Init => IInv
  BY DEF Init, IInv, TypeOK, Aimed, NotOpened, Carried, Announced

\* The parts of the invariant that the steps of start_stream touch.
LEMMA StartIInv ==
    ASSUME IInv, NEW c \in Calls,
           (\E id \in Ids : Start(c, id)) \/ StartStep(c)
    PROVE  IInv'
  <1>1. ASSUME NEW id \in Ids, Start(c, id)
        PROVE  IInv'
    BY <1>1 DEF Start, Goto, Emit, IInv, TypeOK, Aimed, NotOpened, Carried, Announced
  <1>2. CASE StartFail(c) \/ Ready(c) \/ SpawnFail(c)
    <2>1. TypeOK' /\ UNCHANGED <<target, reader, request, queue, sent, accepted, send>>
      BY <1>2 DEF StartFail, Ready, SpawnFail, Goto, Emit, IInv, TypeOK
    <2>2. pc[c] \in {"connecting", "streaming"}
      BY <1>2 DEF StartFail, Ready, SpawnFail, Goto
    <2>3. \A d \in Calls : d # c => pc'[d] = pc[d] /\ status'[d] = status[d]
      BY <1>2 DEF StartFail, Ready, SpawnFail, Goto, Emit, IInv, TypeOK
    <2>4. pc'[c] = "failed" \/ (pc'[c] = "streaming" /\ status'[c] = "streaming")
      BY <1>2 DEF StartFail, Ready, SpawnFail, Goto, Emit, IInv, TypeOK
    <2>5. ASSUME NEW d \in Calls
          PROVE  Aimed(d)' /\ NotOpened(d)' /\ Carried(d)' /\ Announced(d)'
      <3>1. Aimed(d) /\ NotOpened(d) /\ Carried(d) /\ Announced(d)
        BY DEF IInv
      <3>2. Aimed(d)'
        BY <2>1, <2>2, <2>3, <2>4, <3>1 DEF Aimed
      <3>3. NotOpened(d)'
        BY <2>1, <2>2, <2>3, <2>4, <3>1 DEF NotOpened
      <3>4. Carried(d)'
        BY <2>1, <3>1 DEF Carried
      <3>5. Announced(d)'
        BY <2>1, <2>2, <2>3, <2>4, <3>1 DEF Announced, NotOpened
      <3> QED  BY <3>2, <3>3, <3>4, <3>5
    <2> QED  BY <2>1, <2>5 DEF IInv
  <1>3. CASE Spawn(c)
    <2>1. TypeOK'
      <3>1. /\ TypeOK /\ c \in Calls
            /\ UNCHANGED <<calls, target, status, aborted, sent, send>>
        BY <1>3 DEF Spawn, IInv
      <3>2. pc' = [pc EXCEPT ![c] = "spawned"] /\ reader' = [reader EXCEPT ![c] = "idle"]
        BY <1>3 DEF Spawn, Goto
      <3>3. PICK first \in {<<>>, <<First>>} :
               \/ UNCHANGED <<request, queue, accepted>>
               \/ /\ request' = [request EXCEPT ![c] = "open"]
                  /\ queue' = [queue EXCEPT ![c] = first]
                  /\ accepted' = [accepted EXCEPT ![c] = first]
        BY <1>3 DEF Spawn
      <3>4. first \in Seq(Frames)
        BY FirstFrames
      <3>5. /\ request' \in [Calls -> {"none", "open", "stalled", "ended", "reset"}]
            /\ queue' \in [Calls -> Seq(Frames)] /\ accepted' \in [Calls -> Seq(Frames)]
        <4>1. /\ request \in [Calls -> {"none", "open", "stalled", "ended", "reset"}]
              /\ queue \in [Calls -> Seq(Frames)] /\ accepted \in [Calls -> Seq(Frames)]
          BY <3>1 DEF TypeOK, Frames
        <4>2. CASE UNCHANGED <<request, queue, accepted>>
          BY <4>1, <4>2
        <4>3. CASE /\ request' = [request EXCEPT ![c] = "open"]
                   /\ queue' = [queue EXCEPT ![c] = first]
                   /\ accepted' = [accepted EXCEPT ![c] = first]
          BY <3>4, <4>1, <4>3
        <4> QED  BY <3>3, <4>2, <4>3
      <3> QED  BY <3>1, <3>2, <3>5 DEF TypeOK, Frames
    <2>2. \A d \in Calls : Aimed(d)' /\ NotOpened(d)' /\ Announced(d)'
      BY <1>3 DEF Spawn, Goto, IInv, TypeOK, Aimed, NotOpened, Announced
    <2>3. ASSUME NEW d \in Calls
          PROVE  Carried(d)'
      <3>1. CASE d # c
        <4>1. /\ request'[d] = request[d] /\ queue'[d] = queue[d]
              /\ accepted'[d] = accepted[d] /\ sent'[d] = sent[d]
          BY <1>3, <3>1 DEF Spawn, IInv, TypeOK
        <4>2. Carried(d)
          BY DEF IInv
        <4> QED  BY <4>1, <4>2 DEF Carried
      <3>2. CASE d = c
        <4>1. request[c] = "none" /\ sent'[c] = <<>>
          BY <1>3 DEF Spawn, Goto, IInv, NotOpened
        <4>2. CASE UNCHANGED <<request, queue, accepted>>
          BY <3>2, <4>1, <4>2 DEF Carried
        <4>3. ASSUME NEW first \in {<<>>, <<First>>},
                     request' = [request EXCEPT ![c] = "open"],
                     queue' = [queue EXCEPT ![c] = first],
                     accepted' = [accepted EXCEPT ![c] = first]
              PROVE  Carried(c)'
          <5>1. first \in Seq(Frames)
            BY FirstFrames
          <5> QED  BY <4>1, <4>3, <5>1, ConcatEmptySeq DEF Carried, IInv, TypeOK
        <4> QED  BY <1>3, <3>2, <4>2, <4>3 DEF Spawn
      <3> QED  BY <3>1, <3>2
    <2>4. UNCHANGED send
      BY <1>3 DEF Spawn
    <2> QED  BY <2>1, <2>2, <2>3, <2>4 DEF IInv
  <1>4. CASE Insert(c)
    <2> DEFINE id == target[c]
    <2>1. id \in Ids /\ calls[id] \in LiveCall \cup {None}
      BY <1>4 DEF Insert, Goto, IInv, TypeOK, Aimed
    <2>2. /\ reader' \in [Calls -> {"none", "idle", "polling", "forget", "finished", "cancelled"}]
          /\ aborted' \in [Calls -> BOOLEAN]
          /\ \A d \in Calls : reader'[d] \in {reader[d], "cancelled"}
          /\ \A d \in Calls : reader[d] = "none" => reader'[d] = "none"
      BY <1>4, <2>1, AbortFacts DEF Insert
    <2>3. calls' \in [Ids -> LiveCall \cup {None}]
      BY <1>4, <2>1 DEF Insert, IInv, TypeOK, LiveCall
    <2>4. TypeOK'
      BY <1>4, <2>2, <2>3 DEF Insert, Goto, IInv, TypeOK
    <2>5. \A d \in Calls : Aimed(d)' /\ NotOpened(d)' /\ Carried(d)' /\ Announced(d)'
      BY <1>4, <2>2 DEF Insert, Goto, IInv, TypeOK, Aimed, NotOpened, Carried, Announced
    <2> QED  BY <1>4, <2>4, <2>5 DEF Insert, IInv
  <1> QED  BY <1>1, <1>2, <1>3, <1>4 DEF StartStep

LEMMA ReaderIInv ==
    ASSUME IInv, NEW c \in Calls, ReaderStep(c)
    PROVE  IInv'
  <1>1. reader[c] \in {"idle", "polling", "forget"} /\ pc[c] \in {"spawned", "returned"}
    BY DEF ReaderStep, ReaderWake, ReaderPark, ReaderEnd, Forget, IInv, TypeOK, NotOpened
  <1>2. /\ UNCHANGED <<pc, target, request, queue, sent, accepted, send>>
        /\ reader' \in [Calls -> {"none", "idle", "polling", "forget", "finished", "cancelled"}]
        /\ \A d \in Calls : d # c => reader'[d] = reader[d]
        /\ UNCHANGED aborted
    BY DEF ReaderStep, ReaderWake, ReaderPark, ReaderEnd, Forget, IInv, TypeOK
  <1>3. /\ status' \in [Calls -> {"none", "connecting", "streaming", "done", "error"}]
        /\ \A d \in Calls : d # c => status'[d] = status[d]
        /\ reader'[c] \in {"idle", "polling"} => status'[c] = status[c] /\ reader[c] \in {"idle", "polling"}
    <2>1. CASE ReaderEnd(c)
      <3>1. PICK last \in {"done", "error"} : status' = [status EXCEPT ![c] = last]
        BY <2>1 DEF ReaderEnd, Emit
      <3>2. reader'[c] = "forget"
        BY <2>1 DEF ReaderEnd, IInv, TypeOK
      <3> QED  BY <3>1, <3>2 DEF IInv, TypeOK
    <2>2. CASE ReaderWake(c) \/ ReaderPark(c) \/ Forget(c)
      BY <1>1, <2>2 DEF ReaderWake, ReaderPark, Forget, IInv, TypeOK
    <2> QED  BY <2>1, <2>2 DEF ReaderStep
  <1>4. calls' \in [Ids -> LiveCall \cup {None}]
    BY DEF ReaderStep, ReaderWake, ReaderPark, ReaderEnd, Forget, IInv, TypeOK
  <1>5. TypeOK'
    BY <1>2, <1>3, <1>4 DEF IInv, TypeOK
  <1>6. ASSUME NEW d \in Calls
        PROVE  Aimed(d)' /\ NotOpened(d)' /\ Carried(d)' /\ Announced(d)'
    <2>1. Aimed(d) /\ NotOpened(d) /\ Carried(d) /\ Announced(d)
      BY DEF IInv
    <2>2. Aimed(d)' /\ Carried(d)'
      BY <1>2, <2>1 DEF Aimed, Carried
    <2>3. NotOpened(d)'
      BY <1>1, <1>2, <2>1 DEF NotOpened
    <2>4. Announced(d)'
      BY <1>1, <1>2, <1>3, <2>1 DEF Announced
    <2> QED  BY <2>2, <2>3, <2>4
  <1> QED  BY <1>2, <1>5, <1>6 DEF IInv

LEMMA RequestIInv ==
    ASSUME IInv, NEW c \in Calls, RequestStep(c) \/ RequestStall(c) \/ RequestReset(c)
    PROVE  IInv'
  <1>1. CASE RequestPull(c)
    <2> DEFINE s == sent[c]
               q == queue[c]
    <2>1. request[c] = "open" /\ s \in Seq(Frames) /\ q \in Seq(Frames) /\ q # <<>>
      BY <1>1 DEF RequestPull, IInv, TypeOK, Frames
    <2>2. /\ Append(s, Head(q)) \in Seq(Frames) /\ Tail(q) \in Seq(Frames)
          /\ Append(s, Head(q)) \o Tail(q) = s \o q
      BY <2>1, PulledFrame
    <2>3. /\ sent' = [sent EXCEPT ![c] = Append(s, Head(q))]
          /\ queue' = [queue EXCEPT ![c] = Tail(q)]
          /\ UNCHANGED <<calls, pc, target, status, reader, aborted, request, accepted, send>>
      BY <1>1 DEF RequestPull
    <2> HIDE DEF s, q
    <2>4. sent' \in [Calls -> Seq(Frames)] /\ queue' \in [Calls -> Seq(Frames)]
      BY <2>2, <2>3 DEF IInv, TypeOK, Frames
    <2>5. TypeOK'
      BY <2>3, <2>4 DEF IInv, TypeOK, Frames
    <2>6. \A d \in Calls : Aimed(d)' /\ NotOpened(d)' /\ Announced(d)'
      BY <2>1, <2>3 DEF IInv, TypeOK, Aimed, NotOpened, Announced
    <2>7. ASSUME NEW d \in Calls
          PROVE  Carried(d)'
      <3>1. CASE d = c
        <4>1. accepted[c] = s \o q
          BY <2>1 DEF IInv, Carried, s, q
        <4>2. sent'[c] \o queue'[c] = s \o q
          BY <2>2, <2>3 DEF IInv, TypeOK
        <4> QED  BY <2>1, <2>3, <3>1, <4>1, <4>2 DEF Carried
      <3>2. CASE d # c
        BY <2>3, <3>2 DEF IInv, TypeOK, Carried
      <3> QED  BY <3>1, <3>2
    <2> QED  BY <2>3, <2>5, <2>6, <2>7 DEF IInv
  <1>2. CASE RequestEnd(c)
    <2>1. accepted[c] = sent[c]
      <3>1. accepted[c] = sent[c] \o queue[c] /\ queue[c] = <<>> /\ sent[c] \in Seq(Frames)
        BY <1>2 DEF RequestEnd, IInv, TypeOK, Carried, Frames
      <3> QED  BY <3>1, ConcatEmptySeq
    <2> QED  BY <1>2, <2>1 DEF RequestEnd, IInv, TypeOK, Aimed, NotOpened, Carried, Announced
  <1>3. CASE RequestStall(c) \/ RequestReset(c)
    <2>1. PICK how \in {"open", "stalled", "reset"} :
              /\ request[c] \in {"open", "stalled"}
              /\ request' = [request EXCEPT ![c] = how]
              /\ UNCHANGED <<calls, pc, target, status, reader, aborted, queue, sent, accepted, send>>
      BY <1>3 DEF RequestStall, RequestReset
    <2>2. TypeOK'
      BY <2>1 DEF IInv, TypeOK
    <2>3. \A d \in Calls : Aimed(d)' /\ NotOpened(d)' /\ Announced(d)'
      BY <2>1 DEF IInv, TypeOK, Aimed, NotOpened, Announced
    <2>4. \A d \in Calls : Carried(d)'
      BY <2>1 DEF IInv, TypeOK, Carried
    <2> QED  BY <2>1, <2>2, <2>3, <2>4 DEF IInv
  <1> QED  BY <1>1, <1>2, <1>3 DEF RequestStep

\* send_message and close_send, and the cancel of an id.
LEMMA CallerIInv ==
    ASSUME IInv,
           \/ \E s \in Senders, id \in Ids : SendLookup(s, id)
           \/ \E s \in Senders : SendPush(s)
           \/ \E id \in Ids : CloseSend(id) \/ Cancel(id)
    PROVE  IInv'
  <1>1. ASSUME NEW s \in Senders, NEW id \in Ids, SendLookup(s, id)
        PROVE  IInv'
    <2>1. send' \in [Senders -> [pc : {"idle", "cloned", "done"}, tx : Calls \cup {None}]]
      BY <1>1 DEF SendLookup, IInv, TypeOK, LiveCall
    <2>2. \A t \in Senders : send'[t].pc = "cloned" => send'[t].tx \in Calls
      BY <1>1 DEF SendLookup, IInv, TypeOK, LiveCall
    <2> QED  BY <1>1, <2>1, <2>2 DEF SendLookup, IInv, TypeOK, Aimed, NotOpened, Carried, Announced
  <1>2. ASSUME NEW s \in Senders, SendPush(s)
        PROVE  IInv'
    <2>1. PICK c \in Calls : c = send[s].tx
      BY <1>2 DEF SendPush, IInv
    <2>2. /\ send' = [send EXCEPT ![s] = [pc |-> "done", tx |-> None]]
          /\ UNCHANGED <<calls, pc, target, status, reader, aborted, request, sent>>
      BY <1>2 DEF SendPush
    <2>3. /\ send' \in [Senders -> [pc : {"idle", "cloned", "done"}, tx : Calls \cup {None}]]
          /\ \A t \in Senders : send'[t].pc = "cloned" => send'[t].tx \in Calls
      BY <2>2 DEF IInv, TypeOK
    <2>4. CASE UNCHANGED <<queue, accepted>>
      BY <2>2, <2>3, <2>4 DEF IInv, TypeOK, Aimed, NotOpened, Carried, Announced
    <2>5. ASSUME request[c] \in {"open", "stalled"},
                 queue' = [queue EXCEPT ![c] = Append(queue[c], s)],
                 accepted' = [accepted EXCEPT ![c] = Append(accepted[c], s)]
          PROVE  IInv'
      <3>1. /\ sent[c] \in Seq(Frames) /\ queue[c] \in Seq(Frames)
            /\ accepted[c] \in Seq(Frames) /\ accepted[c] = sent[c] \o queue[c]
        BY <2>1, <2>5 DEF IInv, TypeOK, Carried, Frames
      <3>2. /\ Append(queue[c], s) \in Seq(Frames) /\ Append(accepted[c], s) \in Seq(Frames)
            /\ Append(accepted[c], s) = sent[c] \o Append(queue[c], s)
        <4>1. s \in Frames
          BY DEF Frames
        <4>2. \A a, q \in Seq(Frames) :
                  /\ Append(q, s) \in Seq(Frames)
                  /\ Append(a \o q, s) = a \o Append(q, s)
          BY <4>1, PushedFrame
        <4>3. Append(sent[c] \o queue[c], s) = sent[c] \o Append(queue[c], s)
          BY <3>1, <4>2
        <4> QED  BY <3>1, <4>2, <4>3
      <3>3. queue' \in [Calls -> Seq(Frames)] /\ accepted' \in [Calls -> Seq(Frames)]
        BY <2>5, <3>2 DEF IInv, TypeOK, Frames
      <3>4. TypeOK'
        BY <2>2, <2>3, <3>3 DEF IInv, TypeOK, Frames
      <3>5. \A d \in Calls : Aimed(d)' /\ NotOpened(d)' /\ Announced(d)'
        BY <2>1, <2>2, <2>5 DEF IInv, TypeOK, Aimed, NotOpened, Announced
      <3>6. \A d \in Calls : Carried(d)'
        <4>1. Carried(c)'
          BY <2>1, <2>2, <2>5, <3>2 DEF IInv, TypeOK, Carried
        <4>2. \A d \in Calls : d # c => Carried(d)'
          BY <2>2, <2>5 DEF IInv, TypeOK, Carried
        <4> QED  BY <4>1, <4>2
      <3> QED  BY <2>3, <3>4, <3>5, <3>6 DEF IInv
    <2> QED  BY <1>2, <2>1, <2>4, <2>5 DEF SendPush
  <1>3. ASSUME NEW id \in Ids, CloseSend(id)
        PROVE  IInv'
    <2>1. calls' \in [Ids -> LiveCall \cup {None}]
      <3>1. calls[id] \in LiveCall
        BY <1>3 DEF CloseSend, IInv, TypeOK
      <3>2. [calls[id] EXCEPT !.outbound = FALSE] \in LiveCall
        BY <3>1 DEF LiveCall
      <3>3. calls' = [calls EXCEPT ![id] = [calls[id] EXCEPT !.outbound = FALSE]]
        BY <1>3 DEF CloseSend
      <3> QED  BY <3>2, <3>3 DEF IInv, TypeOK
    <2> QED  BY <1>3, <2>1 DEF CloseSend, IInv, TypeOK, Aimed, NotOpened, Carried, Announced
  <1>4. ASSUME NEW id \in Ids, Cancel(id)
        PROVE  IInv'
    <2>1. calls[id] \in LiveCall \cup {None} /\ calls' \in [Ids -> LiveCall \cup {None}]
      BY <1>4 DEF Cancel, IInv, TypeOK
    <2>2. /\ reader' \in [Calls -> {"none", "idle", "polling", "forget", "finished", "cancelled"}]
          /\ aborted' \in [Calls -> BOOLEAN]
          /\ \A d \in Calls : reader'[d] \in {reader[d], "cancelled"}
          /\ \A d \in Calls : reader[d] = "none" => reader'[d] = "none"
      BY <1>4, <2>1, AbortFacts DEF Cancel
    <2>3. TypeOK'
      BY <1>4, <2>1, <2>2 DEF Cancel, IInv, TypeOK
    <2>4. \A d \in Calls : Aimed(d)' /\ NotOpened(d)' /\ Carried(d)' /\ Announced(d)'
      BY <1>4, <2>2 DEF Cancel, IInv, TypeOK, Aimed, NotOpened, Carried, Announced
    <2> QED  BY <1>4, <2>3, <2>4 DEF Cancel, IInv
  <1> QED  BY <1>1, <1>2, <1>3, <1>4

LEMMA NextIInv ==
    ASSUME IInv, [Next]_vars
    PROVE  IInv'
  <1>1. CASE Next
    BY <1>1, StartIInv, ReaderIInv, RequestIInv, CallerIInv DEF Next
  <1>2. CASE UNCHANGED vars
    BY <1>2 DEF vars, IInv, TypeOK, Aimed, NotOpened, Carried, Announced
  <1> QED  BY <1>1, <1>2

\* Every state is typed.
THEOREM TypeCorrect == Spec => []TypeOK
  <1>1. IInv => TypeOK
    BY DEF IInv
  <1>2. IInv /\ [Next]_vars => IInv'
    BY NextIInv
  <1> QED  BY InitIInv, <1>1, <1>2, PTL DEF Spec

\* However many calls share an id and whoever holds a clone of a sender when it
\* is closed, a half-closed request stream has carried every accepted frame.
THEOREM HalfCloseAfterFramesHolds == Spec => []HalfCloseAfterFrames
  <1>1. IInv => HalfCloseAfterFrames
    BY DEF IInv, Carried, HalfCloseAfterFrames
  <1>2. IInv /\ [Next]_vars => IInv'
    BY NextIInv
  <1> QED  BY InitIInv, <1>1, <1>2, PTL DEF Spec

\* No call tells its sink "streaming" after its reader told it how it ended.
THEOREM StatusForwardHolds == Spec => StatusForward
  <1>1. ASSUME IInv, [Next]_vars
        PROVE  [\A c \in Calls : Rank[status[c]] <= Rank[status'[c]]]_vars
    <2>1. ASSUME NEW c \in Calls, Next
          PROVE  status'[c] = status[c] \/ Rank[status[c]] < Rank[status'[c]]
      <3>1. ASSUME NEW d \in Calls, NEW id \in Ids, Start(d, id)
            PROVE  status'[c] = status[c] \/ Rank[status[c]] < Rank[status'[c]]
        BY <1>1, <3>1 DEF Start, Goto, Emit, Rank, IInv, TypeOK, Announced
      <3>2. ASSUME NEW d \in Calls, StartFail(d) \/ Ready(d)
            PROVE  status'[c] = status[c] \/ Rank[status[c]] < Rank[status'[c]]
        BY <1>1, <3>2 DEF StartFail, Ready, Goto, Emit, Rank, IInv, TypeOK, Announced
      <3>3. ASSUME NEW d \in Calls, ReaderEnd(d)
            PROVE  status'[c] = status[c] \/ Rank[status[c]] < Rank[status'[c]]
        BY <1>1, <3>3 DEF ReaderEnd, Emit, Rank, IInv, TypeOK, Announced
      <3>4. \/ \E d \in Calls : (\E id \in Ids : Start(d, id)) \/ StartFail(d) \/ Ready(d) \/ ReaderEnd(d)
            \/ UNCHANGED status
        BY <2>1 DEF Next, StartStep, ReaderStep, RequestStep, SpawnFail, Spawn, Insert,
                    ReaderWake, ReaderPark, Forget, RequestPull, RequestEnd, RequestStall,
                    RequestReset, SendLookup, SendPush, CloseSend, Cancel
      <3> QED  BY <3>1, <3>2, <3>3, <3>4
    <2>2. \A c \in Calls : status[c] \in {"none", "connecting", "streaming", "done", "error"}
      BY <1>1 DEF IInv, TypeOK
    <2>3. \A w \in {"none", "connecting", "streaming", "done", "error"} : Rank[w] <= Rank[w]
      BY DEF Rank
    <2>4. CASE Next
      <3>1. ASSUME NEW c \in Calls
            PROVE  Rank[status[c]] <= Rank[status'[c]]
        <4>1. status'[c] \in {"none", "connecting", "streaming", "done", "error"}
          BY <1>1, NextIInv DEF IInv, TypeOK
        <4>2. \A v, w \in {"none", "connecting", "streaming", "done", "error"} :
                  Rank[v] < Rank[w] => Rank[v] <= Rank[w]
          BY DEF Rank
        <4> QED  BY <2>1, <2>2, <2>3, <2>4, <4>1, <4>2
      <3> QED  BY <3>1
    <2> QED  BY <1>1, <2>4
  <1>2. IInv /\ [Next]_vars => IInv'
    BY NextIInv
  <1> QED  BY InitIInv, <1>1, <1>2, PTL DEF Spec, StatusForward
=============================================================================
