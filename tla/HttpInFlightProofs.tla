------------------------- MODULE HttpInFlightProofs -------------------------
(***************************************************************************)
(* Theorems about HttpInFlight for any number of sends and request ids:    *)
(* every running send is within the reach of cancel, no entry outlives a   *)
(* finished send, and the executor implements CancelRegistry.              *)
(***************************************************************************)
EXTENDS HttpInFlight, TLAPS

LEMMA InitIInv == Init => IInv
  BY HttpInFlightAssumption
     DEF Init, IInv, TypeOK, TokenInv, EntryInv, SendInv, RunningIsCancellable

\* What IInv says of the entry of an id.
LEMMA EntryFacts ==
    ASSUME IInv, NEW id \in Ids, inFlight[id] # None
    PROVE  /\ inFlight[id] \in CancelEntry
           /\ inFlight[id].tx \in Sends
           /\ inFlight[id].token = token[inFlight[id].tx]
           /\ IdOf[inFlight[id].tx] = id
           /\ pc[inFlight[id].tx] \in {"racing", "cleanup", "abandoned"}
           /\ rx[inFlight[id].tx] = "armed"
  BY DEF IInv, TypeOK, CancelEntry, EntryInv

\* The entry that carries a send's token is that send's own.
LEMMA TokenNamesSend ==
    ASSUME IInv, NEW s \in Sends, NEW id \in Ids,
           inFlight[id] # None, pc[s] # "idle", inFlight[id].token = token[s]
    PROVE  inFlight[id].tx = s
  <1>1. token[s] # None
    BY DEF IInv, TokenInv
  <1>2. inFlight[id].tx \in Sends /\ token[inFlight[id].tx] = token[s]
    BY EntryFacts
  <1> QED  BY <1>1, <1>2 DEF IInv, TokenInv

LEMMA NextIInv ==
    ASSUME IInv, [Next]_vars
    PROVE  IInv'
  <1> USE HttpInFlightAssumption
  <1>1. ASSUME NEW s \in Sends, DrawToken(s)
        PROVE  IInv'
    BY <1>1 DEF DrawToken, Goto, IInv, TypeOK, TokenInv, EntryInv, CancelEntry, SendInv, RunningIsCancellable
  <1>2. ASSUME NEW s \in Sends, Register(s)
        PROVE  IInv'
    <2> DEFINE id == IdOf[s]
    <2>1. id \in Ids /\ pc[s] = "token" /\ rx[s] = "armed" /\ token[s] \in Nat
      BY <1>2 DEF Register, Goto, IInv, TypeOK, TokenInv, SendInv
    <2>2. /\ \A t \in Sends : t # s => pc'[t] = pc[t]
          /\ pc'[s] = "racing"
          /\ pc' \in [Sends -> {"idle", "token", "racing", "cleanup", "done", "abandoned"}]
      BY <1>2 DEF Register, Goto, IInv, TypeOK
    <2>3. /\ inFlight' \in [Ids -> CancelEntry \cup {None}]
          /\ inFlight'[id] = [token |-> token[s], tx |-> s]
          /\ \A j \in Ids : j # id => inFlight'[j] = inFlight[j]
      BY <1>2, <2>1 DEF Register, IInv, TypeOK, CancelEntry
    <2>4. /\ rx' \in [Sends -> {"armed", "fired", "dropped"}]
          /\ \A t \in Sends : rx'[t] # rx[t] =>
                inFlight[id] # None /\ t = inFlight[id].tx
          /\ inFlight[id] # None => rx'[inFlight[id].tx] = "fired"
      BY <1>2, <2>1, EntryFacts DEF Register, Fire, IInv, TypeOK
    <2>5. UNCHANGED <<sendSeq, token, result>>
      BY <1>2 DEF Register
    <2>6. rx'[s] = "armed"
      BY <2>1, <2>4, EntryFacts
    <2>7. TypeOK'
      BY <2>2, <2>3, <2>4, <2>5 DEF IInv, TypeOK
    <2>8. TokenInv'
      BY <2>1, <2>2, <2>5 DEF IInv, TokenInv
    <2>9. ASSUME NEW j \in Ids, inFlight'[j] # None
          PROVE  EntryInv(j)'
      <3>1. CASE j = id
        BY <3>1, <2>2, <2>3, <2>5, <2>6 DEF EntryInv
      <3>2. CASE j # id
        BY <3>2, <2>1, <2>2, <2>3, <2>4, <2>5, <2>9, EntryFacts DEF EntryInv
      <3> QED  BY <3>1, <3>2
    <2>10. ASSUME NEW t \in Sends
           PROVE  SendInv(t)'
      BY <2>1, <2>2, <2>4, <2>5, EntryFacts DEF IInv, SendInv
    <2>11. RunningIsCancellable'
      <3> SUFFICES ASSUME NEW t \in Sends, pc'[t] = "racing", rx'[t] # "fired"
                   PROVE  inFlight'[IdOf[t]] # None /\ inFlight'[IdOf[t]].tx = t
        BY <2>5 DEF RunningIsCancellable
      <3>1. CASE t = s
        BY <3>1, <2>1, <2>3
      <3>2. CASE t # s
        <4>1. pc[t] = "racing" /\ rx[t] # "fired"
          BY <3>2, <2>2, <2>4
        <4>2. inFlight[IdOf[t]] # None /\ inFlight[IdOf[t]].tx = t
          BY <4>1 DEF IInv, RunningIsCancellable
        <4>3. IdOf[t] # id
          BY <4>2, <2>4
        <4> QED  BY <4>2, <4>3, <2>3
      <3> QED  BY <3>1, <3>2
    <2> QED  BY <2>7, <2>8, <2>9, <2>10, <2>11 DEF IInv
  <1>3. ASSUME NEW s \in Sends, RaceCancelled(s)
        PROVE  IInv'
    BY <1>3 DEF RaceCancelled, Goto, IInv, TypeOK, TokenInv, EntryInv, CancelEntry, SendInv, RunningIsCancellable
  <1>4. ASSUME NEW s \in Sends, RaceResponse(s)
        PROVE  IInv'
    BY <1>4 DEF RaceResponse, Goto, IInv, TypeOK, TokenInv, EntryInv, CancelEntry, SendInv, RunningIsCancellable
  <1>5. ASSUME NEW s \in Sends, Cleanup(s)
        PROVE  IInv'
    <2> DEFINE entry == inFlight[IdOf[s]]
    <2>1. /\ IdOf[s] \in Ids /\ pc[s] = "cleanup"
          /\ pc' = [pc EXCEPT ![s] = "done"]
          /\ UNCHANGED <<sendSeq, token, result>>
      BY <1>5 DEF Cleanup, Goto
    <2>2. CASE entry # None /\ entry.token = token[s]
      <3>1. entry.tx = s /\ rx[s] = "armed"
        BY <2>1, <2>2, TokenNamesSend, EntryFacts
      <3>2. /\ inFlight' = [inFlight EXCEPT ![IdOf[s]] = None]
            /\ rx' = [rx EXCEPT ![s] = "dropped"]
        BY <1>5, <2>2, <3>1 DEF Cleanup
      <3>3. \A j \in Ids : inFlight[j] # None /\ j # IdOf[s] => inFlight[j].tx # s
        BY EntryFacts
      <3>4. TypeOK'
        BY <2>1, <3>2 DEF IInv, TypeOK
      <3>5. TokenInv'
        BY <2>1 DEF IInv, TypeOK, TokenInv
      <3>6. ASSUME NEW j \in Ids, inFlight'[j] # None
            PROVE  EntryInv(j)'
        <4>1. j # IdOf[s] /\ inFlight'[j] = inFlight[j] /\ inFlight[j] # None
          BY <2>1, <3>2, <3>6 DEF IInv, TypeOK
        <4> QED  BY <2>1, <3>2, <3>3, <4>1, EntryFacts DEF EntryInv, IInv, TypeOK
      <3>7. ASSUME NEW t \in Sends
            PROVE  SendInv(t)'
        BY <2>1, <3>2 DEF IInv, TypeOK, SendInv
      <3>8. RunningIsCancellable'
        BY <2>1, <2>2, <3>1, <3>2 DEF IInv, TypeOK, RunningIsCancellable
      <3> QED  BY <3>4, <3>5, <3>6, <3>7, <3>8 DEF IInv
    <2>3. CASE ~(entry # None /\ entry.token = token[s])
      <3>1. UNCHANGED <<inFlight, rx>>
        BY <1>5, <2>3 DEF Cleanup
      <3>2. \A j \in Ids : inFlight[j] # None => inFlight[j].tx # s
        BY <2>3, EntryFacts
      <3> QED  BY <2>1, <3>1, <3>2
               DEF IInv, TypeOK, TokenInv, EntryInv, CancelEntry, SendInv, RunningIsCancellable
    <2> QED  BY <2>2, <2>3
  <1>6. ASSUME NEW s \in Sends, Abandon(s)
        PROVE  IInv'
    BY <1>6 DEF Abandon, Goto, IInv, TypeOK, TokenInv, EntryInv, CancelEntry, SendInv, RunningIsCancellable
  <1>7. ASSUME NEW id \in Ids, Cancel(id)
        PROVE  IInv'
    BY <1>7, EntryFacts DEF Cancel, Fire, IInv, TypeOK, TokenInv, EntryInv, CancelEntry, SendInv, RunningIsCancellable
  <1>8. CASE UNCHANGED vars
    BY <1>8 DEF vars, IInv, TypeOK, TokenInv, EntryInv, SendInv, RunningIsCancellable
  <1> QED  BY <1>1, <1>2, <1>3, <1>4, <1>5, <1>6, <1>7, <1>8 DEF Next

THEOREM Inductive == Spec => []IInv
  <1>1. Init => IInv
    BY InitIInv
  <1>2. IInv /\ [Next]_vars => IInv'
    BY NextIInv
  <1> QED  BY <1>1, <1>2, PTL DEF Spec

----------------------------------------------------------------------------
\* However sends of one id overlap, each one that runs and was not told to
\* stop is the one its id's handle stops.
THEOREM RunningIsCancellableHolds == Spec => []RunningIsCancellable
  <1>1. IInv => RunningIsCancellable
    BY DEF IInv
  <1> QED  BY <1>1, Inductive, PTL

\* No entry of in_flight belongs to a send that ran to its end.
THEOREM NoStaleHandleHolds == Spec => []NoStaleHandle
  <1>1. IInv => NoStaleHandle
    BY EntryFacts DEF NoStaleHandle
  <1> QED  BY <1>1, Inductive, PTL

----------------------------------------------------------------------------
(* HttpExecutor implements CancelRegistry.                                 *)

\* A racing send is doomed or its id's entry is its own and still armed.
LEMMA DoomedOrArmed ==
    ASSUME IInv, NEW s \in running
    PROVE  s \in doomed \/ (/\ inFlight[IdOf[s]] # None
                            /\ inFlight[IdOf[s]].tx = s
                            /\ rx[s] = "armed")
  <1>1. s \in Sends /\ pc[s] = "racing" /\ IdOf[s] \in Ids
    BY HttpInFlightAssumption DEF running
  <1>2. CASE rx[s] = "fired"
    BY <1>1, <1>2 DEF doomed
  <1>3. CASE rx[s] # "fired"
    <2>1. inFlight[IdOf[s]] # None /\ inFlight[IdOf[s]].tx = s
      BY <1>1, <1>3 DEF IInv, RunningIsCancellable
    <2> QED  BY <1>1, <2>1, EntryFacts
  <1> QED  BY <1>2, <1>3

LEMMA InitRefines == Init => Promise!Init
  BY DEF Init, Promise!Init, running, doomed

\* Each step is one of the registry's, or leaves what it shows unchanged.
LEMMA NextRefines ==
    ASSUME IInv, [Next]_vars
    PROVE  [Promise!Next]_(Promise!vars)
  <1> USE HttpInFlightAssumption
  <1>1. ASSUME NEW s \in Sends, DrawToken(s)
        PROVE  UNCHANGED Promise!vars
    BY <1>1 DEF DrawToken, Goto, IInv, TypeOK, running, doomed, Promise!vars
  <1>2. ASSUME NEW s \in Sends, Register(s)
        PROVE  Promise!Start(s)
    <2>1. pc[s] = "token" /\ rx[s] = "armed" /\ result[s] = "none" /\ IdOf[s] \in Ids
      BY <1>2 DEF Register, Goto, IInv, SendInv
    <2>2. running' = running \cup {s}
      BY <1>2, <2>1 DEF Register, Goto, IInv, TypeOK, running
    <2>3. doomed' = doomed \cup Promise!RunningFor(IdOf[s])
      <3>1. ASSUME NEW t \in doomed'
            PROVE  t \in doomed \cup Promise!RunningFor(IdOf[s])
        <4>1. t \in Sends /\ pc'[t] = "racing" /\ rx'[t] = "fired" /\ t # s
          BY <1>2, <2>1, <3>1, EntryFacts DEF Register, Fire, IInv, TypeOK, doomed
        <4>2. pc[t] = "racing"
          BY <1>2, <4>1 DEF Register, Goto, IInv, TypeOK
        <4>3. rx[t] = "fired" \/ IdOf[t] = IdOf[s]
          BY <1>2, <2>1, <4>1, EntryFacts DEF Register, Fire, IInv, TypeOK
        <4> QED  BY <4>1, <4>2, <4>3 DEF doomed, running, Promise!RunningFor
      <3>2. ASSUME NEW t \in doomed \cup Promise!RunningFor(IdOf[s])
            PROVE  t \in doomed'
        <4>1. t \in running /\ t \in Sends /\ pc[t] = "racing"
          BY <3>2 DEF doomed, running, Promise!RunningFor
        <4>2. pc'[t] = "racing"
          BY <1>2, <2>1, <4>1 DEF Register, Goto, IInv, TypeOK
        <4>3. CASE t \in doomed
          BY <1>2, <4>1, <4>2, <4>3 DEF Register, Fire, IInv, TypeOK, doomed
        <4>4. CASE t \notin doomed
          <5>1. IdOf[t] = IdOf[s]
            BY <3>2, <4>4 DEF Promise!RunningFor
          <5>2. inFlight[IdOf[s]] # None /\ inFlight[IdOf[s]].tx = t
            BY <4>1, <4>4, <5>1, DoomedOrArmed
          <5> QED  BY <1>2, <4>1, <4>2, <5>2 DEF Register, Fire, IInv, TypeOK, doomed
        <4> QED  BY <4>3, <4>4
      <3> QED  BY <3>1, <3>2
    <2> QED  BY <1>2, <2>1, <2>2, <2>3 DEF Register, Promise!Start, running
  <1>3. ASSUME NEW s \in Sends, RaceCancelled(s)
        PROVE  Promise!Answer(s)
    <2>1. s \in running /\ rx[s] # "armed"
      BY <1>3 DEF RaceCancelled, Goto, running
    <2>2. s \in doomed
      BY <2>1, DoomedOrArmed
    <2> QED  BY <1>3, <2>1, <2>2
             DEF RaceCancelled, Goto, IInv, TypeOK, running, doomed, Promise!Answer
  <1>4. ASSUME NEW s \in Sends, RaceResponse(s)
        PROVE  Promise!Answer(s)
    BY <1>4 DEF RaceResponse, Goto, IInv, TypeOK, running, doomed, Promise!Answer
  <1>5. ASSUME NEW s \in Sends, Cleanup(s)
        PROVE  UNCHANGED Promise!vars
    <2>1. /\ \A t \in Sends : pc'[t] = "racing" <=> pc[t] = "racing"
          /\ \A t \in Sends : pc[t] = "racing" => rx'[t] = rx[t]
      BY <1>5, TokenNamesSend DEF Cleanup, Goto, IInv, TypeOK
    <2> QED  BY <1>5, <2>1 DEF Cleanup, running, doomed, Promise!vars
  <1>6. ASSUME NEW s \in Sends, Abandon(s)
        PROVE  Promise!Abandon(s)
    BY <1>6 DEF Abandon, Goto, IInv, TypeOK, running, doomed, Promise!Abandon
  <1>7. ASSUME NEW id \in Ids, Cancel(id)
        PROVE  Promise!Cancel(id)
    <2>1. /\ running' = running
          /\ UNCHANGED result
          /\ rx' = [rx EXCEPT ![inFlight[id].tx] = "fired"]
          /\ inFlight[id].tx \in Sends
          /\ IdOf[inFlight[id].tx] = id
          /\ rx \in [Sends -> {"armed", "fired", "dropped"}]
          /\ UNCHANGED pc
      BY <1>7, EntryFacts DEF Cancel, Fire, running, IInv, TypeOK
    <2>2. ASSUME NEW t \in doomed'
          PROVE  t \in doomed \cup Promise!RunningFor(id)
      BY <2>1, <2>2 DEF doomed, running, Promise!RunningFor
    <2>3. ASSUME NEW t \in doomed \cup Promise!RunningFor(id)
          PROVE  t \in doomed'
      <3>1. CASE t \in doomed
        BY <2>1, <3>1 DEF doomed
      <3>2. CASE t \notin doomed
        <4>1. t \in running /\ IdOf[t] = id
          BY <2>3, <3>2 DEF Promise!RunningFor
        <4>2. inFlight[id].tx = t
          BY <3>2, <4>1, DoomedOrArmed
        <4> QED  BY <2>1, <4>1, <4>2 DEF doomed, running
      <3> QED  BY <3>1, <3>2
    <2>4. doomed' = doomed \cup Promise!RunningFor(id)
      BY <2>2, <2>3
    <2> QED  BY <2>1, <2>4 DEF Promise!Cancel
  <1>8. CASE UNCHANGED vars
    BY <1>8 DEF vars, running, doomed, Promise!vars
  <1> QED  BY <1>1, <1>2, <1>3, <1>4, <1>5, <1>6, <1>7, <1>8 DEF Next, Promise!Next

\* At most one send of an id runs undoomed, starting another or cancelling the id
\* dooms it, and a send answers Cancelled exactly when it was doomed.
THEOREM KeepsPromiseHolds == Spec => KeepsPromise
  <1>1. Init => Promise!Init
    BY InitRefines
  <1>2. IInv /\ [Next]_vars => [Promise!Next]_(Promise!vars)
    BY NextRefines
  <1> QED  BY <1>1, <1>2, Inductive, PTL DEF Spec, KeepsPromise, Promise!Spec
=============================================================================
