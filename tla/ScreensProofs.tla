--------------------------- MODULE ScreensProofs ---------------------------
(***************************************************************************)
(* Theorems about Screens, for every value of the constants.  Each screen  *)
(* has an inductive invariant of its own, which says nothing while another *)
(* screen runs; the theorem is about SpecAll and is read off it.           *)
(***************************************************************************)
EXTENDS Screens, FiniteSetTheorems, SequenceTheorems, WellFoundedInduction, TLAPS

-----------------------------------------------------------------------------
(* The draft of a gRPC request. *)

\* An imported body is shown, and the next schema does not seed the message.
DraftInv == gdCarried => ~gdBlank /\ Gd!Shown.kind = "body"

\* A save keeps what is shown.
LEMMA SaveKeeps == Gd!Save(Gd!Shown) => Gd!Shown' = Gd!Shown
  BY DEF Gd!Save, Gd!Shown

LEMMA DraftInductive ==
    /\ Gd!Init => DraftInv
    /\ DraftInv /\ [Gd!Next]_gdVars => DraftInv'
  <1>1. Gd!Init => DraftInv
    BY DEF Gd!Init, DraftInv
  <1>2. ASSUME DraftInv, UNCHANGED <<gdCarried, gdBlank>>, Gd!Shown' = Gd!Shown
        PROVE  DraftInv'
    BY <1>2 DEF DraftInv
  <1>3. ASSUME UNCHANGED <<gdSaved, gdEdited>> PROVE Gd!Shown' = Gd!Shown
    BY <1>3 DEF Gd!Shown
  <1>4. ASSUME DraftInv, UNCHANGED gdVars PROVE DraftInv'
    BY <1>2, <1>3, <1>4 DEF gdVars
  <1>5. ASSUME DraftInv, Gd!Next PROVE DraftInv'
    <2>1. CASE Gd!OpenMenu \/ Gd!CloseMenu \/ Gd!Refresh \/ Gd!Built \/ Gd!StreamStatus
      BY <1>2, <1>3, <1>5, <2>1
         DEF Gd!OpenMenu, Gd!CloseMenu, Gd!Refresh, Gd!Built, Gd!StreamStatus, Gd!message
    <2>2. CASE \E t \in {"message", "metadata", "auth"}, md \in {"form", "editor"} :
                   Gd!ShowTab(t, md)
      BY <1>2, <1>3, <1>5, <2>2 DEF Gd!ShowTab, Gd!message
    <2>3. CASE Gd!ChangeSource \/ Gd!ChangeTarget \/ Gd!Start
      BY <1>2, <1>5, <2>3, SaveKeeps DEF Gd!ChangeSource, Gd!ChangeTarget, Gd!Start
    <2>4. CASE Gd!Typing \/ \E m \in Methods : Gd!SelectMethod(m)
      BY <2>4 DEF Gd!Typing, Gd!SelectMethod, DraftInv
    <2>5. ASSUME NEW m \in Methods \cup {None},
                 NEW body \in {Gd!Plain("empty"), Gd!Plain("body")}, Gd!Import(m, body)
          PROVE  DraftInv'
      <3> SUFFICES ASSUME gdCarried' PROVE ~gdBlank' /\ Gd!Shown'.kind = "body"
        BY DEF DraftInv
      <3>1. m # None /\ body # Gd!Plain("empty") /\ gdEdited' = None
        BY <2>5 DEF Gd!Import
      <3>2. ~gdBlank' /\ gdSaved' = body
        BY <2>5, <3>1 DEF Gd!Import, Gd!Reseeds, Gd!Save
      <3> QED  BY <3>1, <3>2 DEF Gd!Shown, Gd!Plain
    \* A description that comes late seeds a blank message only.
    <2>6. ASSUME NEW m \in Methods, Gd!Described(m) PROVE DraftInv'
      <3> SUFFICES ASSUME gdCarried' PROVE ~gdBlank' /\ Gd!Shown'.kind = "body"
        BY DEF DraftInv
      <3>1. ~gdBlank /\ Gd!Shown.kind = "body"
        BY <1>5, <2>6 DEF DraftInv, Gd!Described
      <3>2. ~gdBlank' /\ UNCHANGED <<gdSaved, gdEdited>>
        BY <2>6, <3>1 DEF Gd!Described
      <3> QED  BY <3>1, <3>2 DEF Gd!Shown
    <2> QED  BY <1>5, <2>1, <2>2, <2>3, <2>4, <2>5, <2>6 DEF Gd!Next
  <1> QED  BY <1>1, <1>4, <1>5

\* No description that is still to come puts an empty form over an imported body
\* (applySchema), whatever the methods and the order of the answers.
THEOREM ImportedBodyKeptHolds == SpecAll => []ImportedBodyKept
  <1> DEFINE Inv == part = "grpc" => DraftInv
  <1>1. InitAll => Inv
    BY DraftInductive DEF InitAll
  <1>2. Inv /\ [NextAll]_allVars => Inv'
    BY DraftInductive DEF NextAll, allVars, gdVars
  <1>3. Inv => ImportedBodyKept
    BY DEF DraftInv, ImportedBodyKept, Gd!ImportedBodyKept
  <1> QED  BY <1>1, <1>2, <1>3, PTL DEF SpecAll

-----------------------------------------------------------------------------
(* The results of gRPC calls. *)

\* A read of the preload effect.
Preload == [run : Int, step : {"list", "get"}, id : Nat \cup {None}]

\* No read of the preload effect is of a later run, and one that will set the
\* latest response was begun with neither a response nor an error; over an error
\* no latest response is left that the effect is not about to drop.
ResultsInv ==
    /\ grRound \in Int /\ grStored \in Nat /\ grLoading \in BOOLEAN
    /\ grPreloads \subseteq Preload
    /\ \A p \in grPreloads :
          /\ p.run <= grRound
          /\ p.run = grRound /\ p.step = "get" => grResponse = None /\ ~grFailed
    /\ grFailed /\ grResponse = None =>
          grLatest = None \/ \E p \in grPreloads : p.run = grRound /\ p.step = "list"

\* A run of the effect outdates the reads of those before.
LEMMA RerunStarts ==
    ASSUME ResultsInv, grLoading' \in BOOLEAN, grStored' \in Nat, grRound' = grRound + 1,
           grPreloads' = grPreloads \cup {[run |-> grRound + 1, step |-> "list", id |-> None]}
    PROVE  ResultsInv'
  <1> DEFINE new == [run |-> grRound + 1, step |-> "list", id |-> None]
  <1>1. /\ new \in Preload /\ new.run = grRound' /\ new.step = "list"
        /\ grPreloads' = grPreloads \cup {new} /\ grRound' \in Int
    BY DEF Preload, ResultsInv
  <1>2. \A p \in grPreloads : p \in Preload /\ p.run \in Int /\ p.run < grRound'
    BY DEF Preload, ResultsInv
  <1> HIDE DEF new
  <1>3. \A p \in grPreloads' :
          /\ p.run <= grRound'
          /\ p.run = grRound' /\ p.step = "get" => FALSE
    BY <1>1, <1>2
  <1> QED  BY <1>1, <1>2, <1>3 DEF ResultsInv

LEMMA ResultsInductive ==
    /\ Gr!Init => ResultsInv
    /\ ResultsInv /\ [Gr!Next]_grVars => ResultsInv'
  <1>1. Gr!Init => ResultsInv
    <2> SUFFICES ASSUME Gr!Init PROVE ResultsInv
      OBVIOUS
    <2> DEFINE first == [run |-> 0, step |-> "list", id |-> None]
    <2>1. first \in Preload /\ first.run = 0 /\ first.step = "list"
      BY DEF Preload
    <2>0. grPreloads = {first}
      BY DEF Gr!Init
    <2>2. grRound = 0 /\ grStored \in Nat
      BY DEF Gr!Init
    <2>4. grLoading \in BOOLEAN /\ ~grFailed
      BY DEF Gr!Init
    <2> HIDE DEF first
    <2>3. /\ grPreloads \subseteq Preload
          /\ \A p \in grPreloads : p.run <= grRound /\ p.step # "get"
      BY <2>0, <2>1, <2>2
    <2> QED  BY <2>2, <2>3, <2>4 DEF ResultsInv
  <1>2. ASSUME ResultsInv,
               UNCHANGED <<grStored, grRound, grLoading, grPreloads, grResponse, grFailed, grLatest>>
        PROVE  ResultsInv'
    BY <1>2 DEF ResultsInv
  <1>3. ASSUME ResultsInv, Gr!Next PROVE ResultsInv'
    <2>1. CASE Gr!Call
      <3>1. CASE grFailed
        BY <1>3, <2>1, <3>1, RerunStarts DEF Gr!Call, Gr!Rerun, ResultsInv
      <3>2. CASE ~grFailed
        BY <1>3, <2>1, <3>2 DEF Gr!Call, Gr!pre, ResultsInv
      <3> QED  BY <3>1, <3>2
    <2>2. CASE Gr!CallOk
      <3>1. grLoading' = FALSE /\ grStored' = grStored + 1 /\ Gr!Rerun
        BY <2>2 DEF Gr!CallOk
      <3>2. grStored' \in Nat
        BY <1>3, <3>1 DEF ResultsInv
      <3> QED  BY <1>3, <3>1, <3>2, RerunStarts DEF Gr!Rerun
    <2>3. CASE Gr!CallFails
      <3>1. CASE grFailed
        BY <1>3, <2>3, <3>1 DEF Gr!CallFails, Gr!pre, ResultsInv
      <3>2. CASE ~grFailed
        BY <1>3, <2>3, <3>2, RerunStarts DEF Gr!CallFails, Gr!Rerun, ResultsInv
      <3> QED  BY <3>1, <3>2
    <2>4. CASE Gr!Clear
      BY <1>3, <2>4, RerunStarts DEF Gr!Clear, ResultsInv
    <2>5. ASSUME NEW p \in grPreloads, Gr!ListAnswer(p) PROVE ResultsInv'
      <3> DEFINE get == [p EXCEPT !.step = "get", !.id = grStored]
                 wanted == Gr!Current(p) /\ grStored > 0 /\ grResponse = None /\ ~grFailed
      <3>1. /\ p.step = "list"
            /\ grPreloads' = (grPreloads \ {p}) \cup IF wanted THEN {get} ELSE {}
            /\ UNCHANGED <<grStored, grRound, grLoading, grResponse, grFailed>>
        BY <2>5 DEF Gr!ListAnswer, Gr!live
      <3>2. p \in Preload /\ get \in Preload /\ get.run = p.run
        BY <1>3 DEF ResultsInv, Preload
      <3>3. p.run = grRound /\ grFailed => grLatest' = None
        BY <2>5 DEF Gr!ListAnswer, Gr!Current
      <3>4. p.run # grRound => grLatest' = grLatest
        BY <2>5 DEF Gr!ListAnswer, Gr!Current
      <3> HIDE DEF get
      <3>5. \A q \in grPreloads' :
              /\ q \in Preload /\ q.run <= grRound'
              /\ q.run = grRound' /\ q.step = "get" => grResponse' = None /\ ~grFailed'
        BY <1>3, <3>1, <3>2 DEF ResultsInv, Gr!Current
      <3>6. grFailed' /\ grResponse' = None =>
              grLatest' = None \/ \E q \in grPreloads' : q.run = grRound' /\ q.step = "list"
        BY <1>3, <3>1, <3>3, <3>4 DEF ResultsInv
      <3> QED  BY <1>3, <3>1, <3>5, <3>6 DEF ResultsInv
    <2>6. ASSUME NEW p \in grPreloads, Gr!GetAnswer(p) PROVE ResultsInv'
      BY <1>3, <2>6 DEF Gr!GetAnswer, Gr!Current, Gr!live, ResultsInv
    <2>7. CASE \/ Gr!List \/ Gr!ToggleHistory \/ Gr!AskClear
               \/ \E n \in 1..MaxStored : Gr!Pick(n) \/ Gr!PickAnswer(n)
      BY <1>2, <1>3, <2>7
         DEF Gr!List, Gr!ToggleHistory, Gr!AskClear, Gr!Pick, Gr!PickAnswer, Gr!live, Gr!pre
    <2> QED  BY <1>3, <2>1, <2>2, <2>3, <2>4, <2>5, <2>6, <2>7 DEF Gr!Next
  <1> QED  BY <1>1, <1>2, <1>3 DEF grVars

\* A response of an earlier session never stands in the place of an error
\* (useGrpcHistory), however many calls overlap the reads of the history.
THEOREM FailureNotHiddenHolds == SpecAll => []FailureNotHidden
  <1> DEFINE Inv == part = "results" => ResultsInv
  <1>1. InitAll => Inv
    BY ResultsInductive DEF InitAll
  <1>2. Inv /\ [NextAll]_allVars => Inv'
    BY ResultsInductive DEF NextAll, allVars, grVars
  <1>3. ResultsInv => Gr!FailureNotHidden
    BY DEF ResultsInv, Gr!FailureNotHidden, Gr!Shown, Gr!Badge
  <1>4. Inv => FailureNotHidden
    BY <1>3 DEF FailureNotHidden
  <1> QED  BY <1>1, <1>2, <1>4, PTL DEF SpecAll

-----------------------------------------------------------------------------
(* An event stream. *)

Frame == [seq : Int, type : Types]

\* Undisturbed by an earlier stream, the last frame that is kept is the last that
\* was sent.
StreamInv ==
    /\ streamUpcoming \in Nat /\ streamLate \in Int /\ streamGot \in Seq(Frame)
    /\ streamMixed \in BOOLEAN /\ streamHeard \in Nat
    /\ ~streamMixed => /\ streamHeard = streamUpcoming
                       /\ Sr!Total = streamHeard

LEMMA LastKept ==
    ASSUME NEW s \in Seq(Frame), NEW f \in Frame
    PROVE  /\ Sr!Capped(Append(s, f)) \in Seq(Frame)
           /\ Sr!Capped(Append(s, f)) # <<>>
           /\ Sr!Last(Sr!Capped(Append(s, f))) = f
  <1> DEFINE t == Append(s, f)
             from == Len(t) - Cap + 1
  <1>1. /\ t \in Seq(Frame) /\ Len(t) = Len(s) + 1 /\ t[Len(t)] = f
        /\ Len(t) \in Nat /\ t # <<>>
    OBVIOUS
  <1>2. Cap \in Nat \ {0}
    BY ScreensAssumption
  <1> HIDE DEF t
  <1>3. CASE Len(t) > Cap
    <2>1. from \in 1..Len(t)
      BY <1>1, <1>2, <1>3
    <2> DEFINE u == SubSeq(t, from, Len(t))
    <2>2. /\ u \in Seq(Frame) /\ Len(u) = Cap
          /\ \A i \in 1..Cap : u[i] = t[from + i - 1]
      <3> HIDE DEF from
      <3>1. /\ u \in Seq(Frame) /\ Len(u) = Len(t) - from + 1
            /\ \A i \in 1..(Len(t) - from + 1) : u[i] = t[from + i - 1]
        BY <1>1, <2>1, SubSeqProperties
      <3>2. Len(t) - from + 1 = Cap
        BY <1>1, <1>2 DEF from
      <3> QED  BY <3>1, <3>2
    <2>3. u[Cap] = f
      BY <1>1, <1>2, <2>2
    <2>4. Sr!Capped(t) = u
      BY <1>3 DEF Sr!Capped
    <2> HIDE DEF u
    <2>5. u # <<>> /\ Sr!Last(u) = f
      BY <1>2, <2>2, <2>3 DEF Sr!Last
    <2> QED  BY <2>2, <2>4, <2>5 DEF t
  <1>4. CASE ~(Len(t) > Cap)
    BY <1>1, <1>4 DEF Sr!Capped, Sr!Last, t
  <1> QED  BY <1>3, <1>4

LEMMA StreamInductive ==
    /\ Sr!Init => StreamInv
    /\ StreamInv /\ [Sr!Next]_streamVars => StreamInv'
  <1>0. ASSUME streamGot = <<>> PROVE streamGot \in Seq(Frame) /\ Sr!Total = 0
    BY <1>0, EmptySeq DEF Sr!Total
  <1>1. ASSUME Sr!Init PROVE StreamInv
    <2>1. /\ streamUpcoming = 0 /\ streamHeard = 0
          /\ streamGot = <<>> /\ streamLate = 0
      BY <1>1 DEF Sr!Init
    <2>3. streamMixed \in BOOLEAN
      BY <1>1 DEF Sr!Init
    <2>2. streamGot \in Seq(Frame) /\ Sr!Total = 0
      BY <1>0, <2>1
    <2> QED  BY <2>1, <2>2, <2>3 DEF StreamInv
  <1>2. ASSUME StreamInv, streamLate' \in Int,
               UNCHANGED <<streamUpcoming, streamGot, streamMixed, streamHeard>>
        PROVE  StreamInv'
    BY <1>2 DEF StreamInv, Sr!Total
  <1>3. ASSUME StreamInv, Sr!Next PROVE StreamInv'
    <2>1. CASE Sr!Send
      <3>1. /\ streamUpcoming' = 0 /\ streamHeard' = 0 /\ streamMixed' = FALSE
            /\ streamGot' = <<>> /\ streamLate' = streamLate
        BY <2>1 DEF Sr!Send
      <3>2. streamGot' \in Seq(Frame) /\ Sr!Total' = 0
        BY <3>1, EmptySeq DEF Sr!Total
      <3> QED  BY <1>3, <3>1, <3>2 DEF StreamInv
    <2>2. ASSUME NEW type \in Types, Sr!AppendFrame(type) PROVE StreamInv'
      <3> DEFINE f == [seq |-> streamUpcoming, type |-> type]
      <3>1. f \in Frame /\ f.seq = streamUpcoming
        BY <1>3 DEF StreamInv, Frame
      <3>2. streamGot' = Sr!Capped(Append(streamGot, f))
        BY <2>2 DEF Sr!AppendFrame, Sr!Arrive
      <3>3. streamUpcoming' = streamUpcoming + 1 /\ streamHeard' = streamHeard + 1
            /\ UNCHANGED <<streamLate, streamMixed>>
        BY <2>2 DEF Sr!AppendFrame
      <3> HIDE DEF f
      <3>4. /\ streamGot' \in Seq(Frame) /\ streamGot' # <<>> /\ Sr!Last(streamGot') = f
        BY <1>3, <3>1, <3>2, LastKept DEF StreamInv
      <3>5. Sr!Total' = streamUpcoming + 1
        <4>1. Sr!Last(streamGot').seq = streamUpcoming
          BY <3>1, <3>4
        <4> QED  BY <3>4, <4>1 DEF Sr!Total
      <3> QED  BY <1>3, <3>3, <3>4, <3>5 DEF StreamInv
    <2>3. ASSUME NEW type \in Types, Sr!LateFrame(type) PROVE StreamInv'
      <3> DEFINE f == [seq |-> MaxFrames - streamLate, type |-> type]
      <3>1. f \in Frame
        BY <1>3, ScreensAssumption DEF StreamInv, Frame
      <3>2. streamGot' = Sr!Capped(Append(streamGot, f))
        BY <2>3 DEF Sr!LateFrame, Sr!Arrive
      <3>3. streamLate' = streamLate - 1 /\ streamMixed' = TRUE
            /\ UNCHANGED <<streamUpcoming, streamHeard>>
        BY <2>3 DEF Sr!LateFrame
      <3> HIDE DEF f
      <3>4. streamGot' \in Seq(Frame)
        BY <1>3, <3>1, <3>2, LastKept DEF StreamInv
      <3> QED  BY <1>3, <3>3, <3>4 DEF StreamInv
    <2>4. CASE Sr!StreamEnds \/ Sr!Cancel
      <3>1. UNCHANGED <<streamUpcoming, streamGot, streamMixed, streamHeard>>
        BY <2>4 DEF Sr!StreamEnds, Sr!Cancel, Sr!EndStream, Sr!store
      <3>2. streamLate' \in Int
        BY <1>3, <2>4, ScreensAssumption DEF Sr!StreamEnds, Sr!Cancel, StreamInv
      <3> QED  BY <1>2, <1>3, <3>1, <3>2
    <2>5. CASE \/ Sr!SetOpen \/ Sr!OpenSearch \/ Sr!CloseSearch \/ Sr!ToggleRaw
               \/ Sr!SwitchRequest \/ Sr!OpenTimeline \/ Sr!OpenFrames
               \/ Sr!Detach \/ Sr!Pin \/ Sr!ScrollToBottom
               \/ \E kept \in SUBSET Types : Sr!SetFilter(kept)
               \/ \E g \in DOMAIN Sr!Groups : Sr!PickGroup(g)
               \/ \E n \in 0..streamBelow : Sr!ScrollTo(n)
               \/ \E i \in DOMAIN Sr!Shown : Sr!ToggleRow(Sr!Shown[i])
      <3>1. UNCHANGED <<streamLate, streamUpcoming, streamGot, streamMixed, streamHeard>>
        BY <2>5 DEF Sr!SetOpen, Sr!OpenSearch, Sr!CloseSearch, Sr!ToggleRaw,
                    Sr!SwitchRequest, Sr!OpenTimeline, Sr!OpenFrames, Sr!Detach, Sr!Pin,
                    Sr!ScrollToBottom, Sr!SetFilter, Sr!PickGroup, Sr!ScrollTo,
                    Sr!ToggleRow, Sr!store, Sr!source
      <3> QED  BY <1>2, <1>3, <3>1 DEF StreamInv
    <2> QED  BY <1>3, <2>1, <2>2, <2>3, <2>4, <2>5 DEF Sr!Next
  <1> QED  BY <1>1, <1>2, <1>3 DEF streamVars, StreamInv

\* The status bar counts the frames the stream has sent, however few of them are
\* kept (totalCount of SseStreamTab, capPushMany of the store).
THEOREM CountsWhatWasSentHolds == SpecAll => []CountsWhatWasSent
  <1> DEFINE Inv == part = "stream" => StreamInv
  <1>1. InitAll => Inv
    BY StreamInductive DEF InitAll
  <1>2. Inv /\ [NextAll]_allVars => Inv'
    BY StreamInductive DEF NextAll, allVars, streamVars
  <1>3. StreamInv => Sr!CountsWhatWasSent
    BY DEF StreamInv, Sr!CountsWhatWasSent, Sr!StatusBar
  <1>4. Inv => CountsWhatWasSent
    BY <1>3 DEF CountsWhatWasSent
  <1> QED  BY <1>1, <1>2, <1>4, PTL DEF SpecAll

-----------------------------------------------------------------------------
(* WebSocket connections. *)

WsMessage == Nat \X Nat
\* A transcript without repetitions.
Unrepeated == {s \in Seq(WsMessage) : Ws!IsInjective(s)}
\* A load of the transcript, of which either answer may be missing.
Hydration == [messages : Unrepeated \cup {None}, up : BOOLEAN \cup {None}]
WsEvent == [of : Conns, kind : {"status"}, what : {"open", "closed", "error"}]
             \cup [of : Conns, kind : {"message"}, what : WsMessage]

\* No transcript that is shown or that was read repeats a message; a connection
\* that is up has a session.
WsInv ==
    /\ wsActive \in Conns \cup {None}
    /\ wsUp \in [Conns -> BOOLEAN] /\ wsSessions \in [Conns -> Seq(Nat)]
    /\ \A c \in Conns : wsUp[c] => wsSessions[c] # <<>>
    /\ wsBus \in Seq(WsEvent)
    /\ wsTranscript \in [Conns -> Unrepeated]
    /\ wsHydrating \in [Conns -> Hydration \cup {None}]

\* The store appends no message it has.
LEMMA AppendedKeeps ==
    ASSUME NEW s \in Unrepeated, NEW m \in WsMessage
    PROVE  Ws!Appended(s, m) \in Unrepeated
  <1>1. CASE m \in Ws!ToSet(s)
    BY <1>1 DEF Ws!Appended
  <1>2. CASE m \notin Ws!ToSet(s)
    <2> DEFINE t == Append(s, m)
    <2>1. /\ s \in Seq(WsMessage) /\ Len(s) \in Nat /\ DOMAIN s = 1..Len(s)
          /\ \A i, j \in 1..Len(s) : s[i] = s[j] => i = j
          /\ \A i \in 1..Len(s) : s[i] # m
      BY <1>2 DEF Unrepeated, Ws!IsInjective, Ws!ToSet
    <2>2. /\ t \in Seq(WsMessage) /\ DOMAIN t = 1..(Len(s) + 1) /\ t[Len(s) + 1] = m
          /\ \A i \in 1..Len(s) : t[i] = s[i]
      BY <2>1
    <2> HIDE DEF t
    <2>3. ASSUME NEW i \in 1..(Len(s) + 1), NEW j \in 1..(Len(s) + 1), t[i] = t[j]
          PROVE  i = j
      <3>1. i \in 1..Len(s) \/ i = Len(s) + 1
        BY <2>1
      <3>2. j \in 1..Len(s) \/ j = Len(s) + 1
        BY <2>1
      <3> QED  BY <2>1, <2>2, <2>3, <3>1, <3>2
    <2>4. Ws!IsInjective(t)
      BY <2>2, <2>3 DEF Ws!IsInjective
    <2> QED  BY <1>2, <2>2, <2>4 DEF Ws!Appended, Unrepeated, t
  <1> QED  BY <1>1, <1>2

\* Nor does the newest session of a connection.
LEMMA NewestUnrepeated ==
    ASSUME NEW c \in Conns, wsSessions \in [Conns -> Seq(Nat)]
    PROVE  Ws!Newest(c) \in Unrepeated
  <1>1. wsSessions[c] \in Seq(Nat)
    OBVIOUS
  <1>2. CASE wsSessions[c] = <<>>
    BY <1>2, EmptySeq DEF Ws!Newest, Unrepeated, Ws!IsInjective
  <1>3. CASE wsSessions[c] # <<>>
    <2> DEFINE n == Len(wsSessions[c])
               last == wsSessions[c][n]
               t == [k \in 1..last |-> <<n, k>>]
    <2>1. n \in Nat /\ last \in Nat
      BY <1>1, <1>3
    <2>2. Ws!Newest(c) = t
      BY <1>3 DEF Ws!Newest, Ws!MessagesOf
    <2> HIDE DEF n, last
    <2>3. t \in Seq(WsMessage)
      BY <2>1 DEF WsMessage
    <2>4. Ws!IsInjective(t)
      BY <2>1 DEF Ws!IsInjective
    <2> QED  BY <2>2, <2>3, <2>4 DEF Unrepeated
  <1> QED  BY <1>2, <1>3

\* A message of the backend is counted in the newest session and told.
LEMMA Told ==
    ASSUME WsInv, NEW c \in Conns, wsUp[c],
           LET n == Len(wsSessions[c]) IN
           /\ wsSessions' = [wsSessions EXCEPT ![c][n] = @ + 1]
           /\ wsBus' = Append(wsBus, [of |-> c, kind |-> "message",
                                      what |-> <<n, wsSessions[c][n] + 1>>]),
           UNCHANGED <<wsActive, wsUp, wsTranscript, wsHydrating>>
    PROVE  WsInv'
  <1> DEFINE s == wsSessions[c]
             n == Len(s)
             m == <<n, s[n] + 1>>
             e == [of |-> c, kind |-> "message", what |-> m]
             t == [s EXCEPT ![n] = @ + 1]
  <1>1. s \in Seq(Nat) /\ s # <<>>
    BY DEF WsInv
  <1>2. n \in Nat /\ s[n] \in Nat /\ n \in 1..Len(s) /\ s \in [1..Len(s) -> Nat]
    BY <1>1
  <1>3. t \in Seq(Nat) /\ Len(t) = Len(s) /\ t # <<>>
    BY <1>1, <1>2
  <1>4. e \in WsEvent
    BY <1>2 DEF WsEvent, WsMessage
  <1>5. wsSessions' = [wsSessions EXCEPT ![c] = t] /\ wsBus' = Append(wsBus, e)
    OBVIOUS
  <1> HIDE DEF t, e, m, n
  <1>6. wsBus' \in Seq(WsEvent)
    BY <1>4, <1>5 DEF WsInv
  <1>7. wsSessions' \in [Conns -> Seq(Nat)]
    BY <1>3, <1>5 DEF WsInv
  <1>8. \A d \in Conns : wsUp[d] => wsSessions'[d] # <<>>
    BY <1>3, <1>5 DEF WsInv
  <1> QED  BY <1>6, <1>7, <1>8 DEF WsInv

LEMMA WsInductive ==
    /\ Ws!Init => WsInv
    /\ WsInv /\ [Ws!Next]_wsVars => WsInv'
  <1>1. ASSUME Ws!Init PROVE WsInv
    <2>1. <<>> \in Unrepeated
      BY EmptySeq DEF Unrepeated, Ws!IsInjective
    <2>2. /\ wsActive \in Conns \cup {None}
          /\ wsUp \in [Conns -> BOOLEAN] /\ \A c \in Conns : ~wsUp[c]
          /\ wsHydrating \in [Conns -> Hydration \cup {None}]
      BY <1>1 DEF Ws!Init
    <2>3. /\ wsSessions \in [Conns -> Seq(Nat)] /\ wsBus \in Seq(WsEvent)
          /\ wsTranscript \in [Conns -> Unrepeated]
      BY <1>1, <2>1, EmptySeq DEF Ws!Init
    <2> QED  BY <2>2, <2>3 DEF WsInv
  <1>2. ASSUME WsInv, wsActive' \in Conns \cup {None},
               UNCHANGED <<wsUp, wsSessions, wsBus, wsTranscript, wsHydrating>>
        PROVE  WsInv'
    BY <1>2 DEF WsInv
  <1>3. ASSUME WsInv, Ws!Next PROVE WsInv'
    <2>1. CASE Ws!Listen
      <3> DEFINE e == Head(wsBus)
      <3>1. wsBus \in Seq(WsEvent) /\ wsBus # <<>> /\ wsBus' = Tail(wsBus)
        BY <1>3, <2>1 DEF Ws!Listen, WsInv
      <3>2. e \in WsEvent /\ wsBus' \in Seq(WsEvent)
        BY <3>1, HeadTailProperties
      <3>3. UNCHANGED <<wsActive, wsUp, wsSessions, wsHydrating>>
        BY <2>1 DEF Ws!Listen
      <3>4. wsTranscript' \in [Conns -> Unrepeated]
        <4>1. CASE Ws!OnStatus(e)
          BY <1>3, <4>1 DEF Ws!OnStatus, WsInv
        <4>2. CASE Ws!OnMessage(e)
          <5>1. /\ e.of \in Conns /\ e.what \in WsMessage
                /\ wsTranscript' = [wsTranscript EXCEPT
                                      ![e.of] = Ws!Appended(wsTranscript[e.of], e.what)]
            BY <3>2, <4>2 DEF Ws!OnMessage, WsEvent
          <5> HIDE DEF e
          <5>2. Ws!Appended(wsTranscript[e.of], e.what) \in Unrepeated
            BY <1>3, <5>1, AppendedKeeps DEF WsInv
          <5> QED  BY <1>3, <5>1, <5>2 DEF WsInv
        <4> QED  BY <2>1, <4>1, <4>2 DEF Ws!Listen
      <3> QED  BY <1>3, <3>2, <3>3, <3>4 DEF WsInv
    <2>2. CASE Ws!Toggle
      <3>1. wsActive \in Conns /\ UNCHANGED <<wsActive, wsSessions, wsTranscript, wsHydrating>>
        BY <1>3, <2>2 DEF Ws!Toggle, WsInv
      <3>2. CASE Ws!Live(wsStatus[wsActive])
        <4> DEFINE e == [of |-> wsActive, kind |-> "status", what |-> "closed"]
        <4>1. wsUp' = [wsUp EXCEPT ![wsActive] = FALSE] /\ wsBus' = Append(wsBus, e)
          BY <2>2, <3>2 DEF Ws!Toggle
        <4>2. e \in WsEvent
          BY <3>1 DEF WsEvent
        <4> HIDE DEF e
        <4>3. wsBus' \in Seq(WsEvent)
          BY <1>3, <4>1, <4>2 DEF WsInv
        <4>4. wsUp' \in [Conns -> BOOLEAN] /\ \A c \in Conns : wsUp'[c] => wsUp[c]
          BY <1>3, <4>1 DEF WsInv
        <4> QED  BY <1>3, <3>1, <4>3, <4>4 DEF WsInv
      <3>3. CASE ~Ws!Live(wsStatus[wsActive])
        BY <1>2, <1>3, <2>2, <3>1, <3>3 DEF Ws!Toggle, WsInv
      <3> QED  BY <3>2, <3>3
    <2>3. CASE Ws!Connect \/ Ws!ClearHistory
      <3> DEFINE t == [wsTranscript EXCEPT ![wsActive] = <<>>]
      <3>1. wsTranscript' = t /\ UNCHANGED <<wsActive, wsUp, wsBus, wsHydrating>>
        BY <2>3 DEF Ws!Connect, Ws!ClearHistory, Ws!backend
      <3>2. <<>> \in Unrepeated
        BY EmptySeq DEF Unrepeated, Ws!IsInjective
      <3>3. t \in [Conns -> Unrepeated]
        BY <1>3, <3>2 DEF WsInv
      <3>4. /\ wsSessions' \in [Conns -> Seq(Nat)]
            /\ \A c \in Conns : wsUp[c] => wsSessions'[c] # <<>>
        <4>1. CASE wsSessions' = wsSessions
          BY <1>3, <4>1 DEF WsInv
        <4>2. CASE /\ wsActive \in Conns /\ ~wsUp[wsActive]
                   /\ wsSessions' = [wsSessions EXCEPT ![wsActive] = <<>>]
          BY <1>3, <4>2, EmptySeq DEF WsInv
        <4> QED  BY <1>3, <2>3, <4>1, <4>2 DEF Ws!Connect, Ws!ClearHistory, Ws!backend, WsInv
      <3> QED  BY <1>3, <3>1, <3>3, <3>4 DEF WsInv
    <2>4. CASE Ws!SendMessage \/ \E c \in Conns : Ws!PeerSends(c)
      BY <1>3, <2>4, Told DEF Ws!SendMessage, Ws!PeerSends, Ws!mirror, WsInv
    <2>5. ASSUME NEW c \in Conns, Ws!Activate(c) PROVE WsInv'
      <3> DEFINE h == [messages |-> None, up |-> None]
      <3>1. /\ wsActive' = c /\ wsHydrating' = [wsHydrating EXCEPT ![c] = h]
            /\ UNCHANGED <<wsUp, wsSessions, wsBus, wsTranscript>>
        BY <2>5 DEF Ws!Activate, Ws!backend
      <3>2. h \in Hydration
        BY DEF Hydration
      <3> QED  BY <1>3, <3>1, <3>2 DEF WsInv
    <2>6. ASSUME NEW c \in Conns, Ws!ReadMessages(c) \/ Ws!ReadState(c) PROVE WsInv'
      <3> DEFINE h == wsHydrating[c]
      <3>1. h \in Hydration
        BY <1>3, <2>6 DEF Ws!ReadMessages, Ws!ReadState, WsInv
      <3>2. Ws!Newest(c) \in Unrepeated /\ wsUp[c] \in BOOLEAN
        BY <1>3, NewestUnrepeated DEF WsInv
      <3>3. /\ [h EXCEPT !.messages = Ws!Newest(c)] \in Hydration
            /\ [h EXCEPT !.up = wsUp[c]] \in Hydration
        BY <3>1, <3>2 DEF Hydration
      <3>4. /\ \E k \in Hydration : wsHydrating' = [wsHydrating EXCEPT ![c] = k]
            /\ UNCHANGED <<wsActive, wsUp, wsSessions, wsBus, wsTranscript>>
        BY <2>6, <3>3 DEF Ws!ReadMessages, Ws!ReadState, Ws!backend
      <3> QED  BY <1>3, <3>4 DEF WsInv
    <2>7. ASSUME NEW c \in Conns, Ws!Hydrated(c) PROVE WsInv'
      <3> DEFINE m == wsHydrating[c].messages
      <3>1. m \in Unrepeated
        BY <1>3, <2>7 DEF Ws!Hydrated, Hydration, WsInv
      <3>2. /\ wsTranscript' = [wsTranscript EXCEPT ![c] = m]
            /\ wsHydrating' = [wsHydrating EXCEPT ![c] = None]
            /\ UNCHANGED <<wsActive, wsUp, wsSessions, wsBus>>
        BY <2>7 DEF Ws!Hydrated, Ws!backend
      <3> HIDE DEF m
      <3> QED  BY <1>3, <3>1, <3>2 DEF WsInv
    <2>8. ASSUME NEW c \in Conns, Ws!Dialed(c) PROVE WsInv'
      <3>1. UNCHANGED <<wsActive, wsTranscript, wsHydrating>>
        BY <2>8 DEF Ws!Dialed
      <3>2. CASE UNCHANGED <<wsUp, wsSessions, wsBus>>
        BY <1>2, <1>3, <3>1, <3>2 DEF WsInv
      <3> DEFINE e == [of |-> c, kind |-> "status", what |-> "open"]
                 s == Append(wsSessions[c], 0)
      <3>3. CASE /\ wsUp' = [wsUp EXCEPT ![c] = TRUE]
                 /\ wsSessions' = [wsSessions EXCEPT ![c] = s]
                 /\ wsBus' = Append(wsBus, e)
        <4>1. e \in WsEvent
          BY DEF WsEvent
        <4>2. s \in Seq(Nat) /\ s # <<>>
          <5>1. wsSessions[c] \in Seq(Nat)
            BY <1>3 DEF WsInv
          <5> QED  BY <5>1, AppendProperties
        <4> HIDE DEF e, s
        <4>3. wsBus' \in Seq(WsEvent)
          <5>1. wsBus \in Seq(WsEvent)
            BY <1>3 DEF WsInv
          <5> QED  BY <3>3, <4>1, <5>1
        <4>4. wsUp' \in [Conns -> BOOLEAN] /\ \A d \in Conns : wsUp'[d] => wsUp[d] \/ d = c
          BY <1>3, <3>3 DEF WsInv
        <4>5. /\ wsSessions' \in [Conns -> Seq(Nat)] /\ wsSessions'[c] # <<>>
              /\ \A d \in Conns : d # c => wsSessions'[d] = wsSessions[d]
          BY <1>3, <3>3, <4>2 DEF WsInv
        <4> QED  BY <1>3, <3>1, <4>3, <4>4, <4>5 DEF WsInv
      <3> QED  BY <2>8, <3>2, <3>3 DEF Ws!Dialed, Ws!backend
    <2>9. ASSUME NEW c \in Conns, Ws!PeerCloses(c) PROVE WsInv'
      <3>1. /\ wsUp' = [wsUp EXCEPT ![c] = FALSE]
            /\ \E e \in WsEvent : wsBus' = Append(wsBus, e)
            /\ UNCHANGED <<wsActive, wsSessions, wsTranscript, wsHydrating>>
        BY <2>9 DEF Ws!PeerCloses, Ws!mirror, WsEvent
      <3>2. wsBus' \in Seq(WsEvent)
        BY <1>3, <3>1 DEF WsInv
      <3>3. wsUp' \in [Conns -> BOOLEAN] /\ \A d \in Conns : wsUp'[d] => wsUp[d]
        BY <1>3, <3>1 DEF WsInv
      <3> QED  BY <1>3, <3>1, <3>2, <3>3 DEF WsInv
    <2>10. CASE \/ \E n \in 1..MaxConnects : Ws!Pick(n)
                \/ \E r \in wsReads : Ws!SessionAnswer(r)
      BY <1>2, <1>3, <2>10
         DEF Ws!Pick, Ws!SessionAnswer, Ws!backend, Ws!mirror, WsInv
    <2> QED  BY <1>3, <2>1, <2>2, <2>3, <2>4, <2>5, <2>6, <2>7, <2>8, <2>9, <2>10
                DEF Ws!Next
  <1>4. ASSUME WsInv, UNCHANGED wsVars PROVE WsInv'
    BY <1>4 DEF WsInv, wsVars
  <1> QED  BY <1>1, <1>3, <1>4

\* No message is shown twice (the store's dedup by id), whatever the order of
\* events and answers.
THEOREM NoRepeatsHolds == SpecAll => []NoRepeats
  <1> DEFINE Inv == part = "ws" => WsInv
  <1>1. InitAll => Inv
    BY WsInductive DEF InitAll
  <1>2. Inv /\ [NextAll]_allVars => Inv'
    BY WsInductive DEF NextAll, allVars, wsVars
  <1>3. WsInv => Ws!NoRepeats
    BY DEF WsInv, Ws!NoRepeats, Unrepeated
  <1>4. Inv => NoRepeats
    BY <1>3 DEF NoRepeats
  <1> QED  BY <1>1, <1>2, <1>4, PTL DEF SpecAll

-----------------------------------------------------------------------------
(* The editor of a cookie. *)

\* A draft that was typed in holds a cookie.
EditorInv ==
    /\ cookiePicked = [jar |-> cookiePicked.jar, cookie |-> cookiePicked.cookie]
    /\ cookieDraft = [value |-> cookieDraft.value, dirty |-> cookieDraft.dirty]
    /\ cookieDraft.dirty \in BOOLEAN
    /\ cookieDraft.dirty => cookieDraft.value # None

\* The dialog follows the store: it keeps the draft of a cookie that is there.
LEMMA FollowKeeps ==
    ASSUME EditorInv, NEW p, p = [jar |-> p.jar, cookie |-> p.cookie],
           Co!Follow(cookieJars', p)
    PROVE  /\ EditorInv'
           /\ \/ ~cookieDraft.dirty \/ cookieDraft' = cookieDraft
              \/ cookiePicked' # cookiePicked
              \/ Co!CookieAt(cookieJars', cookiePicked) = None
  <1>1. /\ cookiePicked' = Co!Fallback(cookieJars', p)
        /\ cookieDraft' = Co!ById(cookieJars', cookiePicked')
    BY DEF Co!Follow
  <1>2. cookiePicked' = [jar |-> cookiePicked'.jar, cookie |-> cookiePicked'.cookie]
    BY <1>1 DEF Co!Fallback
  <1>3. \/ cookieDraft' = cookieDraft /\ cookiePicked' = cookiePicked
        \/ cookieDraft' = [value |-> None, dirty |-> FALSE]
        \/ \E v : cookieDraft' = [value |-> v, dirty |-> FALSE]
    BY <1>1 DEF Co!ById, Co!NoDraft
  <1>4. EditorInv'
    <2>1. CASE cookieDraft' = cookieDraft
      BY <1>2, <2>1 DEF EditorInv
    <2>2. ASSUME NEW v, cookieDraft' = [value |-> v, dirty |-> FALSE] PROVE EditorInv'
      BY <1>2, <2>2 DEF EditorInv
    <2> QED  BY <1>3, <2>1, <2>2
  <1>5. ASSUME cookieDraft.dirty, cookiePicked' = cookiePicked,
               Co!CookieAt(cookieJars', cookiePicked) # None
        PROVE  cookieDraft' = cookieDraft
    BY <1>1, <1>5 DEF Co!ById, EditorInv
  <1> QED  BY <1>4, <1>5

LEMMA AnswerKeeps ==
    ASSUME EditorInv, NEW c \in cookieCalls, Co!Answer(c)
    PROVE  EditorInv' /\ Co!OwnDraft
  <1> DEFINE Follows == \E p : p = [jar |-> p.jar, cookie |-> p.cookie] /\ Co!Follow(cookieJars', p)
  <1>1. cookiePicked = [jar |-> cookiePicked.jar, cookie |-> cookiePicked.cookie]
    BY DEF EditorInv
  <1>2. CASE Follows
    BY <1>2, FollowKeeps DEF Co!OwnDraft
  <1>3. CASE UNCHANGED <<cookiePicked, cookieDraft>>
    BY <1>3 DEF EditorInv, Co!OwnDraft
  <1>4. CASE c.mine /\ cookieDraft' = [value |-> c.value, dirty |-> FALSE]
             /\ UNCHANGED cookiePicked
    BY <1>4 DEF EditorInv, Co!OwnDraft
  <1>5. /\ [cookiePicked EXCEPT !.cookie = None] = [jar |-> cookiePicked.jar, cookie |-> None]
        /\ Co!NoPick = [jar |-> None, cookie |-> None]
    BY <1>1 DEF Co!NoPick
  <1>6. \/ Follows
        \/ UNCHANGED <<cookiePicked, cookieDraft>>
        \/ /\ c.mine /\ cookieDraft' = [value |-> c.value, dirty |-> FALSE]
           /\ UNCHANGED cookiePicked
    <2>1. CASE c.op \in {"list", "rename", "clearExpired"}
      BY <1>1, <2>1 DEF Co!Answer
    <2>2. CASE c.op = "create"
      <3> DEFINE p == IF cookiePicked.jar = None THEN Co!NoPick ELSE [jar |-> c.jar, cookie |-> None]
      <3>1. Co!Follow(cookieJars', p)
        BY <2>2 DEF Co!Answer
      <3>2. p = [jar |-> p.jar, cookie |-> p.cookie]
        BY <1>5
      <3> HIDE DEF p
      <3> QED  BY <3>1, <3>2
    <2>3. CASE c.op = "delete"
      <3> DEFINE p == IF cookiePicked.jar = None THEN Co!NoPick
                      ELSE [jar |-> Co!First(cookieJars'), cookie |-> None]
      <3>1. Co!Follow(cookieJars', p)
        BY <2>3 DEF Co!Answer
      <3>2. p = [jar |-> p.jar, cookie |-> p.cookie]
        BY <1>5
      <3> HIDE DEF p
      <3> QED  BY <3>1, <3>2
    <2>4. CASE c.op \in {"deleteCookie", "clear"}
      <3> DEFINE p == IF c.op = "clear" \/ c.cookie = cookiePicked.cookie
                      THEN [cookiePicked EXCEPT !.cookie = None] ELSE cookiePicked
      <3>1. Co!Follow(cookieJars', p)
        BY <2>4 DEF Co!Answer
      <3>2. p = [jar |-> p.jar, cookie |-> p.cookie]
        BY <1>1, <1>5
      <3> HIDE DEF p
      <3> QED  BY <3>1, <3>2
    <2>5. CASE c.op \in {"setActive", "save"}
      BY <1>1, <2>5 DEF Co!Answer
    <2> QED  BY <2>1, <2>2, <2>3, <2>4, <2>5 DEF Co!Answer
  <1> QED  BY <1>2, <1>3, <1>4, <1>6

\* Every other step leaves what was typed, or selects another cookie.
LEMMA EditorKeeps ==
    ASSUME EditorInv, Co!Next
    PROVE  EditorInv' /\ Co!OwnDraft
  <1>1. ASSUME UNCHANGED <<cookiePicked, cookieDraft>> PROVE EditorInv' /\ Co!OwnDraft
    BY <1>1 DEF EditorInv, Co!OwnDraft
  <1>2. ASSUME NEW c \in cookieCalls,
               Co!Read(c) \/ Co!Write(c) \/ Co!Execute(c) \/ Co!Refused(c) \/ Co!Captured(c)
        PROVE  UNCHANGED <<cookiePicked, cookieDraft>>
    BY <1>2 DEF Co!Read, Co!Write, Co!Execute, Co!Refused, Co!Captured, Co!Fail, Co!shown
  <1>3. ASSUME NEW c \in cookieCalls, Co!Answer(c) PROVE EditorInv' /\ Co!OwnDraft
    BY <1>3, AnswerKeeps
  <1>4. CASE Co!OpenDialog
    <2>1. cookiePicked.jar = None /\ UNCHANGED cookieDraft
          /\ cookiePicked' = [jar |-> cookieActive, cookie |-> None]
      BY <1>4 DEF Co!OpenDialog
    <2> QED  BY <2>1 DEF EditorInv, Co!OwnDraft
  <1>5. CASE Co!CloseDialog
    <2>1. /\ cookiePicked.jar # None /\ cookiePicked' = [jar |-> None, cookie |-> None]
          /\ cookieDraft' = [value |-> None, dirty |-> FALSE]
      BY <1>5 DEF Co!CloseDialog, Co!NoPick, Co!NoDraft
    <2>2. cookiePicked'.jar # cookiePicked.jar
      BY <2>1
    <2> QED  BY <2>1, <2>2 DEF EditorInv, Co!OwnDraft
  <1>6. ASSUME NEW j \in Jars, Co!SelectJar(j) PROVE EditorInv' /\ Co!OwnDraft
    <2>1. /\ cookiePicked' = [jar |-> j, cookie |-> None] /\ cookiePicked' # cookiePicked
          /\ cookieDraft' = [value |-> None, dirty |-> FALSE]
      BY <1>6 DEF Co!SelectJar, Co!NoDraft
    <2> QED  BY <2>1 DEF EditorInv, Co!OwnDraft
  <1>7. ASSUME NEW k \in CookieIds, Co!SelectCookie(k) PROVE EditorInv' /\ Co!OwnDraft
    <2>1. /\ cookiePicked.cookie # k /\ cookiePicked' = [cookiePicked EXCEPT !.cookie = k]
          /\ cookieDraft' = Co!ByObject(cookieJars, cookiePicked')
      BY <1>7 DEF Co!SelectCookie
    <2>2. cookiePicked' = [jar |-> cookiePicked.jar, cookie |-> k]
      BY <2>1 DEF EditorInv
    <2>3. cookiePicked' # cookiePicked
      BY <2>1, <2>2
    <2>4. \E v : cookieDraft' = [value |-> v, dirty |-> FALSE]
      BY <2>1 DEF Co!ByObject, Co!NoDraft
    <2> QED  BY <2>2, <2>3, <2>4 DEF EditorInv, Co!OwnDraft
  <1>8. ASSUME NEW v \in CookieValues \cup {BlankCookie}, Co!Patch(v) \/ Co!PatchAndSave(v)
        PROVE  EditorInv' /\ Co!OwnDraft
    <2>1. v # None
      BY ScreensAssumption
    <2>2. UNCHANGED cookiePicked /\ \/ cookieDraft' = [value |-> v, dirty |-> TRUE]
                                    \/ cookieDraft' = [cookieDraft EXCEPT !.value = v]
      BY <1>8 DEF Co!Patch, Co!PatchAndSave
    <2>3. \/ cookieDraft' = [value |-> v, dirty |-> TRUE]
          \/ cookieDraft' = [value |-> v, dirty |-> cookieDraft.dirty]
      BY <2>2 DEF EditorInv
    <2>4. EditorInv'
      <3>1. UNCHANGED cookiePicked
        BY <2>2
      <3>2. CASE cookieDraft' = [value |-> v, dirty |-> TRUE]
        BY <2>1, <3>1, <3>2 DEF EditorInv
      <3>3. CASE cookieDraft' = [value |-> v, dirty |-> cookieDraft.dirty]
        BY <2>1, <3>1, <3>3 DEF EditorInv
      <3> QED  BY <2>3, <3>2, <3>3
    <2> QED  BY <1>8, <2>4 DEF Co!OwnDraft
  <1>9. CASE \/ Co!CommitBlur \/ Co!ReloadAsked
             \/ \E j \in Jars : \/ Co!CreateJar(j)
                                \/ \E op \in {"delete", "setActive", "rename", "clear", "clearExpired"} :
                                     Co!AskOf(op, j, None)
                                \/ \E k \in CookieIds : Co!AskOf("deleteCookie", j, k)
             \/ \E k \in CookieIds : Co!AddCookie(k) \/ \E v \in CookieValues : Co!Send(k, v)
    <2>1. ASSUME NEW op, NEW j, NEW k, Co!AskOf(op, j, k) PROVE UNCHANGED <<cookiePicked, cookieDraft>>
      BY <2>1 DEF Co!AskOf
    <2>2. CASE Co!CommitBlur \/ Co!ReloadAsked
      BY <1>1, <2>2 DEF Co!CommitBlur, Co!ReloadAsked
    <2>3. ASSUME NEW j \in Jars, Co!CreateJar(j) PROVE UNCHANGED <<cookiePicked, cookieDraft>>
      BY <2>3 DEF Co!CreateJar
    <2>4. ASSUME NEW k \in CookieIds, Co!AddCookie(k) \/ \E v \in CookieValues : Co!Send(k, v)
          PROVE  UNCHANGED <<cookiePicked, cookieDraft>>
      BY <2>4 DEF Co!AddCookie, Co!Send
    <2> QED  BY <1>1, <1>9, <2>1, <2>2, <2>3, <2>4
  <1> QED  BY <1>1, <1>2, <1>3, <1>4, <1>5, <1>6, <1>7, <1>8, <1>9 DEF Co!Next

\* What was typed in the editor of a cookie is taken from the user by no answer
\* that is not of a save of this editor (CookieEditor), while the cookie is there.
THEOREM TypedIsKeptHolds == SpecAll => TypedIsKept
  <1> DEFINE Inv == part = "cookie" => EditorInv
  <1>1. InitAll => Inv
    <2>1. ASSUME Co!Init PROVE EditorInv
      BY <2>1 DEF Co!Init, Co!NoPick, Co!NoDraft, EditorInv
    <2> QED  BY <2>1 DEF InitAll
  <1>2. Inv /\ [NextAll]_allVars => Inv'
    <2>1. ASSUME EditorInv, UNCHANGED cookieVars PROVE EditorInv'
      BY <2>1 DEF EditorInv, cookieVars
    <2> QED  BY <2>1, EditorKeeps DEF NextAll, allVars, cookieVars
  <1>3. Inv /\ [NextAll]_allVars => [part = "cookie" => Co!OwnDraft]_allVars
    <2>1. ASSUME UNCHANGED cookieDraft PROVE Co!OwnDraft
      BY <2>1 DEF Co!OwnDraft
    <2> QED  BY <2>1, EditorKeeps DEF NextAll, cookieVars
  <1> QED  BY <1>1, <1>2, <1>3, PTL DEF SpecAll, TypedIsKept

-----------------------------------------------------------------------------
(* A merge. *)

\* The choices of an entity: both sides is one of the listed key only.
EntityChoices == {ch \in [Me!ToSet(Me!Fields) \cup {"entity"} -> {"ours", "theirs", "both", None}] :
             ch["url"] # "both"}

\* What was written is the merge of the entity by choices that can be made.
MergeInv ==
    /\ mergeLeft \subseteq Paths
    /\ mergeChoices \in [Paths -> EntityChoices]
    /\ mergeSaves \subseteq [todo : SUBSET Paths, by : [Paths -> EntityChoices]]
    /\ mergeWritten = [p \in Paths |-> mergeWritten[p]]
    /\ \A p \in Paths : \A w \in mergeWritten[p] :
          w.by \in EntityChoices /\ w.as = Me!MergeChoice(mergeConflict[p], w.by)

\* A field that was b, o and t is merged to m, with ch as the choice of a clash.
MergesTo(b, o, t, ch, m) ==
    /\ o = b => m = t
    /\ t = b => m = o
    /\ o # b /\ t # b /\ o # t =>
          m = CASE ch = "theirs" -> t
                [] ch = Me!ItemBoth -> o \o t
                [] OTHER -> o

\* The merge of a field takes what only one side changed, and clashes as chosen.
LEMMA FieldMerged ==
    ASSUME NEW c, NEW ch, ch["url"] # "both", NEW f \in {"url", "item"}
    PROVE  MergesTo(Me!Compare(f, c.base), Me!Compare(f, c.ours), Me!Compare(f, c.theirs),
                    ch[f], Me!Merged(c, ch)[f])
  <1> DEFINE b == Me!Compare(f, c.base)
             o == Me!Compare(f, c.ours)
             t == Me!Compare(f, c.theirs)
             side == Me!Side(f, c, ch[f])
  <1>1. Me!Clash(f, c) <=> o # t /\ o # b /\ t # b
    BY DEF Me!Clash
  <1>2. side = IF o # t /\ o # b /\ t # b THEN IF ch[f] = "theirs" THEN "theirs" ELSE "ours"
               ELSE IF o = b /\ t # b THEN "theirs" ELSE "ours"
    BY <1>1 DEF Me!Side
  <1>3. Me!Compare(f, c[side]) = IF side = "theirs" THEN t ELSE o
    BY <1>2
  <1>4. CASE f = "url"
    <2>1. Me!Merged(c, ch)[f] = c[side].url
      BY <1>4 DEF Me!Merged
    <2>2. \A e : Me!Compare(f, e) = e.url
      BY <1>4 DEF Me!Compare
    <2>3. Me!Merged(c, ch)[f] = IF side = "theirs" THEN t ELSE o
      BY <1>3, <2>1, <2>2
    <2> HIDE DEF side
    <2> QED  BY <1>2, <1>4, <2>3 DEF Me!ItemBoth, MergesTo
  <1>5. CASE f = "item"
    <2>1. Me!Merged(c, ch)[f] = IF Me!Clash("item", c) /\ ch["item"] = Me!ItemBoth
                                THEN Me!LastRow(c.ours.item) \o Me!LastRow(c.theirs.item)
                                ELSE Me!LastRow(c[side].item)
      BY <1>5 DEF Me!Merged
    <2>2. \A e : Me!Compare(f, e) = Me!LastRow(e.item)
      BY <1>5 DEF Me!Compare
    <2>3. Me!Merged(c, ch)[f] = IF o # t /\ o # b /\ t # b /\ ch[f] = Me!ItemBoth THEN o \o t
                                ELSE IF side = "theirs" THEN t ELSE o
      BY <1>1, <1>3, <1>5, <2>1, <2>2
    <2> HIDE DEF side
    <2> QED  BY <1>2, <2>3 DEF Me!ItemBoth, MergesTo
  <1> QED  BY <1>4, <1>5

LEMMA MergeInductive ==
    /\ Me!Init => MergeInv
    /\ MergeInv /\ [Me!Next]_mergeVars => MergeInv'
  <1>0. "url" \in Me!ToSet(Me!Fields) \cup {"entity"}
    <2>1. Me!Fields[1] = "url" /\ 1 \in DOMAIN Me!Fields
      BY DEF Me!Fields
    <2> QED  BY <2>1 DEF Me!ToSet
  <1>1. ASSUME Me!Init PROVE MergeInv
    <2>1. mergeChoices \in [Paths -> EntityChoices]
      <3> DEFINE ch == [f \in Me!ToSet(Me!Fields) \cup {"entity"} |-> None]
      <3>1. ch \in EntityChoices
        BY <1>0, ScreensAssumption DEF EntityChoices
      <3>2. mergeChoices = [p \in Paths |-> ch]
        BY <1>1 DEF Me!Init
      <3> QED  BY <3>1, <3>2
    <2>2. mergeLeft = Paths /\ mergeSaves = {} /\ mergeWritten = [p \in Paths |-> {}]
      BY <1>1 DEF Me!Init
    <2> QED  BY <2>1, <2>2 DEF MergeInv
  <1>2. ASSUME MergeInv, UNCHANGED <<mergeConflict, mergeWritten>>,
               mergeLeft' \subseteq Paths, mergeChoices' \in [Paths -> EntityChoices],
               mergeSaves' \subseteq [todo : SUBSET Paths, by : [Paths -> EntityChoices]]
        PROVE  MergeInv'
    BY <1>2 DEF MergeInv
  <1>3. ASSUME MergeInv, Me!Next PROVE MergeInv'
    <2>1. ASSUME NEW p \in Paths, NEW f \in Me!ToSet(Me!Fields) \cup {"entity"},
                 NEW ch \in {"ours", "theirs", Me!ItemBoth}, Me!Pick(p, f, ch)
          PROVE  MergeInv'
      <3>1. /\ mergeChoices' = [mergeChoices EXCEPT ![p][f] = ch] /\ (ch = "both" => f = "item")
            /\ UNCHANGED <<mergeConflict, mergeWritten, mergeLeft, mergeSaves>>
        BY <2>1 DEF Me!Pick, Me!disk, Me!ItemBoth
      <3> DEFINE now == [mergeChoices[p] EXCEPT ![f] = ch]
      <3>2. now \in EntityChoices
        BY <1>0, <1>3, <3>1 DEF MergeInv, EntityChoices, Me!ItemBoth
      <3>3. mergeChoices' = [mergeChoices EXCEPT ![p] = now]
        BY <3>1
      <3> HIDE DEF now
      <3>4. mergeChoices' \in [Paths -> EntityChoices]
        BY <1>3, <3>2, <3>3 DEF MergeInv
      <3> QED  BY <1>2, <1>3, <3>1, <3>4 DEF MergeInv
    <2>2. ASSUME NEW ch \in {"ours", "theirs"}, Me!KeepAll(ch) PROVE MergeInv'
      <3> DEFINE now(p) == [f \in Me!ToSet(Me!Fields) \cup {"entity"} |->
                     IF p \in mergeLeft /\ f \in Me!Clashing(mergeConflict[p]) THEN ch ELSE None]
      <3>1. ASSUME NEW p \in Paths PROVE now(p) \in EntityChoices
        BY <1>0, ScreensAssumption DEF EntityChoices
      <3>2. mergeChoices' = [p \in Paths |-> now(p)]
        BY <2>2 DEF Me!KeepAll
      <3> HIDE DEF now
      <3>3. mergeChoices' \in [Paths -> EntityChoices]
        BY <3>1, <3>2
      <3>4. UNCHANGED <<mergeConflict, mergeWritten, mergeLeft, mergeSaves>>
        BY <2>2 DEF Me!KeepAll, Me!disk
      <3> QED  BY <1>2, <1>3, <3>3, <3>4 DEF MergeInv
    <2>3. CASE Me!Save \/ Me!AutoFinish
      <3>1. /\ mergeSaves' = mergeSaves \cup {[todo |-> mergeLeft, by |-> mergeChoices]}
            /\ UNCHANGED <<mergeConflict, mergeWritten, mergeLeft, mergeChoices>>
        BY <2>3 DEF Me!Save, Me!AutoFinish, Me!Starts, Me!disk, Me!choosing
      <3> QED  BY <1>2, <1>3, <3>1 DEF MergeInv
    <2>4. ASSUME NEW v \in mergeSaves, Me!Finish(v) \/ Me!Fail(v) PROVE MergeInv'
      <3>1. /\ mergeSaves' = mergeSaves \ {v} /\ mergeLeft' \in {{}, mergeLeft}
            /\ UNCHANGED <<mergeConflict, mergeWritten, mergeChoices>>
        BY <2>4 DEF Me!Finish, Me!Fail, Me!disk, Me!choosing
      <3> QED  BY <1>2, <1>3, <3>1 DEF MergeInv
    <2>5. ASSUME NEW v \in mergeSaves, NEW p \in Paths, Me!Write(v, p) PROVE MergeInv'
      <3> DEFINE x == [as |-> Me!MergeChoice(mergeConflict[p], v.by[p]), by |-> v.by[p]]
                 u == [v EXCEPT !.todo = v.todo \ {p}]
      <3>1. /\ mergeWritten' = [mergeWritten EXCEPT ![p] = {x}]
            /\ mergeLeft' = mergeLeft \ {p} /\ mergeSaves' = (mergeSaves \ {v}) \cup {u}
            /\ UNCHANGED <<mergeConflict, mergeChoices>>
        BY <2>5 DEF Me!Write, Me!choosing
      <3>2. v \in [todo : SUBSET Paths, by : [Paths -> EntityChoices]]
        BY <1>3 DEF MergeInv
      <3>3. u \in [todo : SUBSET Paths, by : [Paths -> EntityChoices]]
        BY <3>2
      <3>4. x.by \in EntityChoices /\ x.as = Me!MergeChoice(mergeConflict[p], x.by)
        BY <3>2
      <3> HIDE DEF x, u
      <3>5. /\ mergeWritten' = [q \in Paths |-> mergeWritten'[q]]
            /\ \A q \in Paths : \A w \in mergeWritten'[q] :
                 w \in mergeWritten[q] \/ (q = p /\ w = x)
        BY <1>3, <3>1 DEF MergeInv
      <3>6. \A q \in Paths : \A w \in mergeWritten'[q] :
               w.by \in EntityChoices /\ w.as = Me!MergeChoice(mergeConflict[q], w.by)
        BY <1>3, <3>4, <3>5 DEF MergeInv
      <3>8. /\ mergeLeft' \subseteq Paths /\ mergeChoices' \in [Paths -> EntityChoices]
            /\ mergeSaves' \subseteq [todo : SUBSET Paths, by : [Paths -> EntityChoices]]
        BY <1>3, <3>1, <3>3 DEF MergeInv
      <3> QED  BY <3>1, <3>5, <3>6, <3>8 DEF MergeInv
    <2> QED  BY <1>3, <2>1, <2>2, <2>3, <2>4, <2>5 DEF Me!Next
  <1>4. ASSUME MergeInv, UNCHANGED mergeVars PROVE MergeInv'
    BY <1>2, <1>4 DEF MergeInv, mergeVars
  <1> QED  BY <1>1, <1>3, <1>4

\* What only one side changed is kept and a clash goes as chosen (mergeEntity),
\* however saves fail, are repeated and overlap.
THEOREM BothSidesKeptHolds == SpecAll => []BothSidesKept
  <1> DEFINE Inv == part = "merge" => MergeInv
  <1>1. InitAll => Inv
    BY MergeInductive DEF InitAll
  <1>2. Inv /\ [NextAll]_allVars => Inv'
    BY MergeInductive DEF NextAll, allVars, mergeVars
  <1>3. ASSUME MergeInv PROVE Me!BothSidesKept
    <2> SUFFICES ASSUME NEW p \in Paths, NEW w \in mergeWritten[p], ~Me!Whole(mergeConflict[p]),
                        NEW f \in {"url", "item"}
                 PROVE  MergesTo(Me!Compare(f, mergeConflict[p].base),
                                 Me!Compare(f, mergeConflict[p].ours),
                                 Me!Compare(f, mergeConflict[p].theirs), w.by[f], w.as[f])
      BY DEF Me!BothSidesKept, MergesTo
    <2>1. w.by["url"] # "both" /\ w.as = Me!Merged(mergeConflict[p], w.by)
      BY <1>3 DEF MergeInv, EntityChoices, Me!MergeChoice
    <2> QED  BY <2>1, FieldMerged
  <1>4. Inv => BothSidesKept
    BY <1>3 DEF BothSidesKept
  <1> QED  BY <1>1, <1>2, <1>4, PTL DEF SpecAll

-----------------------------------------------------------------------------
(* The form of a gRPC message. *)

\* A message whose oneof is as the form leaves it, or was typed.
Exclusive(v) == ~v.typed => Cardinality(v.chosen) <= 1

\* The parts of a message, whatever is in them.
FormMessage(v) ==
    v = [scalar |-> v.scalar, chosen |-> v.chosen, items |-> v.items,
         entries |-> v.entries, nested |-> v.nested, typed |-> v.typed]

\* The copies a widget asked with are like the message that is shown.
FormInv ==
    /\ FormMessage(value) /\ Exclusive(value)
    /\ \A v \in asked : FormMessage(v) /\ Exclusive(v)

LEMMA FormStarts == Init => FormInv
  BY FS_EmptySet DEF Init, FormInv, EmptyMessage, FormMessage, Exclusive

\* What replacing the members of the oneof leaves.
LEMMA MembersReplaced ==
    ASSUME NEW v, FormMessage(v), NEW m, NEW w,
           w = [v EXCEPT !.chosen = m, !.typed = FALSE]
    PROVE  FormMessage(w) /\ w.chosen = m
  <1>1. FormMessage(w)
    BY DEF FormMessage
  <1>2. w.chosen = m
    BY DEF FormMessage
  <1> QED  BY <1>1, <1>2

LEMMA FormSteps ==
    ASSUME FormInv, [Next]_formVars
    PROVE  FormInv'
  <1>1. ASSUME NEW v, Set(v), FormMessage(v), Exclusive(v)
        PROVE  FormInv'
    BY <1>1 DEF Set, FormInv
  \* Every write but those of the oneof leaves it alone.
  <1>2. ASSUME NEW v, Set(v), FormMessage(v), v.chosen = value.chosen, v.typed = value.typed
        PROVE  FormInv'
    BY <1>1, <1>2 DEF FormInv, Exclusive
  <1>3. CASE SetScalar
    BY <1>2, <1>3 DEF SetScalar, FormInv, FormMessage
  <1>4. CASE AddItem \/ \E i \in 1..MaxItems : SetItem(i) \/ RemoveItem(i)
    <2>1. ASSUME NEW items, Set([value EXCEPT !.items = items])
          PROVE  FormInv'
      BY <1>2, <2>1 DEF FormInv, FormMessage
    <2>2. CASE AddItem
      BY <2>1, <2>2 DEF AddItem
    <2>3. ASSUME NEW i \in 1..MaxItems, SetItem(i)
          PROVE  FormInv'
      <3>1. Set([value EXCEPT !.items = [value.items EXCEPT ![i] = ~@]])
        BY <2>3 DEF SetItem
      <3> QED  BY <2>1, <3>1
    <2>4. ASSUME NEW i \in 1..MaxItems, RemoveItem(i)
          PROVE  FormInv'
      BY <2>1, <2>4 DEF RemoveItem
    <2> QED  BY <1>4, <2>2, <2>3, <2>4
  <1>5. ASSUME NEW f, Entries(f)
        PROVE  FormInv'
    BY <1>2, <1>5 DEF Entries, FormInv, FormMessage
  <1>6. CASE AddEntry \/ \E k, to \in Keys : RenameEntry(k, to) \/ RemoveEntry(k)
    BY <1>5, <1>6 DEF AddEntry, RenameEntry, RemoveEntry
  <1>7. CASE EditNested
    BY <1>2, <1>7 DEF EditNested, FormInv, FormMessage
  <1>8. ASSUME NEW m \in SUBSET Oneof, Cardinality(m) <= 1, PickOneof(m)
        PROVE  FormInv'
    <2>1. PICK v : v = [value EXCEPT !.chosen = m, !.typed = FALSE]
      OBVIOUS
    <2>2. FormMessage(v) /\ v.chosen = m
      BY <2>1, MembersReplaced DEF FormInv
    <2>3. Set(v)
      BY <1>8, <2>1 DEF PickOneof, Chosen
    <2> QED  BY <1>1, <1>8, <2>2, <2>3 DEF Exclusive
  <1>9. ASSUME NEW m \in SUBSET Oneof, TypeRaw(m)
        PROVE  FormInv'
    BY <1>9 DEF TypeRaw, FormInv, FormMessage, Exclusive
  <1>10. CASE Expand \/ FoldNested \/ ShowEditor
    BY <1>10 DEF Expand, FoldNested, ShowEditor, FormInv
  <1>11. CASE Expanded
    <2>1. PICK v \in asked, known \in BOOLEAN :
              value' = IF known /\ v.nested = "none" THEN [v EXCEPT !.nested = "empty"] ELSE value
      BY <1>11 DEF Expanded
    <2>2. asked' = {}
      BY <1>11 DEF Expanded
    <2>3. FormMessage([v EXCEPT !.nested = "empty"]) /\ Exclusive([v EXCEPT !.nested = "empty"])
      BY DEF FormInv, FormMessage, Exclusive
    <2> QED  BY <2>1, <2>2, <2>3 DEF FormInv
  <1>12. CASE UNCHANGED formVars
    BY <1>12 DEF formVars, FormInv
  <1> QED  BY <1>3, <1>4, <1>6, <1>7, <1>8, <1>9, <1>10, <1>11, <1>12 DEF Next

\* However large the oneof is and in whatever order members are picked, cleared
\* and described, the form never puts two of them into one message.
THEOREM OneofExclusiveHolds == SpecAll => []OneofExclusive
  <1>1. InitAll => FormInv
    BY FormStarts DEF InitAll
  <1>2. FormInv /\ [NextAll]_allVars => FormInv'
    BY FormSteps DEF NextAll, allVars
  <1>3. FormInv => OneofExclusive
    BY DEF FormInv, Exclusive, OneofExclusive
  <1> QED  BY <1>1, <1>2, <1>3, PTL DEF SpecAll

-----------------------------------------------------------------------------
(* The badges of git. *)

\* The parts of a chain, whatever commands are left of it.
IsChain(c) ==
    /\ c = [todo |-> c.todo, ws |-> c.ws, from |-> c.from, fresh |-> c.fresh]
    /\ c.ws \in Workspaces /\ c.from \in Nat
IsChains(cs) ==
    /\ Len(cs) \in Nat /\ DOMAIN cs = 1..Len(cs) /\ cs = [i \in 1..Len(cs) |-> cs[i]]
    /\ \A i \in 1..Len(cs) : IsChain(cs[i])

\* A chain whose answer will be taken for the badges.
Reads(c) == c.todo[1] = "status" /\ c.fresh = TRUE

\* Among the chains cs at the worktrees t, at most one reads the status, and it
\* started on no older worktree than the badges f are of; but for chain k.
ChainsBut(k, cs, t, f) ==
    /\ IsChains(cs)
    /\ \A i \in 1..Len(cs) : cs[i].from <= t[cs[i].ws]
    /\ \A i, j \in 1..Len(cs) : Reads(cs[i]) /\ Reads(cs[j]) => i = j
    /\ \A i \in 1..Len(cs) \ {k} : Reads(cs[i]) /\ cs[i].ws = f.of => f.v <= cs[i].from

\* The badges are of a worktree that was.
Badges(t, f) ==
    /\ f = [of |-> f.of, v |-> f.v] /\ f.v \in Nat /\ f.of \in Workspaces \cup {None}
    /\ f.of = None => f.v = 0
    /\ f.of # None => f.v <= t[f.of]

Trees == [Workspaces -> Nat]

GitInv ==
    /\ gitTree \in Trees /\ gitLoaded \in Workspaces \cup {None}
    /\ gitDebounce \in Workspaces \cup {None}
    /\ gitLoaded = None => gitModal = None /\ gitDebounce = None /\ Len(gitChains) = 0
    /\ Badges(gitTree, gitFiles) /\ ChainsBut(0, gitChains, gitTree, gitFiles)

LEMMA SeqShape ==
    ASSUME NEW S, NEW s \in Seq(S)
    PROVE  /\ Len(s) \in Nat /\ DOMAIN s = 1..Len(s) /\ s \in [1..Len(s) -> S]
           /\ s = [i \in 1..Len(s) |-> s[i]]
  <1>1. Len(s) \in Nat /\ s \in [1..Len(s) -> S]
    BY LenProperties
  <1> QED  BY <1>1

\* A new command outdates those of its kind, and no chain is lost.
LEMMA OutdatedChains ==
    ASSUME NEW cs, IsChains(cs), NEW step, NEW o, o = Gi!Outdated(cs, step)
    PROVE  /\ IsChains(o) /\ Len(o) = Len(cs)
           /\ \A i \in 1..Len(cs) : /\ o[i].ws = cs[i].ws /\ o[i].from = cs[i].from
                                    /\ Reads(o[i]) => Reads(cs[i]) /\ step # "status"
  <1>1. o = [i \in 1..Len(cs) |-> IF cs[i].todo[1] = step THEN [cs[i] EXCEPT !.fresh = FALSE] ELSE cs[i]]
    BY DEF Gi!Outdated, IsChains
  <1>2. Len(o) = Len(cs) /\ DOMAIN o = 1..Len(cs)
    BY <1>1 DEF IsChains
  <1>3. ASSUME NEW i \in 1..Len(cs)
        PROVE  /\ IsChain(o[i]) /\ o[i].ws = cs[i].ws /\ o[i].from = cs[i].from
               /\ Reads(o[i]) => Reads(cs[i]) /\ step # "status"
    <2>1. IsChain(cs[i])
      BY DEF IsChains
    <2>2. CASE cs[i].todo[1] = step
      <3>1. o[i] = [todo |-> cs[i].todo, ws |-> cs[i].ws, from |-> cs[i].from, fresh |-> FALSE]
        BY <1>1, <2>1, <2>2 DEF IsChain
      <3> QED  BY <2>1, <3>1 DEF IsChain, Reads
    <2>3. CASE cs[i].todo[1] # step
      BY <1>1, <2>1, <2>3 DEF Reads
    <2> QED  BY <2>2, <2>3
  <1>4. o = [i \in 1..Len(o) |-> o[i]]
    BY <1>1, <1>2
  <1> QED  BY <1>2, <1>3, <1>4 DEF IsChains

\* A chain that is begun.
LEMMA BegunChains ==
    ASSUME NEW t \in Trees, NEW f, Badges(t, f), NEW cs, ChainsBut(0, cs, t, f),
           NEW c, IsChain(c), c.from = t[c.ws],
           NEW r, r = Gi!Begun(cs, c)
    PROVE  ChainsBut(0, r, t, f)
  <1> DEFINE o == Gi!Outdated(cs, c.todo[1])
             n == Len(cs)
             w == c.ws
             S == {o[i] : i \in 1..n} \cup {c}
  <1>1. /\ IsChains(o) /\ Len(o) = n
        /\ \A i \in 1..n : /\ o[i].ws = cs[i].ws /\ o[i].from = cs[i].from
                           /\ Reads(o[i]) => Reads(cs[i]) /\ c.todo[1] # "status"
    BY OutdatedChains DEF ChainsBut
  <1>2. r = Append(o, c)
    BY DEF Gi!Begun
  <1>3. c.ws = w /\ c.from = t[w] /\ (Reads(c) => c.todo[1] = "status")
    BY DEF Reads
  <1>4. n \in Nat /\ \A i \in 1..n : cs[i].from <= t[cs[i].ws]
    BY DEF ChainsBut, IsChains
  <1>5. \A i, j \in 1..n : Reads(cs[i]) /\ Reads(cs[j]) => i = j
    BY DEF ChainsBut
  <1>6. \A i \in 1..n : Reads(cs[i]) /\ cs[i].ws = f.of => f.v <= cs[i].from
    BY <1>4 DEF ChainsBut
  <1>7. w \in Workspaces /\ (w = f.of => f.v <= t[w])
    BY ScreensAssumption DEF Badges, IsChain
  <1> HIDE DEF n, o, w
  <1>8. o \in Seq(S)
    <2>1. o = [i \in 1..n |-> o[i]]
      BY <1>1 DEF IsChains
    <2> QED  BY <1>4, <2>1
  <1>9. c \in S
    OBVIOUS
  <1> HIDE DEF S
  <1>10. r \in Seq(S) /\ Len(r) = Len(o) + 1 /\ r[Len(o) + 1] = c
    BY <1>2, <1>8, <1>9, AppendProperties
  <1>11. \A i \in 1..Len(o) : r[i] = o[i]
    BY <1>2, <1>8, <1>9, AppendProperties
  <1>12. Len(r) = n + 1 /\ DOMAIN r = 1..Len(r) /\ r = [i \in 1..Len(r) |-> r[i]]
    BY <1>1, <1>10, SeqShape
  <1>13. \A i \in 1..Len(r) : \/ i \in 1..n /\ r[i] = o[i]
                              \/ i = n + 1 /\ r[i] = c
    BY <1>1, <1>4, <1>10, <1>11, <1>12
  <1>14. \A i \in 1..n : IsChain(o[i])
    BY <1>1 DEF IsChains
  <1>15. IsChains(r)
    BY <1>3, <1>4, <1>12, <1>13, <1>14 DEF IsChains
  <1>16. t[w] <= t[w]
    BY <1>7 DEF Trees
  <1>17. \A i \in 1..Len(r) : r[i].from <= t[r[i].ws]
    BY <1>1, <1>3, <1>4, <1>13, <1>16
  <1>18. \A i, j \in 1..Len(r) : Reads(r[i]) /\ Reads(r[j]) => i = j
    BY <1>1, <1>3, <1>5, <1>13
  <1>19. \A i \in 1..Len(r) : Reads(r[i]) /\ r[i].ws = f.of => f.v <= r[i].from
    BY <1>1, <1>3, <1>6, <1>7, <1>13
  <1> QED  BY <1>15, <1>17, <1>18, <1>19 DEF ChainsBut

LEMMA Removed ==
    ASSUME NEW S, NEW s \in Seq(S), NEW i \in 1..Len(s)
    PROVE  /\ Gi!RemoveAt(s, i) \in Seq(S) /\ Len(Gi!RemoveAt(s, i)) = Len(s) - 1
           /\ \A j \in 1..(Len(s) - 1) : Gi!RemoveAt(s, i)[j] = s[IF j < i THEN j ELSE j + 1]
  <1> DEFINE a == SubSeq(s, 1, i - 1)
             b == SubSeq(s, i + 1, Len(s))
             r == Gi!RemoveAt(s, i)
  <1>1. Len(s) \in Nat /\ r = a \o b
    BY DEF Gi!RemoveAt
  <1>2. a \in Seq(S) /\ Len(a) = i - 1 /\ \A j \in 1..(i - 1) : a[j] = s[j]
    BY <1>1
  <1>3. b \in Seq(S) /\ Len(b) = Len(s) - i /\ \A j \in 1..(Len(s) - i) : b[j] = s[i + j]
    BY <1>1
  <1> HIDE DEF a, b, r
  <1>4. r \in Seq(S) /\ Len(r) = Len(a) + Len(b)
    BY <1>1, <1>2, <1>3, ConcatProperties
  <1>5. \A j \in 1..(Len(a) + Len(b)) : r[j] = IF j <= Len(a) THEN a[j] ELSE b[j - Len(a)]
    BY <1>1, <1>2, <1>3, ConcatProperties
  <1>6. Len(a) + Len(b) = Len(s) - 1
    BY <1>1, <1>2, <1>3
  <1>7. ASSUME NEW j \in 1..(Len(s) - 1) PROVE r[j] = s[IF j < i THEN j ELSE j + 1]
    <2>1. CASE j < i
      BY <1>1, <1>2, <1>5, <1>6, <2>1
    <2>2. CASE ~(j < i)
      <3>1. /\ ~(j <= Len(a)) /\ j - Len(a) \in 1..(Len(s) - i)
            /\ i + (j - Len(a)) = j + 1
        BY <1>1, <1>2, <2>2
      <3>2. r[j] = b[j - Len(a)]
        BY <1>1, <1>5, <1>6, <3>1
      <3> QED  BY <1>3, <2>2, <3>1, <3>2
    <2> QED  BY <2>1, <2>2
  <1> QED  BY <1>4, <1>6, <1>7 DEF r

\* A chain that ends.
LEMMA EndedChains ==
    ASSUME NEW t \in Trees, NEW f, NEW cs, NEW k \in 1..Len(cs), ChainsBut(k, cs, t, f)
    PROVE  ChainsBut(0, Gi!RemoveAt(cs, k), t, f)
  <1> DEFINE n == Len(cs)
             r == Gi!RemoveAt(cs, k)
             S == {cs[i] : i \in 1..n}
             at(j) == IF j < k THEN j ELSE j + 1
  <1>0. n \in Nat /\ k \in 1..n
    BY DEF ChainsBut, IsChains
  <1>1. /\ cs = [i \in 1..n |-> cs[i]] /\ n = Len(cs)
        /\ \A i \in 1..n : IsChain(cs[i]) /\ cs[i].from <= t[cs[i].ws]
    BY DEF ChainsBut, IsChains
  <1>2. \A i, j \in 1..n : Reads(cs[i]) /\ Reads(cs[j]) => i = j
    BY DEF ChainsBut
  <1>3. \A i \in 1..n \ {k} : Reads(cs[i]) /\ cs[i].ws = f.of => f.v <= cs[i].from
    BY DEF ChainsBut
  <1>4. cs \in Seq(S)
    BY <1>0, <1>1
  <1> HIDE DEF S, n
  <1>5. /\ r \in Seq(S) /\ Len(r) = n - 1
        /\ \A j \in 1..(n - 1) : r[j] = cs[IF j < k THEN j ELSE j + 1]
    BY <1>0, <1>1, <1>4, Removed
  <1>6. \A j \in 1..(n - 1) : r[j] = cs[at(j)]
    BY <1>5
  <1>7. /\ \A j \in 1..(n - 1) : at(j) \in 1..n \ {k}
        /\ \A i, j \in 1..(n - 1) : at(i) = at(j) => i = j
    <2>1. ASSUME NEW j \in 1..(n - 1) PROVE at(j) \in 1..n \ {k}
      <3>1. CASE j < k
        BY <1>0, <3>1
      <3>2. CASE ~(j < k)
        BY <1>0, <3>2
      <3> QED  BY <3>1, <3>2
    <2>2. ASSUME NEW i \in 1..(n - 1), NEW j \in 1..(n - 1), at(i) = at(j) PROVE i = j
      BY <1>0, <2>2
    <2> QED  BY <2>1, <2>2
  <1> HIDE DEF r, at
  <1>8. Len(r) \in Nat /\ DOMAIN r = 1..Len(r) /\ r = [i \in 1..Len(r) |-> r[i]]
    BY <1>5, SeqShape
  <1>9. \A j \in 1..Len(r) : at(j) \in 1..n /\ at(j) # k /\ r[j] = cs[at(j)]
    BY <1>5, <1>6, <1>7
  <1>10. IsChains(r) /\ \A i \in 1..Len(r) : r[i].from <= t[r[i].ws]
    BY <1>1, <1>8, <1>9 DEF IsChains
  <1>11. \A i, j \in 1..Len(r) : Reads(r[i]) /\ Reads(r[j]) => i = j
    BY <1>2, <1>5, <1>7, <1>9
  <1>12. \A i \in 1..Len(r) : Reads(r[i]) /\ r[i].ws = f.of => f.v <= r[i].from
    BY <1>3, <1>9
  <1> QED  BY <1>10, <1>11, <1>12 DEF ChainsBut, r

\* A chain that goes on.
LEMMA GoneOn ==
    ASSUME NEW t \in Trees, NEW f, Badges(t, f), NEW cs, NEW k \in 1..Len(cs),
           ChainsBut(k, cs, t, f), NEW c, IsChain(c), c.from = t[c.ws],
           NEW r, r = [Gi!Outdated(cs, c.todo[1]) EXCEPT ![k] = c]
    PROVE  ChainsBut(0, r, t, f)
  <1> DEFINE n == Len(cs)
             o == Gi!Outdated(cs, c.todo[1])
             S == {o[i] : i \in 1..n} \cup {c}
  <1>1. /\ n \in Nat /\ k \in 1..n
        /\ \A i \in 1..n : IsChain(cs[i]) /\ cs[i].from <= t[cs[i].ws]
    BY DEF ChainsBut, IsChains
  <1>2. \A i, j \in 1..n : Reads(cs[i]) /\ Reads(cs[j]) => i = j
    BY DEF ChainsBut
  <1>3. \A i \in 1..n \ {k} : Reads(cs[i]) /\ cs[i].ws = f.of => f.v <= cs[i].from
    BY DEF ChainsBut
  <1>4. /\ IsChains(o) /\ Len(o) = n
        /\ \A i \in 1..n : /\ o[i].ws = cs[i].ws /\ o[i].from = cs[i].from
                           /\ Reads(o[i]) => Reads(cs[i]) /\ c.todo[1] # "status"
    BY OutdatedChains DEF ChainsBut
  <1>5. r = [o EXCEPT ![k] = c]
    OBVIOUS
  <1>6. c \in S
    OBVIOUS
  <1> HIDE DEF o, n
  <1>7. o \in Seq(S) /\ \A i \in 1..n : IsChain(o[i])
    <2>1. o = [i \in 1..n |-> o[i]] /\ \A i \in 1..n : IsChain(o[i])
      BY <1>4 DEF IsChains
    <2> QED  BY <1>1, <2>1
  <1> HIDE DEF S
  <1>8. r \in Seq(S) /\ Len(r) = n /\ \A i \in 1..n : r[i] = IF i = k THEN c ELSE o[i]
    <2>1. k \in 1..Len(o)
      BY <1>1, <1>4
    <2>2. /\ [o EXCEPT ![k] = c] \in Seq(S) /\ Len([o EXCEPT ![k] = c]) = Len(o)
          /\ \A i \in 1..Len(o) : [o EXCEPT ![k] = c][i] = IF i = k THEN c ELSE o[i]
      BY <1>6, <1>7, <2>1, ExceptSeq
    <2> QED  BY <1>4, <1>5, <2>2
  <1>9. Len(r) = n /\ DOMAIN r = 1..n /\ r = [i \in 1..n |-> r[i]]
    BY <1>8, SeqShape
  <1>10. r[k] = c /\ \A i \in 1..n \ {k} : r[i] = o[i]
    BY <1>1, <1>8
  <1>11. Reads(c) => c.todo[1] = "status"
    BY DEF Reads
  <1>12. IsChains(r)
    BY <1>1, <1>7, <1>9, <1>10 DEF IsChains
  <1>13. ASSUME NEW i \in 1..n PROVE r[i].from <= t[r[i].ws]
    <2>1. CASE i = k
      BY <1>10, <2>1 DEF IsChain, Trees
    <2>2. CASE i # k
      BY <1>1, <1>4, <1>10, <2>2
    <2> QED  BY <2>1, <2>2
  <1>14. \A i, j \in 1..n : Reads(r[i]) /\ Reads(r[j]) => i = j
    BY <1>2, <1>4, <1>10, <1>11
  <1>15. ASSUME NEW i \in 1..n, Reads(r[i]), r[i].ws = f.of PROVE f.v <= r[i].from
    <2>1. CASE i = k
      BY <1>10, <1>15, <2>1, ScreensAssumption DEF IsChain, Badges
    <2>2. CASE i # k
      BY <1>3, <1>4, <1>10, <1>15, <2>2
    <2> QED  BY <2>1, <2>2
  <1> QED  BY <1>9, <1>12, <1>13, <1>14, <1>15 DEF ChainsBut

\* Worktrees that change.
LEMMA Outgrown ==
    ASSUME NEW t \in Trees, NEW u \in Trees, \A w \in Workspaces : t[w] <= u[w],
           NEW f, Badges(t, f), NEW cs, NEW k, ChainsBut(k, cs, t, f)
    PROVE  Badges(u, f) /\ ChainsBut(k, cs, u, f)
  <1>1. Badges(u, f)
    BY DEF Badges, Trees
  <1>2. ASSUME NEW i \in 1..Len(cs) PROVE cs[i].from <= u[cs[i].ws]
    <2>1. cs[i].ws \in Workspaces /\ cs[i].from \in Nat /\ cs[i].from <= t[cs[i].ws]
      BY DEF ChainsBut, IsChains, IsChain
    <2> QED  BY <2>1 DEF Trees
  <1> QED  BY <1>1, <1>2 DEF ChainsBut

\* A chain of the store is begun.
LEMMA BegunOne ==
    ASSUME GitInv, NEW steps, NEW w \in Workspaces,
           NEW old, ChainsBut(0, old, gitTree, gitFiles)
    PROVE  ChainsBut(0, Gi!Begun(old, Gi!Chain(steps, w)), gitTree, gitFiles)
  <1> DEFINE c == Gi!Chain(steps, w)
  <1>1. gitTree \in Trees /\ Badges(gitTree, gitFiles)
    BY DEF GitInv
  <1>2. c = [todo |-> steps, ws |-> w, from |-> gitTree[w], fresh |-> TRUE]
    BY DEF Gi!Chain, Gi!ChainFrom
  <1>3. IsChain(c) /\ c.from = gitTree[c.ws]
    BY <1>1, <1>2 DEF IsChain, Trees
  <1> HIDE DEF c
  <1>4. ChainsBut(0, Gi!Begun(old, c), gitTree, gitFiles)
    BY <1>1, <1>3, BegunChains
  <1> QED  BY <1>4 DEF c

\* A call of the store.
LEMMA Called ==
    ASSUME GitInv, NEW steps, NEW w \in Workspaces, Gi!Call(steps, w),
           UNCHANGED <<gitTree, gitFiles, gitDebounce>>,
           gitLoaded' \in Workspaces
    PROVE  GitInv'
  <1>1. ChainsBut(0, gitChains', gitTree, gitFiles)
    BY BegunOne DEF Gi!Call, GitInv
  <1> QED  BY <1>1, ScreensAssumption DEF GitInv

\* An answer to chain i, which goes on or ends; other chains may have been
\* outdated, and the worktree may have changed.
LEMMA Answered ==
    ASSUME GitInv, NEW i \in DOMAIN gitChains, NEW steps, NEW t \in Trees,
           \A w \in Workspaces : gitTree[w] <= t[w],
           NEW f, Badges(t, f), ChainsBut(i, gitChains, t, f),
           Gi!GoesFrom(i, steps, t[gitChains[i].ws])
    PROVE  ChainsBut(0, gitChains', t, f)
  <1>1. i \in 1..Len(gitChains) /\ IsChain(gitChains[i])
    BY DEF GitInv, ChainsBut, IsChains
  <1>2. CASE steps = <<>>
    BY <1>1, <1>2, EndedChains DEF Gi!GoesFrom
  <1>3. CASE steps # <<>>
    <2> DEFINE w == gitChains[i].ws
               c == Gi!ChainFrom(steps, w, t[w])
    <2>1. c = [todo |-> steps, ws |-> w, from |-> t[w], fresh |-> TRUE]
      BY DEF Gi!ChainFrom
    <2>2. w \in Workspaces
      BY <1>1 DEF IsChain
    <2>3. IsChain(c) /\ c.from = t[c.ws] /\ c.todo = steps
      BY <2>1, <2>2 DEF IsChain, Trees
    <2>4. gitChains' = [Gi!Outdated(gitChains, steps[1]) EXCEPT ![i] = c]
      BY <1>3 DEF Gi!GoesFrom
    <2> HIDE DEF c
    <2> QED  BY <1>1, <2>3, <2>4, GoneOn
  <1> QED  BY <1>2, <1>3

\* Badges that stay are no reason to leave chain i out.
LEMMA AnsweredSame ==
    ASSUME GitInv, NEW i \in DOMAIN gitChains, NEW steps,
           Gi!GoesFrom(i, steps, gitTree'[gitChains[i].ws]),
           gitTree' \in Trees, \A w \in Workspaces : gitTree[w] <= gitTree'[w],
           UNCHANGED <<gitFiles, gitLoaded, gitDebounce>>
    PROVE  GitInv'
  <1>1. Badges(gitTree', gitFiles) /\ ChainsBut(0, gitChains, gitTree', gitFiles)
    BY Outgrown DEF GitInv
  <1>2. ChainsBut(i, gitChains, gitTree', gitFiles)
    BY <1>1 DEF ChainsBut, IsChains
  <1>3. ChainsBut(0, gitChains', gitTree', gitFiles)
    BY <1>1, <1>2, Answered
  <1>4. gitLoaded # None
    BY DEF GitInv, ChainsBut, IsChains
  <1> QED  BY <1>1, <1>3, <1>4 DEF GitInv

LEMMA StatusAnswered ==
    ASSUME GitInv, NEW i \in DOMAIN gitChains, Gi!Status(i)
    PROVE  GitInv' /\ Gi!NotOlder
  <1> DEFINE c == gitChains[i]
  <1>1. /\ i \in 1..Len(gitChains) /\ IsChain(c) /\ c.from <= gitTree[c.ws]
        /\ gitTree \in Trees /\ c.ws \in Workspaces /\ gitTree[c.ws] \in Nat
    BY DEF GitInv, ChainsBut, IsChains, IsChain, Trees
  <1>2. /\ c.todo[1] = "status" /\ Gi!GoesFrom(i, Tail(c.todo), gitTree[c.ws])
        /\ UNCHANGED <<gitTree, gitLoaded, gitDebounce, gitModal>>
    BY DEF Gi!Status, Gi!Goes, Gi!worktree, Gi!screen
  <1>3. CASE UNCHANGED gitFiles
    <2>1. gitTree' = gitTree /\ \A w \in Workspaces : gitTree[w] <= gitTree'[w]
      BY <1>1, <1>2 DEF Trees
    <2>2. GitInv'
      BY <1>1, <1>2, <1>3, <2>1, AnsweredSame
    <2>3. gitFiles.v <= gitFiles.v
      BY DEF GitInv, Badges
    <2> QED  BY <1>3, <2>2, <2>3 DEF Gi!NotOlder
  <1>4. CASE c.fresh /\ Gi!Read(i, gitFiles)
    <2>1. PICK v \in c.from .. gitTree[c.ws] : gitFiles' = [of |-> c.ws, v |-> v]
      BY <1>4 DEF Gi!Read
    <2>2. c.from \in Nat /\ v \in Nat /\ c.from <= v /\ v <= gitTree[c.ws] /\ Reads(c)
      <3>1. c.from \in Nat /\ gitTree[c.ws] \in Nat
        BY <1>1 DEF IsChain
      <3> HIDE DEF c
      <3> QED  BY <1>2, <1>4, <2>1, <3>1 DEF Reads
    <2>3. Badges(gitTree, gitFiles')
      BY <1>1, <2>1, <2>2, ScreensAssumption DEF Badges
    <2>4. \A j \in 1..Len(gitChains) : Reads(gitChains[j]) => j = i
      BY <1>1, <2>2 DEF GitInv, ChainsBut
    <2>5. ChainsBut(i, gitChains, gitTree, gitFiles')
      BY <2>4 DEF GitInv, ChainsBut
    <2>6. ChainsBut(0, gitChains', gitTree, gitFiles')
      <3>1. \A w \in Workspaces : gitTree[w] <= gitTree[w]
        BY <1>1 DEF Trees
      <3> QED  BY <1>1, <1>2, <2>3, <2>5, <3>1, Answered
    <2>7. gitLoaded # None
      BY <1>1 DEF GitInv, ChainsBut, IsChains
    <2>8. GitInv'
      BY <1>2, <2>3, <2>6, <2>7 DEF GitInv
    <2>9. i \in 1..Len(gitChains) \ {0}
      BY <1>1 DEF GitInv, ChainsBut, IsChains
    <2>10. c.ws = gitFiles.of => gitFiles.v <= c.from
      BY <2>2, <2>9 DEF GitInv, ChainsBut
    <2>11. gitFiles.v \in Nat /\ gitFiles'.of = c.ws /\ gitFiles'.v = v
      BY <2>1 DEF GitInv, Badges
    <2> QED  BY <2>2, <2>8, <2>10, <2>11 DEF Gi!NotOlder
  <1>5. (c.fresh /\ Gi!Read(i, gitFiles)) \/ UNCHANGED gitFiles
    BY DEF Gi!Status, Gi!Newest
  <1> QED  BY <1>3, <1>4, <1>5

LEMMA GitInductive ==
    /\ Gi!Init => GitInv
    /\ GitInv /\ [Gi!Next]_gitVars => GitInv' /\ (gitFiles' = gitFiles \/ Gi!NotOlder)
  <1>1. ASSUME Gi!Init PROVE GitInv
    <2>1. /\ gitTree = [w \in Workspaces |-> 0] /\ gitLoaded = None /\ gitDebounce = None
          /\ gitModal = None /\ gitChains = <<>> /\ gitFiles = [of |-> None, v |-> 0]
      BY <1>1 DEF Gi!Init, Gi!Nothing
    <2>2. Badges(gitTree, gitFiles) /\ gitTree \in Trees
      BY <2>1 DEF Badges, Trees
    <2>3. Len(gitChains) = 0 /\ IsChains(gitChains)
      <3>1. gitChains \in Seq({}) /\ Len(gitChains) = 0
        BY <2>1, EmptySeq
      <3> QED  BY <3>1, SeqShape DEF IsChains
    <2>4. ChainsBut(0, gitChains, gitTree, gitFiles)
      BY <2>3 DEF ChainsBut
    <2> QED  BY <2>1, <2>2, <2>3, <2>4 DEF GitInv
  <1>2. ASSUME GitInv, UNCHANGED <<gitTree, gitLoaded, gitFiles, gitDebounce, gitChains>>,
               gitModal' = gitModal \/ gitLoaded # None
        PROVE  GitInv'
    BY <1>2 DEF GitInv
  <1>3. ASSUME GitInv
        PROVE  /\ gitLoaded # None => gitLoaded \in Workspaces
               /\ gitDebounce # None => gitDebounce \in Workspaces /\ gitLoaded \in Workspaces
               /\ gitModal # None => gitLoaded \in Workspaces
    BY <1>3 DEF GitInv
  <1>4. ASSUME GitInv, Gi!Next PROVE GitInv' /\ (gitFiles' = gitFiles \/ Gi!NotOlder)
    <2>1. CASE \E w \in Workspaces : Gi!Load(w) \/ \E v : Gi!OpenWindow(w, v)
      BY <1>4, <2>1, Called DEF Gi!Load, Gi!OpenWindow, Gi!worktree, Gi!readings
    <2>2. ASSUME NEW w \in Workspaces, Gi!Touch(w)
          PROVE  GitInv' /\ (gitFiles' = gitFiles \/ Gi!NotOlder)
      <3>1. /\ gitTree' = [gitTree EXCEPT ![w] = @ + 1]
            /\ UNCHANGED <<gitLoaded, gitFiles, gitChains, gitModal>>
        BY <2>2 DEF Gi!Touch, Gi!readings, Gi!screen
      <3>4. gitDebounce' = gitDebounce \/ (gitDebounce' = w /\ gitLoaded = w)
        BY <2>2 DEF Gi!Touch
      <3>2. gitTree' \in Trees /\ \A x \in Workspaces : gitTree[x] <= gitTree'[x]
        BY <1>4, <3>1 DEF GitInv, Trees
      <3>3. Badges(gitTree', gitFiles) /\ ChainsBut(0, gitChains, gitTree', gitFiles)
        BY <1>4, <3>2, Outgrown DEF GitInv
      <3> QED  BY <1>4, <3>1, <3>2, <3>3, <3>4, ScreensAssumption DEF GitInv
    <2>3. CASE Gi!OpenMenu \/ Gi!Debounced
      <3>1. PICK w \in Workspaces :
              LET first == Gi!Begun(gitChains, Gi!Chain(<<"status">>, w))
                  other == Gi!Begun(gitChains, Gi!Chain(<<"repo">>, w)) IN
              gitChains' \in {Gi!Begun(other, Gi!Chain(<<"status">>, w)),
                              Gi!Begun(Gi!Begun(first, Gi!Chain(<<"changes">>, w)),
                                       Gi!Chain(<<"repo">>, w))}
        BY <1>3, <1>4, <2>3 DEF Gi!OpenMenu, Gi!Debounced
      <3>2. ChainsBut(0, gitChains', gitTree, gitFiles)
        <4>1. ChainsBut(0, gitChains, gitTree, gitFiles)
          BY <1>4 DEF GitInv
        <4> QED  BY <1>4, <3>1, <4>1, BegunOne
      <3>3. gitLoaded \in Workspaces /\ gitDebounce' \in {gitDebounce, None}
            /\ UNCHANGED <<gitTree, gitLoaded, gitFiles>>
        BY <1>3, <1>4, <2>3
           DEF Gi!OpenMenu, Gi!Debounced, Gi!worktree, Gi!readings
      <3> QED  BY <1>4, <3>2, <3>3, ScreensAssumption DEF GitInv
    <2>4. CASE Gi!InitRepo \/ Gi!Publish \/ Gi!GetUpdates \/ Gi!Share \/ Gi!SetRemote
               \/ Gi!Discard \/ Gi!Branch \/ Gi!SaveSettings
      <3> DEFINE Calls == (gitLoaded # None \/ gitModal # None) /\ \E steps : Gi!Call(steps, gitLoaded)
      <3>1. ASSUME NEW o, NEW steps, Gi!StartOp(o, steps) PROVE Calls
        BY <3>1 DEF Gi!StartOp
      <3>2. ASSUME Gi!InitRepo \/ Gi!Publish \/ Gi!GetUpdates \/ Gi!Share \/ Gi!SetRemote PROVE Calls
        BY <3>1, <3>2 DEF Gi!InitRepo, Gi!Publish, Gi!GetUpdates, Gi!Share, Gi!SetRemote
      <3>3. ASSUME Gi!Discard \/ Gi!Branch \/ Gi!SaveSettings PROVE Calls
        BY <3>3, ScreensAssumption DEF Gi!Discard, Gi!Branch, Gi!SaveSettings
      <3>4. UNCHANGED <<gitTree, gitFiles, gitDebounce, gitLoaded>>
        BY <2>4
           DEF Gi!InitRepo, Gi!Publish, Gi!GetUpdates, Gi!Share, Gi!SetRemote, Gi!Discard,
               Gi!Branch, Gi!SaveSettings, Gi!worktree, Gi!readings
      <3>5. Calls
        BY <2>4, <3>2, <3>3
      <3> QED  BY <1>3, <1>4, <3>4, <3>5, Called
    <2>5. CASE \/ \E v \in {"changes", "history"} : Gi!ShowView(v)
               \/ \E m \in {None, "settings", "remote"} : Gi!ShowModal(m)
      BY <1>2, <1>4, <2>5 DEF Gi!ShowView, Gi!ShowModal, Gi!worktree, Gi!readings
    <2>6. ASSUME NEW i \in DOMAIN gitChains, Gi!Status(i)
          PROVE  GitInv' /\ (gitFiles' = gitFiles \/ Gi!NotOlder)
      BY <1>4, <2>6, StatusAnswered
    <2>7. ASSUME NEW i \in DOMAIN gitChains, NEW steps, Gi!Goes(i, steps),
                 UNCHANGED <<gitTree, gitFiles, gitLoaded, gitDebounce>>
          PROVE  GitInv'
      <3>1. gitTree' \in Trees /\ \A w \in Workspaces : gitTree[w] <= gitTree'[w]
        BY <1>4, <2>7 DEF GitInv, Trees
      <3>2. Gi!GoesFrom(i, steps, gitTree'[gitChains[i].ws])
        BY <2>7 DEF Gi!Goes
      <3> QED  BY <1>4, <2>7, <3>1, <3>2, AnsweredSame
    <2>8. ASSUME NEW i \in DOMAIN gitChains,
                 \/ Gi!Changes(i) \/ Gi!StaleInfo(i) \/ Gi!Conflicts(i) \/ Gi!Sent(i)
                 \/ Gi!Refused(i) \/ Gi!End(i) \/ Gi!Leave(i)
          PROVE  GitInv' /\ (gitFiles' = gitFiles \/ Gi!NotOlder)
      <3>1. /\ \E steps : Gi!Goes(i, steps)
            /\ UNCHANGED <<gitTree, gitFiles, gitLoaded, gitDebounce>>
        BY <2>8 DEF Gi!Changes, Gi!StaleInfo, Gi!Conflicts, Gi!Sent, Gi!Refused, Gi!End,
                    Gi!Leave, Gi!worktree, Gi!readings
      <3> QED  BY <2>7, <3>1
    <2>9. ASSUME NEW i \in DOMAIN gitChains, Gi!Info(i)
          PROVE  GitInv' /\ (gitFiles' = gitFiles \/ Gi!NotOlder)
      <3>1. /\ \E steps : Gi!Goes(i, steps)
            /\ gitFiles' = gitFiles \/ gitFiles' = [of |-> None, v |-> 0]
            /\ UNCHANGED <<gitTree, gitLoaded, gitDebounce, gitModal>>
        BY <2>9 DEF Gi!Info, Gi!Nothing, Gi!worktree, Gi!screen
      <3>2. CASE gitFiles' = gitFiles
        BY <2>7, <3>1, <3>2
      <3>3. CASE gitFiles' = [of |-> None, v |-> 0]
        <4>1. /\ Badges(gitTree, gitFiles') /\ gitTree \in Trees
              /\ \A w \in Workspaces : gitTree[w] <= gitTree[w]
          BY <1>4, <3>3 DEF Badges, GitInv, Trees
        <4>2. ChainsBut(i, gitChains, gitTree, gitFiles')
          BY <1>4, <3>3, ScreensAssumption DEF GitInv, ChainsBut, IsChains, IsChain
        <4>3. ChainsBut(0, gitChains', gitTree, gitFiles')
          BY <1>4, <3>1, <4>1, <4>2, Answered DEF Gi!Goes
        <4>4. gitLoaded # None
          BY <1>4 DEF GitInv, ChainsBut, IsChains
        <4>5. GitInv'
          BY <1>4, <3>1, <4>1, <4>3, <4>4 DEF GitInv
        <4>6. Gi!NotOlder
          BY <1>4, <3>3 DEF Gi!NotOlder, GitInv, Badges
        <4> QED  BY <4>5, <4>6
      <3> QED  BY <3>1, <3>2, <3>3
    <2>10. ASSUME NEW i \in DOMAIN gitChains, Gi!Pull(i) \/ Gi!Rewrite(i)
           PROVE  GitInv' /\ (gitFiles' = gitFiles \/ Gi!NotOlder)
      <3> DEFINE w == gitChains[i].ws
      <3>1. /\ \E steps : Gi!GoesFrom(i, steps, gitTree'[w])
            /\ gitTree' = gitTree \/ gitTree' = [gitTree EXCEPT ![w] = @ + 1]
            /\ UNCHANGED <<gitFiles, gitLoaded, gitDebounce>>
        BY <2>10 DEF Gi!Pull, Gi!Rewrite, Gi!Changed, Gi!readings
      <3>2. gitTree' \in Trees /\ \A x \in Workspaces : gitTree[x] <= gitTree'[x]
        BY <1>4, <3>1 DEF GitInv, Trees
      <3> QED  BY <1>4, <3>1, <3>2, AnsweredSame
    <2> QED  BY <1>4, <2>1, <2>2, <2>3, <2>4, <2>5, <2>6, <2>8, <2>9, <2>10 DEF Gi!Next
  <1>5. ASSUME GitInv, UNCHANGED gitVars PROVE GitInv'
    BY <1>2, <1>5 DEF gitVars
  <1> QED  BY <1>1, <1>4, <1>5 DEF gitVars

\* The badges never go back to a status of an older worktree (refreshSeq of the
\* git store), however many chains of commands run and end in whatever order.
THEOREM BadgesNotOlderHolds == SpecAll => BadgesNotOlder
  <1> DEFINE Inv == part = "git" => GitInv
  <1>1. InitAll => Inv
    BY GitInductive DEF InitAll
  <1>2. Inv /\ [NextAll]_allVars => Inv'
    BY GitInductive DEF NextAll, allVars, gitVars
  <1>3. Inv /\ [NextAll]_allVars => [part = "git" => Gi!NotOlder]_allVars
    <2>1. ASSUME GitInv, gitFiles' = gitFiles PROVE Gi!NotOlder
      BY <2>1 DEF GitInv, Badges, Gi!NotOlder
    <2> QED  BY <2>1, GitInductive DEF NextAll, gitVars
  <1> QED  BY <1>1, <1>2, <1>3, PTL DEF SpecAll, BadgesNotOlder

-----------------------------------------------------------------------------
(* The environments. *)

Environment == [vars : En!Vars, name : {0, 1}, at : Nat]
EnvMap == [En!Ids -> Environment \cup {None}]

\* What a call was asked with and answered: an environment to write, or those
\* that were read.
IsEnvCall(c) ==
    /\ c = [op |-> c.op, id |-> c.id, arg |-> c.arg, n |-> c.n, done |-> c.done, res |-> c.res]
    /\ c.id \in En!Ids
    /\ c.op \in {"load", "reload"} => c.id \in Workspaces
    /\ c.op \in {"create", "remove"} => c.id \in Envs
    /\ c.op = "update" => c.arg \in Environment
    /\ c.done => /\ c.op \in {"create", "update"} => c.res \in Environment
                 /\ c.op \in {"load", "reload"} => c.res \in EnvMap

\* The dialog shows an environment that is listed.
EditorOf(ed, es) ==
    /\ ed \in [id : En!Ids \cup {None}, as : {"form", "text"}, rows : En!Vars, armed : BOOLEAN]
    /\ ed.id # None => es[ed.id] # None

EnvTimer == [mine : BOOLEAN, id : En!Ids, env : Environment, vars : En!Vars]

\* A renaming that is under way has the environments that are left to rewrite.
IsRename(r) ==
    r # <<>> =>
        /\ r = [old |-> r.old, new |-> r.new, wait |-> r.wait, home |-> r.home, left |-> r.left]
        /\ r.old \in VariableNames /\ r.new \in VariableNames
        /\ \A x \in r.left : x[1] \in En!Ids /\ x[2] \in Environment

EnvWindow(w) ==
    /\ w = [shown |-> w.shown, loaded |-> w.loaded]
    /\ w.shown \in Workspaces \cup {None} /\ w.loaded \in Workspaces \cup {None}

ActiveOf(a, es) == a # None => a \in Envs /\ es[a] # None

EnvInv ==
    /\ envDisk \in EnvMap /\ envEnvs \in EnvMap
    /\ \A c \in envCalls : IsEnvCall(c)
    /\ EditorOf(envEditor, envEnvs)
    /\ envTimers \subseteq EnvTimer
    /\ IsRename(envRename)
    /\ EnvWindow(envWs)
    /\ ActiveOf(envActive, envEnvs)

LEMMA EnvConstants ==
    /\ None \notin En!Ids /\ None \notin Environment
    /\ Workspaces \subseteq En!Ids /\ Envs \subseteq En!Ids
    /\ Home \in [Envs -> Workspaces] /\ EnvStart \subseteq En!Vars
    /\ En!NoVars \in En!Vars
  BY ScreensAssumption DEF ScreensAssumption, En!Ids, Environment, En!Vars, En!NoVars

\* An environment that is opened is listed.
LEMMA OpenedListed ==
    ASSUME NEW es \in EnvMap, NEW e \in En!Ids \cup {None}
    PROVE  EditorOf(En!Opened(es, e), es)
  <1>1. EditorOf(En!Closed, es)
    BY EnvConstants DEF EditorOf, En!Closed
  <1>2. CASE e # None /\ es[e] # None
    <2>1. es[e].vars \in En!Vars
      BY <1>2 DEF EnvMap, Environment
    <2>2. En!Opened(es, e) = [id |-> e, as |-> "form", rows |-> es[e].vars, armed |-> FALSE]
      BY <1>2 DEF En!Opened
    <2> QED  BY <1>2, <2>1, <2>2 DEF EditorOf
  <1> QED  BY <1>1, <1>2 DEF En!Opened

LEMMA HolderListed ==
    ASSUME NEW es, NEW a, NEW k
    PROVE  En!Holder(es, a, k) \in En!Ids \cup {None}
  BY EnvConstants DEF En!Holder

\* What follows a change of the store leaves the dialog on one that is listed.
LEMMA FollowListed ==
    ASSUME EnvInv, envEnvs' \in EnvMap,
           NEW a, NEW sel \in En!Ids \cup {None}, NEW fresh,
           En!Follow(envEnvs', a, sel, fresh)
    PROVE  EditorOf(envEditor, envEnvs)'
  <1> DEFINE es == envEnvs'
             now == IF sel # None /\ envFocus # None THEN En!Reselected(es, a, sel) ELSE sel
  <1>1. now \in En!Ids \cup {None}
    BY HolderListed DEF En!Reselected
  <1>2. \/ envEditor' = En!Opened(es, now)
        \/ /\ now # None /\ now = envEditor.id /\ es[now] # None
           /\ \/ envEditor' = envEditor
              \/ envEditor' = [envEditor EXCEPT !.rows = es[now].vars]
    BY DEF En!Follow
  <1> HIDE DEF now
  <1>3. CASE envEditor' = En!Opened(es, now)
    BY <1>1, <1>3, OpenedListed DEF EditorOf
  <1>4. CASE /\ now # None /\ now = envEditor.id /\ es[now] # None
             /\ \/ envEditor' = envEditor
                \/ envEditor' = [envEditor EXCEPT !.rows = es[now].vars]
    <2>1. es[now].vars \in En!Vars
      BY <1>1, <1>4 DEF EnvMap, Environment
    <2> QED  BY <1>4, <2>1 DEF EnvInv, EditorOf
  <1> QED  BY <1>2, <1>3, <1>4

\* A timer whose editor is gone is one still.
LEMMA LeftTimers == EnvInv /\ En!Left => envTimers' \subseteq EnvTimer
  <1> SUFFICES ASSUME EnvInv, En!Left PROVE envTimers' \subseteq EnvTimer
    OBVIOUS
  <1>1. \A t \in envTimers : [t EXCEPT !.mine = FALSE] \in EnvTimer
    BY DEF EnvInv, EnvTimer
  <1> QED  BY <1>1 DEF En!Left, EnvInv

\* A call that is made has what it writes.
LEMMA AskedCalls ==
    ASSUME EnvInv, NEW op, NEW id \in En!Ids, NEW arg,
           op \in {"load", "reload"} => id \in Workspaces,
           op \in {"create", "remove"} => id \in Envs,
           op = "update" => arg \in Environment,
           NEW others \in SUBSET envCalls,
           envCalls' = others \cup {En!Call(op, id, arg)}
    PROVE  \A c \in envCalls' : IsEnvCall(c)
  <1>1. IsEnvCall(En!Call(op, id, arg))
    BY DEF IsEnvCall, En!Call
  <1> QED  BY <1>1 DEF EnvInv

\* A call that is answered.
LEMMA AnsweredCall ==
    ASSUME NEW c, NEW yes, NEW r,
           c = [op |-> c.op, id |-> c.id, arg |-> c.arg, n |-> c.n, done |-> c.done, res |-> c.res]
    PROVE  [c EXCEPT !.done = yes, !.res = r]
             = [op |-> c.op, id |-> c.id, arg |-> c.arg, n |-> c.n, done |-> yes, res |-> r]
  <1> DEFINE d == [c EXCEPT !.done = yes]
  <1>1. d = [op |-> c.op, id |-> c.id, arg |-> c.arg, n |-> c.n, done |-> yes, res |-> c.res]
    OBVIOUS
  <1>2. [c EXCEPT !.done = yes, !.res = r] = [d EXCEPT !.res = r]
    OBVIOUS
  <1> HIDE DEF d
  <1>3. [d EXCEPT !.res = r]
          = [op |-> c.op, id |-> c.id, arg |-> c.arg, n |-> c.n, done |-> yes, res |-> r]
    BY <1>1
  <1> QED  BY <1>2, <1>3

\* The backend executes a call: its files and its answer are environments.
LEMMA EnvExecuted ==
    ASSUME EnvInv, NEW c \in envCalls, En!Execute(c)
    PROVE  EnvInv'
  <1> DEFINE e == c.id
             again == [c.arg EXCEPT !.at = (IF envDisk[e] = None THEN @ ELSE envDisk[e].at) + 1]
             blank == [vars |-> En!NoVars, name |-> 0, at |-> 0]
             wrote == CASE c.op = "update" /\ ~En!Same(envDisk[e], c.arg) -> again
                        [] c.op = "create" -> blank
                        [] c.op = "remove" -> None
                        [] OTHER -> envDisk[e]
             res == CASE c.op \in {"load", "reload"} -> En!Listing(e)
                      [] c.op = "system" -> c.arg [] OTHER -> wrote
  <1>1. /\ ~c.done
        /\ envDisk' = [envDisk EXCEPT ![e] = wrote]
        /\ envCalls' = (envCalls \ {c}) \cup {[c EXCEPT !.done = TRUE, !.res = res]}
        /\ UNCHANGED <<envWs, envEnvs, envActive, envEditor, envTimers, envRename>>
    BY DEF En!Execute, En!rest, En!panes
  <1>2. IsEnvCall(c) /\ e \in En!Ids /\ envDisk[e] \in Environment \cup {None}
    BY DEF EnvInv, IsEnvCall, EnvMap
  <1>3. c.op = "update" => again \in Environment
    BY <1>2 DEF IsEnvCall, Environment
  <1>4. blank \in Environment
    BY EnvConstants DEF Environment
  <1>5. wrote \in Environment \cup {None}
    BY <1>2, <1>3, <1>4
  <1>6. c.op \in {"create", "update"} => wrote \in Environment
    <2>1. CASE c.op = "create"
      BY <1>4, <2>1
    <2>2. CASE c.op = "update"
      <3>1. En!Same(envDisk[e], c.arg) => envDisk[e] # None
        BY DEF En!Same
      <3> QED  BY <1>2, <1>3, <2>2, <3>1
    <2> QED  BY <2>1, <2>2
  <1>7. En!Listing(e) \in EnvMap
    BY DEF En!Listing, EnvMap, EnvInv
  <1>8. /\ c.op \in {"create", "update"} => res \in Environment
        /\ c.op \in {"load", "reload"} => res \in EnvMap
    BY <1>6, <1>7
  <1> HIDE DEF res
  <1>9. IsEnvCall([c EXCEPT !.done = TRUE, !.res = res])
    <2> DEFINE yes == TRUE
               d == [c EXCEPT !.done = yes, !.res = res]
    <2> HIDE DEF yes, e, d
    <2>0. c = [op |-> c.op, id |-> c.id, arg |-> c.arg, n |-> c.n, done |-> c.done, res |-> c.res]
      BY <1>2 DEF IsEnvCall
    <2>1. d = [op |-> c.op, id |-> c.id, arg |-> c.arg, n |-> c.n, done |-> yes, res |-> res]
      BY <2>0, AnsweredCall DEF d
    <2>2. d.op = c.op /\ d.id = c.id /\ d.arg = c.arg /\ d.res = res
      BY <2>1
    <2>3. d = [op |-> d.op, id |-> d.id, arg |-> d.arg, n |-> d.n, done |-> d.done, res |-> d.res]
      BY <2>1
    <2>4. IsEnvCall(d)
      BY <1>2, <1>8, <2>2, <2>3 DEF IsEnvCall
    <2> QED  BY <2>4 DEF d, yes
  <1> HIDE DEF wrote
  <1>10. envDisk' \in EnvMap
    BY <1>1, <1>2, <1>5 DEF EnvInv, EnvMap
  <1>11. \A d \in envCalls' : IsEnvCall(d)
    BY <1>1, <1>9 DEF EnvInv
  <1> QED  BY <1>1, <1>10, <1>11 DEF EnvInv

\* An answer: what it brings is listed, and the active environment with it.
LEMMA EnvAnswered ==
    ASSUME EnvInv, NEW c \in envCalls, En!Answer(c)
    PROVE  EnvInv'
  <1> DEFINE sure(w) == IF envEditor.id = None THEN None ELSE w
  <1>1. /\ c.done /\ En!Left /\ UNCHANGED envDisk
        /\ envRename' = IF envRename # <<>> /\ envRename.wait = c.n
                        THEN [envRename EXCEPT !.wait = -1] ELSE envRename
    BY DEF En!Answer
  <1>2. /\ c.id \in En!Ids
        /\ c.op = "load" => c.id \in Workspaces
        /\ c.op = "remove" => c.id \in Envs
        /\ c.op \in {"create", "update"} => c.res \in Environment
        /\ c.op \in {"load", "reload"} => c.res \in EnvMap
    BY <1>1 DEF EnvInv, IsEnvCall
  <1>3. IsRename(envRename')
    <2>1. CASE envRename' = envRename
      BY <2>1 DEF EnvInv
    <2>2. CASE envRename # <<>> /\ envRename' = [envRename EXCEPT !.wait = -1]
      <3> DEFINE r == envRename
      <3>1. /\ r = [old |-> r.old, new |-> r.new, wait |-> r.wait, home |-> r.home, left |-> r.left]
            /\ r.old \in VariableNames /\ r.new \in VariableNames
            /\ \A x \in r.left : x[1] \in En!Ids /\ x[2] \in Environment
        BY <2>2 DEF EnvInv, IsRename
      <3> HIDE DEF r
      <3>2. envRename' = [old |-> r.old, new |-> r.new, wait |-> -1, home |-> r.home, left |-> r.left]
        BY <2>2, <3>1 DEF r
      <3> QED  BY <3>1, <3>2 DEF IsRename
    <2> QED  BY <1>1, <2>1, <2>2
  <1>4. envTimers' \subseteq EnvTimer
    BY <1>1, LeftTimers
  <1>5. EnvWindow(envWs')
    <2>1. CASE UNCHANGED envWs
      BY <2>1 DEF EnvInv
    <2>2. CASE c.op = "load" /\ envWs' = [envWs EXCEPT !.loaded = c.id]
      BY <1>2, <2>2 DEF EnvInv, EnvWindow
    <2> QED
      BY <2>1, <2>2 DEF En!Answer, En!Loaded, En!Reloaded, En!Created, En!Updated,
                        En!Removed, En!SystemRead
  <1>6. \A d \in envCalls' : IsEnvCall(d)
    <2>1. CASE envCalls' = envCalls \ {c}
      BY <2>1 DEF EnvInv
    <2>2. CASE c.op = "load" /\ \E arg : envCalls' = (envCalls \ {c}) \cup {En!Call("system", c.id, arg)}
      <3> DEFINE others == envCalls \ {c}
      <3>1. others \in SUBSET envCalls
        OBVIOUS
      <3>2. PICK arg : envCalls' = others \cup {En!Call("system", c.id, arg)}
        BY <2>2
      <3> HIDE DEF others
      <3> QED  BY <1>2, <3>1, <3>2, AskedCalls
    <2> QED
      BY <2>1, <2>2 DEF En!Answer, En!Loaded, En!Reloaded, En!Created, En!Updated,
                        En!Removed, En!SystemRead
  <1> DEFINE Followed == \E a, fresh : \E sel \in En!Ids \cup {None} :
                             En!Follow(envEnvs', a, sel, fresh)
             Listed == envEnvs' \in EnvMap /\ ActiveOf(envActive', envEnvs')
  <1>7. envEditor.id \in En!Ids \cup {None}
    BY DEF EnvInv, EditorOf
  <1>8. \/ Listed /\ Followed
        \/ UNCHANGED <<envEnvs, envActive, envEditor>>
    <2>1. CASE En!Loaded(c)
      <3>1. Followed
        BY <1>7, <2>1 DEF En!Loaded
      <3>2. Listed
        BY <1>2, <2>1 DEF En!Loaded, En!Validated, ActiveOf
      <3> QED  BY <3>1, <3>2
    <2>2. CASE En!Reloaded(c)
      <3>1. Followed
        BY <1>7, <2>2 DEF En!Reloaded
      <3>2. Listed
        BY <1>2, <2>2 DEF En!Reloaded, En!Validated, ActiveOf
      <3> QED  BY <3>1, <3>2
    <2>3. CASE En!Created(c)
      <3>1. Followed
        <4>1. sure(c.id) \in En!Ids \cup {None}
          BY <1>2
        <4> QED  BY <2>3, <4>1 DEF En!Created
      <3>2. /\ c.res \in Environment /\ UNCHANGED envActive
            /\ envEnvs' = [envEnvs EXCEPT ![c.id] = c.res]
        BY <1>2, <2>3 DEF En!Created
      <3>3. Listed
        BY <1>2, <3>2, EnvConstants DEF EnvInv, EnvMap, ActiveOf
      <3> QED  BY <3>1, <3>3
    <2>4. CASE En!Updated(c)
      <3>1. Followed
        BY <1>7, <2>4 DEF En!Updated
      <3>2. /\ c.res \in Environment /\ UNCHANGED envActive
            /\ envEnvs' = [envEnvs EXCEPT ![c.id] = IF @ = None THEN None ELSE c.res]
        BY <1>2, <2>4 DEF En!Updated
      <3>3. Listed
        BY <1>2, <3>2, EnvConstants DEF EnvInv, EnvMap, ActiveOf
      <3> QED  BY <3>1, <3>3
    <2>5. CASE En!Removed(c)
      <3>1. Followed
        <4>1. Home[c.id] \in En!Ids
          BY <1>2, <2>5, EnvConstants DEF En!Removed
        <4>2. sure(Home[c.id]) \in En!Ids \cup {None}
          BY <4>1
        <4> QED  BY <2>5, <4>2 DEF En!Removed
      <3>2. /\ envEnvs' = [envEnvs EXCEPT ![c.id] = None]
            /\ envActive' = IF envActive = c.id THEN None ELSE envActive
        BY <2>5 DEF En!Removed
      <3>3. Listed
        BY <1>2, <3>2, EnvConstants DEF EnvInv, EnvMap, ActiveOf
      <3> QED  BY <3>1, <3>3
    <2>6. CASE En!SystemRead(c)
      BY <2>6 DEF En!SystemRead
    <2> QED  BY <2>1, <2>2, <2>3, <2>4, <2>5, <2>6 DEF En!Answer
  <1>9. EditorOf(envEditor, envEnvs)' /\ Listed
    <2>1. CASE Listed /\ Followed
      BY <2>1, FollowListed
    <2>2. CASE UNCHANGED <<envEnvs, envActive, envEditor>>
      BY <2>2 DEF EnvInv, EditorOf, ActiveOf
    <2> QED  BY <1>8, <2>1, <2>2
  <1>10. envDisk' \in EnvMap
    BY <1>1 DEF EnvInv
  <1> QED  BY <1>3, <1>4, <1>5, <1>6, <1>9, <1>10 DEF EnvInv

\* Steps that leave what is listed and shown: they make a call, or end one.
LEMMA EnvCalled ==
    ASSUME EnvInv, envDisk' \in EnvMap, EnvWindow(envWs'), IsRename(envRename'),
           envTimers' \subseteq EnvTimer,
           UNCHANGED <<envEnvs, envActive, envEditor>>,
           NEW op, NEW id \in En!Ids, NEW arg,
           op \in {"load", "reload"} => id \in Workspaces,
           op \in {"create", "remove"} => id \in Envs,
           op = "update" => arg \in Environment,
           En!Ask({En!Call(op, id, arg)})
    PROVE  EnvInv'
  <1> DEFINE others == envCalls
  <1>1. others \in SUBSET envCalls /\ envCalls' = others \cup {En!Call(op, id, arg)}
    BY DEF En!Ask
  <1> HIDE DEF others
  <1>2. \A c \in envCalls' : IsEnvCall(c)
    BY <1>1, AskedCalls
  <1> QED  BY <1>2 DEF EnvInv, EditorOf, ActiveOf

\* A window that shows w, with what it had loaded.
LEMMA EnvWindows ==
    ASSUME EnvInv
    PROVE  /\ envWs.shown \in Workspaces \cup {None} /\ envWs.loaded \in Workspaces \cup {None}
           /\ \A w \in Workspaces : EnvWindow([envWs EXCEPT !.shown = w])
  BY DEF EnvInv, EnvWindow

\* The name or the variables of an environment are written anew.
LEMMA Rewrites ==
    /\ \A r \in Environment : [r EXCEPT !.name = 1 - @] \in Environment
    /\ \A r \in Environment, v \in En!Vars : [r EXCEPT !.vars = v] \in Environment
    /\ \A v \in En!Vars, old, new \in VariableNames :
          En!Rewritten(v, old, new) \in En!Vars /\ En!Moved(v, old, new) \in En!Vars
    /\ \A v \in En!Vars, k \in VariableNames, x \in VariableNames \cup {EnvPlain, None} :
          [v EXCEPT ![k] = x] \in En!Vars
  BY DEF Environment, En!Vars, En!Rewritten, En!Moved

LEMMA WrittenElsewhere ==
    ASSUME NEW r \in Environment, NEW v \in En!Vars
    PROVE  En!Overwritten(r, v) \in Environment
  <1> DEFINE s == [r EXCEPT !.vars = v]
  <1>1. s \in Environment
    BY DEF Environment
  <1>2. En!Overwritten(r, v) = [s EXCEPT !.at = @ + 1]
    BY DEF En!Overwritten
  <1> HIDE DEF s
  <1>3. [s EXCEPT !.at = @ + 1] \in Environment
    BY <1>1 DEF Environment
  <1> QED  BY <1>2, <1>3

\* One environment less is left of a renaming.
LEMMA RewrittenOne ==
    ASSUME NEW m, NEW x, NEW w,
           m = [old |-> m.old, new |-> m.new, wait |-> m.wait, home |-> m.home, left |-> m.left]
    PROVE  [m EXCEPT !.left = @ \ {x}, !.wait = w]
             = [old |-> m.old, new |-> m.new, wait |-> w, home |-> m.home, left |-> m.left \ {x}]
  <1> DEFINE s == [m EXCEPT !.left = @ \ {x}]
  <1>1. s = [old |-> m.old, new |-> m.new, wait |-> m.wait, home |-> m.home, left |-> m.left \ {x}]
    OBVIOUS
  <1>2. [m EXCEPT !.left = @ \ {x}, !.wait = w] = [s EXCEPT !.wait = w]
    OBVIOUS
  <1> HIDE DEF s
  <1>3. [s EXCEPT !.wait = w]
          = [old |-> m.old, new |-> m.new, wait |-> w, home |-> m.home, left |-> m.left \ {x}]
    BY <1>1
  <1> QED  BY <1>2, <1>3

\* The backend and other windows.
LEMMA EnvElsewhere ==
    ASSUME EnvInv,
           \/ \E w \in Workspaces : En!Open(w)
           \/ \E e \in En!Ids, k \in VariableNames :
                 En!Elsewhere(e, [En!NoVars EXCEPT ![k] = EnvPlain])
           \/ \E e \in Envs : En!DeletedElsewhere(e) \/ En!Create(e) \/ En!Remove(e)
           \/ \E e \in En!Ids : En!RenameEnv(e)
           \/ En!Blur
           \/ \E t \in envTimers : En!Fire(t)
           \/ envRename # <<>> /\ \E x \in envRename.left : En!RewriteEnv(x)
    PROVE  EnvInv'
  <1>1. /\ envDisk \in EnvMap /\ EnvWindow(envWs) /\ IsRename(envRename)
        /\ envTimers \subseteq EnvTimer
    BY DEF EnvInv
  <1>2. ASSUME NEW w \in Workspaces, En!Open(w) PROVE EnvInv'
    <2>1. /\ En!Ask({En!Call("load", w, None)}) /\ EnvWindow(envWs')
          /\ UNCHANGED <<envDisk, envEnvs, envActive, envEditor, envTimers, envRename>>
      BY <1>2, EnvWindows DEF En!Open, En!rest, En!panes
    <2>2. w \in En!Ids
      BY EnvConstants
    <2> QED  BY <1>1, <2>1, <2>2, EnvCalled
  <1>3. ASSUME NEW e \in En!Ids, NEW v \in En!Vars, En!Elsewhere(e, v) PROVE EnvInv'
    <2>1. /\ En!Ask({En!Call("reload", envWs.loaded, None)})
          /\ UNCHANGED <<envWs, envEnvs, envActive, envEditor, envTimers, envRename>>
          /\ envWs.loaded # None /\ envDisk[e] # None
          /\ envDisk' = [envDisk EXCEPT ![e] = En!Overwritten(@, v)]
      BY <1>3 DEF En!Elsewhere, En!rest, En!panes
    <2>2. En!Overwritten(envDisk[e], v) \in Environment
      <3>1. envDisk[e] \in Environment
        BY <1>1, <2>1 DEF EnvMap
      <3> QED  BY <3>1, WrittenElsewhere
    <2>4. envDisk' \in EnvMap
      BY <1>1, <2>1, <2>2 DEF EnvMap
    <2>5. envWs.loaded \in Workspaces /\ envWs.loaded \in En!Ids
      BY <2>1, EnvWindows, EnvConstants
    <2> DEFINE home == envWs.loaded
    <2>6. home \in En!Ids /\ home \in Workspaces /\ En!Ask({En!Call("reload", home, None)})
      BY <2>1, <2>5
    <2> HIDE DEF home
    <2> QED  BY <1>1, <2>1, <2>4, <2>6, EnvCalled
  <1>4. ASSUME NEW e \in Envs, En!DeletedElsewhere(e) PROVE EnvInv'
    <2>1. /\ En!Ask({En!Call("reload", envWs.loaded, None)})
          /\ UNCHANGED <<envWs, envEnvs, envActive, envEditor, envTimers, envRename>>
          /\ envWs.loaded # None
          /\ envDisk' = [envDisk EXCEPT ![e] = None]
      BY <1>4 DEF En!DeletedElsewhere, En!rest, En!panes
    <2>2. envDisk' \in EnvMap
      BY <1>1, <2>1 DEF EnvMap
    <2> DEFINE home == envWs.loaded
    <2>3. home \in En!Ids /\ home \in Workspaces /\ En!Ask({En!Call("reload", home, None)})
      BY <2>1, EnvWindows, EnvConstants
    <2> HIDE DEF home
    <2> QED  BY <1>1, <2>1, <2>2, <2>3, EnvCalled
  <1>5. ASSUME NEW e \in Envs, En!Create(e) \/ En!Remove(e) PROVE EnvInv'
    <2>1. /\ \E op \in {"create", "remove"} : En!Ask({En!Call(op, e, None)})
          /\ UNCHANGED <<envDisk, envWs, envEnvs, envActive, envEditor, envTimers, envRename>>
      BY <1>5 DEF En!Create, En!Remove, En!rest, En!panes
    <2>2. e \in En!Ids
      BY EnvConstants
    <2> QED  BY <1>1, <2>1, <2>2, EnvCalled
  <1>6. ASSUME NEW e \in En!Ids, NEW r \in Environment, En!Ask({En!Call("update", e, r)}),
               UNCHANGED <<envDisk, envWs, envEnvs, envActive, envEditor>>,
               envTimers' \subseteq envTimers, IsRename(envRename')
        PROVE  EnvInv'
    BY <1>1, <1>6, EnvCalled
  <1>7. ASSUME NEW e \in En!Ids, En!RenameEnv(e) PROVE EnvInv'
    <2>1. envEnvs[e] \in Environment
      BY <1>7 DEF En!RenameEnv, EnvInv, EnvMap
    <2> DEFINE r == [envEnvs[e] EXCEPT !.name = 1 - @]
    <2>2. r \in Environment
      BY <2>1, Rewrites
    <2>3. /\ En!Ask({En!Call("update", e, r)})
          /\ UNCHANGED <<envDisk, envWs, envEnvs, envActive, envEditor, envTimers, envRename>>
      BY <1>7 DEF En!RenameEnv, En!rest, En!panes
    <2> HIDE DEF r
    <2> QED  BY <1>1, <1>6, <2>2, <2>3
  <1>8. CASE En!Blur
    <2>1. /\ envEditor.id \in En!Ids /\ envEnvs[envEditor.id] \in Environment
          /\ envEditor.rows \in En!Vars
      BY <1>8 DEF En!Blur, EnvInv, EditorOf, EnvMap
    <2> DEFINE e == envEditor.id
               r == [envEnvs[e] EXCEPT !.vars = envEditor.rows]
    <2>2. e \in En!Ids /\ r \in Environment
      BY <2>1, Rewrites
    <2>3. /\ En!Ask({En!Call("update", e, r)})
          /\ UNCHANGED <<envDisk, envWs, envEnvs, envActive, envEditor, envTimers, envRename>>
      BY <1>8 DEF En!Blur, En!rest, En!panes
    <2> HIDE DEF e, r
    <2> QED  BY <1>1, <1>6, <2>2, <2>3
  <1>9. ASSUME NEW t \in envTimers, En!Fire(t) PROVE EnvInv'
    <2>1. t.id \in En!Ids /\ t.env \in Environment /\ t.vars \in En!Vars
      BY <1>1 DEF EnvTimer
    <2> DEFINE e == t.id
               r == [t.env EXCEPT !.vars = t.vars]
    <2>2. e \in En!Ids /\ r \in Environment
      BY <2>1, Rewrites
    <2>3. /\ En!Ask({En!Call("update", e, r)}) /\ envTimers' = envTimers \ {t}
          /\ UNCHANGED <<envDisk, envWs, envEnvs, envActive, envEditor, envRename>>
      BY <1>9 DEF En!Fire, En!rest
    <2> HIDE DEF e, r
    <2> QED  BY <1>1, <1>6, <2>2, <2>3
  <1>10. ASSUME envRename # <<>>, NEW x \in envRename.left, En!RewriteEnv(x) PROVE EnvInv'
    <2> DEFINE m == envRename
    <2>1. /\ m = [old |-> m.old, new |-> m.new, wait |-> m.wait, home |-> m.home, left |-> m.left]
          /\ m.old \in VariableNames /\ m.new \in VariableNames
          /\ \A y \in m.left : y[1] \in En!Ids /\ y[2] \in Environment
      BY <1>1, <1>10 DEF IsRename
    <2> DEFINE e == x[1]
               v == En!Rewritten(x[2].vars, m.old, m.new)
               r == [x[2] EXCEPT !.vars = v]
    <2>2. e \in En!Ids /\ x[2] \in Environment /\ x[2].vars \in En!Vars
      BY <1>10, <2>1 DEF Environment
    <2>3. v \in En!Vars
      BY <2>1, <2>2, Rewrites
    <2>4. r \in Environment
      BY <2>2, <2>3, Rewrites
    <2>5. /\ En!Ask({En!Call("update", e, r)})
          /\ envRename' = [envRename EXCEPT !.left = @ \ {x}, !.wait = envMade]
          /\ UNCHANGED <<envDisk, envWs, envEnvs, envActive, envEditor, envTimers>>
      BY <1>10 DEF En!RewriteEnv, En!rest, En!panes
    <2> HIDE DEF e, r, m
    <2>6. IsRename(envRename')
      <3>1. [m EXCEPT !.left = @ \ {x}, !.wait = envMade]
              = [old |-> m.old, new |-> m.new, wait |-> envMade, home |-> m.home,
                 left |-> m.left \ {x}]
        BY <2>1, RewrittenOne
      <3>2. envRename' = [m EXCEPT !.left = @ \ {x}, !.wait = envMade]
        BY <2>5 DEF m
      <3> QED  BY <2>1, <3>1, <3>2 DEF IsRename
    <2> QED  BY <1>6, <2>2, <2>4, <2>5, <2>6
  <1>11. \A k \in VariableNames : [En!NoVars EXCEPT ![k] = EnvPlain] \in En!Vars
    BY EnvConstants, Rewrites
  <1> QED  BY <1>2, <1>3, <1>4, <1>5, <1>7, <1>8, <1>9, <1>10, <1>11

\* The switcher and the dialog.
LEMMA EnvDialog ==
    ASSUME EnvInv,
           \/ \E e \in Envs \cup {None} : En!SetActive(e)
           \/ \E k \in VariableNames \cup {None} : En!OpenDialog(k)
           \/ \E e \in En!Ids : En!Select(e)
           \/ En!CloseDialog \/ En!SwitchView
    PROVE  EnvInv'
  <1>1. /\ EnvWindow(envWs) /\ envEditor.id \in En!Ids \cup {None} /\ envEnvs \in EnvMap
        /\ envActive # None => envActive \in En!Ids
    BY EnvConstants DEF EnvInv, EditorOf, ActiveOf
  <1>2. ASSUME UNCHANGED <<envDisk, envEnvs, envWs, envRename>>,
               envCalls' \subseteq envCalls, envTimers' \subseteq EnvTimer,
               EditorOf(envEditor', envEnvs), ActiveOf(envActive', envEnvs)
        PROVE  EnvInv'
    BY <1>2 DEF EnvInv
  <1>3. ASSUME NEW e \in Envs \cup {None}, En!SetActive(e) PROVE EnvInv'
    <2>1. /\ UNCHANGED <<envDisk, envEnvs, envWs, envRename, envCalls>>
          /\ En!Left /\ ActiveOf(envActive', envEnvs)
          /\ En!Follow(envEnvs, e, envEditor.id, {})
      BY <1>3 DEF En!SetActive, En!stored, ActiveOf
    <2> DEFINE sel == envEditor.id
    <2>2. En!Follow(envEnvs', e, sel, {}) /\ sel \in En!Ids \cup {None} /\ envEnvs' \in EnvMap
      BY <1>1, <2>1 DEF En!Follow, En!Reselected
    <2> HIDE DEF sel
    <2>3. EditorOf(envEditor, envEnvs)'
      BY <2>2, FollowListed
    <2>4. envTimers' \subseteq EnvTimer
      BY <2>1, LeftTimers
    <2> QED  BY <1>2, <2>1, <2>3, <2>4 DEF EditorOf
  <1>4. ASSUME NEW e \in En!Ids \cup {None}, envEditor' = En!Opened(envEnvs, e)
        PROVE  EditorOf(envEditor', envEnvs)
    BY <1>1, <1>4, OpenedListed
  <1>5. ASSUME NEW k \in VariableNames \cup {None}, En!OpenDialog(k) PROVE EnvInv'
    <2> DEFINE e == IF k # None /\ En!Holder(envEnvs, envActive, k) # None
                    THEN En!Holder(envEnvs, envActive, k)
                    ELSE IF envActive # None THEN envActive ELSE envWs.loaded
    <2>1. e \in En!Ids \cup {None}
      BY <1>1, HolderListed, EnvWindows, EnvConstants
    <2>2. /\ envEditor' = En!Opened(envEnvs, e)
          /\ UNCHANGED <<envDisk, envEnvs, envWs, envRename, envCalls, envTimers, envActive>>
      BY <1>5 DEF En!OpenDialog, En!stored
    <2> HIDE DEF e
    <2>3. EditorOf(envEditor', envEnvs)
      BY <1>4, <2>1, <2>2
    <2> QED  BY <1>2, <2>2, <2>3 DEF EnvInv
  <1>6. ASSUME NEW e \in En!Ids, En!Select(e) PROVE EnvInv'
    <2>1. /\ envEditor' = En!Opened(envEnvs, e) /\ En!Left
          /\ UNCHANGED <<envDisk, envEnvs, envWs, envRename, envCalls, envActive>>
      BY <1>6 DEF En!Select, En!stored
    <2>2. EditorOf(envEditor', envEnvs)
      BY <1>4, <2>1
    <2> QED  BY <1>2, <2>1, <2>2, LeftTimers DEF EnvInv
  <1>7. CASE En!CloseDialog
    <2>1. /\ envEditor' = En!Closed /\ En!Left
          /\ UNCHANGED <<envDisk, envEnvs, envWs, envRename, envCalls, envActive>>
      BY <1>7 DEF En!CloseDialog, En!stored
    <2>2. envEditor' = En!Opened(envEnvs, None)
      BY <2>1 DEF En!Opened
    <2>3. EditorOf(envEditor', envEnvs)
      BY <1>4, <2>2
    <2> QED  BY <1>2, <2>1, <2>3, LeftTimers DEF EnvInv
  <1>8. CASE En!SwitchView
    <2> DEFINE o == En!Opened(envEnvs, envEditor.id)
               as == IF envEditor.as = "form" THEN "text" ELSE "form"
    <2>1. /\ envEditor' = [o EXCEPT !.as = as] /\ En!Left
          /\ UNCHANGED <<envDisk, envEnvs, envWs, envRename, envCalls, envActive>>
      BY <1>8 DEF En!SwitchView, En!stored
    <2>2. EditorOf(o, envEnvs) /\ as \in {"form", "text"}
      BY <1>1, OpenedListed
    <2> HIDE DEF o, as
    <2>3. EditorOf(envEditor', envEnvs)
      BY <2>1, <2>2 DEF EditorOf
    <2> QED  BY <1>2, <2>1, <2>3, LeftTimers DEF EnvInv
  <1> QED  BY <1>3, <1>5, <1>6, <1>7, <1>8

\* Rows are typed in: the save that is put off has the environment they are of.
LEMMA EnvTyped ==
    ASSUME EnvInv, NEW rows \in En!Vars, envEditor.id # None, En!Typed(rows),
           UNCHANGED <<envDisk, envEnvs, envWs, envCalls, envActive>>, IsRename(envRename')
    PROVE  EnvInv'
  <1>1. /\ envEditor.id \in En!Ids /\ envEnvs[envEditor.id] \in Environment
        /\ envEditor \in [id : En!Ids \cup {None}, as : {"form", "text"}, rows : En!Vars,
                          armed : BOOLEAN]
    BY DEF EnvInv, EditorOf, EnvMap
  <1>2. [mine |-> TRUE, id |-> envEditor.id, env |-> envEnvs[envEditor.id], vars |-> rows] \in EnvTimer
    BY <1>1 DEF EnvTimer
  <1>3. envTimers' \subseteq EnvTimer
    BY <1>2 DEF En!Typed, EnvInv
  <1> DEFINE armed == (envEditor.as = "form")
             half == [envEditor EXCEPT !.rows = rows]
  <1>4. envEditor' = [half EXCEPT !.armed = armed] /\ armed \in BOOLEAN
    BY DEF En!Typed
  <1>5. half \in [id : En!Ids \cup {None}, as : {"form", "text"}, rows : En!Vars, armed : BOOLEAN]
        /\ half.id = envEditor.id
    BY <1>1
  <1> HIDE DEF half, armed
  <1>6. EditorOf(envEditor', envEnvs)
    BY <1>1, <1>4, <1>5 DEF EditorOf, EnvInv
  <1> QED  BY <1>3, <1>6 DEF EnvInv

\* The rows, the renaming of a key, and the system's variables.
LEMMA EnvEdited ==
    ASSUME EnvInv,
           \/ \E k \in VariableNames, v \in VariableNames \cup {EnvPlain, None} : En!TypeRow(k, v)
           \/ \E k \in VariableNames, n \in VariableNames : En!RenameKey(k, n)
           \/ \E k \in VariableNames : En!Expose(k)
           \/ En!RewriteUses \/ En!GivenUp
           \/ \E c \in envCalls : En!Fail(c)
    PROVE  EnvInv'
  <1>1. /\ IsRename(envRename) /\ envEditor.rows \in En!Vars
    BY DEF EnvInv, EditorOf
  <1>2. ASSUME NEW k \in VariableNames, NEW v \in VariableNames \cup {EnvPlain, None},
               En!TypeRow(k, v)
        PROVE  EnvInv'
    <2> DEFINE rows == [envEditor.rows EXCEPT ![k] = v]
    <2>1. rows \in En!Vars
      BY <1>1, Rewrites
    <2>2. /\ En!Typed(rows) /\ envEditor.id # None
          /\ UNCHANGED <<envDisk, envEnvs, envWs, envCalls, envActive, envRename>>
      BY <1>2 DEF En!TypeRow, En!stored
    <2> HIDE DEF rows
    <2> QED  BY <1>1, <2>1, <2>2, EnvTyped
  <1>3. ASSUME NEW k \in VariableNames, NEW n \in VariableNames, En!RenameKey(k, n)
        PROVE  EnvInv'
    <2> DEFINE rows == En!Moved(envEditor.rows, k, n)
               holds == {x \in En!Ids \ {envEditor.id} :
                            envEnvs[x] # None /\ \E y \in VariableNames : envEnvs[x].vars[y] = k}
               left == {<<e, envEnvs[e]>> : e \in holds}
    <2>1. rows \in En!Vars
      BY <1>1, Rewrites
    <2>2. /\ En!Typed(rows) /\ envEditor.id # None
          /\ UNCHANGED <<envDisk, envEnvs, envWs, envCalls, envActive>>
          /\ envRename' = [old |-> k, new |-> n, wait |-> -1, home |-> En!HomeOf(envEditor.id),
                           left |-> left]
      BY <1>3 DEF En!RenameKey, En!stored
    <2>3. \A x \in left : x[1] \in En!Ids /\ x[2] \in Environment
      BY DEF EnvInv, EnvMap
    <2> HIDE DEF rows, left
    <2>4. IsRename(envRename')
      BY <2>2, <2>3 DEF IsRename
    <2> QED  BY <2>1, <2>2, <2>4, EnvTyped
  <1>4. ASSUME NEW k \in VariableNames, En!Expose(k) PROVE EnvInv'
    <2>1. /\ envEditor.id \in Workspaces
          /\ UNCHANGED <<envDisk, envEnvs, envWs, envActive, envEditor, envTimers, envRename>>
          /\ \/ UNCHANGED envCalls
             \/ \E arg : En!Ask({En!Call("system", envEditor.id, arg)})
      BY <1>4 DEF En!Expose, En!stored
    <2>2. CASE UNCHANGED envCalls
      BY <2>1, <2>2 DEF EnvInv, EditorOf, ActiveOf
    <2>3. CASE \E arg : En!Ask({En!Call("system", envEditor.id, arg)})
      <3> DEFINE w == envEditor.id
      <3>1. PICK arg : En!Ask({En!Call("system", w, arg)})
        BY <2>3
      <3>2. w \in En!Ids
        BY <2>1, EnvConstants
      <3>3. envDisk' \in EnvMap /\ EnvWindow(envWs') /\ IsRename(envRename') /\ envTimers' \subseteq EnvTimer
        BY <2>1 DEF EnvInv
      <3> HIDE DEF w
      <3> QED  BY <2>1, <3>1, <3>2, <3>3, EnvCalled
    <2> QED  BY <2>1, <2>2, <2>3
  <1>5. ASSUME UNCHANGED <<envDisk, envEnvs, envWs, envActive, envEditor, envTimers>>,
               envCalls' \subseteq envCalls, IsRename(envRename')
        PROVE  EnvInv'
    BY <1>5 DEF EnvInv, EditorOf, ActiveOf
  <1>6. CASE En!RewriteUses
    BY <1>5, <1>6 DEF En!RewriteUses, En!rest, En!panes, IsRename
  <1>7. CASE En!GivenUp
    <2>1. /\ UNCHANGED <<envDisk, envEnvs, envWs, envActive, envEditor, envTimers, envCalls>>
          /\ envRename # <<>> /\ envRename' = [envRename EXCEPT !.wait = -1]
      BY <1>7 DEF En!GivenUp, En!rest, En!panes
    <2> DEFINE m == envRename
    <2>2. /\ m = [old |-> m.old, new |-> m.new, wait |-> m.wait, home |-> m.home, left |-> m.left]
          /\ m.old \in VariableNames /\ m.new \in VariableNames
          /\ \A x \in m.left : x[1] \in En!Ids /\ x[2] \in Environment
      BY <1>1, <2>1 DEF IsRename
    <2> HIDE DEF m
    <2>3. envRename' = [old |-> m.old, new |-> m.new, wait |-> -1, home |-> m.home, left |-> m.left]
      BY <2>1, <2>2 DEF m
    <2>4. IsRename(envRename')
      BY <2>2, <2>3 DEF IsRename
    <2> QED  BY <1>5, <2>1, <2>4
  <1>8. ASSUME NEW c \in envCalls, En!Fail(c) PROVE EnvInv'
    BY <1>1, <1>5, <1>8 DEF En!Fail, En!rest, En!panes
  <1> QED  BY <1>2, <1>3, <1>4, <1>6, <1>7, <1>8

LEMMA EnvInductive ==
    /\ En!Init => EnvInv
    /\ EnvInv /\ [En!Next]_envVars => EnvInv'
  <1>1. En!Init => EnvInv
    <2> SUFFICES ASSUME En!Init PROVE EnvInv
      OBVIOUS
    <2>1. envDisk \in EnvMap
      <3>1. \A v \in EnvStart : [vars |-> v, name |-> 0, at |-> 0] \in Environment
        BY EnvConstants DEF Environment
      <3> QED  BY <3>1 DEF En!Init, EnvMap
    <2>2. envEnvs \in EnvMap /\ IsRename(envRename) /\ EnvWindow(envWs)
      BY DEF En!Init, EnvMap, IsRename, EnvWindow
    <2>3. EditorOf(envEditor, envEnvs)
      BY EnvConstants DEF En!Init, En!Closed, EditorOf
    <2>4. envCalls = {} /\ envTimers = {} /\ envActive = None
      BY DEF En!Init
    <2> QED  BY <2>1, <2>2, <2>3, <2>4 DEF EnvInv, ActiveOf
  <1>2. ASSUME EnvInv, En!Next PROVE EnvInv'
    BY <1>2, EnvExecuted, EnvAnswered, EnvElsewhere, EnvDialog, EnvEdited DEF En!Next
  <1>3. ASSUME EnvInv, UNCHANGED envVars PROVE EnvInv'
    BY <1>3 DEF EnvInv, envVars, EditorOf, ActiveOf
  <1> QED  BY <1>1, <1>2, <1>3

\* Environments (ActiveListed): whatever the order of the answers of load,
\* reload, create, update and remove, of any number of calls, activeEnvId is
\* an environment that is listed.
THEOREM ActiveListedHolds == SpecAll => []ActiveListed
  <1> DEFINE I == part = "env" => EnvInv
  <1>1. InitAll => I
    BY EnvInductive DEF InitAll
  <1>2. I /\ [NextAll]_allVars => I'
    <2> SUFFICES ASSUME I, [NextAll]_allVars, part = "env" PROVE EnvInv'
      BY DEF NextAll, allVars
    <2>1. [En!Next]_envVars
      BY DEF NextAll, allVars
    <2> QED  BY <2>1, EnvInductive
  <1>3. I => ActiveListed
    BY DEF EnvInv, ActiveOf, ActiveListed, En!ActiveListed
  <1> QED  BY <1>1, <1>2, <1>3, PTL DEF SpecAll

-----------------------------------------------------------------------------
(* The template fields. *)

\* A text with no secret in the clear.
SafeAtom == {In!Char, In!Var} \cup {In!Cipher(s) : s \in Secrets}
SafeText == Seq(SafeAtom)
SafeStep == [text : SafeText, caret : Nat]

\* Where the function modal puts its token.
IsModal(m) ==
    m # None => /\ m = [old |-> m.old, from |-> m.from, to |-> m.to, arg |-> m.arg]
                /\ m.from \in Nat /\ m.to \in Nat

\* A field, its stacks, and what may still be put into it.
FieldTexts ==
    /\ inputValue \in [Owners -> SafeText] /\ inputOwner \in Owners
    /\ inputShown \in SafeText /\ inputCaret \in Nat
FieldStacks == inputUndo \in Seq(SafeStep) /\ inputRedo \in Seq(SafeStep)
FieldMenu ==
    /\ inputMenu \in [open : BOOLEAN, start : Nat]
    /\ inputEnd # None => inputEnd \in Nat
FieldModals ==
    /\ IsModal(inputModal) /\ IsModal(inputRunning)
    /\ inputRunning # None => inputRunning.arg \in Secrets
    /\ inputDialog \notin {None, <<>>} => inputDialog[1] \in Nat /\ inputDialog[2] \in Nat
InputInv == inputEditor = "field" => FieldTexts /\ FieldStacks /\ FieldMenu /\ FieldModals

\* Every set of naturals that holds one holds a least, and a greatest when it
\* is bounded.
LEMMA LeastNatural ==
    ASSUME NEW T \in SUBSET Nat, T # {}
    PROVE  \E m \in T : \A n \in T : m <= n
  <1> DEFINE R == {ss \in Nat \X Nat : ss[1] < ss[2]}
  <1>1. IsWellFoundedOn(R, Nat)
    BY NatLessThanWellFounded, Zenon DEF OpToRel
  <1>2. \A x, y \in Nat : y < x => <<y, x>> \in R
    OBVIOUS
  <1> HIDE DEF R
  <1>3. PICK x \in T : \A y \in T : ~ (<<y, x>> \in R)
    BY <1>1, WFMin
  <1>4. ASSUME NEW n \in T PROVE x <= n
    <2>1. x \in Nat /\ n \in Nat /\ ~ (n < x)
      BY <1>2, <1>3
    <2> QED  BY <2>1
  <1> QED  BY <1>4

LEMMA GreatestBelow ==
    ASSUME NEW c \in Nat, NEW T \in SUBSET (0..c), T # {}
    PROVE  \E m \in T : \A n \in T : n <= m
  <1> DEFINE U == {c - t : t \in T}
  <1>1. U \in SUBSET Nat /\ U # {}
    <2>1. \A t \in T : t \in 0..c
      OBVIOUS
    <2>2. \A t \in T : c - t \in Nat
      BY <2>1
    <2> QED  BY <2>2
  <1>2. (\A t \in T : c - t \in U) /\ (\A u \in U : \E t \in T : u = c - t)
    OBVIOUS
  <1> HIDE DEF U
  <1>3. PICK u \in U : \A n \in U : u <= n
    BY <1>1, LeastNatural
  <1>4. PICK t \in T : u = c - t
    BY <1>2
  <1>5. \A n \in T : n <= t
    BY <1>2, <1>3, <1>4
  <1> QED  BY <1>5

\* The word before the caret begins somewhere.
LEMMA PartialStartIs ==
    ASSUME NEW t, NEW c \in Nat
    PROVE  In!PartialStart(t, c) \in 0..c
  <1> DEFINE T == {0} \cup {i \in 1..c : t[i] # In!Char}
             Begins(i) == (\A j \in (i + 1)..c : t[j] = In!Char) /\ (i = 0 \/ t[i] # In!Char)
  <1>1. T \in SUBSET (0..c) /\ T # {}
    OBVIOUS
  <1>2. \A j \in 1..c : j \in T \/ t[j] = In!Char
    OBVIOUS
  <1>3. \A i \in T : i = 0 \/ t[i] # In!Char
    OBVIOUS
  <1> HIDE DEF T
  <1>4. PICK m \in T : \A n \in T : n <= m
    BY <1>1, GreatestBelow
  <1>5. \A j \in (m + 1)..c : t[j] = In!Char
    BY <1>1, <1>2, <1>4
  <1>6. m \in 0..c /\ Begins(m)
    BY <1>1, <1>3, <1>5
  <1>7. In!PartialStart(t, c) = CHOOSE i \in 0..c : Begins(i)
    BY DEF In!PartialStart
  <1> HIDE DEF Begins
  <1> QED  BY <1>6, <1>7

LEMMA CompletingIs ==
    ASSUME FieldMenu, NEW t, NEW c \in Nat
    PROVE  In!Completing(t, c) \in [open : BOOLEAN, start : Nat]
  <1>1. In!PartialStart(t, c) \in Nat
    BY PartialStartIs
  <1>2. In!Closed \in [open : BOOLEAN, start : Nat]
    BY DEF FieldMenu, In!Closed
  <1> QED  BY <1>1, <1>2 DEF In!Completing

LEMMA Part ==
    ASSUME NEW S, NEW t \in Seq(S), NEW m \in Nat, NEW n \in Nat, n <= Len(t), m >= 1
    PROVE  SubSeq(t, m, n) \in Seq(S)
  <1>1. m \in Int /\ n \in Int /\ \A i \in m..n : t[i] \in S
    OBVIOUS
  <1> QED  BY <1>1, SubSeqProperties

\* Splicing and replacing put nothing else into a text.
LEMMA SplicedSafe ==
    ASSUME NEW t \in SafeText, NEW from \in Nat, NEW to \in Nat, NEW atom \in SafeText
    PROVE  In!Spliced(t, from, to, atom) \in SafeText
  <1>0. Len(t) \in Nat
    BY DEF SafeText
  <1>1. In!Least(from, Len(t)) \in Nat /\ In!Least(from, Len(t)) <= Len(t)
    BY <1>0 DEF In!Least
  <1>2. SubSeq(t, 1, In!Least(from, Len(t))) \in SafeText
    BY <1>1, Part DEF SafeText
  <1>3. SubSeq(t, to + 1, Len(t)) \in SafeText
    BY <1>0, Part DEF SafeText
  <1>4. SubSeq(t, 1, In!Least(from, Len(t))) \o atom \in SafeText
    BY <1>2, ConcatProperties DEF SafeText
  <1> QED  BY <1>3, <1>4, ConcatProperties DEF SafeText, In!Spliced

\* The editor writes a text of which every atom is safe.
LEMMA WroteSafe ==
    ASSUME FieldTexts, NEW t \in SafeText, NEW c \in Nat, In!Wrote(t, c),
           UNCHANGED inputOwner
    PROVE  FieldTexts'
  <1>1. Len(t) \in Nat
    BY DEF SafeText
  <1> QED  BY <1>1 DEF In!Wrote, In!Least, FieldTexts

LEMMA SyncedSafe ==
    ASSUME FieldTexts, NEW v \in [Owners -> SafeText], NEW o \in Owners, In!Synced(v, o)
    PROVE  FieldTexts'
  <1>1. v[o] \in SafeText /\ \A t \in SafeText : Len(t) \in Nat
    BY DEF SafeText
  <1>2. CASE UNCHANGED <<inputShown, inputCaret>>
    BY <1>2 DEF In!Synced, FieldTexts
  <1>3. CASE /\ inputShown' = IF inputSkip THEN inputShown ELSE v[o]
             /\ inputCaret' = In!Least(inputCaret, Len(inputShown'))
    <2>1. inputShown' \in SafeText
      BY <1>1, <1>3 DEF FieldTexts
    <2>2. inputCaret' \in Nat
      BY <1>1, <1>3, <2>1 DEF In!Least, FieldTexts
    <2> QED  BY <2>1, <2>2 DEF In!Synced, FieldTexts
  <1> QED  BY <1>2, <1>3 DEF In!Synced

\* An undo step is a text that was shown.
LEMMA PushedSafe ==
    ASSUME FieldTexts, FieldStacks, In!PushUndo
    PROVE  FieldStacks'
  <1> DEFINE step == [text |-> inputShown, caret |-> inputCaret]
             s == Append(inputUndo, step)
  <1>1. step \in SafeStep
    BY DEF FieldTexts, SafeStep
  <1>2. s \in Seq(SafeStep) /\ s # <<>>
    BY <1>1, AppendProperties DEF FieldStacks
  <1>3. In!Pushed(inputUndo, step) \in {s, Tail(s)}
    BY DEF In!Pushed
  <1> HIDE DEF s, step
  <1>4. In!Pushed(inputUndo, step) \in Seq(SafeStep)
    BY <1>2, <1>3, HeadTailProperties
  <1>5. <<>> \in Seq(SafeStep)
    OBVIOUS
  <1> QED  BY <1>4, <1>5 DEF In!PushUndo, FieldStacks, step

\* Keys, in a field.
LEMMA FieldKeys ==
    ASSUME FieldTexts, FieldStacks, FieldMenu, FieldModals, inputEditor = "field",
           \/ In!Type \/ In!Backspace \/ In!Undo \/ In!Redo
           \/ \E c \in In!Positions : In!MoveCaret(c)
    PROVE  FieldTexts' /\ FieldStacks' /\ FieldMenu' /\ FieldModals'
  <1>1. <<>> \in SafeText /\ <<In!Char>> \in SafeText
    BY DEF SafeText, SafeAtom
  <1>2. inputShown \in SafeText /\ inputCaret \in Nat /\ inputCaret + 1 \in Nat
    BY DEF FieldTexts
  <1>3. In!Closed \in [open : BOOLEAN, start : Nat]
    BY DEF FieldMenu, In!Closed
  <1>4. ASSUME In!Untouched PROVE FieldModals' /\ UNCHANGED <<inputOwner, inputEnd>>
    BY <1>4 DEF In!Untouched, FieldModals, IsModal
  <1>5. CASE In!Type
    <2> DEFINE t == In!Spliced(inputShown, inputCaret, inputCaret, <<In!Char>>)
    <2>1. t \in SafeText
      BY <1>1, <1>2, SplicedSafe
    <2>2. /\ In!PushUndo /\ In!Untouched /\ In!Wrote(t, inputCaret + 1)
          /\ inputMenu' = In!Completing(t, inputCaret + 1)
      BY <1>5 DEF In!Type
    <2> HIDE DEF t
    <2>3. FieldTexts'
      BY <1>2, <1>4, <2>1, <2>2, WroteSafe
    <2>4. inputMenu' \in [open : BOOLEAN, start : Nat]
      BY <1>2, <2>2, CompletingIs
    <2> QED  BY <1>4, <2>2, <2>3, <2>4, PushedSafe DEF FieldMenu
  <1>6. CASE In!Backspace
    <2> DEFINE t == In!Spliced(inputShown, inputCaret - 1, inputCaret, <<>>)
    <2>0. inputCaret - 1 \in Nat
      BY <1>2, <1>6 DEF In!Backspace
    <2>1. t \in SafeText
      BY <1>1, <1>2, <2>0, SplicedSafe
    <2>2. /\ In!PushUndo /\ In!Untouched /\ In!Wrote(t, inputCaret - 1)
          /\ inputMenu' \in {In!Closed, In!Completing(t, inputCaret - 1)}
      BY <1>6 DEF In!Backspace
    <2> HIDE DEF t
    <2>3. FieldTexts'
      BY <1>4, <2>0, <2>1, <2>2, WroteSafe
    <2>4. inputMenu' \in [open : BOOLEAN, start : Nat]
      BY <1>3, <2>0, <2>2, CompletingIs
    <2> QED  BY <1>4, <2>2, <2>3, <2>4, PushedSafe DEF FieldMenu
  <1>7. ASSUME NEW stack \in Seq(SafeStep), stack # <<>>
        PROVE  /\ stack[Len(stack)].text \in SafeText /\ stack[Len(stack)].caret \in Nat
               /\ SubSeq(stack, 1, Len(stack) - 1) \in Seq(SafeStep)
    <2>1. Len(stack) \in Nat /\ Len(stack) >= 1
      BY <1>7
    <2>2. stack[Len(stack)] \in SafeStep
      BY <2>1
    <2>3. SubSeq(stack, 1, Len(stack) - 1) \in Seq(SafeStep)
      BY <2>1, Part
    <2> QED  BY <2>2, <2>3 DEF SafeStep
  <1> DEFINE here == [text |-> inputShown, caret |-> inputCaret]
  <1>8. \A stack \in Seq(SafeStep) : Append(stack, here) \in Seq(SafeStep)
    <2>1. here \in SafeStep
      BY <1>2 DEF SafeStep
    <2> QED  BY <2>1, AppendProperties
  <1> HIDE DEF here
  <1>9. CASE In!Undo
    <2> DEFINE s == inputUndo[Len(inputUndo)]
    <2>1. /\ inputUndo # <<>> /\ In!Wrote(s.text, s.caret) /\ In!Untouched
          /\ inputUndo' = SubSeq(inputUndo, 1, Len(inputUndo) - 1)
          /\ inputRedo' = Append(inputRedo, here) /\ inputMenu' = In!Closed
      BY <1>9 DEF In!Undo, here
    <2>2. s.text \in SafeText /\ s.caret \in Nat /\ FieldStacks'
      BY <1>7, <1>8, <2>1 DEF FieldStacks
    <2> HIDE DEF s
    <2>3. FieldTexts'
      BY <1>4, <2>1, <2>2, WroteSafe
    <2> QED  BY <1>3, <1>4, <2>1, <2>2, <2>3 DEF FieldMenu
  <1>10. CASE In!Redo
    <2> DEFINE s == inputRedo[Len(inputRedo)]
    <2>1. /\ inputRedo # <<>> /\ In!Wrote(s.text, s.caret) /\ In!Untouched
          /\ inputRedo' = SubSeq(inputRedo, 1, Len(inputRedo) - 1)
          /\ inputUndo' = Append(inputUndo, here) /\ inputMenu' = In!Closed
      BY <1>10 DEF In!Redo, here
    <2>2. s.text \in SafeText /\ s.caret \in Nat /\ FieldStacks'
      BY <1>7, <1>8, <2>1 DEF FieldStacks
    <2> HIDE DEF s
    <2>3. FieldTexts'
      BY <1>4, <2>1, <2>2, WroteSafe
    <2> QED  BY <1>3, <1>4, <2>1, <2>2, <2>3 DEF FieldMenu
  <1>11. ASSUME NEW c, In!MoveCaret(c)
         PROVE  FieldTexts' /\ FieldStacks' /\ FieldMenu' /\ FieldModals'
    <2>1. /\ inputCaret' = c /\ inputMenu' = In!Closed /\ In!Untouched
          /\ c \in 0..Len(inputShown)
          /\ UNCHANGED <<inputValue, inputShown, inputUndo, inputRedo>>
      BY <1>11 DEF In!MoveCaret
    <2>2. c \in Nat
      BY <1>2, <2>1 DEF SafeText
    <2> QED  BY <1>3, <1>4, <2>1, <2>2 DEF FieldTexts, FieldStacks, FieldMenu
  <1> QED  BY <1>5, <1>6, <1>9, <1>10, <1>11

\* A token that is inserted.
LEMMA InsertedSafe ==
    ASSUME FieldTexts, FieldMenu, NEW atom \in SafeAtom, NEW from \in Nat, NEW to \in Nat,
           In!InsertToken(atom, from, to), UNCHANGED inputOwner
    PROVE  FieldTexts' /\ FieldMenu'
  <1> DEFINE t == In!Spliced(inputShown, from, to, <<atom>>)
  <1>1. <<atom>> \in SafeText /\ inputShown \in SafeText
    BY DEF SafeText, FieldTexts
  <1>2. t \in SafeText /\ from + 1 \in Nat
    BY <1>1, SplicedSafe
  <1>3. In!Wrote(t, from + 1) /\ inputMenu' = In!Closed /\ inputEnd' = None
    BY DEF In!InsertToken
  <1> HIDE DEF t
  <1>4. FieldTexts'
    BY <1>2, <1>3, WroteSafe
  <1>5. inputMenu' \in [open : BOOLEAN, start : Nat]
    BY <1>3 DEF FieldMenu, In!Closed
  <1> QED  BY <1>3, <1>4, <1>5 DEF FieldMenu

\* The menu of a field.
LEMMA FieldMenus ==
    ASSUME FieldTexts, FieldStacks, FieldMenu, FieldModals, inputEditor = "field",
           In!PickItem(In!Var) \/ In!PickItem(In!Char) \/ In!PickNamespace \/ In!PickFunc
    PROVE  FieldTexts' /\ FieldStacks' /\ FieldMenu' /\ FieldModals'
  <1>1. /\ inputMenu.start \in Nat /\ inputCaret \in Nat /\ inputMenu.start + 1 \in Nat
        /\ inputShown \in SafeText
    BY DEF FieldMenu, FieldTexts
  <1>2. In!InsertEnd \in Nat
    BY <1>1 DEF In!InsertEnd, FieldMenu
  <1>3. ASSUME NEW atom \in {In!Var, In!Char}, In!PickItem(atom)
        PROVE  FieldTexts' /\ FieldStacks' /\ FieldMenu' /\ FieldModals'
    <2> DEFINE from == inputMenu.start
               to == In!InsertEnd
    <2>1. /\ In!InsertToken(atom, from, to)
          /\ UNCHANGED <<inputOwner, inputUndo, inputRedo, inputModal, inputDialog, inputRunning>>
      BY <1>3 DEF In!PickItem
    <2>2. atom \in SafeAtom /\ from \in Nat /\ to \in Nat
      BY <1>1, <1>2 DEF SafeAtom
    <2> HIDE DEF from, to
    <2>3. FieldTexts' /\ FieldMenu'
      BY <2>1, <2>2, InsertedSafe
    <2>4. FieldStacks' /\ FieldModals'
      BY <2>1 DEF FieldStacks, FieldModals, IsModal
    <2> QED  BY <2>3, <2>4
  <1>4. CASE In!PickNamespace
    <2> DEFINE t == In!Spliced(inputShown, inputMenu.start, inputCaret, <<In!Char>>)
               c == inputMenu.start + 1
    <2>1. <<In!Char>> \in SafeText
      BY DEF SafeText, SafeAtom
    <2>2. t \in SafeText /\ c \in Nat
      BY <1>1, <2>1, SplicedSafe
    <2>3. In!Wrote(t, c) /\ UNCHANGED <<inputUndo, inputRedo, inputMenu>> /\ In!Untouched
      BY <1>4 DEF In!PickNamespace
    <2> HIDE DEF t, c
    <2>4. UNCHANGED <<inputOwner, inputEnd, inputModal, inputDialog, inputRunning>>
      BY <2>3 DEF In!Untouched
    <2>5. FieldTexts'
      BY <2>2, <2>3, <2>4, WroteSafe
    <2> QED  BY <2>3, <2>4, <2>5 DEF FieldStacks, FieldMenu, FieldModals, IsModal
  <1>5. CASE In!PickFunc
    <2>1. /\ inputMenu' = In!Closed /\ inputEnd' = None
          /\ UNCHANGED <<inputOwner, inputValue, inputShown, inputCaret, inputUndo, inputRedo,
                         inputRunning>>
          /\ \/ inputModal' = In!NewModal(inputMenu.start, inputCaret) /\ UNCHANGED inputDialog
             \/ inputDialog' = <<inputMenu.start, inputCaret>> /\ UNCHANGED inputModal
      BY <1>5 DEF In!PickFunc
    <2>2. FieldTexts' /\ FieldStacks'
      BY <2>1 DEF FieldTexts, FieldStacks
    <2>3. FieldMenu'
      BY <2>1 DEF FieldMenu, In!Closed
    <2>4. FieldModals'
      BY <1>1, <2>1 DEF FieldModals, IsModal, In!NewModal
    <2> QED  BY <2>2, <2>3, <2>4
  <1> QED  BY <1>3, <1>4, <1>5

\* The dialogs of a field.
LEMMA FieldDialogs ==
    ASSUME FieldTexts, FieldStacks, FieldMenu, FieldModals, inputEditor = "field",
           \/ In!TurnOn \/ In!CancelDialog \/ In!CloseModal
           \/ \E s \in Secrets : In!ClickChip(s) \/ In!Decrypted(s) \/ In!Submit(s)
    PROVE  FieldTexts' /\ FieldStacks' /\ FieldMenu' /\ FieldModals'
  <1>1. UNCHANGED <<inputOwner, inputValue, inputShown, inputCaret, inputUndo, inputRedo,
                    inputMenu, inputEnd>>
    BY DEF In!TurnOn, In!CancelDialog, In!CloseModal, In!ClickChip, In!Decrypted, In!Submit
  <1>2. FieldTexts' /\ FieldStacks' /\ FieldMenu'
    BY <1>1 DEF FieldTexts, FieldStacks, FieldMenu
  <1>3. ASSUME In!TurnOn PROVE FieldModals'
    BY <1>3 DEF In!TurnOn, FieldModals, IsModal, In!NewModal
  <1>4. ASSUME In!CancelDialog \/ In!CloseModal PROVE FieldModals'
    BY <1>4 DEF In!CancelDialog, In!CloseModal, FieldModals, IsModal
  <1>5. ASSUME NEW s \in Secrets, In!ClickChip(s) PROVE FieldModals'
    <2>1. /\ IsModal(inputModal') /\ UNCHANGED inputRunning
          /\ inputDialog' = inputDialog \/ inputDialog' = <<>>
      BY <1>5 DEF In!ClickChip, FieldModals, IsModal
    <2> QED  BY <2>1 DEF FieldModals, IsModal
  <1> DEFINE m == inputModal
  <1>6. m # None => m = [old |-> m.old, from |-> m.from, to |-> m.to, arg |-> m.arg]
                    /\ m.from \in Nat /\ m.to \in Nat
    BY DEF FieldModals, IsModal
  <1>7. ASSUME NEW s, m # None
        PROVE  [m EXCEPT !.arg = s] = [old |-> m.old, from |-> m.from, to |-> m.to, arg |-> s]
    BY <1>6, <1>7
  <1>8. ASSUME NEW s \in Secrets, In!Decrypted(s) PROVE FieldModals'
    <2>1. /\ \/ UNCHANGED inputModal
             \/ m # None /\ inputModal' = [m EXCEPT !.arg = s]
          /\ UNCHANGED <<inputDialog, inputRunning>>
      BY <1>8 DEF In!Decrypted
    <2> HIDE DEF m
    <2>2. IsModal(inputModal')
      BY <1>6, <1>7, <2>1 DEF IsModal, FieldModals, m
    <2> QED  BY <2>1, <2>2 DEF FieldModals, IsModal
  <1>9. ASSUME NEW s \in Secrets, In!Submit(s) PROVE FieldModals'
    <2>1. /\ m # None /\ inputRunning' = [m EXCEPT !.arg = s] /\ inputModal' = None
          /\ UNCHANGED inputDialog
      BY <1>9 DEF In!Submit
    <2> HIDE DEF m
    <2>2. IsModal(inputRunning') /\ inputRunning'.arg \in Secrets
      BY <1>6, <1>7, <2>1 DEF IsModal
    <2> QED  BY <2>1, <2>2 DEF FieldModals, IsModal
  <1> QED  BY <1>2, <1>3, <1>4, <1>5, <1>8, <1>9

\* What encrypt() answers a field.
LEMMA FieldEncrypted ==
    ASSUME FieldTexts, FieldStacks, FieldMenu, FieldModals, inputEditor = "field", In!Encrypted
    PROVE  FieldTexts' /\ FieldStacks' /\ FieldMenu' /\ FieldModals'
  <1> DEFINE token == In!Cipher(inputRunning.arg)
             at == {i \in 1..Len(inputShown) : inputShown[i] = inputRunning.old}
  <1>1. /\ inputRunning # None /\ inputRunning' = None
        /\ UNCHANGED <<inputEditor, inputOwner, inputUndo, inputRedo, inputModal, inputDialog>>
        /\ \/ In!Place(token)
           \/ UNCHANGED <<inputValue, inputShown, inputCaret, inputMenu, inputEnd>>
    BY DEF In!Encrypted, In!EncryptFailed
  <1>2. token \in SafeAtom /\ inputShown \in SafeText /\ inputCaret \in Nat
    BY <1>1 DEF SafeAtom, FieldModals, FieldTexts
  <1>3. inputRunning.from \in Nat /\ inputRunning.to \in Nat
    BY <1>1 DEF FieldModals, IsModal
  <1>4. FieldStacks' /\ FieldModals'
    BY <1>1 DEF FieldStacks, FieldModals, IsModal
  <1>5. CASE UNCHANGED <<inputValue, inputShown, inputCaret, inputMenu, inputEnd>>
    BY <1>1, <1>4, <1>5 DEF FieldTexts, FieldMenu
  <1> HIDE DEF token
  <1>6. CASE inputRunning.old = None /\ In!Place(token)
    <2> DEFINE from == inputRunning.from
               to == inputRunning.to
    <2>1. In!InsertToken(token, from, to)
      BY <1>6 DEF In!Place
    <2> HIDE DEF from, to
    <2>2. from \in Nat /\ to \in Nat
      BY <1>3 DEF from, to
    <2> QED  BY <1>1, <1>2, <1>4, <2>1, <2>2, InsertedSafe
  <1>7. ASSUME NEW t \in SafeText, In!Wrote(t, inputCaret), UNCHANGED <<inputMenu, inputEnd>>
        PROVE  FieldTexts' /\ FieldMenu'
    <2> DEFINE c == inputCaret
    <2>1. c \in Nat /\ In!Wrote(t, c)
      BY <1>2, <1>7
    <2> HIDE DEF c
    <2>2. FieldTexts'
      BY <1>1, <2>1, WroteSafe
    <2> QED  BY <1>7, <2>2 DEF FieldMenu
  <1>8. CASE inputRunning.old # None /\ In!Place(token) /\ at = {}
    <2>1. In!Wrote(Append(inputShown, token), inputCaret) /\ UNCHANGED <<inputMenu, inputEnd>>
      BY <1>8 DEF In!Place
    <2>2. Append(inputShown, token) \in SafeText
      BY <1>2, AppendProperties DEF SafeText
    <2> QED  BY <1>4, <1>7, <2>1, <2>2
  <1>9. CASE inputRunning.old # None /\ In!Place(token) /\ at # {}
    <2> DEFINE i == CHOOSE i \in at : \A j \in at : i <= j
    <2>1. In!Wrote([inputShown EXCEPT ![i] = token], inputCaret) /\ UNCHANGED <<inputMenu, inputEnd>>
      BY <1>9 DEF In!Place
    <2>2. i \in at
      <3>1. at \in SUBSET Nat
        BY DEF at
      <3> HIDE DEF at
      <3>2. \E k \in at : \A j \in at : k <= j
        BY <1>9, <3>1, LeastNatural
      <3> QED  BY <3>2
    <2>3. i \in 1..Len(inputShown)
      BY <2>2
    <2> HIDE DEF i, at
    <2>4. [inputShown EXCEPT ![i] = token] \in SafeText
      BY <1>2, <2>3, ExceptSeq DEF SafeText
    <2> QED  BY <1>4, <1>7, <2>1, <2>4
  <1> QED  BY <1>1, <1>5, <1>6, <1>8, <1>9

LEMMA InputInductive ==
    /\ In!Init => InputInv
    /\ InputInv /\ [In!Next]_inputVars => InputInv'
  <1>1. FirstTexts \in [Owners -> SafeText]
    BY TextsAssumption DEF TextsAssumption, SafeText, SafeAtom
  <1>2. In!Init => InputInv
    <2> SUFFICES ASSUME In!Init PROVE FieldTexts /\ FieldStacks /\ FieldMenu /\ FieldModals
      BY DEF InputInv
    <2>1. inputOwner \in Owners /\ inputValue = FirstTexts /\ inputShown = FirstTexts[inputOwner]
          /\ inputCaret = Len(inputShown)
      BY DEF In!Init
    <2>2. inputShown \in SafeText
      BY <1>1, <2>1
    <2>3. inputCaret \in Nat
      BY <2>1, <2>2 DEF SafeText
    <2>4. FieldStacks /\ FieldMenu /\ FieldModals
      BY DEF In!Init, FieldStacks, FieldMenu, FieldModals, IsModal
    <2> QED  BY <1>1, <2>1, <2>2, <2>3, <2>4 DEF FieldTexts
  <1>3. ASSUME InputInv, UNCHANGED inputVars PROVE InputInv'
    BY <1>3 DEF InputInv, inputVars, FieldTexts, FieldStacks, FieldMenu, FieldModals, IsModal
  <1>4. ASSUME InputInv, In!Next PROVE InputInv'
    <2>1. UNCHANGED inputEditor
      BY <1>4 DEF In!Next, In!Type, In!TypeQuestionMark, In!Backspace, In!Undo, In!Redo,
                  In!PickItem, In!PickNamespace, In!PickFunc, In!TurnOn, In!CancelDialog,
                  In!CloseModal, In!Encrypted, In!MoveCaret, In!ClickChip, In!Decrypted,
                  In!Submit, In!Open, In!Reload, In!Untouched, In!Outside
    <2> SUFFICES ASSUME inputEditor = "field"
                 PROVE  FieldTexts' /\ FieldStacks' /\ FieldMenu' /\ FieldModals'
      BY <2>1 DEF InputInv
    <2>2. FieldTexts /\ FieldStacks /\ FieldMenu /\ FieldModals
      BY <1>4 DEF InputInv
    <2>3. ~In!TypeQuestionMark /\ \A o \in Owners : ~In!Open(o)
      BY DEF In!TypeQuestionMark, In!Open
    <2>4. ASSUME NEW o \in Owners, In!Reload(FirstTexts[o])
          PROVE  FieldTexts' /\ FieldStacks' /\ FieldMenu' /\ FieldModals'
      <3> DEFINE v == [inputValue EXCEPT ![inputOwner] = FirstTexts[o]]
                 w == inputOwner
      <3>1. v \in [Owners -> SafeText] /\ w \in Owners
        BY <1>1, <2>2 DEF FieldTexts
      <3>2. In!Synced(v, w) /\ In!Outside
        BY <2>4 DEF In!Reload
      <3> HIDE DEF v, w
      <3>3. FieldTexts'
        BY <2>2, <3>1, <3>2, SyncedSafe
      <3> QED  BY <2>2, <3>2, <3>3 DEF In!Outside, FieldStacks, FieldMenu, FieldModals, IsModal
    <2> QED
      BY <1>4, <2>2, <2>3, <2>4, FieldKeys, FieldMenus, FieldDialogs, FieldEncrypted DEF In!Next
  <1> QED  BY <1>2, <1>3, <1>4

\* TemplateInput (ChipsAreCiphertext): whatever is typed, undone, picked and
\* encrypted in any order, in texts of any length, a field whose texts had no
\* secret in the clear never holds one.
THEOREM ChipsAreCiphertextHolds == SpecAll => []ChipsAreCiphertext
  <1> DEFINE I == part = "input" => InputInv
  <1>1. InitAll => I
    BY InputInductive DEF InitAll
  <1>2. I /\ [NextAll]_allVars => I'
    <2> SUFFICES ASSUME I, [NextAll]_allVars, part = "input" PROVE InputInv'
      BY DEF NextAll, allVars
    <2>1. [In!Next]_inputVars
      BY DEF NextAll, allVars
    <2> QED  BY <2>1, InputInductive
  <1>3. I => ChipsAreCiphertext
    <2> SUFFICES ASSUME InputInv, inputEditor = "field",
                        NEW o \in Owners, NEW i \in DOMAIN inputValue[o]
                 PROVE  inputValue[o][i][1] # "plain"
      BY DEF ChipsAreCiphertext, In!ChipsAreCiphertext
    <2>1. inputValue[o] \in SafeText
      BY DEF InputInv, FieldTexts
    <2>2. inputValue[o][i] \in SafeAtom
      BY <2>1 DEF SafeText
    <2>3. In!Char[1] = "char" /\ In!Var[1] = "var" /\ \A s \in Secrets : In!Cipher(s)[1] = "cipher"
      BY DEF In!Char, In!Var, In!Cipher
    <2> QED  BY <2>2, <2>3 DEF SafeAtom
  <1> QED  BY <1>1, <1>2, <1>3, PTL DEF SpecAll

-----------------------------------------------------------------------------
(* The review of changes. *)

\* A version of an entity, a header that was rolled back to none among them.
Kept == [name : ReviewValues \cup {None}, header : ReviewValues \cup {None}, in : Re!Places]
Files == [Re!Nodes -> Kept \cup {None}]

\* What is reviewed is a change from one version to another; contents are those
\* of a folder.
ReviewInv ==
    /\ reviewCommitted \in Files /\ reviewWorking \in Files /\ reviewLive \in Files
    /\ \A n \in Re!Nodes : reviewReview[n] # <<>> =>
          /\ reviewReview[n][1] \in Kept \cup {None}
          /\ reviewReview[n][2] \in Kept \cup {None}
    /\ reviewTarget # <<>> /\ reviewTarget[1] = "contents" => reviewTarget[2] \in Folders

LEMMA PlacesFinite ==
    /\ IsFiniteSet(Folders) /\ Cardinality(Folders) \in Nat
    /\ IsFiniteSet(Re!Places) /\ Cardinality(Re!Places) = Cardinality(Folders) + 1
    /\ TreeTop \notin Folders /\ Re!Places = Folders \cup {TreeTop}
    /\ Folders \subseteq Re!Nodes
  <1>1. IsFiniteSet(Folders) /\ TreeTop \notin Folders
    BY ScreensAssumption DEF ScreensAssumption
  <1>2. Cardinality(Folders) \in Nat
    BY <1>1, FS_CardinalityType
  <1>3. IsFiniteSet(Folders \cup {TreeTop}) /\ Cardinality(Folders \cup {TreeTop}) = Cardinality(Folders) + 1
    BY <1>1, FS_AddElement
  <1> QED  BY <1>1, <1>2, <1>3 DEF Re!Places, Re!Nodes

\* When badges and files are of the worktree as it is, the parent an entity is
\* shown under is where the worktree has it, or the last commit had it.
LEMMA ParentIsUp ==
    ASSUME ReviewInv, reviewFiles = Re!Status(reviewCommitted, reviewWorking),
           reviewLive = reviewWorking, NEW n \in Re!Nodes
    PROVE  Re!ParentOf(reviewFiles, n) = Re!UpFrom(n) /\ Re!ParentOf(reviewFiles, n) \in Re!Places
  <1>1. /\ reviewWorking[n] # None => reviewWorking[n].in \in Re!Places
        /\ reviewCommitted[n] # None => reviewCommitted[n].in \in Re!Places
        /\ TreeTop \in Re!Places
    BY PlacesFinite DEF ReviewInv, Files, Kept
  <1>2. \A p, q : Re!FirstOr({p}, q) = p /\ Re!FirstOr({}, q) = q
    BY DEF Re!FirstOr
  <1>3. CASE reviewWorking[n] # None
    <2> DEFINE p == reviewWorking[n].in
    <2>1. Re!LiveIn(n) = {p} \ {TreeTop}
      BY <1>3 DEF Re!LiveIn
    <2>2. CASE p # TreeTop
      <3>1. Re!LiveIn(n) = {p}
        BY <2>1, <2>2
      <3> HIDE DEF p
      <3>2. Re!ParentOf(reviewFiles, n) = p
        BY <1>2, <3>1 DEF Re!ParentOf
      <3> QED  BY <1>1, <1>3, <3>2 DEF Re!UpFrom, p
    <2>3. CASE p = TreeTop
      <3>1. Re!LiveIn(n) = {}
        BY <2>1, <2>3
      <3>2. \A y \in reviewFiles : y.node = n => y.parent = TreeTop
        BY <1>3 DEF Re!Status
      <3>3. Re!DeletedIn(reviewFiles, n) = {}
        BY <3>2 DEF Re!DeletedIn
      <3>4. Re!ParentOf(reviewFiles, n) = TreeTop
        BY <1>2, <3>1, <3>3 DEF Re!ParentOf
      <3> QED  BY <1>1, <1>3, <2>3, <3>4 DEF Re!UpFrom
    <2> QED  BY <2>2, <2>3
  <1>4. CASE reviewWorking[n] = None /\ reviewCommitted[n] # None
    <2>1. Re!LiveIn(n) = {}
      BY <1>4 DEF Re!LiveIn
    <2> DEFINE D == {y \in reviewFiles : y.node = n}
               p == reviewCommitted[n].in
    <2>2. D = {[node |-> n, parent |-> p]}
      BY <1>4 DEF Re!Status
    <2>3. Re!DeletedIn(reviewFiles, n) = {x.parent : x \in D} \ {TreeTop}
      BY DEF Re!DeletedIn
    <2> HIDE DEF D
    <2>4. {x.parent : x \in D} = {p}
      BY <2>2
    <2>5. Re!ParentOf(reviewFiles, n) = Re!FirstOr({p} \ {TreeTop}, TreeTop)
      BY <1>2, <2>1, <2>3, <2>4 DEF Re!ParentOf
    <2>6. Re!ParentOf(reviewFiles, n) = p
      <3> HIDE DEF p
      <3>1. {p} \ {TreeTop} = IF p = TreeTop THEN {} ELSE {p}
        OBVIOUS
      <3> QED  BY <1>2, <2>5, <3>1
    <2> QED  BY <1>1, <1>4, <2>6 DEF Re!UpFrom
  <1>5. CASE reviewWorking[n] = None /\ reviewCommitted[n] = None
    <2>1. Re!LiveIn(n) = {}
      BY <1>5 DEF Re!LiveIn
    <2>2. {y \in reviewFiles : y.node = n} = {}
      BY <1>5 DEF Re!Status
    <2>3. Re!DeletedIn(reviewFiles, n) = {}
      BY <2>2 DEF Re!DeletedIn
    <2> QED  BY <1>1, <1>2, <1>5, <2>1, <2>3 DEF Re!ParentOf, Re!UpFrom
  <1> QED  BY <1>3, <1>4, <1>5

\* Walking up from an entity for as many steps as there are folders has come to
\* every place that the code's loop comes to, on parents in a circle too.
LEMMA WalkIsClosed ==
    ASSUME \A x \in Re!Nodes : Re!ParentOf(reviewFiles, x) \in Re!Places, NEW n \in Re!Nodes
    PROVE  \E S \in SUBSET Re!Places :
             /\ Re!ParentOf(reviewFiles, n) \in S /\ \A x \in S \ {TreeTop} : Re!ParentOf(reviewFiles, x) \in S
             /\ Re!Walk(reviewFiles, n) = S
  <1> DEFINE N == Re!Cardinality(Folders)
             Further(U) == U \cup {Re!ParentOf(reviewFiles, x) : x \in U \ {TreeTop}}
             Walk(g, m) == g = [k \in 0..m |-> IF k = 0 THEN {Re!ParentOf(reviewFiles, n)} ELSE Further(g[k - 1])]
             Whole(U) == Further(U) = U
  <1>0. N = Cardinality(Folders)
    BY DEF Cardinality, Re!Cardinality
  <1>1. \A m \in Nat : \E g : Walk(g, m)
    <2> DEFINE Bad == {m \in Nat : ~ \E g : Walk(g, m)}
    <2>1. ASSUME NEW m \in Bad, \A b \in Bad : m <= b PROVE FALSE
      <3>1. CASE m = 0
        <4> DEFINE h == [k \in 0..0 |-> {Re!ParentOf(reviewFiles, n)}]
        <4>1. h = [k \in 0..0 |-> IF k = 0 THEN {Re!ParentOf(reviewFiles, n)} ELSE Further(h[k - 1])]
          OBVIOUS
        <4> QED  BY <2>1, <3>1, <4>1
      <3>2. CASE m # 0
        <4>0. m \in Nat
          BY <2>1
        <4>1. m \in Nat /\ m - 1 \in Nat /\ m - 1 \notin Bad
          <5> HIDE DEF Bad
          <5> QED  BY <2>1, <3>2, <4>0
        <4>2. PICK g : Walk(g, m - 1)
          BY <4>1
        <4> HIDE DEF Further
        <4> DEFINE h == [k \in 0..m |-> IF k = m THEN Further(g[m - 1]) ELSE g[k]]
        <4>3. ASSUME NEW k \in 0..m
              PROVE  h[k] = IF k = 0 THEN {Re!ParentOf(reviewFiles, n)} ELSE Further(h[k - 1])
          <5>1. CASE k = m
            <6>1. k - 1 \in 0..m /\ k - 1 # m /\ k # 0
              BY <3>2, <4>1, <5>1
            <6> QED  BY <5>1, <6>1
          <5>2. CASE k # m
            <6>1. k \in 0..(m - 1) /\ (k # 0 => k - 1 \in 0..m /\ k - 1 # m)
              BY <4>1, <5>2
            <6>2. g[k] = IF k = 0 THEN {Re!ParentOf(reviewFiles, n)} ELSE Further(g[k - 1])
              BY <4>2, <6>1
            <6> QED  BY <5>2, <6>1, <6>2
          <5> QED  BY <5>1, <5>2
        <4>4. h = [k \in 0..m |-> IF k = 0 THEN {Re!ParentOf(reviewFiles, n)} ELSE Further(h[k - 1])]
          <5>1. h = [k \in 0..m |-> h[k]]
            OBVIOUS
          <5> QED  BY <4>3, <5>1
        <4>5. Walk(h, m)
          BY <4>4
        <4> QED  BY <2>1, <4>5
      <3> QED  BY <3>1, <3>2
    <2> HIDE DEF Walk
    <2>2. Bad = {}
      BY <2>1, LeastNatural
    <2> QED  BY <2>2
  <1> DEFINE up == CHOOSE g : Walk(g, N)
  <1>2. Re!Walk(reviewFiles, n) = up[N]
    BY DEF Re!Walk
  <1> HIDE DEF N
  <1>3. Walk(up, N)
    <2> HIDE DEF Walk
    <2> QED  BY <1>0, <1>1, PlacesFinite
  <1> HIDE DEF up
  <1>4. /\ up[0] = {Re!ParentOf(reviewFiles, n)}
        /\ \A k \in 1..N : up[k] = Further(up[k - 1])
    <2> HIDE DEF Further
    <2>1. \A k \in 0..N : up[k] = IF k = 0 THEN {Re!ParentOf(reviewFiles, n)} ELSE Further(up[k - 1])
      BY <1>3
    <2>2. 0 \in 0..N /\ \A k \in 1..N : k \in 0..N /\ k # 0
      BY <1>0, PlacesFinite
    <2> QED  BY <2>1, <2>2
  <1>5. ASSUME NEW U \in SUBSET Re!Places
        PROVE  /\ U \subseteq Further(U) /\ Further(U) \subseteq Re!Places
               /\ Whole(U) => \A x \in U \ {TreeTop} : Re!ParentOf(reviewFiles, x) \in U
    BY PlacesFinite
  <1> DEFINE Far(k) == /\ up[k] \subseteq Re!Places /\ Re!ParentOf(reviewFiles, n) \in up[k]
                       /\ Whole(up[k]) \/ Cardinality(up[k]) >= k + 1
             Short == {k \in 0..N : ~ Far(k)}
  <1>6. ASSUME NEW k \in Short, \A b \in Short : k <= b PROVE FALSE
    <2>1. k \in Nat /\ k <= N /\ ~ Far(k)
      BY <1>0, <1>6, PlacesFinite
    <2>2. CASE k = 0
      <3>1. Cardinality(up[0]) = 1
        BY <1>4, FS_Singleton
      <3> QED  BY <1>4, <2>1, <2>2, <3>1
    <2>3. CASE k # 0
      <3>1. k - 1 \in 0..N /\ k \in 1..N /\ Far(k - 1)
        BY <1>0, <1>6, <2>1, <2>3, PlacesFinite
      <3>2. PICK U \in SUBSET Re!Places : U = up[k - 1] /\ up[k] = Further(U)
        BY <1>4, <3>1
      <3>3. Re!ParentOf(reviewFiles, n) \in Further(U) /\ Further(U) \subseteq Re!Places
        BY <1>5, <3>1, <3>2
      <3>4. CASE Whole(U)
        BY <2>1, <3>2, <3>3, <3>4
      <3>5. CASE ~ Whole(U)
        <4>1. IsFiniteSet(Further(U)) /\ IsFiniteSet(U)
          BY <3>3, PlacesFinite, FS_Subset
        <4>2. U \subseteq Further(U) /\ U # Further(U)
          BY <1>5, <3>5
        <4>3. Cardinality(U) < Cardinality(Further(U))
          <5> HIDE DEF Further
          <5>1. Cardinality(U) \in Nat /\ Cardinality(Further(U)) \in Nat
            BY <4>1, FS_CardinalityType
          <5>2. Cardinality(U) <= Cardinality(Further(U)) /\ Cardinality(U) # Cardinality(Further(U))
            BY <4>1, <4>2, FS_Subset
          <5> QED  BY <5>1, <5>2
        <4>4. Cardinality(U) >= k /\ Cardinality(U) \in Nat /\ Cardinality(Further(U)) \in Nat
          BY <2>1, <3>1, <3>2, <3>5, <4>1, FS_CardinalityType
        <4>5. Cardinality(up[k]) >= k + 1
          BY <2>1, <3>2, <4>3, <4>4
        <4> QED  BY <2>1, <3>2, <3>3, <4>5
      <3> QED  BY <3>4, <3>5
    <2> QED  BY <2>2, <2>3
  <1>7. Far(N)
    <2> HIDE DEF Far
    <2>1. Short \subseteq Nat
      OBVIOUS
    <2>2. Short = {}
      BY <1>6, <2>1, LeastNatural
    <2> QED  BY <1>0, <2>2, PlacesFinite
  <1>8. Whole(up[N])
    <2>1. CASE Cardinality(up[N]) >= N + 1
      <3>1. IsFiniteSet(up[N]) /\ Cardinality(up[N]) <= Cardinality(Re!Places)
            /\ (Cardinality(up[N]) = Cardinality(Re!Places) => up[N] = Re!Places)
        BY <1>0, <1>7, PlacesFinite, FS_Subset
      <3>2. Cardinality(up[N]) \in Nat
        BY <3>1, FS_CardinalityType
      <3>3. up[N] = Re!Places
        BY <1>0, <2>1, <3>1, <3>2, PlacesFinite
      <3> QED  BY <1>5, <3>3
    <2> QED  BY <1>7, <2>1
  <1>9. \A x \in up[N] \ {TreeTop} : Re!ParentOf(reviewFiles, x) \in up[N]
    BY <1>5, <1>7, <1>8
  <1> QED  BY <1>2, <1>7, <1>9

\* What is in the folder by every way up is among what a rollback goes through.
LEMMA InFolderIsBelow ==
    ASSUME ReviewInv, reviewFiles = Re!Status(reviewCommitted, reviewWorking),
           reviewLive = reviewWorking, NEW f \in Folders, NEW n \in Re!Nodes, Re!InFolder(n, f)
    PROVE  n \in Re!Below(f)
  <1>1. \A x \in Re!Nodes : Re!ParentOf(reviewFiles, x) = Re!UpFrom(x) /\ Re!ParentOf(reviewFiles, x) \in Re!Places
    BY ParentIsUp
  <1>2. PICK S \in SUBSET Re!Places :
             /\ Re!ParentOf(reviewFiles, n) \in S /\ \A x \in S \ {TreeTop} : Re!ParentOf(reviewFiles, x) \in S
             /\ Re!Walk(reviewFiles, n) = S
    BY <1>1, WalkIsClosed
  <1>3. \A x \in S \ {TreeTop} : Re!UpFrom(x) \in S
    BY <1>1, <1>2, PlacesFinite
  <1>4. f \in S /\ f # n
    BY <1>1, <1>2, <1>3 DEF Re!InFolder
  <1> QED  BY <1>2, <1>4 DEF Re!Below

LEMMA ChangesReviewed ==
    ASSUME NEW c \in Files, NEW w \in Files, NEW n \in Re!Nodes, Re!Changes(c, w)[n] # <<>>
    PROVE  /\ Re!Changes(c, w)[n][1] \in Kept \cup {None}
           /\ Re!Changes(c, w)[n][2] \in Kept \cup {None}
  <1>1. Re!Changes(c, w)[n] = <<c[n], w[n]>>
    BY DEF Re!Changes
  <1>2. c[n] \in Kept \cup {None} /\ w[n] \in Kept \cup {None}
    BY DEF Files
  <1> QED  BY <1>1, <1>2

LEMMA DiscardedBack ==
    ASSUME ReviewInv, NEW ns, Re!Discarded(ns),
           reviewTarget' = <<>> \/ UNCHANGED reviewTarget
    PROVE  ReviewInv'
  <1>1. reviewWorking' = [n \in Re!Nodes |-> IF n \in ns THEN reviewCommitted[n] ELSE reviewWorking[n]]
    BY DEF Re!Discarded
  <1>2. reviewWorking' \in Files
    BY <1>1 DEF ReviewInv, Files
  <1> QED  BY <1>2 DEF Re!Discarded, ReviewInv

\* Taking one field back makes a version.
LEMMA RevertedKept ==
    ASSUME NEW old \in Kept \cup {None}, NEW new \in Kept, NEW f \in {"name", "header"}
    PROVE  Re!Reverted(old, new, f) \in Kept
  <1>1. ASSUME NEW v \in ReviewValues \cup {None} PROVE [new EXCEPT ![f] = v] \in Kept
    <2>1. new = [name |-> new.name, header |-> new.header, in |-> new.in]
      BY DEF Kept
    <2>2. CASE f = "name"
      BY <2>2 DEF Kept
    <2>3. CASE f = "header"
      BY <2>3 DEF Kept
    <2> QED  BY <2>2, <2>3
  <1>2. CASE old = None
    BY <1>1, <1>2 DEF Re!Reverted
  <1>3. CASE old # None
    <2>1. old[f] \in ReviewValues \cup {None}
      BY <1>3 DEF Kept
    <2> QED  BY <1>1, <1>3, <2>1 DEF Re!Reverted
  <1> QED  BY <1>2, <1>3

LEMMA WrittenKept ==
    ASSUME NEW g \in Files, NEW n \in Re!Nodes, NEW e \in Kept \cup {None}
    PROVE  [g EXCEPT ![n] = e] \in Files
  BY DEF Files

LEMMA ReviewInductive == ASSUME ReviewInv, Re!Next PROVE ReviewInv'
  <1>0. ASSUME Re!Refresh PROVE ReviewInv'
    BY <1>0 DEF Re!Refresh, ReviewInv
  <1>1. ASSUME Re!LoadChanges PROVE ReviewInv'
    <2>1. ASSUME NEW n \in Re!Nodes, reviewReview'[n] # <<>>
          PROVE  reviewReview'[n][1] \in Kept \cup {None} /\ reviewReview'[n][2] \in Kept \cup {None}
      BY <1>1, <2>1, ChangesReviewed DEF Re!LoadChanges, ReviewInv
    <2> QED  BY <1>1, <2>1 DEF Re!LoadChanges, ReviewInv
  <1>2. ASSUME Re!Reload PROVE ReviewInv'
    BY <1>2 DEF Re!Reload, ReviewInv
  <1>3. ASSUME Re!Cancel PROVE ReviewInv'
    BY <1>3 DEF Re!Cancel, ReviewInv
  <1>4. ASSUME Re!RollbackEntity PROVE ReviewInv'
    BY <1>4, DiscardedBack DEF Re!RollbackEntity
  <1>5. ASSUME Re!RollbackContents PROVE ReviewInv'
    <2>1. (\E ns : Re!Discarded(ns)) /\ reviewTarget' = <<>>
      BY <1>5 DEF Re!RollbackContents
    <2> QED  BY <2>1, DiscardedBack
  <1> SUFFICES ASSUME NEW n \in Re!Nodes,
                      \/ \E e \in Re!Versions : Re!Change(n, e) \/ Re!Elsewhere(n, e)
                      \/ \E p \in Re!Places : Re!Move(n, p)
                      \/ Re!Delete(n) \/ Re!DiscardEntity(n)
                      \/ \E what \in {"entity", "contents"} : Re!Ask(what, n)
                      \/ \E f \in {"name", "header"} : Re!DiscardField(n, f)
               PROVE  ReviewInv'
    BY <1>0, <1>1, <1>2, <1>3, <1>4, <1>5 DEF Re!Next
  <1>6. Re!Versions \subseteq Kept
    BY DEF Re!Versions, Kept
  <1>7. ASSUME NEW e \in Kept, Re!Saved(n, e),
               UNCHANGED <<reviewCommitted, reviewReview, reviewTarget>>
        PROVE  ReviewInv'
    BY <1>7, WrittenKept DEF Re!Saved, ReviewInv
  <1>8. ASSUME NEW e \in Re!Versions, Re!Change(n, e) PROVE ReviewInv'
    BY <1>6, <1>7, <1>8 DEF Re!Change
  <1>9. ASSUME NEW e \in Re!Versions, Re!Elsewhere(n, e) PROVE ReviewInv'
    BY <1>6, <1>9, WrittenKept DEF Re!Elsewhere, ReviewInv
  <1>10. ASSUME NEW p \in Re!Places, Re!Move(n, p) PROVE ReviewInv'
    <2>1. reviewLive[n] \in Kept
      <3>1. reviewLive[n] # None
        BY <1>10 DEF Re!Move, Re!Shown
      <3> QED  BY <3>1 DEF ReviewInv, Files
    <2>2. [reviewLive[n] EXCEPT !.in = p] \in Kept
      BY <2>1 DEF Kept
    <2> QED  BY <1>7, <1>10, <2>2 DEF Re!Move
  <1>11. ASSUME Re!Delete(n) PROVE ReviewInv'
    <2>1. PICK gone : /\ reviewWorking' = [x \in Re!Nodes |-> IF x \in gone THEN None ELSE reviewWorking[x]]
                      /\ reviewLive' = [x \in Re!Nodes |-> IF x \in gone THEN None ELSE reviewLive[x]]
      BY <1>11 DEF Re!Delete
    <2>2. reviewWorking' \in Files /\ reviewLive' \in Files
      BY <2>1 DEF ReviewInv, Files
    <2> QED  BY <1>11, <2>2 DEF Re!Delete, ReviewInv
  <1>12. ASSUME Re!DiscardEntity(n) PROVE ReviewInv'
    BY <1>12, DiscardedBack DEF Re!DiscardEntity
  <1>13. ASSUME NEW what \in {"entity", "contents"}, Re!Ask(what, n) PROVE ReviewInv'
    BY <1>13 DEF Re!Ask, Re!Offered, ReviewInv
  <1>14. ASSUME NEW f \in {"name", "header"}, Re!DiscardField(n, f) PROVE ReviewInv'
    <2> DEFINE old == reviewReview[n][1]
               new == reviewReview[n][2]
    <2>1. old \in Kept \cup {None} /\ new \in Kept
      BY <1>14 DEF Re!DiscardField, ReviewInv
    <2>2. Re!Reverted(old, new, f) \in Kept
      BY <2>1, RevertedKept
    <2>3. reviewWorking' = [reviewWorking EXCEPT ![n] = Re!Reverted(old, new, f)]
      BY <1>14 DEF Re!DiscardField
    <2> HIDE DEF old, new
    <2>4. reviewWorking' \in Files
      BY <2>2, <2>3, WrittenKept DEF ReviewInv
    <2> QED  BY <1>14, <2>4 DEF Re!DiscardField, ReviewInv
  <1> QED  BY <1>8, <1>9, <1>10, <1>11, <1>12, <1>13, <1>14

\* A rollback of a folder's contents that comes to an end leaves nothing below it
\* that is not as it was committed (changedPathsUnderFolder).
LEMMA RollbackRestores == ASSUME ReviewInv PROVE Re!Restores
  <1> SUFFICES ASSUME Re!RollbackContents, ~ reviewHung',
                      reviewFiles = Re!Status(reviewCommitted, reviewWorking),
                      reviewLive = reviewWorking,
                      NEW n \in Re!Nodes, Re!InFolder(n, reviewTarget[2])
               PROVE  reviewWorking'[n] = reviewCommitted[n]
    BY DEF Re!Restores
  <1>1. reviewTarget[2] \in Folders
    BY DEF Re!RollbackContents, ReviewInv
  <1>2. n \in Re!Below(reviewTarget[2]) /\ n # reviewTarget[2]
    BY <1>1, InFolderIsBelow DEF Re!InFolder
  <1> DEFINE changed == {x.node : x \in reviewFiles} \ {reviewTarget[2]}
             ns == changed \cap Re!Below(reviewTarget[2])
  <1>3. reviewWorking' = [x \in Re!Nodes |-> IF x \in ns THEN reviewCommitted[x] ELSE reviewWorking[x]]
    BY DEF Re!RollbackContents, Re!Discarded
  <1>4. ASSUME reviewCommitted[n] # reviewWorking[n] PROVE n \in {x.node : x \in reviewFiles}
    <2>1. n \in {y \in Re!Nodes : reviewCommitted[y] # reviewWorking[y]}
      BY <1>4
    <2> DEFINE x == [node |-> n, parent |-> IF reviewWorking[n] = None THEN reviewCommitted[n].in ELSE TreeTop]
    <2>2. x \in Re!Status(reviewCommitted, reviewWorking)
      BY <2>1 DEF Re!Status
    <2>3. x \in reviewFiles /\ x.node = n
      BY <2>2
    <2> HIDE DEF x
    <2> QED  BY <2>3
  <1>5. reviewCommitted[n] # reviewWorking[n] => n \in ns
    BY <1>2, <1>4
  <1> HIDE DEF ns
  <1> QED  BY <1>3, <1>5

\* Rolling back the contents of a folder of which the badges and the files are
\* read anew restores all that lies in it, at any depth, if it comes to an end: on
\* parents in a circle the search may go on for ever, and then nothing is written.
THEOREM ContentsRestoredHolds == SpecAll => ContentsRestored
  <1> DEFINE Inv == part = "review" => ReviewInv
  <1>1. InitAll => Inv
    <2>1. ASSUME Re!Init PROVE ReviewInv
      <3>1. (CHOOSE v \in ReviewValues : TRUE) \in ReviewValues
        BY ScreensAssumption DEF ScreensAssumption
      <3> DEFINE blank == CHOOSE v \in ReviewValues : TRUE
                 Fresh == {[name |-> blank, header |-> None, in |-> p] : p \in Re!Places} \cup {None}
      <3>2. reviewCommitted \in [Re!Nodes -> Fresh] /\ reviewWorking = reviewCommitted
            /\ reviewLive = reviewCommitted /\ reviewReview = [n \in Re!Nodes |-> <<>>] /\ reviewTarget = <<>>
        BY <2>1 DEF Re!Init
      <3> HIDE DEF blank
      <3>3. Fresh \subseteq Kept \cup {None}
        BY <3>1 DEF Kept, blank
      <3> HIDE DEF Fresh
      <3>4. reviewCommitted \in Files
        BY <3>2, <3>3 DEF Files
      <3> QED  BY <3>2, <3>4 DEF ReviewInv
    <2> QED  BY <2>1 DEF InitAll
  <1>2. Inv /\ [NextAll]_allVars => Inv'
    <2>1. ASSUME ReviewInv, UNCHANGED reviewVars PROVE ReviewInv'
      BY <2>1 DEF ReviewInv, reviewVars
    <2> QED  BY <2>1, ReviewInductive DEF NextAll, allVars, reviewVars
  <1>3. Inv /\ [NextAll]_allVars => [part = "review" => Re!Restores]_allVars
    BY RollbackRestores DEF NextAll
  <1> QED  BY <1>1, <1>2, <1>3, PTL DEF SpecAll, ContentsRestored

-----------------------------------------------------------------------------
(* The folds of a large body (WindowedBody).  A loop over runs is a recursive *)
(* function; that it has a value at each turn is shown with the least turn at *)
(* which it would not.                                                        *)

\* What holds at first and at each next turn of a loop holds to its end.
LEMMA EveryTurn ==
    ASSUME NEW n \in Nat, NEW T, 0 \in T, \A i \in 1..n : i - 1 \in T => i \in T
    PROVE  \A i \in 0..n : i \in T
  <1> DEFINE S == {i \in 0..n : i \notin T}
  <1>1. SUFFICES ASSUME S # {} PROVE FALSE
    OBVIOUS
  <1>2. S \in SUBSET Nat
    OBVIOUS
  <1>3. PICK m \in S : \A i \in S : m <= i
    <2> HIDE DEF S
    <2> QED  BY <1>1, <1>2, LeastNatural
  <1>4. m \in 1..n /\ m - 1 \in 0..n /\ m \notin T
    BY <1>3
  <1>5. m - 1 \in T
    BY <1>3, <1>4
  <1> QED  BY <1>4, <1>5

\* A loop that starts with a value of D and stays in D, and its course.
Loop(n, D, base, step) == n \in Nat /\ base \in D /\ step \in [1..n -> [D -> D]]
IsCourse(g, n, D, base, step) ==
    /\ g \in [0..n -> D] /\ g[0] = base
    /\ \A i \in 1..n : g[i] = step[i][g[i - 1]]

LEMMA Course ==
    ASSUME NEW n, NEW D, NEW base, NEW step, Loop(n, D, base, step)
    PROVE  \E g : IsCourse(g, n, D, base, step)
  <1> USE DEF Loop, IsCourse
  <1> DEFINE Is(g, m) == IsCourse(g, m, D, base, step)
             T == {m \in 0..n : \E g : Is(g, m)}
  <1>1. 0 \in T
    <2>1. Is([i \in 0..0 |-> base], 0)
      OBVIOUS
    <2> HIDE DEF Is
    <2> QED  BY <2>1
  <1>2. ASSUME NEW m \in 1..n, m - 1 \in T PROVE m \in T
    <2>1. PICK g : Is(g, m - 1)
      BY <1>2
    <2> DEFINE h == [i \in 0..m |-> IF i = m THEN step[m][g[m - 1]] ELSE g[i]]
    <2>2. m - 1 \in 0..(m - 1) /\ g[m - 1] \in D /\ step[m][g[m - 1]] \in D
      BY <2>1
    <2>3. h \in [0..m -> D] /\ h[0] = base
      BY <2>1, <2>2
    <2>4. \A i \in 1..m : h[i] = step[i][h[i - 1]]
      <3> SUFFICES ASSUME NEW i \in 1..m PROVE h[i] = step[i][h[i - 1]]
        OBVIOUS
      <3>1. i - 1 \in 0..m /\ i - 1 # m /\ h[i - 1] = g[i - 1]
        OBVIOUS
      <3>2. CASE i = m
        BY <3>1, <3>2
      <3>3. CASE i # m
        BY <2>1, <3>1, <3>3
      <3> QED  BY <3>2, <3>3
    <2>5. Is(h, m)
      BY <2>3, <2>4
    <2> HIDE DEF Is, h
    <2> QED  BY <2>5
  <1>3. n \in T
    <2> HIDE DEF T
    <2>1. \A m \in 0..n : m \in T
      BY <1>1, <1>2, EveryTurn
    <2> QED  BY <2>1
  <1> QED  BY <1>3

\* What is in D at first, and stays in it at each turn, is in D to the end.
LEMMA StaysIn ==
    ASSUME NEW n \in Nat, NEW D, NEW h,
           h[0] \in D, \A i \in 1..n : h[i - 1] \in D => h[i] \in D
    PROVE  \A i \in 0..n : h[i] \in D
  <1> DEFINE T == {i \in 0..n : h[i] \in D}
  <1>1. 0 \in T /\ \A i \in 1..n : i - 1 \in T => i \in T
    OBVIOUS
  <1>2. \A i \in 0..n : i \in T
    <2> HIDE DEF T
    <2> QED  BY <1>1, EveryTurn
  <1> QED  BY <1>2

\* The loops of HiddenCount, ToReal and ToVisual, turn by turn.
LEMMA CountCourse ==
    ASSUME NEW runs \in Seq(Nat \X Nat)
    PROVE  \E h \in [0..Len(runs) -> Int] :
              /\ h[0] = 0 /\ Bo!HiddenCount(runs) = h[Len(runs)]
              /\ \A i \in 1..Len(runs) :
                    h[i] = h[i - 1] + Bo!SizeOf(runs[i])
  <1> DEFINE n == Len(runs)
             D == Int
             Next1(i, d) == d + Bo!SizeOf(runs[i])
             step == [i \in 1..n |-> [d \in D |-> Next1(i, d)]]
             h == CHOOSE f : f = [i \in 0..Len(runs) |->
                                    IF i = 0 THEN 0 ELSE f[i - 1] + Bo!SizeOf(runs[i])]
  <1>1. n \in Nat /\ 0 \in D /\ \A i \in 1..n, d \in D : Next1(i, d) \in D
    BY DEF Bo!SizeOf
  <1>2. Bo!HiddenCount(runs) = h[n]
    BY DEF Bo!HiddenCount
  <1>3. h = [i \in 0..n |-> IF i = 0 THEN 0 ELSE Next1(i, h[i - 1])]
    <2> HIDE DEF D, Next1, n
    <2>1. step \in [1..n -> [D -> D]] /\ \A i \in 1..n, d \in D : step[i][d] = Next1(i, d)
      BY <1>1
    <2>2. PICK g \in [0..n -> D] : g[0] = 0 /\ \A i \in 1..n : g[i] = step[i][g[i - 1]]
      <3> HIDE DEF step
      <3>1. Loop(n, D, 0, step)
        BY <1>1, <2>1 DEF Loop
      <3>2. PICK g : IsCourse(g, n, D, 0, step)
        BY <3>1, Course
      <3> QED  BY <3>2 DEF IsCourse
    <2>3. \A i \in 1..n : g[i - 1] \in D
      <3>1. \A i \in 1..n : i - 1 \in 0..n
        BY <1>1
      <3> QED  BY <2>2, <3>1
    <2>4. g = [i \in 0..n |-> IF i = 0 THEN 0 ELSE Next1(i, g[i - 1])]
      <3> HIDE DEF step
      <3>1. \A i \in 0..n : i # 0 => i \in 1..n
        BY <1>1
      <3> QED  BY <2>1, <2>2, <2>3, <3>1
    <2> HIDE DEF step
    <2> USE DEF Next1, n
    <2> QED  BY <2>4
  <1>4. h[0] = 0 /\ \A i \in 1..n : h[i] = Next1(i, h[i - 1])
    <2> HIDE DEF h, Next1, n
    <2>1. 0 \in 0..n /\ \A i \in 1..n : i \in 0..n /\ i # 0
      BY <1>1
    <2> QED  BY <1>3, <2>1
  <1>5. h \in [0..n -> D]
    <2> HIDE DEF h, Next1, n, D
    <2>1. h[0] \in D /\ \A i \in 1..n : h[i - 1] \in D => h[i] \in D
      BY <1>1, <1>4
    <2>2. \A i \in 0..n : h[i] \in D
      BY <1>1, <2>1, StaysIn
    <2> QED  BY <1>3, <2>2
  <1> HIDE DEF h
  <1> QED  BY <1>2, <1>4, <1>5

LEMMA RealCourse ==
    ASSUME NEW runs \in Seq(Nat \X Nat), NEW visual \in Int
    PROVE  \E h \in [0..Len(runs) -> Int] :
              /\ h[0] = visual /\ Bo!ToReal(runs, visual) = h[Len(runs)]
              /\ \A i \in 1..Len(runs) :
                    h[i] = IF runs[i][1] > h[i - 1] THEN h[i - 1] ELSE h[i - 1] + Bo!SizeOf(runs[i])
  <1> DEFINE n == Len(runs)
             D == Int
             Next1(i, d) == IF runs[i][1] > d THEN d ELSE d + Bo!SizeOf(runs[i])
             step == [i \in 1..n |-> [d \in D |-> Next1(i, d)]]
             h == CHOOSE f : f = [i \in 0..Len(runs) |->
                                    IF i = 0 THEN visual ELSE IF runs[i][1] > f[i - 1] THEN f[i - 1] ELSE f[i - 1] + Bo!SizeOf(runs[i])]
  <1>1. n \in Nat /\ visual \in D /\ \A i \in 1..n, d \in D : Next1(i, d) \in D
    BY DEF Bo!SizeOf
  <1>2. Bo!ToReal(runs, visual) = h[n]
    BY DEF Bo!ToReal
  <1>3. h = [i \in 0..n |-> IF i = 0 THEN visual ELSE Next1(i, h[i - 1])]
    <2> HIDE DEF D, Next1, n
    <2>1. step \in [1..n -> [D -> D]] /\ \A i \in 1..n, d \in D : step[i][d] = Next1(i, d)
      BY <1>1
    <2>2. PICK g \in [0..n -> D] : g[0] = visual /\ \A i \in 1..n : g[i] = step[i][g[i - 1]]
      <3> HIDE DEF step
      <3>1. Loop(n, D, visual, step)
        BY <1>1, <2>1 DEF Loop
      <3>2. PICK g : IsCourse(g, n, D, visual, step)
        BY <3>1, Course
      <3> QED  BY <3>2 DEF IsCourse
    <2>3. \A i \in 1..n : g[i - 1] \in D
      <3>1. \A i \in 1..n : i - 1 \in 0..n
        BY <1>1
      <3> QED  BY <2>2, <3>1
    <2>4. g = [i \in 0..n |-> IF i = 0 THEN visual ELSE Next1(i, g[i - 1])]
      <3> HIDE DEF step
      <3>1. \A i \in 0..n : i # 0 => i \in 1..n
        BY <1>1
      <3> QED  BY <2>1, <2>2, <2>3, <3>1
    <2> HIDE DEF step
    <2> USE DEF Next1, n
    <2> QED  BY <2>4
  <1>4. h[0] = visual /\ \A i \in 1..n : h[i] = Next1(i, h[i - 1])
    <2> HIDE DEF h, Next1, n
    <2>1. 0 \in 0..n /\ \A i \in 1..n : i \in 0..n /\ i # 0
      BY <1>1
    <2> QED  BY <1>3, <2>1
  <1>5. h \in [0..n -> D]
    <2> HIDE DEF h, Next1, n, D
    <2>1. h[0] \in D /\ \A i \in 1..n : h[i - 1] \in D => h[i] \in D
      BY <1>1, <1>4
    <2>2. \A i \in 0..n : h[i] \in D
      BY <1>1, <2>1, StaysIn
    <2> QED  BY <1>3, <2>2
  <1> HIDE DEF h
  <1> QED  BY <1>2, <1>4, <1>5

\* The larger and the smaller of two numbers.
LEMMA Larger ==
    ASSUME NEW a \in Nat, NEW b \in Nat
    PROVE  /\ Bo!Max({a, b}) = IF a >= b THEN a ELSE b
           /\ Bo!Min({a, b}) = IF a <= b THEN a ELSE b
  BY DEF Bo!Max, Bo!Min

LEMMA VisualCourse ==
    ASSUME NEW runs \in Seq(Nat \X Nat), NEW real \in Nat
    PROVE  \E h \in [0..Len(runs) -> Int] :
              /\ h[0] = real /\ Bo!ToVisual(runs, real) = h[Len(runs)]
              /\ \A i \in 1..Len(runs) :
                    h[i] = IF runs[i][1] > real THEN h[i - 1] ELSE h[i - 1] - (Bo!Min({runs[i][2], real}) - runs[i][1] + 1)
  <1> DEFINE n == Len(runs)
             D == Int
             Next1(i, d) == IF runs[i][1] > real THEN d ELSE d - (Bo!Min({runs[i][2], real}) - runs[i][1] + 1)
             step == [i \in 1..n |-> [d \in D |-> Next1(i, d)]]
             h == CHOOSE f : f = [i \in 0..Len(runs) |->
                                    IF i = 0 THEN real ELSE IF runs[i][1] > real THEN f[i - 1] ELSE f[i - 1] - (Bo!Min({runs[i][2], real}) - runs[i][1] + 1)]
  <1>1. n \in Nat /\ real \in D /\ \A i \in 1..n, d \in D : Next1(i, d) \in D
    <2>1. \A i \in 1..n : runs[i][1] \in Nat /\ runs[i][2] \in Nat
      OBVIOUS
    <2>2. \A i \in 1..n : Bo!Min({runs[i][2], real}) \in Nat
      <3> SUFFICES ASSUME NEW i \in 1..n PROVE Bo!Min({runs[i][2], real}) \in Nat
        OBVIOUS
      <3>1. runs[i][2] \in Nat
        BY <2>1
      <3> QED  BY <3>1, Larger
    <2>3. ASSUME NEW i \in 1..n, NEW d \in D PROVE Next1(i, d) \in D
      <3>1. runs[i][1] \in Nat /\ Bo!Min({runs[i][2], real}) \in Nat
        BY <2>1, <2>2
      <3> QED  BY <3>1
    <2>4. n \in Nat /\ real \in D
      OBVIOUS
    <2> HIDE DEF Next1, D, n
    <2> QED  BY <2>3, <2>4
  <1>2. Bo!ToVisual(runs, real) = h[n]
    BY DEF Bo!ToVisual
  <1>3. h = [i \in 0..n |-> IF i = 0 THEN real ELSE Next1(i, h[i - 1])]
    <2> HIDE DEF D, Next1, n
    <2>1. step \in [1..n -> [D -> D]] /\ \A i \in 1..n, d \in D : step[i][d] = Next1(i, d)
      BY <1>1
    <2>2. PICK g \in [0..n -> D] : g[0] = real /\ \A i \in 1..n : g[i] = step[i][g[i - 1]]
      <3> HIDE DEF step
      <3>1. Loop(n, D, real, step)
        BY <1>1, <2>1 DEF Loop
      <3>2. PICK g : IsCourse(g, n, D, real, step)
        BY <3>1, Course
      <3> QED  BY <3>2 DEF IsCourse
    <2>3. \A i \in 1..n : g[i - 1] \in D
      <3>1. \A i \in 1..n : i - 1 \in 0..n
        BY <1>1
      <3> QED  BY <2>2, <3>1
    <2>4. g = [i \in 0..n |-> IF i = 0 THEN real ELSE Next1(i, g[i - 1])]
      <3> HIDE DEF step
      <3>1. \A i \in 0..n : i # 0 => i \in 1..n
        BY <1>1
      <3> QED  BY <2>1, <2>2, <2>3, <3>1
    <2> HIDE DEF step
    <2> USE DEF Next1, n
    <2> QED  BY <2>4
  <1>4. h[0] = real /\ \A i \in 1..n : h[i] = Next1(i, h[i - 1])
    <2> HIDE DEF h, Next1, n
    <2>1. 0 \in 0..n /\ \A i \in 1..n : i \in 0..n /\ i # 0
      BY <1>1
    <2> QED  BY <1>3, <2>1
  <1>5. h \in [0..n -> D]
    <2> HIDE DEF h, Next1, n, D
    <2>1. h[0] \in D /\ \A i \in 1..n : h[i - 1] \in D => h[i] \in D
      BY <1>1, <1>4
    <2>2. \A i \in 0..n : h[i] \in D
      BY <1>1, <2>1, StaysIn
    <2> QED  BY <1>3, <2>2
  <1> HIDE DEF h
  <1> QED  BY <1>2, <1>4, <1>5

\* Runs of lines, in order and with a line between each two.
RunSeq(runs) == runs \in Seq(Nat \X Nat)
Apart(runs) ==
    /\ RunSeq(runs) /\ Len(runs) \in Nat
    /\ \A i \in 1..Len(runs) : /\ runs[i][1] \in Nat /\ runs[i][2] \in Nat
                               /\ runs[i][1] <= runs[i][2]
    /\ \A i, j \in 1..Len(runs) : i < j => runs[i][2] + 1 < runs[j][1]
Covered(runs, k) == \E i \in 1..Len(runs) : runs[i][1] <= k /\ k <= runs[i][2]

\* A run that starts no lower than the last is put after it, or made one with
\* it when they meet.
\* What appending gives, by its places.
IsAppend(new, S, seq, elt, n) ==
    seq \in Seq(S) /\ elt \in S /\ n = Len(seq) /\ new = Append(seq, elt)
AppendShape(new, S, seq, elt, n) ==
    /\ new \in Seq(S) /\ Len(new) = n + 1
    /\ \A i \in 1..n : new[i] = seq[i]
    /\ new[n + 1] = elt

LEMMA Appended ==
    ASSUME NEW S, NEW seq, NEW elt, NEW n, NEW new, IsAppend(new, S, seq, elt, n)
    PROVE  AppendShape(new, S, seq, elt, n)
  BY AppendProperties DEF IsAppend, AppendShape

MergeShape(new, runs, s, e, n, last) ==
    /\ n \in Nat /\ RunSeq(new)
    /\ n # 0 /\ s <= runs[n][2] + 1 =>
          /\ Len(new) = n
          /\ \A i \in 1..n : i # n => new[i] = runs[i]
          /\ new[n][1] = runs[n][1] /\ new[n][2] = last
    /\ n = 0 \/ s > runs[n][2] + 1 =>
          /\ Len(new) = n + 1
          /\ \A i \in 1..n : new[i] = runs[i]
          /\ new[n + 1][1] = s /\ new[n + 1][2] = e

LEMMA Merges ==
    ASSUME NEW runs, RunSeq(runs), NEW s \in Nat, NEW e \in Nat,
           NEW n, n = Len(runs), \A i \in 1..n : runs[i][1] \in Nat /\ runs[i][2] \in Nat,
           NEW new, new = Bo!Merge(runs, <<s, e>>),
           NEW last, n # 0 => last = IF runs[n][2] >= e THEN runs[n][2] ELSE e
    PROVE  MergeShape(new, runs, s, e, n, last)
  <1> DEFINE P == Nat \X Nat
  <1>0. /\ runs \in Seq(P) /\ \A x, y \in Nat : <<x, y>> \in P
        /\ \A x : RunSeq(x) <=> x \in Seq(P)
    BY DEF RunSeq
  <1> HIDE DEF P
  <1>1. n \in Nat /\ (n = 0 <=> runs = <<>>) /\ <<s, e>>[1] = s /\ <<s, e>>[2] = e
    BY <1>0
  <1>2. CASE n # 0 /\ s <= runs[n][2] + 1
    <2> DEFINE pair == <<runs[n][1], last>>
               front == Bo!Front(runs)
    <2>1. n \in 1..n /\ Bo!Last(runs) = runs[n] /\ last \in Nat
      BY <1>1, <1>2 DEF Bo!Last
    <2>2. Bo!Max({Bo!Last(runs)[2], e}) = last
      BY <1>2, <2>1, Larger
    <2>3. front \in Seq(P) /\ Len(front) = n - 1
          /\ \A i \in 1..(n - 1) : front[i] = runs[i]
      <3>1. front = SubSeq(runs, 1, n - 1)
        BY DEF Bo!Front
      <3>2. n - 1 \in Nat /\ \A i \in 1..(n - 1) : i \in 1..n /\ runs[i] \in P /\ 1 + i - 1 = i
        BY <1>0, <1>1, <2>1
      <3> HIDE DEF front, pair
      <3> QED  BY <1>1, <3>1, <3>2, SubSeqProperties
    <2>4. new = front \o <<pair>>
      BY <1>1, <1>2, <2>1, <2>2 DEF Bo!Merge
    <2>5. pair \in P
      BY <1>0, <2>1
    <2> HIDE DEF pair, front
    <2>6. /\ new \in Seq(P) /\ Len(new) = n
          /\ \A i \in 1..(n - 1) : new[i] = front[i]
          /\ new[n] = pair
      <3>1. new = Append(front, pair)
        BY <2>3, <2>4, <2>5, AppendIsConcat
      <3>2. IsAppend(new, P, front, pair, n - 1)
        BY <2>3, <2>5, <3>1 DEF IsAppend
      <3>3. AppendShape(new, P, front, pair, n - 1)
        BY <3>2, Appended
      <3>4. n - 1 + 1 = n
        BY <1>1
      <3> QED  BY <3>3, <3>4 DEF AppendShape
    <2>7. \A i \in 1..n : i # n => i \in 1..(n - 1)
      BY <1>1
    <2>8. RunSeq(new)
      BY <1>0, <2>6
    <2>9. ~ (n = 0 \/ s > runs[n][2] + 1)
      <3>1. runs[n][2] \in Nat
        BY <2>1
      <3> QED  BY <1>2, <3>1
    <2>10. \A i \in 1..n : i # n => new[i] = runs[i]
      BY <2>3, <2>6, <2>7
    <2>11. Len(new) = n /\ new[n][1] = runs[n][1] /\ new[n][2] = last
      <3>1. pair[1] = runs[n][1] /\ pair[2] = last
        BY DEF pair
      <3> QED  BY <2>6, <3>1
    <2> QED  BY <1>1, <2>8, <2>9, <2>10, <2>11 DEF MergeShape
  <1>3. CASE n = 0 \/ (n # 0 /\ s > runs[n][2] + 1)
    <2> DEFINE pair == <<s, e>>
    <2>1. new = Append(runs, pair)
      BY <1>1, <1>3 DEF Bo!Merge, Bo!Last
    <2>2. pair \in P
      BY <1>0
    <2> HIDE DEF pair
    <2>3. /\ new \in Seq(P) /\ Len(new) = n + 1
          /\ \A i \in 1..n : new[i] = runs[i]
          /\ new[n + 1] = pair
      <3>1. runs \in Seq(P) /\ Len(runs) = n
        BY <1>0
      <3>2. IsAppend(new, P, runs, pair, n)
        BY <2>1, <2>2, <3>1 DEF IsAppend
      <3>3. AppendShape(new, P, runs, pair, n)
        BY <3>2, Appended
      <3> QED  BY <3>3 DEF AppendShape
    <2>4. RunSeq(new)
      BY <1>0, <2>3
    <2>5. n # 0 => ~ (s <= runs[n][2] + 1)
      <3>1. n # 0 => runs[n][2] \in Nat
        BY <1>1
      <3> QED  BY <1>3, <3>1
    <2>6. new[n + 1][1] = s /\ new[n + 1][2] = e
      BY <2>3 DEF pair
    <2> QED  BY <1>1, <2>3, <2>4, <2>5, <2>6 DEF MergeShape
  <1>4. n # 0 => runs[n][2] \in Nat
    BY <1>1
  <1> QED  BY <1>1, <1>2, <1>3, <1>4

\* With the runs taken in the order of their starts, they stay apart, and they
\* cover what they covered and the new run.
LEMMA MergeKeeps ==
    ASSUME NEW runs, Apart(runs), NEW s \in Nat, NEW e \in Nat, s <= e,
           \A i \in 1..Len(runs) : runs[i][1] < s,
           NEW new, new = Bo!Merge(runs, <<s, e>>)
    PROVE  /\ Apart(new)
           /\ \A i \in 1..Len(new) : new[i][1] <= s
           /\ \A k \in Nat : Covered(new, k) <=> Covered(runs, k) \/ (s <= k /\ k <= e)
  <1> DEFINE n == Len(runs)
             m == Len(new)
             last == IF runs[n][2] >= e THEN runs[n][2] ELSE e
             joins == n # 0 /\ s <= runs[n][2] + 1
  <1>1. /\ RunSeq(runs) /\ n \in Nat
        /\ \A i \in 1..n : runs[i][1] \in Nat /\ runs[i][2] \in Nat /\ runs[i][1] <= runs[i][2]
        /\ \A i, j \in 1..n : i < j => runs[i][2] + 1 < runs[j][1]
        /\ \A i \in 1..n : runs[i][1] < s
    BY DEF Apart
  <1>2. MergeShape(new, runs, s, e, n, last)
    <2>1. \A i \in 1..n : runs[i][1] \in Nat /\ runs[i][2] \in Nat
      BY <1>1
    <2>2. n # 0 => last = IF runs[n][2] >= e THEN runs[n][2] ELSE e
      OBVIOUS
    <2> HIDE DEF last
    <2> QED  BY <1>1, <2>1, <2>2, Merges
  <1>3. CASE joins
    <2>1. /\ n \in 1..n /\ m = n /\ last \in Nat /\ runs[n][2] <= last /\ e <= last
          /\ runs[n][1] \in Nat /\ runs[n][2] \in Nat
          /\ last = runs[n][2] \/ last = e
      BY <1>1, <1>2, <1>3 DEF MergeShape
    <2> HIDE DEF last
    <2>2. new[n][1] = runs[n][1] /\ new[n][2] = last
      BY <1>2, <1>3 DEF MergeShape
    <2>3. \A i \in 1..n : i # n => new[i][1] = runs[i][1] /\ new[i][2] = runs[i][2]
      BY <1>2, <1>3 DEF MergeShape
    <2> HIDE DEF n, m
    <2>4. \A i \in 1..n : /\ new[i][1] = runs[i][1] /\ new[i][2] \in Nat /\ runs[i][2] <= new[i][2]
                          /\ i # n => new[i][2] = runs[i][2]
      <3> SUFFICES ASSUME NEW i \in 1..n
                   PROVE  /\ new[i][1] = runs[i][1] /\ new[i][2] \in Nat /\ runs[i][2] <= new[i][2]
                          /\ i # n => new[i][2] = runs[i][2]
        OBVIOUS
      <3>1. runs[i][1] \in Nat /\ runs[i][2] \in Nat
        BY <1>1
      <3>2. CASE i = n
        BY <2>1, <2>2, <3>2
      <3>3. CASE i # n
        BY <2>3, <3>1, <3>3
      <3> QED  BY <3>2, <3>3
    <2>5. \A i \in 1..m : /\ new[i][1] \in Nat /\ new[i][2] \in Nat /\ new[i][1] <= new[i][2]
                          /\ new[i][1] <= s
      <3> SUFFICES ASSUME NEW i \in 1..n
                   PROVE  /\ new[i][1] \in Nat /\ new[i][2] \in Nat /\ new[i][1] <= new[i][2]
                          /\ new[i][1] <= s
        BY <2>1
      <3>1. /\ runs[i][1] \in Nat /\ runs[i][2] \in Nat /\ runs[i][1] <= runs[i][2]
            /\ runs[i][1] < s
        BY <1>1
      <3>2. new[i][1] = runs[i][1] /\ new[i][2] \in Nat /\ runs[i][2] <= new[i][2]
        BY <2>4
      <3> QED  BY <3>1, <3>2
    <2>6. ASSUME NEW i \in 1..m, NEW j \in 1..m, i < j PROVE new[i][2] + 1 < new[j][1]
      <3>1. i # n
        BY <1>1, <2>1, <2>6
      <3>2. new[i][2] = runs[i][2] /\ new[j][1] = runs[j][1]
        BY <2>1, <2>4, <3>1
      <3> QED  BY <1>1, <2>1, <2>6, <3>2
    <2>7. ASSUME NEW k \in Nat
          PROVE  Covered(new, k) <=> Covered(runs, k) \/ (s <= k /\ k <= e)
      <3>1. ASSUME Covered(new, k) PROVE Covered(runs, k) \/ (s <= k /\ k <= e)
        <4>1. PICK i \in 1..n : new[i][1] <= k /\ k <= new[i][2]
          BY <2>1, <3>1 DEF Covered, n, m
        <4>2. CASE i # n \/ k <= runs[n][2]
          <5>1. runs[i][1] <= k /\ k <= runs[i][2]
            BY <2>4, <4>1, <4>2
          <5> QED  BY <5>1 DEF Covered, n
        <4>3. CASE i = n /\ ~ (k <= runs[n][2])
          <5>1. k <= last /\ runs[n][2] < k
            BY <2>1, <2>2, <4>1, <4>3
          <5>2. k <= e
            BY <2>1, <5>1
          <5>3. s <= k
            BY <1>3, <2>1, <5>1
          <5> QED  BY <5>2, <5>3
        <4> QED  BY <4>2, <4>3
      <3>2. ASSUME Covered(runs, k) PROVE Covered(new, k)
        <4>1. PICK i \in 1..n : runs[i][1] <= k /\ k <= runs[i][2]
          BY <3>2 DEF Covered, n
        <4>2. new[i][1] <= k /\ k <= new[i][2]
          <5>1. runs[i][2] \in Nat /\ new[i][2] \in Nat /\ runs[i][2] <= new[i][2] /\ new[i][1] = runs[i][1]
            BY <1>1, <2>4
          <5> QED  BY <4>1, <5>1
        <4> QED  BY <2>1, <4>2 DEF Covered, n, m
      <3>3. ASSUME s <= k, k <= e PROVE Covered(new, k)
        <4>1. new[n][1] <= k /\ k <= new[n][2]
          <5>1. runs[n][1] < s
            BY <1>1, <2>1
          <5> QED  BY <2>1, <2>2, <3>3, <5>1
        <4> QED  BY <2>1, <4>1 DEF Covered, n, m
      <3> QED  BY <3>1, <3>2, <3>3
    <2>8. m \in Nat
      BY <1>1, <2>1
    <2> QED  BY <1>2, <2>5, <2>6, <2>7, <2>8 DEF Apart, MergeShape, m
  <1>4. CASE n = 0 \/ (n # 0 /\ s > runs[n][2] + 1)
    <2>1. m = n + 1 /\ n + 1 \in 1..m
      BY <1>1, <1>2, <1>4 DEF MergeShape
    <2>2. new[n + 1][1] = s /\ new[n + 1][2] = e
      BY <1>2, <1>4 DEF MergeShape
    <2>3. \A i \in 1..n : new[i][1] = runs[i][1] /\ new[i][2] = runs[i][2] /\ i \in 1..m
      <3>1. \A i \in 1..n : new[i] = runs[i]
        BY <1>2, <1>4 DEF MergeShape
      <3>2. n \in Nat
        BY <1>1
      <3> HIDE DEF n, m
      <3>3. \A i \in 1..n : i \in 1..m
        BY <2>1, <3>2
      <3> QED  BY <3>1, <3>3
    <2> HIDE DEF n, m
    <2>4. \A i \in 1..m : i \in 1..n \/ i = n + 1
      BY <1>1, <2>1
    <2>5. \A i \in 1..m : /\ new[i][1] \in Nat /\ new[i][2] \in Nat /\ new[i][1] <= new[i][2]
                          /\ new[i][1] <= s
      <3> SUFFICES ASSUME NEW i \in 1..m
                   PROVE  /\ new[i][1] \in Nat /\ new[i][2] \in Nat /\ new[i][1] <= new[i][2]
                          /\ new[i][1] <= s
        OBVIOUS
      <3>1. CASE i \in 1..n
        <4>1. /\ runs[i][1] \in Nat /\ runs[i][2] \in Nat /\ runs[i][1] <= runs[i][2]
              /\ runs[i][1] < s
          BY <1>1, <3>1
        <4>2. new[i][1] = runs[i][1] /\ new[i][2] = runs[i][2]
          BY <2>3, <3>1
        <4> QED  BY <4>1, <4>2
      <3>2. CASE i = n + 1
        BY <2>2, <3>2
      <3> QED  BY <2>4, <3>1, <3>2
    <2>6. ASSUME NEW i \in 1..m, NEW j \in 1..m, i < j PROVE new[i][2] + 1 < new[j][1]
      <3>1. i \in 1..n
        BY <1>1, <2>1, <2>6
      <3>2. CASE j \in 1..n
        BY <1>1, <2>3, <2>6, <3>1, <3>2
      <3>3. CASE j = n + 1
        <4>1. n \in 1..n /\ runs[n][2] \in Nat /\ runs[n][1] \in Nat /\ runs[n][1] <= runs[n][2] /\ n # 0
          BY <1>1, <3>1
        <4>2. runs[i][2] \in Nat /\ runs[i][2] <= runs[n][2]
          BY <1>1, <3>1, <4>1
        <4>3. s > runs[n][2] + 1
          BY <1>4, <4>1
        <4>4. new[i][2] = runs[i][2] /\ new[j][1] = s
          BY <2>2, <2>3, <3>1, <3>3
        <4> QED  BY <4>1, <4>2, <4>3, <4>4
      <3> QED  BY <2>4, <3>2, <3>3
    <2>7. ASSUME NEW k \in Nat
          PROVE  Covered(new, k) <=> Covered(runs, k) \/ (s <= k /\ k <= e)
      <3>1. Covered(new, k) <=> \E i \in 1..m : new[i][1] <= k /\ k <= new[i][2]
        BY DEF Covered, m
      <3>2. Covered(runs, k) <=> \E i \in 1..n : runs[i][1] <= k /\ k <= runs[i][2]
        BY DEF Covered, n
      <3>3. ASSUME NEW i \in 1..m, new[i][1] <= k, k <= new[i][2]
            PROVE  Covered(runs, k) \/ (s <= k /\ k <= e)
        BY <2>2, <2>3, <2>4, <3>2, <3>3
      <3>4. ASSUME NEW i \in 1..n, runs[i][1] <= k, k <= runs[i][2]
            PROVE  \E j \in 1..m : new[j][1] <= k /\ k <= new[j][2]
        BY <2>3, <3>4
      <3>5. ASSUME s <= k, k <= e
            PROVE  \E j \in 1..m : new[j][1] <= k /\ k <= new[j][2]
        BY <2>1, <2>2, <3>5
      <3> QED  BY <3>1, <3>2, <3>3, <3>4, <3>5
    <2>8. m \in Nat
      BY <1>1, <2>1
    <2> QED  BY <1>2, <2>5, <2>6, <2>7, <2>8 DEF Apart, MergeShape, m
  <1>5. joins \/ n = 0 \/ (n # 0 /\ s > runs[n][2] + 1)
    <2>1. n # 0 => runs[n][2] \in Nat
      BY <1>1
    <2> QED  BY <2>1
  <1> QED  BY <1>3, <1>4, <1>5

\* The lines up to m that the first i runs hide.
HidTo(runs, i, m) == {k \in 0..m : \E j \in 1..i : runs[j][1] <= k /\ k <= runs[j][2]}
CountTo(runs, i, m) == Cardinality(HidTo(runs, i, m))


LEMMA Counted ==
    ASSUME NEW runs, NEW i, NEW m \in Int
    PROVE  /\ IsFiniteSet(HidTo(runs, i, m)) /\ CountTo(runs, i, m) \in Nat
           /\ i = 0 => CountTo(runs, i, m) = 0
  <1>1. IsFiniteSet(0..m)
    BY FS_Interval
  <1>2. HidTo(runs, i, m) \in SUBSET (0..m)
    BY DEF HidTo
  <1>3. IsFiniteSet(HidTo(runs, i, m))
    BY <1>1, <1>2, FS_Subset
  <1>4. i = 0 => HidTo(runs, i, m) = {}
    BY DEF HidTo
  <1> QED  BY <1>3, <1>4, FS_CardinalityType, FS_EmptySet DEF CountTo

\* One run more hides its lines, as far as they are not below m.
LEMMA NextRun ==
    ASSUME NEW runs, Apart(runs), NEW i \in 1..Len(runs), NEW m \in Int
    PROVE  CountTo(runs, i, m) =
               CountTo(runs, i - 1, m)
               + (IF runs[i][1] > m THEN 0
                  ELSE (IF runs[i][2] <= m THEN runs[i][2] ELSE m) - runs[i][1] + 1)
  <1> DEFINE a == runs[i][1]
             b == runs[i][2]
             top == IF b <= m THEN b ELSE m
             old == HidTo(runs, i - 1, m)
  <1>1. /\ a \in Nat /\ b \in Nat /\ a <= b /\ i \in Nat /\ i # 0 /\ top \in Int
        /\ \A j \in 1..(i - 1) : /\ runs[j][2] \in Nat /\ runs[j][2] < a /\ j \in 1..i
    <2>1. Len(runs) \in Nat
      BY DEF Apart
    <2>2. i \in Nat /\ i # 0 /\ \A j \in 1..(i - 1) : j \in 1..Len(runs) /\ j < i /\ j \in 1..i
      BY <2>1
    <2>3. a \in Nat /\ b \in Nat /\ a <= b
      BY DEF Apart
    <2>4. \A j \in 1..(i - 1) : runs[j][2] \in Nat /\ runs[j][2] + 1 < a
      BY <2>2 DEF Apart
    <2> HIDE DEF a, b
    <2>5. \A j \in 1..(i - 1) : runs[j][2] < a
      BY <2>3, <2>4
    <2> QED  BY <2>2, <2>3, <2>4, <2>5
  <1>2. IsFiniteSet(old) /\ Cardinality(old) \in Nat
    BY Counted DEF CountTo
  <1>3. IsFiniteSet(a..top) /\ Cardinality(a..top) = IF a > top THEN 0 ELSE top - a + 1
    <2> HIDE DEF a, top
    <2>1. a \in Int /\ top \in Int
      BY <1>1
    <2> QED  BY <2>1, FS_Interval
  <1>4. HidTo(runs, i, m) = old \cup (a..top)
    <2>1. ASSUME NEW k \in HidTo(runs, i, m) PROVE k \in old \cup (a..top)
      <3>1. k \in 0..m /\ \E j \in 1..i : runs[j][1] <= k /\ k <= runs[j][2]
        BY DEF HidTo
      <3>2. PICK j \in 1..i : runs[j][1] <= k /\ k <= runs[j][2]
        BY <3>1
      <3>3. CASE j = i
        <4>1. a <= k /\ k <= b
          BY <3>2, <3>3
        <4> HIDE DEF a, b
        <4> QED  BY <1>1, <3>1, <4>1
      <3>4. CASE j # i
        <4>1. j \in 1..(i - 1)
          BY <1>1, <3>4
        <4> QED  BY <3>1, <3>2, <4>1 DEF HidTo
      <3> QED  BY <3>3, <3>4
    <2>2. ASSUME NEW k \in old PROVE k \in HidTo(runs, i, m)
      <3>1. k \in 0..m /\ \E j \in 1..(i - 1) : runs[j][1] <= k /\ k <= runs[j][2]
        BY <2>2 DEF HidTo
      <3> QED  BY <1>1, <3>1 DEF HidTo
    <2>3. ASSUME NEW k \in a..top PROVE k \in HidTo(runs, i, m)
      <3>1. k \in 0..m /\ a <= k /\ k <= b
        <4> HIDE DEF a, b
        <4> QED  BY <1>1
      <3>2. i \in 1..i
        BY <1>1
      <3> QED  BY <3>1, <3>2 DEF HidTo
    <2> HIDE DEF old, a, top
    <2> QED  BY <2>1, <2>2, <2>3
  <1>5. old \cap (a..top) = {}
    <2> SUFFICES ASSUME NEW k \in old, k \in a..top PROVE FALSE
      OBVIOUS
    <2>1. k \in Int /\ \E j \in 1..(i - 1) : k <= runs[j][2]
      BY DEF HidTo
    <2>2. a <= k
      BY <1>1
    <2> HIDE DEF a, old, top
    <2>3. PICK j \in 1..(i - 1) : k <= runs[j][2]
      BY <2>1
    <2>4. runs[j][2] \in Nat /\ runs[j][2] < a
      BY <1>1
    <2> QED  BY <1>1, <2>1, <2>2, <2>3, <2>4
  <1>6. Cardinality(HidTo(runs, i, m)) = Cardinality(old) + Cardinality(a..top)
    <2> HIDE DEF old, a, top
    <2>1. Cardinality(old \cup (a..top)) = Cardinality(old) + Cardinality(a..top) - Cardinality(old \cap (a..top))
      BY <1>2, <1>3, FS_Union
    <2>2. Cardinality(old \cap (a..top)) = 0
      BY <1>5, FS_EmptySet
    <2>3. Cardinality(a..top) \in Nat
      BY <1>3, FS_CardinalityType
    <2> QED  BY <1>2, <1>4, <2>1, <2>2, <2>3
  <1>7. Cardinality(a..top) = IF a > m THEN 0 ELSE top - a + 1
    <2>1. (a > top) <=> (a > m)
      <3> HIDE DEF a, b
      <3> QED  BY <1>1
    <2> HIDE DEF a, b, top
    <2> QED  BY <1>3, <2>1
  <1> QED  BY <1>6, <1>7 DEF CountTo

\* Runs that end among the lines.
Within(runs) == Apart(runs) /\ \A i \in 1..Len(runs) : runs[i][2] <= NLines - 1

\* HiddenCount is the number of the hidden lines; the row of a line is as far up
\* as there are hidden lines down to it.
LEMMA HiddenIsCounted ==
    ASSUME NLines \in Nat, NEW runs, Within(runs)
    PROVE  Bo!HiddenCount(runs) = CountTo(runs, Len(runs), NLines - 1)
  <1> DEFINE n == Len(runs)
             N == NLines - 1
  <1>1. n \in Nat /\ runs \in Seq(Nat \X Nat) /\ Apart(runs) /\ N \in Int
    BY DEF Within, Apart, RunSeq
  <1>2. PICK h \in [0..n -> Int] : /\ h[0] = 0 /\ Bo!HiddenCount(runs) = h[n]
                                   /\ \A i \in 1..n : h[i] = h[i - 1] + Bo!SizeOf(runs[i])
    BY <1>1, CountCourse
  <1> DEFINE T == {i \in 0..n : h[i] = CountTo(runs, i, N)}
  <1>3. 0 \in T
    BY <1>1, <1>2, Counted
  <1>4. ASSUME NEW i \in 1..n, i - 1 \in T PROVE i \in T
    <2>1. h[i] = h[i - 1] + (runs[i][2] - runs[i][1] + 1)
      BY <1>2 DEF Bo!SizeOf
    <2>2. h[i - 1] = CountTo(runs, i - 1, N) /\ i \in 0..n
      BY <1>1, <1>4
    <2>3. runs[i][1] \in Nat /\ runs[i][2] \in Nat /\ runs[i][1] <= runs[i][2] /\ runs[i][2] <= N
      BY DEF Within, Apart
    <2>4. CountTo(runs, i, N) = CountTo(runs, i - 1, N)
               + (IF runs[i][1] > N THEN 0
                  ELSE (IF runs[i][2] <= N THEN runs[i][2] ELSE N) - runs[i][1] + 1)
      <3> HIDE DEF N
      <3> QED  BY <1>1, NextRun
    <2>5. ~ (runs[i][1] > N)
      <3> HIDE DEF N
      <3> QED  BY <1>1, <2>3
    <2>6. h[i] = CountTo(runs, i, N)
      <3> HIDE DEF N
      <3> QED  BY <2>1, <2>2, <2>3, <2>4, <2>5
    <2> QED  BY <2>2, <2>6
  <1>5. \A i \in 0..n : i \in T
    <2> HIDE DEF T, n
    <2> QED  BY <1>1, <1>3, <1>4, EveryTurn
  <1>6. n \in T
    BY <1>1, <1>5
  <1> QED  BY <1>2, <1>6

LEMMA VisualIsCounted ==
    ASSUME NEW runs, Apart(runs), NEW l \in Nat
    PROVE  Bo!ToVisual(runs, l) = l - CountTo(runs, Len(runs), l)
  <1> DEFINE n == Len(runs)
  <1>1. n \in Nat /\ runs \in Seq(Nat \X Nat)
    BY DEF Apart, RunSeq
  <1>2. PICK h \in [0..n -> Int] :
              /\ h[0] = l /\ Bo!ToVisual(runs, l) = h[n]
              /\ \A i \in 1..n :
                    h[i] = IF runs[i][1] > l THEN h[i - 1] ELSE h[i - 1] - (Bo!Min({runs[i][2], l}) - runs[i][1] + 1)
    BY <1>1, VisualCourse
  <1> DEFINE T == {i \in 0..n : h[i] = l - CountTo(runs, i, l)}
  <1>3. 0 \in T
    BY <1>1, <1>2, Counted
  <1>4. ASSUME NEW i \in 1..n, i - 1 \in T PROVE i \in T
    <2>1. h[i] = IF runs[i][1] > l THEN h[i - 1] ELSE h[i - 1] - (Bo!Min({runs[i][2], l}) - runs[i][1] + 1)
      BY <1>2
    <2>2. h[i - 1] = l - CountTo(runs, i - 1, l) /\ i \in 0..n
      BY <1>1, <1>4
    <2>3. runs[i][1] \in Nat /\ runs[i][2] \in Nat
      BY DEF Apart
    <2>4. CountTo(runs, i, l) = CountTo(runs, i - 1, l)
               + (IF runs[i][1] > l THEN 0
                  ELSE (IF runs[i][2] <= l THEN runs[i][2] ELSE l) - runs[i][1] + 1)
      BY NextRun
    <2>5. Bo!Min({runs[i][2], l}) = IF runs[i][2] <= l THEN runs[i][2] ELSE l
      BY <2>3, Larger
    <2>6. CountTo(runs, i - 1, l) \in Nat
      BY Counted
    <2>7. h[i] = l - CountTo(runs, i, l)
      BY <2>1, <2>2, <2>3, <2>4, <2>5, <2>6
    <2> QED  BY <2>2, <2>7
  <1>5. \A i \in 0..n : i \in T
    <2> HIDE DEF T, n
    <2> QED  BY <1>1, <1>3, <1>4, EveryTurn
  <1>6. n \in T
    BY <1>1, <1>5
  <1> QED  BY <1>2, <1>6

\* The line of a row is as far down as the row and the hidden lines above it.
LEMMA RealIsCounted ==
    ASSUME NEW runs, Apart(runs), NEW v \in Nat, NEW r, r = Bo!ToReal(runs, v)
    PROVE  /\ r \in Nat /\ v = r - CountTo(runs, Len(runs), r)
           /\ ~ Covered(runs, r)
  <1> DEFINE n == Len(runs)
             Row(i, d) == /\ d \in Nat /\ v = d - CountTo(runs, i, d)
                          /\ \A j \in 1..i : ~ (runs[j][1] <= d /\ d <= runs[j][2])
  <1>1. n \in Nat /\ runs \in Seq(Nat \X Nat)
    BY DEF Apart, RunSeq
  <1>2. PICK h \in [0..n -> Int] :
              /\ h[0] = v /\ Bo!ToReal(runs, v) = h[n]
              /\ \A i \in 1..n :
                    h[i] = IF runs[i][1] > h[i - 1] THEN h[i - 1] ELSE h[i - 1] + Bo!SizeOf(runs[i])
    <2>1. v \in Int
      OBVIOUS
    <2> QED  BY <1>1, <2>1, RealCourse
  <1> DEFINE T == {i \in 0..n : Row(i, h[i])}
  <1>3. 0 \in T
    BY <1>1, <1>2, Counted
  <1>4. ASSUME NEW i \in 1..n, i - 1 \in T PROVE i \in T
    <2> DEFINE a == runs[i][1]
               b == runs[i][2]
               d == h[i - 1]
               e == h[i]
    <2>1. /\ d \in Nat /\ v = d - CountTo(runs, i - 1, d) /\ i \in 0..n
          /\ \A j \in 1..(i - 1) : ~ (runs[j][1] <= d /\ d <= runs[j][2])
      <3>1. Row(i - 1, d)
        <4> HIDE DEF Row
        <4> QED  BY <1>4
      <3>2. i \in 0..n
        BY <1>1
      <3> HIDE DEF n, d
      <3> QED  BY <3>1, <3>2
    <2>2. e = IF a > d THEN d ELSE d + (b - a + 1)
      BY <1>2 DEF Bo!SizeOf
    <2>3. a \in Nat /\ b \in Nat /\ a <= b
      BY DEF Apart
    <2>4. \A j \in 1..i : j = i \/ (/\ j \in 1..(i - 1) /\ runs[j][1] \in Nat
                                    /\ runs[j][2] \in Nat /\ runs[j][2] + 1 < a)
      <3>1. \A j \in 1..i : j = i \/ (j \in 1..(i - 1) /\ j \in 1..n /\ j < i)
        BY <1>1
      <3>2. \A j \in 1..n : j < i => runs[j][1] \in Nat /\ runs[j][2] \in Nat /\ runs[j][2] + 1 < a
        BY DEF Apart
      <3> HIDE DEF a
      <3> QED  BY <3>1, <3>2
    <2>5. e \in Nat
      <3> HIDE DEF a, b, d, e
      <3> QED  BY <2>1, <2>2, <2>3
    <2>6. CountTo(runs, i, e) = CountTo(runs, i - 1, e)
               + (IF a > e THEN 0 ELSE (IF b <= e THEN b ELSE e) - a + 1)
      <3>1. e \in Int
        BY <2>5
      <3> HIDE DEF e
      <3> QED  BY <3>1, NextRun
    <2>7. CountTo(runs, i - 1, e) \in Nat /\ CountTo(runs, i - 1, d) \in Nat
      <3>1. e \in Int /\ d \in Int
        BY <2>1, <2>5
      <3> HIDE DEF d, e
      <3> QED  BY <3>1, Counted
    <2>8. CASE a > d
      <3>1. e = d
        BY <2>2, <2>8
      <3>2. v = e - CountTo(runs, i, e)
        <4> HIDE DEF a, b, d, e
        <4> QED  BY <2>1, <2>3, <2>6, <2>7, <2>8, <3>1
      <3>3. \A j \in 1..i : ~ (runs[j][1] <= e /\ e <= runs[j][2])
        <4> SUFFICES ASSUME NEW j \in 1..i PROVE ~ (runs[j][1] <= e /\ e <= runs[j][2])
          OBVIOUS
        <4>1. CASE j = i
          <5>1. ~ (a <= e)
            <6> HIDE DEF a, d, e
            <6> QED  BY <2>1, <2>3, <2>8, <3>1
          <5> QED  BY <4>1, <5>1
        <4>2. CASE j \in 1..(i - 1)
          <5> HIDE DEF d, e
          <5> QED  BY <2>1, <3>1, <4>2
        <4> QED  BY <2>4, <4>1, <4>2
      <3> HIDE DEF e
      <3> QED  BY <2>1, <2>5, <3>2, <3>3 DEF e
    <2>9. CASE ~ (a > d)
      <3>1. e = d + (b - a + 1) /\ a <= d /\ b < e /\ ~ (a > e)
        <4> HIDE DEF a, b, d, e
        <4> QED  BY <2>1, <2>2, <2>3, <2>9
      <3>2. \A j \in 1..(i - 1) : runs[j][1] \in Nat /\ runs[j][2] \in Nat /\ runs[j][2] + 1 < a
        <4>1. \A j \in 1..(i - 1) : j \in 1..i /\ j # i
          BY <1>1
        <4> HIDE DEF a
        <4> QED  BY <2>4, <4>1
      <3>3. HidTo(runs, i - 1, e) = HidTo(runs, i - 1, d)
        <4>1. ASSUME NEW k \in Int, NEW j \in 1..(i - 1), k <= runs[j][2] PROVE k \in 0..e <=> k \in 0..d
          <5> HIDE DEF a, b, d, e
          <5>1. runs[j][2] \in Nat /\ runs[j][2] + 1 < a
            BY <3>2
          <5> QED  BY <2>1, <2>3, <2>5, <3>1, <4>1, <5>1
        <4> HIDE DEF d, e
        <4>2. \A k \in 0..e : k \in Int
          OBVIOUS
        <4>3. \A k \in 0..d : k \in Int
          OBVIOUS
        <4> QED  BY <4>1, <4>2, <4>3 DEF HidTo
      <3>4. v = e - CountTo(runs, i, e)
        <4>1. CountTo(runs, i - 1, e) = CountTo(runs, i - 1, d)
          BY <3>3 DEF CountTo
        <4> HIDE DEF a, b, d, e
        <4> QED  BY <2>1, <2>3, <2>5, <2>6, <2>7, <3>1, <4>1
      <3>5. \A j \in 1..i : ~ (runs[j][1] <= e /\ e <= runs[j][2])
        <4> SUFFICES ASSUME NEW j \in 1..i PROVE ~ (e <= runs[j][2])
          OBVIOUS
        <4>1. CASE j = i
          <5>1. ~ (e <= b)
            <6> HIDE DEF a, b, d, e
            <6> QED  BY <2>3, <2>5, <3>1
          <5> QED  BY <4>1, <5>1
        <4>2. CASE j \in 1..(i - 1)
          <5>1. runs[j][2] \in Nat /\ runs[j][2] + 1 < a
            BY <3>2, <4>2
          <5> HIDE DEF a, b, d, e
          <5> QED  BY <2>3, <2>5, <3>1, <5>1
        <4> QED  BY <2>4, <4>1, <4>2
      <3> HIDE DEF e
      <3> QED  BY <2>1, <2>5, <3>4, <3>5 DEF e
    <2> QED  BY <2>8, <2>9
  <1>5. \A i \in 0..n : i \in T
    <2> HIDE DEF T, n
    <2> QED  BY <1>1, <1>3, <1>4, EveryTurn
  <1>6. n \in T
    BY <1>1, <1>5
  <1> QED  BY <1>2, <1>6 DEF Covered

LEMMA SameCount == \A S : Bo!Cardinality(S) = Cardinality(S)
  BY DEF Bo!Cardinality, Cardinality

\* The lines that are not hidden, down to one of them.
LEMMA RowsAreCounted ==
    ASSUME NLines \in Nat, NEW runs, Apart(runs),
           NEW hidden, \A k \in Bo!Lines : k \in hidden <=> Covered(runs, k),
           NEW l \in 0..NLines
    PROVE  Bo!RowsAbove(hidden, l) = l - CountTo(runs, Len(runs), l - 1)
  <1> DEFINE n == Len(runs)
             above == {k \in Bo!Lines : k < l}
  <1>1. above = 0..(l - 1) /\ l \in Nat /\ l - 1 \in Int
    BY DEF Bo!Lines
  <1>2. IsFiniteSet(0..(l - 1)) /\ Cardinality(0..(l - 1)) = l
    <2>1. IsFiniteSet(0..(l - 1)) /\ Cardinality(0..(l - 1)) = IF 0 > l - 1 THEN 0 ELSE l - 1 - 0 + 1
      BY <1>1, FS_Interval
    <2> QED  BY <1>1, <2>1
  <1>3. (0..(l - 1)) \cap hidden = HidTo(runs, n, l - 1)
    <2>1. \A k \in 0..(l - 1) : k \in Bo!Lines
      BY <1>1 DEF Bo!Lines
    <2> QED  BY <2>1 DEF HidTo, Covered
  <1>4. Cardinality((0..(l - 1)) \ hidden) = l - Cardinality((0..(l - 1)) \cap hidden)
    BY <1>2, FS_Difference
  <1>5. Bo!RowsAbove(hidden, l) = Cardinality((0..(l - 1)) \ hidden)
    BY <1>1, SameCount DEF Bo!RowsAbove
  <1> HIDE DEF above
  <1> QED  BY <1>3, <1>4, <1>5 DEF CountTo

\* One line more is one hidden line more when it is hidden.
LEMMA NextLine ==
    ASSUME NEW runs, NEW l \in Nat
    PROVE  CountTo(runs, Len(runs), l) =
               CountTo(runs, Len(runs), l - 1) + (IF Covered(runs, l) THEN 1 ELSE 0)
  <1> DEFINE n == Len(runs)
             old == HidTo(runs, n, l - 1)
  <1>1. l - 1 \in Int /\ l \in 0..l /\ l \notin 0..(l - 1)
        /\ \A k : k \in 0..l <=> k \in 0..(l - 1) \/ k = l
    OBVIOUS
  <1>2. IsFiniteSet(old) /\ Cardinality(old) \in Nat
    BY <1>1, Counted DEF CountTo
  <1>3. l \notin old
    BY <1>1 DEF HidTo
  <1>4. HidTo(runs, n, l) = IF Covered(runs, l) THEN old \cup {l} ELSE old
    BY <1>1 DEF HidTo, Covered
  <1> HIDE DEF old, n
  <1>5. Cardinality(old \cup {l}) = Cardinality(old) + 1
    BY <1>2, <1>3, FS_AddElement
  <1> QED  BY <1>2, <1>4, <1>5 DEF CountTo, old, n

\* Beyond the lines there is nothing more to hide.
LEMMA AllCounted ==
    ASSUME NLines \in Nat, NEW runs, Within(runs), NEW l \in Nat, l >= NLines
    PROVE  CountTo(runs, Len(runs), l) = CountTo(runs, Len(runs), NLines - 1)
  <1> DEFINE n == Len(runs)
  <1>1. \A j \in 1..n : runs[j][2] \in Nat /\ runs[j][2] <= NLines - 1
    BY DEF Within, Apart
  <1> HIDE DEF n
  <1>2. ASSUME NEW k \in Int, NEW j \in 1..n, k <= runs[j][2]
        PROVE  k \in 0..l <=> k \in 0..(NLines - 1)
    <2>1. runs[j][2] \in Nat /\ runs[j][2] <= NLines - 1
      BY <1>1
    <2> QED  BY <1>2, <2>1
  <1>3. /\ \A k \in 0..l : k \in Int
        /\ \A k \in 0..(NLines - 1) : k \in Int
    OBVIOUS
  <1>4. HidTo(runs, n, l) = HidTo(runs, n, NLines - 1)
    BY <1>2, <1>3 DEF HidTo
  <1> QED  BY <1>4 DEF CountTo, n

\* The three maps agree with the set of lines that runs hide.
LEMMA MapsAgree ==
    ASSUME NLines \in Nat, NEW runs, Within(runs),
           NEW hidden \in SUBSET Bo!Lines, \A k \in Bo!Lines : k \in hidden <=> Covered(runs, k),
           NEW visible, visible = NLines - Bo!HiddenCount(runs)
    PROVE  /\ visible = Cardinality(Bo!Lines \ hidden)
           /\ \A l \in Bo!Lines :
                  Bo!ToVisual(runs, l) = Bo!RowsAbove(hidden, l) - (IF l \in hidden THEN 1 ELSE 0)
           /\ \A v \in 0..(visible - 1) :
                  Bo!ToReal(runs, v) \notin hidden /\ Bo!RowsAbove(hidden, Bo!ToReal(runs, v)) = v
  <1> DEFINE n == Len(runs)
  <1>1. Apart(runs) /\ (\A l \in Bo!Lines : l \in Nat /\ l \in 0..NLines) /\ NLines \in 0..NLines
        /\ \A l \in Nat : l \in Bo!Lines <=> ~ (l >= NLines)
    BY DEF Within, Bo!Lines
  <1>2. visible = NLines - CountTo(runs, n, NLines - 1)
    BY HiddenIsCounted
  <1> HIDE DEF n
  <1>3. \A l \in 0..NLines : Bo!RowsAbove(hidden, l) = l - CountTo(runs, n, l - 1)
    BY <1>1, RowsAreCounted DEF n
  <1>4. \A l \in Nat : /\ CountTo(runs, n, l) = CountTo(runs, n, l - 1) + (IF Covered(runs, l) THEN 1 ELSE 0)
                       /\ CountTo(runs, n, l - 1) \in Nat
    <2>1. \A l \in Nat : l - 1 \in Int
      OBVIOUS
    <2> QED  BY <2>1, NextLine, Counted DEF n
  <1>5. visible = Cardinality(Bo!Lines \ hidden)
    <2>1. {k \in Bo!Lines : k < NLines} = Bo!Lines
      BY DEF Bo!Lines
    <2>2. Bo!RowsAbove(hidden, NLines) = Cardinality(Bo!Lines \ hidden)
      BY <2>1, SameCount DEF Bo!RowsAbove
    <2>3. Bo!RowsAbove(hidden, NLines) = NLines - CountTo(runs, n, NLines - 1)
      BY <1>1, <1>3
    <2> QED  BY <1>2, <2>2, <2>3
  <1>6. ASSUME NEW l \in Bo!Lines
        PROVE  Bo!ToVisual(runs, l) = Bo!RowsAbove(hidden, l) - (IF l \in hidden THEN 1 ELSE 0)
    <2>1. l \in Nat /\ l \in 0..NLines /\ (l \in hidden <=> Covered(runs, l))
      BY <1>1
    <2>2. Bo!ToVisual(runs, l) = l - CountTo(runs, n, l)
      BY <1>1, <2>1, VisualIsCounted DEF n
    <2>3. Bo!RowsAbove(hidden, l) = l - CountTo(runs, n, l - 1)
      BY <1>3, <2>1
    <2>4. /\ CountTo(runs, n, l) = CountTo(runs, n, l - 1) + (IF Covered(runs, l) THEN 1 ELSE 0)
          /\ CountTo(runs, n, l - 1) \in Nat
      BY <1>4, <2>1
    <2> QED  BY <2>1, <2>2, <2>3, <2>4
  <1>7. ASSUME NEW v \in 0..(visible - 1)
        PROVE  Bo!ToReal(runs, v) \notin hidden /\ Bo!RowsAbove(hidden, Bo!ToReal(runs, v)) = v
    <2> DEFINE r == Bo!ToReal(runs, v)
    <2>1. v \in Nat
      OBVIOUS
    <2>2. r \in Nat /\ v = r - CountTo(runs, n, r) /\ ~ Covered(runs, r)
      BY <1>1, <2>1, RealIsCounted DEF n
    <2> HIDE DEF r
    <2>3. r \in Bo!Lines
      <3> SUFFICES ASSUME r >= NLines PROVE FALSE
        BY <1>1, <2>2
      <3>1. CountTo(runs, n, r) = CountTo(runs, n, NLines - 1) /\ CountTo(runs, n, NLines - 1) \in Nat
        BY <2>2, AllCounted, Counted DEF n
      <3>2. v < visible
        <4>1. visible \in Int
          BY <1>2, <3>1
        <4> QED  BY <4>1
      <3> QED  BY <1>2, <2>2, <3>1, <3>2
    <2>4. r \in 0..NLines /\ r \notin hidden
      BY <1>1, <2>2, <2>3
    <2>5. Bo!RowsAbove(hidden, r) = r - CountTo(runs, n, r - 1)
      BY <1>3, <2>4
    <2>6. CountTo(runs, n, r) = CountTo(runs, n, r - 1) + 0 /\ CountTo(runs, n, r - 1) \in Nat
      BY <1>4, <2>2
    <2> QED  BY <2>2, <2>4, <2>5, <2>6 DEF r
  <1> QED  BY <1>5, <1>6, <1>7

\* The runs up to a line: apart, in order, and hiding what the folds above it
\* swallow.
Fold(c, k) == c \in bodyCollapsed /\ c < k /\ k <= Bo!FoldEnd(c)
RunsTo(runs, l) ==
    /\ Apart(runs)
    /\ \A i \in 1..Len(runs) : runs[i][1] <= l /\ runs[i][2] <= NLines - 1
    /\ \A k \in Nat : Covered(runs, k) <=> \E c \in Bo!Lines : c < l /\ Fold(c, k)

\* One turn of the scan over the lines.
Scanned(l, runs) ==
    IF Bo!Folded(l - 1) THEN Bo!Merge(runs, <<l, Bo!FoldEnd(l - 1)>>) ELSE runs


LEMMA ScanKeeps ==
    ASSUME NLines \in Nat, \A c \in Bo!Lines : Bo!FoldEnd(c) \in 0..(NLines - 1),
           NEW l \in 1..NLines, NEW runs, RunsTo(runs, l - 1)
    PROVE  RunsTo(Scanned(l, runs), l)
  <1> DEFINE c == l - 1
             e == Bo!FoldEnd(c)
             new == Scanned(l, runs)
  <1>1. /\ l \in Nat /\ c \in Bo!Lines /\ c \in Nat /\ e \in Nat /\ e <= NLines - 1
        /\ \A d \in Bo!Lines : d < l <=> d < c \/ d = c
    <2>1. c \in Bo!Lines
      BY DEF Bo!Lines
    <2>2. e \in 0..(NLines - 1)
      BY <2>1
    <2> HIDE DEF e
    <2> QED  BY <2>1, <2>2 DEF Bo!Lines
  <1>2. /\ Apart(runs)
        /\ \A i \in 1..Len(runs) : runs[i][1] <= c /\ runs[i][2] <= NLines - 1
        /\ \A k \in Nat : Covered(runs, k) <=> \E d \in Bo!Lines : d < c /\ Fold(d, k)
    BY DEF RunsTo
  <1>3. \A i \in 1..Len(runs) : runs[i][1] \in Nat /\ runs[i][2] \in Nat
    BY <1>2 DEF Apart
  <1>4. CASE c \in bodyCollapsed /\ e > c
    <2>1. new = Bo!Merge(runs, <<l, e>>)
      BY <1>4 DEF Scanned, Bo!Folded
    <2> HIDE DEF e, new
    <2>2. l <= e /\ \A i \in 1..Len(runs) : runs[i][1] < l
      BY <1>1, <1>2, <1>3, <1>4
    <2>3. /\ Apart(new)
          /\ \A i \in 1..Len(new) : new[i][1] <= l
          /\ \A k \in Nat : Covered(new, k) <=> Covered(runs, k) \/ (l <= k /\ k <= e)
      <3> HIDE DEF c
      <3> QED  BY <1>1, <1>2, <2>1, <2>2, MergeKeeps
    <2>4. ASSUME NEW i \in 1..Len(new) PROVE new[i][2] <= NLines - 1
      <3>1. new[i][2] \in Nat /\ new[i][1] \in Nat /\ new[i][1] <= new[i][2]
        BY <2>3 DEF Apart
      <3>2. Covered(new, new[i][2])
        BY <3>1 DEF Covered
      <3>3. CASE Covered(runs, new[i][2])
        <4>1. PICK j \in 1..Len(runs) : new[i][2] <= runs[j][2]
          BY <3>3 DEF Covered
        <4> QED  BY <1>2, <1>3, <3>1, <4>1
      <3>4. CASE new[i][2] <= e
        BY <1>1, <3>1, <3>4
      <3> QED  BY <2>3, <3>1, <3>2, <3>3, <3>4
    <2>5. ASSUME NEW k \in Nat
          PROVE  Covered(new, k) <=> \E d \in Bo!Lines : d < l /\ Fold(d, k)
      <3>1. Fold(c, k) <=> l <= k /\ k <= e
        BY <1>1, <1>4 DEF Fold, e
      <3>2. (\E d \in Bo!Lines : d < l /\ Fold(d, k))
            <=> (\E d \in Bo!Lines : d < c /\ Fold(d, k)) \/ Fold(c, k)
        <4> HIDE DEF c
        <4> QED  BY <1>1
      <3> QED  BY <1>2, <2>3, <3>1, <3>2
    <2> QED  BY <2>3, <2>4, <2>5 DEF RunsTo, new
  <1>5. CASE ~ (c \in bodyCollapsed /\ e > c)
    <2>1. new = runs
      BY <1>5 DEF Scanned, Bo!Folded
    <2> HIDE DEF new, e
    <2>2. \A k \in Nat : ~ Fold(c, k)
      BY <1>1, <1>5 DEF Fold, e
    <2>3. \A k \in Nat : (\E d \in Bo!Lines : d < l /\ Fold(d, k)) <=> (\E d \in Bo!Lines : d < c /\ Fold(d, k))
      <3> HIDE DEF c
      <3> QED  BY <1>1, <2>2
    <2>4. \A i \in 1..Len(runs) : runs[i][1] <= l
      BY <1>1, <1>2, <1>3
    <2> QED  BY <1>2, <2>1, <2>3, <2>4 DEF RunsTo, new
  <1> QED  BY <1>4, <1>5

\* Whatever it starts from, a turn of the scan gives runs.
LEMMA ScanStays ==
    ASSUME NEW l \in Nat, NEW runs, RunSeq(runs), Bo!FoldEnd(l - 1) \in Nat
    PROVE  RunSeq(Scanned(l, runs))
  <1> DEFINE e == Bo!FoldEnd(l - 1)
             n == Len(runs)
             last == IF runs[n][2] >= e THEN runs[n][2] ELSE e
             new == Bo!Merge(runs, <<l, e>>)
  <1>1. \A i \in 1..n : runs[i][1] \in Nat /\ runs[i][2] \in Nat
    BY DEF RunSeq
  <1>2. MergeShape(new, runs, l, e, n, last)
    <2>1. n # 0 => last = IF runs[n][2] >= e THEN runs[n][2] ELSE e
      OBVIOUS
    <2> HIDE DEF last, e
    <2>2. e \in Nat
      BY DEF e
    <2> QED  BY <1>1, <2>1, <2>2, Merges
  <1> QED  BY <1>2 DEF Scanned, MergeShape

\* The scan merges the folds into runs that hide what the folds swallow.
LEMMA MergedRuns ==
    ASSUME NLines \in Nat, \A c \in Bo!Lines : Bo!FoldEnd(c) \in 0..(NLines - 1), bodyCollapsed \subseteq Bo!Lines
    PROVE  /\ Within(Bo!Merged)
           /\ Bo!Swallowed \in SUBSET Bo!Lines
           /\ \A k \in Bo!Lines : k \in Bo!Swallowed <=> Covered(Bo!Merged, k)
  <1> DEFINE n == NLines
             D == {runs \in Seq(Nat \X Nat) : RunSeq(runs)}
             step == [l \in 1..n |-> [d \in D |-> Scanned(l, d)]]
             h == CHOOSE f : f = [l \in 0..NLines |->
                      IF l = 0 THEN <<>>
                      ELSE IF Bo!Folded(l - 1) THEN Bo!Merge(f[l - 1], <<l, Bo!FoldEnd(l - 1)>>)
                      ELSE f[l - 1]]
  <1>1. n \in Nat /\ <<>> \in D
    BY DEF RunSeq
  <1>2. \A d : d \in D <=> RunSeq(d)
    BY DEF RunSeq
  <1>3. \A l \in 1..n, d \in D : Scanned(l, d) \in D
    <2> SUFFICES ASSUME NEW l \in 1..n, NEW d, RunSeq(d) PROVE RunSeq(Scanned(l, d))
      <3> HIDE DEF D
      <3> QED  BY <1>2
    <2>1. l - 1 \in Bo!Lines /\ l \in Nat
      BY DEF Bo!Lines
    <2>2. Bo!FoldEnd(l - 1) \in 0..(NLines - 1)
      BY <2>1
    <2>3. Bo!FoldEnd(l - 1) \in Nat
      BY <2>2
    <2> QED  BY <2>1, <2>3, ScanStays
  <1>4. Bo!Merged = h[n]
    BY DEF Bo!Merged
  <1>5. h = [l \in 0..n |-> IF l = 0 THEN <<>> ELSE Scanned(l, h[l - 1])]
    <2> HIDE DEF D, n
    <2>1. step \in [1..n -> [D -> D]] /\ \A l \in 1..n, d \in D : step[l][d] = Scanned(l, d)
      BY <1>3
    <2>2. PICK g \in [0..n -> D] : g[0] = <<>> /\ \A l \in 1..n : g[l] = step[l][g[l - 1]]
      <3> HIDE DEF step
      <3>1. Loop(n, D, <<>>, step)
        BY <1>1, <2>1 DEF Loop
      <3>2. PICK g : IsCourse(g, n, D, <<>>, step)
        BY <3>1, Course
      <3> QED  BY <3>2 DEF IsCourse
    <2>3. \A l \in 1..n : g[l - 1] \in D
      <3>1. \A l \in 1..n : l - 1 \in 0..n
        BY <1>1
      <3> QED  BY <2>2, <3>1
    <2>4. g = [l \in 0..n |-> IF l = 0 THEN <<>> ELSE Scanned(l, g[l - 1])]
      <3> HIDE DEF step
      <3>1. \A l \in 0..n : l # 0 => l \in 1..n
        BY <1>1
      <3> QED  BY <2>1, <2>2, <2>3, <3>1
    <2> HIDE DEF step
    <2> USE DEF Scanned, n
    <2> QED  BY <2>4
  <1> DEFINE T == {l \in 0..n : RunsTo(h[l], l)}
  <1>6. h[0] = <<>> /\ \A l \in 1..n : h[l] = Scanned(l, h[l - 1])
    <2> HIDE DEF h, n
    <2>1. 0 \in 0..n /\ \A l \in 1..n : l \in 0..n /\ l # 0
      BY <1>1
    <2> QED  BY <1>5, <2>1
  <1> HIDE DEF h, D
  <1>7. 0 \in T
    <2>1. Apart(<<>>) /\ Len(<<>>) = 0
      BY <1>1, <1>2 DEF Apart
    <2>2. \A k \in Nat : ~ Covered(<<>>, k)
      BY <2>1 DEF Covered
    <2>3. \A c \in Bo!Lines : ~ (c < 0)
      BY DEF Bo!Lines
    <2>4. RunsTo(<<>>, 0)
      BY <2>1, <2>2, <2>3 DEF RunsTo
    <2> QED  BY <1>1, <1>6, <2>4
  <1>8. ASSUME NEW l \in 1..n, l - 1 \in T PROVE l \in T
    <2>1. RunsTo(h[l - 1], l - 1) /\ l \in 0..n
      BY <1>1, <1>8
    <2>2. RunsTo(Scanned(l, h[l - 1]), l)
      BY <2>1, ScanKeeps
    <2> QED  BY <1>6, <2>1, <2>2
  <1>9. RunsTo(Bo!Merged, n)
    <2>1. \A l \in 0..n : l \in T
      <3> HIDE DEF T, n
      <3> QED  BY <1>1, <1>7, <1>8, EveryTurn
    <2>2. n \in 0..n
      BY <1>1
    <2> QED  BY <1>4, <2>1, <2>2
  <1>10. \A k \in Bo!Lines : k \in Nat
    BY DEF Bo!Lines
  <1>11. \A c \in Bo!Lines : c < n
    BY DEF Bo!Lines
  <1>12. \A k \in Bo!Lines : k \in Bo!Swallowed <=> \E c \in Bo!Lines : c < n /\ Fold(c, k)
    <2> HIDE DEF n
    <2> QED  BY <1>11 DEF Bo!Swallowed, Fold
  <1>13. Bo!Swallowed \in SUBSET Bo!Lines
    BY DEF Bo!Swallowed
  <1>14. Within(Bo!Merged)
    BY <1>9 DEF RunsTo, Within
  <1>15. \A k \in Nat : Covered(Bo!Merged, k) <=> \E c \in Bo!Lines : c < n /\ Fold(c, k)
    BY <1>9 DEF RunsTo
  <1> QED  BY <1>10, <1>12, <1>13, <1>14, <1>15

\* What has been read is of a body of the backend, and only lines are folded.
Bodies == Responses \X (Queries \cup {None})
BodyInv ==
    /\ bodyResp \in Responses
    /\ bodyDerived \in [Responses -> Queries \cup {None}]
    /\ bodyCached \in [Bo!Blocks -> Bodies \cup {None}]
    /\ bodyCollapsed \subseteq Bo!Lines
    /\ \A call \in bodyCalls : /\ call.of[1] \in Responses
                               /\ call.kind = "block" => call.arg \in Bo!Blocks
                               /\ call.kind = "filter" => call.arg \in Queries

LEMMA FoldsEndOnLines ==
    ASSUME BodyInv, NEW l \in Bo!Lines
    PROVE  Bo!FoldEnd(l) \in 0..(NLines - 1)
  <1> DEFINE body == bodyCached[Bo!BlockOf(l)]
  <1>1. Bo!BlockOf(l) \in Bo!Blocks
    BY DEF Bo!Blocks
  <1>2. body \in Bodies \cup {None}
    BY <1>1 DEF BodyInv
  <1>3. /\ NLines \in Nat /\ l \in 0..(NLines - 1)
        /\ OpensAt \in [Bodies -> [0..(NLines - 1) -> 0..(NLines - 1)]]
    BY ScreensAssumption DEF ScreensAssumption, Bodies, Bo!Lines
  <1> HIDE DEF body
  <1>4. CASE body = None
    <2>1. 0 \in 0..(NLines - 1)
      BY <1>3
    <2> QED  BY <1>4, <2>1 DEF Bo!FoldEnd, body
  <1>5. CASE body # None
    <2>1. OpensAt[body][l] \in 0..(NLines - 1)
      BY <1>2, <1>3, <1>5
    <2> QED  BY <1>5, <2>1 DEF Bo!FoldEnd, body
  <1> QED  BY <1>4, <1>5

\* The key of the view says which body the backend reads.
LEMMA BodyRead ==
    ASSUME BodyInv, NEW key, key[1] \in Responses
    PROVE  Bo!BodyOf(key) \in Bodies
  BY DEF BodyInv, Bo!BodyOf, Bodies

\* A change of the key drops what was read and folded, and nothing else does.
LEMMA RekeyKeeps ==
    ASSUME BodyInv, NEW r, NEW f, Bo!Rekeyed(r, f)
    PROVE  bodyCached' \in [Bo!Blocks -> Bodies \cup {None}] /\ bodyCollapsed' \subseteq Bo!Lines
  <1>1. CASE bodyCached' = Bo!Nothing /\ bodyCollapsed' = {}
    BY <1>1 DEF Bo!Nothing
  <1>2. CASE UNCHANGED <<bodyCached, bodyPending, bodyCollapsed>>
    BY <1>2 DEF BodyInv
  <1> QED  BY <1>1, <1>2 DEF Bo!Rekeyed

LEMMA BodyInductive ==
    ASSUME BodyInv, Bo!Next
    PROVE  BodyInv'
  <1> DEFINE CallHome(call) == /\ call.of[1] \in Responses
                               /\ call.kind = "block" => call.arg \in Bo!Blocks
                               /\ call.kind = "filter" => call.arg \in Queries
             CallsHome == \A call \in bodyCalls : CallHome(call)
  <1>1. /\ bodyResp \in Responses
        /\ bodyDerived \in [Responses -> Queries \cup {None}]
        /\ bodyCached \in [Bo!Blocks -> Bodies \cup {None}]
        /\ bodyCollapsed \subseteq Bo!Lines
        /\ CallsHome
    BY DEF BodyInv
  <1>2. BodyInv' <=> /\ bodyResp' \in Responses
                     /\ bodyDerived' \in [Responses -> Queries \cup {None}]
                     /\ bodyCached' \in [Bo!Blocks -> Bodies \cup {None}]
                     /\ bodyCollapsed' \subseteq Bo!Lines
                     /\ CallsHome'
    BY DEF BodyInv
  <1>3. ASSUME NEW new, Bo!Call({new}), CallHome(new) PROVE CallsHome'
    <2>1. bodyCalls' = bodyCalls \cup {new}
      BY <1>3 DEF Bo!Call
    <2> HIDE DEF CallHome
    <2> QED  BY <1>1, <1>3, <2>1
  <1>4. ASSUME bodyCalls' \subseteq bodyCalls PROVE CallsHome'
    <2> HIDE DEF CallHome
    <2> QED  BY <1>1, <1>4
  <1>5. Bo!Key[1] \in Responses /\ <<bodyResp, FALSE>>[1] \in Responses
    BY <1>1 DEF Bo!Key, Bo!KeyOf
  <1>6. \A l : Bo!Opened(l) \subseteq bodyCollapsed
    BY DEF Bo!Opened
  <1> USE <1>1 DEF CallsHome
  <1> HIDE DEF CallHome
  <1>7. CASE \E r \in Responses : Bo!Show(r)
    <2>1. PICK r \in Responses : Bo!Show(r)
      BY <1>7
    <2>2. bodyResp' \in Responses /\ Bo!Rekeyed(r, "off") /\ bodyDerived' = bodyDerived /\ bodyCalls' = bodyCalls
      BY <2>1 DEF Bo!Show
    <2> QED  BY <1>2, <1>4, <2>2, RekeyKeeps
  <1>8. CASE \E l \in Bo!Lines : Bo!Toggle(l) \/ Bo!StepMatch(l)
    <2>1. PICK l \in Bo!Lines : Bo!Toggle(l) \/ Bo!StepMatch(l)
      BY <1>8
    <2>2. /\ bodyResp' = bodyResp /\ bodyDerived' = bodyDerived /\ bodyCached' = bodyCached /\ bodyCalls' = bodyCalls
          /\ bodyCollapsed' \subseteq Bo!Lines
      BY <1>6, <2>1 DEF Bo!Toggle, Bo!StepMatch
    <2> QED  BY <1>2, <1>4, <2>2
  <1>9. CASE \E b \in Bo!Blocks : Bo!EnsureRange(b)
    <2>1. PICK b \in Bo!Blocks : Bo!EnsureRange(b)
      BY <1>9
    <2>2. CallHome([kind |-> "block", of |-> Bo!Key, arg |-> b])
      BY <1>5 DEF CallHome
    <2>3. /\ bodyResp' = bodyResp /\ bodyDerived' = bodyDerived /\ bodyCached' = bodyCached
          /\ bodyCollapsed' = bodyCollapsed /\ Bo!Call({[kind |-> "block", of |-> Bo!Key, arg |-> b]})
      BY <2>1 DEF Bo!EnsureRange
    <2> QED  BY <1>2, <1>3, <2>2, <2>3
  <1>10. CASE \E q \in Queries : Bo!ApplyFilter(q)
    <2>1. PICK q \in Queries : Bo!ApplyFilter(q)
      BY <1>10
    <2>2. CallHome([kind |-> "filter", of |-> <<bodyResp, FALSE>>, arg |-> q])
      BY <1>5 DEF CallHome
    <2>3. /\ bodyResp' = bodyResp /\ bodyDerived' = bodyDerived /\ bodyCached' = bodyCached
          /\ bodyCollapsed' = bodyCollapsed /\ Bo!Call({[kind |-> "filter", of |-> <<bodyResp, FALSE>>, arg |-> q]})
      BY <2>1 DEF Bo!ApplyFilter
    <2> QED  BY <1>2, <1>3, <2>2, <2>3
  <1>11. ASSUME NEW call \in bodyCalls, Bo!BlockAnswer(call) PROVE BodyInv'
    <2>1. call.of[1] \in Responses /\ call.arg \in Bo!Blocks
      BY <1>11 DEF CallHome, Bo!BlockAnswer
    <2>2. Bo!BodyOf(call.of) \in Bodies
      BY <2>1, BodyRead
    <2>3. /\ bodyResp' = bodyResp /\ bodyDerived' = bodyDerived /\ bodyCalls' \subseteq bodyCalls
          /\ bodyCollapsed' = bodyCollapsed
          /\ bodyCached' = [bodyCached EXCEPT ![call.arg] = Bo!BodyOf(call.of)] \/ bodyCached' = bodyCached
      BY <1>11 DEF Bo!BlockAnswer
    <2>4. bodyCached' \in [Bo!Blocks -> Bodies \cup {None}]
      BY <2>1, <2>2, <2>3
    <2> QED  BY <1>2, <1>4, <2>3, <2>4
  <1>12. ASSUME NEW call \in bodyCalls, Bo!FilterAnswer(call) PROVE BodyInv'
    <2>1. call.of[1] \in Responses /\ call.arg \in Queries
      BY <1>12 DEF CallHome, Bo!FilterAnswer
    <2>2. /\ bodyResp' = bodyResp /\ bodyCalls' \subseteq bodyCalls /\ Bo!Rekeyed(bodyResp, bodyFilter')
          /\ bodyDerived' = [bodyDerived EXCEPT ![call.of[1]] = call.arg] \/ bodyDerived' = bodyDerived
      BY <1>12 DEF Bo!FilterAnswer
    <2>3. bodyDerived' \in [Responses -> Queries \cup {None}]
      BY <2>1, <2>2
    <2> QED  BY <1>2, <1>4, <2>2, <2>3, RekeyKeeps
  <1>13. ASSUME NEW call \in bodyCalls, NEW l \in Bo!Lines, Bo!SearchAnswer(call, l) PROVE BodyInv'
    <2>1. /\ bodyResp' = bodyResp /\ bodyDerived' = bodyDerived /\ bodyCached' = bodyCached
          /\ bodyCalls' \subseteq bodyCalls /\ bodyCollapsed' \subseteq Bo!Lines
      BY <1>6, <1>13 DEF Bo!SearchAnswer
    <2> QED  BY <1>2, <1>4, <2>1
  <1>14. CASE Bo!ClearFilter
    <2>1. bodyResp' = bodyResp /\ Bo!Rekeyed(bodyResp, "off") /\ bodyDerived' = bodyDerived /\ bodyCalls' = bodyCalls
      BY <1>14 DEF Bo!ClearFilter
    <2> QED  BY <1>2, <1>4, <2>1, RekeyKeeps
  <1>15. CASE Bo!RunSearch
    <2>1. CallHome([kind |-> "search", of |-> Bo!Key, arg |-> None])
      BY <1>5 DEF CallHome
    <2>2. /\ bodyResp' = bodyResp /\ bodyDerived' = bodyDerived /\ bodyCached' = bodyCached
          /\ bodyCollapsed' = bodyCollapsed /\ Bo!Call({[kind |-> "search", of |-> Bo!Key, arg |-> None]})
      BY <1>15 DEF Bo!RunSearch
    <2> QED  BY <1>2, <1>3, <2>1, <2>2
  <1> QED  BY <1>7, <1>8, <1>9, <1>10, <1>11, <1>12, <1>13, <1>14, <1>15 DEF Bo!Next

\* However folds are nested or meet, the rows of the screen are the lines that no
\* fold swallows, in order, and rows and lines translate into each other: what
\* mergeRanges, hiddenCount, toRealLine and toVisualLine compute (lineFolds.ts)
\* is what counting the lines gives, for a body of any length and any folds.
THEOREM FoldMapsAgreeHolds == SpecAll => []FoldMapsAgree
  <1> DEFINE Inv == part = "body" => BodyInv
  <1>1. InitAll => Inv
    <2>1. ASSUME Bo!Init PROVE BodyInv
      BY <2>1 DEF Bo!Init, BodyInv, Bo!Nothing
    <2> QED  BY <2>1 DEF InitAll
  <1>2. Inv /\ [NextAll]_allVars => Inv'
    <2>1. ASSUME BodyInv, UNCHANGED bodyVars PROVE BodyInv'
      BY <2>1 DEF BodyInv, bodyVars
    <2> QED  BY <2>1, BodyInductive DEF NextAll, allVars, bodyVars
  <1>3. Inv => FoldMapsAgree
    <2> SUFFICES ASSUME BodyInv PROVE Bo!FoldMapsAgree
      BY DEF FoldMapsAgree
    <2>1. NLines \in Nat /\ bodyCollapsed \subseteq Bo!Lines
      BY ScreensAssumption DEF ScreensAssumption, BodyInv
    <2>2. \A l \in Bo!Lines : Bo!FoldEnd(l) \in 0..(NLines - 1)
      BY FoldsEndOnLines
    <2> DEFINE runs == Bo!Merged
               hidden == Bo!Swallowed
               visible == NLines - Bo!HiddenCount(runs)
    <2>3. /\ Within(runs) /\ hidden \in SUBSET Bo!Lines
          /\ \A k \in Bo!Lines : k \in hidden <=> Covered(runs, k)
      BY <2>1, <2>2, MergedRuns
    <2>4. /\ visible = Cardinality(Bo!Lines \ hidden)
          /\ \A l \in Bo!Lines :
                 Bo!ToVisual(runs, l) = Bo!RowsAbove(hidden, l) - (IF l \in hidden THEN 1 ELSE 0)
          /\ \A v \in 0..(visible - 1) :
                 Bo!ToReal(runs, v) \notin hidden /\ Bo!RowsAbove(hidden, Bo!ToReal(runs, v)) = v
      <3>1. visible = NLines - Bo!HiddenCount(runs)
        OBVIOUS
      <3> HIDE DEF runs, hidden, visible
      <3> QED  BY <2>1, <2>3, <3>1, MapsAgree
    <2>5. visible = Bo!Cardinality(Bo!Lines \ hidden)
      BY <2>4, SameCount
    <2> QED  BY <2>4, <2>5 DEF Bo!FoldMapsAgree
  <1> QED  BY <1>1, <1>2, <1>3, PTL DEF SpecAll
=============================================================================
