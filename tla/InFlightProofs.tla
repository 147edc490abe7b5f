--------------------------- MODULE InFlightProofs ---------------------------
(***************************************************************************)
(* Theorems about the sends of InFlight that run beside those of HTTP, for *)
(* any number of calls and request ids and a stream of any length: a call  *)
(* that is told to stop while it waits never answers, and the frames of a  *)
(* stream are shown once, in order, and stored as shown.                   *)
(***************************************************************************)
EXTENDS InFlight, SequenceTheorems, TLAPS

\* What the proofs use of the assumptions on the constants.
LEMMA Assumptions ==
    /\ IdOf \in [Sends -> Ids]
    /\ None \notin Sends
  BY HttpInFlightAssumption, InFlightAssumption
     DEF HttpInFlightAssumption, InFlightAssumption

-----------------------------------------------------------------------------
(* GrpcUnary                                                               *)

\* What a Release leaves of the oneshots: the one it names is disarmed, and
\* none is armed again.
LEMMA ReleaseFacts ==
    ASSUME callRx \in [Sends -> {"armed", "fired", "dropped"}],
           NEW c \in Sends \cup {None}, NEW how \in {"fired", "dropped"},
           Unary!Release(c, how)
    PROVE  /\ callRx' \in [Sends -> {"armed", "fired", "dropped"}]
           /\ \A d \in Sends : callRx'[d] = "armed" => d # c /\ callRx[d] = "armed"
  <1>1. CASE c = None
    BY <1>1, Assumptions DEF Unary!Release
  <1>2. CASE c # None
    BY <1>2 DEF Unary!Release
  <1> QED  BY <1>1, <1>2

\* The sender of a oneshot lives in the map alone: while it is armed, the call
\* that races it is the one its id names.
ArmedIsRegistered ==
    \A c \in Sends :
        callPc[c] \in {"racing", "polled"} /\ callRx[c] = "armed" => callInFlight[IdOf[c]] = c

\* Who was told to stop can only be cancelled from then on: its oneshot has
\* resolved, and it waits for its next poll or has been cancelled.
ToldIsResolved ==
    \A c \in callTold :
        /\ callRx[c] # "armed"
        /\ callPc[c] \in {"racing", "cleanup", "done"}
        /\ callResult[c] # "response"

\* A call has its result when its race is over.
ResultAfterRace ==
    \A c \in Sends : callPc[c] \in {"idle", "racing", "polled"} => callResult[c] = "none"

UnaryInv == Unary!TypeOK /\ ArmedIsRegistered /\ ToldIsResolved /\ ResultAfterRace

\* Whoever takes the sender of an id resolves the oneshots of all who wait for
\* an answer of that id.
LEMMA WaitingResolves ==
    ASSUME UnaryInv, NEW id \in Ids, NEW how \in {"fired", "dropped"},
           Unary!Release(callInFlight[id], how)
    PROVE  \A c \in Unary!Waiting(id) : callRx'[c] # "armed"
  <1>1. callInFlight[id] \in Sends \cup {None}
    BY DEF UnaryInv, Unary!TypeOK
  <1>2. SUFFICES ASSUME NEW c \in Unary!Waiting(id), callRx'[c] = "armed"
                 PROVE  FALSE
    OBVIOUS
  <1>3. c \in Sends /\ IdOf[c] = id /\ callPc[c] = "racing"
    BY DEF Unary!Waiting
  <1>4. c # callInFlight[id] /\ callRx[c] = "armed"
    BY <1>1, <1>2, <1>3, ReleaseFacts DEF UnaryInv, Unary!TypeOK
  <1> QED  BY <1>3, <1>4 DEF UnaryInv, ArmedIsRegistered

LEMMA UnaryNext ==
    ASSUME UnaryInv, [Unary!Next]_callVars
    PROVE  UnaryInv'
  <1>1. ASSUME NEW c \in Sends, Unary!Register(c)
        PROVE  UnaryInv'
    <2>1. IdOf[c] \in Ids /\ callInFlight[IdOf[c]] \in Sends \cup {None}
      BY Assumptions DEF UnaryInv, Unary!TypeOK
    <2>2. /\ callRx' \in [Sends -> {"armed", "fired", "dropped"}]
          /\ \A d \in Sends : callRx'[d] = "armed" =>
                d # callInFlight[IdOf[c]] /\ callRx[d] = "armed"
      BY <1>1, <2>1, ReleaseFacts DEF Unary!Register, UnaryInv, Unary!TypeOK
    <2>3. Unary!TypeOK'
      BY <1>1, <2>1, <2>2
         DEF Unary!Register, Unary!Goto, Unary!Waiting, UnaryInv, Unary!TypeOK
    <2>4. ASSUME NEW d \in Sends, callPc'[d] \in {"racing", "polled"}, callRx'[d] = "armed"
          PROVE  callInFlight'[IdOf[d]] = d
      <3>1. CASE d = c
        BY <1>1, <2>1, <3>1 DEF Unary!Register, UnaryInv, Unary!TypeOK
      <3>2. CASE d # c
        <4>1. callInFlight[IdOf[d]] = d /\ IdOf[d] # IdOf[c]
          BY <1>1, <2>2, <2>4, <3>2
             DEF Unary!Register, Unary!Goto, UnaryInv, Unary!TypeOK, ArmedIsRegistered
        <4> QED  BY <1>1, <4>1, Assumptions DEF Unary!Register, UnaryInv, Unary!TypeOK
      <3> QED  BY <3>1, <3>2
    <2>5. ToldIsResolved'
      <3>1. \A d \in Unary!Waiting(IdOf[c]) : callRx'[d] # "armed"
        BY <1>1, <2>1, WaitingResolves DEF Unary!Register
      <3>2. \A d \in Unary!Waiting(IdOf[c]) :
               d \in Sends /\ d # c /\ callPc[d] = "racing"
        BY <1>1 DEF Unary!Register, Unary!Goto, Unary!Waiting
      <3>3. \A d \in callTold : d \in Sends /\ d # c /\ callRx'[d] # "armed"
        BY <1>1, <2>2 DEF Unary!Register, Unary!Goto, UnaryInv, Unary!TypeOK, ToldIsResolved
      <3> QED
        BY <1>1, <3>1, <3>2, <3>3
           DEF Unary!Register, Unary!Goto, UnaryInv, Unary!TypeOK, ToldIsResolved,
               ResultAfterRace
    <2>6. ResultAfterRace'
      BY <1>1 DEF Unary!Register, Unary!Goto, UnaryInv, Unary!TypeOK, ResultAfterRace
    <2> QED  BY <2>3, <2>4, <2>5, <2>6 DEF UnaryInv, ArmedIsRegistered
  <1>2. ASSUME NEW c \in Sends,
               \/ Unary!RaceCancelled(c) \/ Unary!PollCall(c)
               \/ Unary!CallPending(c) \/ Unary!RaceResponse(c)
        PROVE  UnaryInv'
    <2>1. Unary!TypeOK' /\ ArmedIsRegistered' /\ ResultAfterRace'
      BY <1>2
         DEF Unary!RaceCancelled, Unary!PollCall, Unary!CallPending,
             Unary!RaceResponse, Unary!Goto, UnaryInv, Unary!TypeOK,
             ArmedIsRegistered, ResultAfterRace
    <2>2. ToldIsResolved'
      BY <1>2
         DEF Unary!RaceCancelled, Unary!PollCall, Unary!CallPending,
             Unary!RaceResponse, Unary!Resolved, Unary!Goto, UnaryInv,
             Unary!TypeOK, ToldIsResolved
    <2> QED  BY <2>1, <2>2 DEF UnaryInv
  <1>3. ASSUME NEW c \in Sends, Unary!Cleanup(c)
        PROVE  UnaryInv'
    <2>1. IdOf[c] \in Ids /\ callInFlight[IdOf[c]] \in Sends \cup {None}
      BY Assumptions DEF UnaryInv, Unary!TypeOK
    <2>2. /\ callRx' \in [Sends -> {"armed", "fired", "dropped"}]
          /\ \A d \in Sends : callRx'[d] = "armed" =>
                d # callInFlight[IdOf[c]] /\ callRx[d] = "armed"
      BY <1>3, <2>1, ReleaseFacts DEF Unary!Cleanup, UnaryInv, Unary!TypeOK
    <2>3. Unary!TypeOK'
      BY <1>3, <2>1, <2>2 DEF Unary!Cleanup, Unary!Goto, UnaryInv, Unary!TypeOK
    <2>4. ASSUME NEW d \in Sends, callPc'[d] \in {"racing", "polled"}, callRx'[d] = "armed"
          PROVE  callInFlight'[IdOf[d]] = d
      <3>1. callInFlight[IdOf[d]] = d /\ IdOf[d] # IdOf[c]
        BY <1>3, <2>2, <2>4
           DEF Unary!Cleanup, Unary!Goto, UnaryInv, Unary!TypeOK, ArmedIsRegistered
      <3> QED  BY <1>3, <3>1, Assumptions DEF Unary!Cleanup, UnaryInv, Unary!TypeOK
    <2>5. ToldIsResolved' /\ ResultAfterRace'
      BY <1>3, <2>2
         DEF Unary!Cleanup, Unary!Goto, UnaryInv, Unary!TypeOK, ToldIsResolved,
             ResultAfterRace
    <2> QED  BY <2>3, <2>4, <2>5 DEF UnaryInv, ArmedIsRegistered
  <1>4. ASSUME NEW id \in Ids, Unary!Cancel(id)
        PROVE  UnaryInv'
    <2>1. callInFlight[id] \in Sends \cup {None}
      BY DEF UnaryInv, Unary!TypeOK
    <2>2. /\ callRx' \in [Sends -> {"armed", "fired", "dropped"}]
          /\ \A d \in Sends : callRx'[d] = "armed" => d # callInFlight[id] /\ callRx[d] = "armed"
      BY <1>4, <2>1, ReleaseFacts DEF Unary!Cancel, UnaryInv, Unary!TypeOK
    <2>3. Unary!TypeOK'
      BY <1>4, <2>2 DEF Unary!Cancel, Unary!Waiting, UnaryInv, Unary!TypeOK
    <2>4. ASSUME NEW d \in Sends, callPc'[d] \in {"racing", "polled"}, callRx'[d] = "armed"
          PROVE  callInFlight'[IdOf[d]] = d
      <3>1. callInFlight[IdOf[d]] = d /\ IdOf[d] # id
        BY <1>4, <2>2, <2>4
           DEF Unary!Cancel, UnaryInv, Unary!TypeOK, ArmedIsRegistered
      <3> QED  BY <1>4, <3>1, Assumptions DEF Unary!Cancel, UnaryInv, Unary!TypeOK
    <2>5. ToldIsResolved'
      <3>1. \A d \in Unary!Waiting(id) : callRx'[d] # "armed"
        BY <1>4, WaitingResolves DEF Unary!Cancel
      <3>2. \A d \in Unary!Waiting(id) : d \in Sends /\ callPc[d] = "racing"
        BY DEF Unary!Waiting
      <3>3. \A d \in callTold : d \in Sends /\ callRx'[d] # "armed"
        BY <1>4, <2>2 DEF UnaryInv, Unary!TypeOK, ToldIsResolved
      <3> QED
        BY <1>4, <3>1, <3>2, <3>3
           DEF Unary!Cancel, UnaryInv, ToldIsResolved, ResultAfterRace
    <2>6. ResultAfterRace'
      BY <1>4 DEF Unary!Cancel, UnaryInv, ResultAfterRace
    <2> QED  BY <2>3, <2>4, <2>5, <2>6 DEF UnaryInv, ArmedIsRegistered
  <1>5. ASSUME UNCHANGED callVars
        PROVE  UnaryInv'
    BY <1>5
       DEF callVars, UnaryInv, Unary!TypeOK, ArmedIsRegistered, ToldIsResolved,
           ResultAfterRace
  <1> QED  BY <1>1, <1>2, <1>3, <1>4, <1>5 DEF Unary!Next

\* However many calls of however many requests overlap, in the desktop window
\* and in the MCP server, and although a cleanup removes the entry of its id
\* whoever registered it: a waiting call whose id is cancelled, or taken by
\* another call, never answers, even when cancel finds no entry.
THEOREM ToldIsCancelledHolds == SpecAll => []ToldIsCancelled
  <1>1. InitAll => UnaryInv
    BY Assumptions
       DEF InitAll, Unary!Init, UnaryInv, Unary!TypeOK, ArmedIsRegistered,
           ToldIsResolved, ResultAfterRace
  <1>2. UnaryInv /\ [NextAll]_allVars => UnaryInv'
    <2>1. [NextAll]_allVars => [Unary!Next]_callVars
      BY DEF NextAll, allVars, callVars
    <2> QED  BY <2>1, UnaryNext
  <1>3. UnaryInv => ToldIsCancelled
    BY DEF UnaryInv, ToldIsResolved, ToldIsCancelled, Unary!ToldIsCancelled
  <1> QED  BY <1>1, <1>2, <1>3, PTL DEF SpecAll

-----------------------------------------------------------------------------
(* SseSend                                                                 *)

LEMMA FunctionIsSeq ==
    ASSUME NEW S, NEW n \in Nat, NEW f \in [1..n -> S]
    PROVE  f \in Seq(S) /\ Len(f) = n
  <1>1. f \in Seq(S)
    BY SeqDef
  <1>2. DOMAIN f = 1..n /\ DOMAIN f = 1..Len(f) /\ Len(f) \in Nat
    BY <1>1, LenProperties
  <1> QED  BY <1>1, <1>2

\* The frames 1, 2, ..., n.
Produced(n) == [i \in 1..n |-> i]

LEMMA ProducedFacts ==
    ASSUME NEW n \in 0..MaxFrames
    PROVE  /\ Produced(n) \in Seq(1..MaxFrames)
           /\ Len(Produced(n)) = n
           /\ n < MaxFrames => Produced(n + 1) = Append(Produced(n), n + 1)
  <1>1. Produced(n) \in [1..n -> 1..MaxFrames] /\ n \in Nat
    BY InFlightAssumption DEF InFlightAssumption, Produced
  <1>2. Produced(n) \in Seq(1..MaxFrames) /\ Len(Produced(n)) = n
    BY <1>1, FunctionIsSeq
  <1>3. ASSUME n < MaxFrames
        PROVE  Produced(n + 1) = Append(Produced(n), n + 1)
    <2>1. n + 1 \in 1..MaxFrames
      BY <1>1, <1>3, InFlightAssumption DEF InFlightAssumption
    <2>2. Produced(n + 1) \in Seq(1..MaxFrames) /\ Len(Produced(n + 1)) = n + 1
      <3>1. Produced(n + 1) \in [1..(n + 1) -> 1..MaxFrames]
        BY <1>1, <2>1, InFlightAssumption DEF InFlightAssumption, Produced
      <3>2. n + 1 \in Nat
        BY <1>1
      <3> QED  BY <3>1, <3>2, FunctionIsSeq
    <2> DEFINE t == Append(Produced(n), n + 1)
    <2>3. /\ t \in Seq(1..MaxFrames)
          /\ Len(t) = n + 1
          /\ \A i \in 1..n : t[i] = Produced(n)[i]
          /\ t[n + 1] = n + 1
      BY <1>2, <2>1, AppendProperties
    <2>4. \A i \in 1..(n + 1) : Produced(n + 1)[i] = t[i]
      BY <1>1, <2>3 DEF Produced
    <2> HIDE DEF t
    <2>5. Produced(n + 1) = t
      BY <2>2, <2>3, <2>4, SeqEqual
    <2> QED  BY <2>5 DEF t
  <1> QED  BY <1>2, <1>3

\* Last keeps a sequence's type and no more than it may.
LEMMA LastFacts ==
    ASSUME NEW S, NEW s \in Seq(S), NEW n \in Nat \ {0}
    PROVE  /\ Sse!Last(n, s) \in Seq(S)
           /\ Len(Sse!Last(n, s)) = IF Len(s) <= n THEN Len(s) ELSE n
           /\ \A i \in 1..Len(Sse!Last(n, s)) :
                 Sse!Last(n, s)[i] = s[Len(s) - Len(Sse!Last(n, s)) + i]
  <1>1. CASE Len(s) <= n
    BY <1>1, LenProperties DEF Sse!Last
  <1>2. CASE Len(s) > n
    <2>1. /\ Len(s) \in Nat
          /\ Len(s) - n + 1 \in Int
          /\ \A i \in (Len(s) - n + 1)..Len(s) : s[i] \in S
      BY <1>2, LenProperties, ElementOfSeq
    <2>2. /\ SubSeq(s, Len(s) - n + 1, Len(s)) \in Seq(S)
          /\ Len(SubSeq(s, Len(s) - n + 1, Len(s))) = n
          /\ \A i \in 1..n : SubSeq(s, Len(s) - n + 1, Len(s))[i] = s[Len(s) - n + i]
      <3> DEFINE m == Len(s) - n + 1
      <3>1. m \in Int /\ Len(s) \in Int /\ m <= Len(s) /\ Len(s) - m + 1 = n
        BY <1>2, <2>1
      <3>2. \A i \in 1..n : m + i - 1 = Len(s) - n + i
        BY <2>1
      <3>3. \A i \in m..Len(s) : s[i] \in S
        BY <2>1
      <3> HIDE DEF m
      <3>4. /\ SubSeq(s, m, Len(s)) \in Seq(S)
            /\ Len(SubSeq(s, m, Len(s))) = n
            /\ \A i \in 1..n : SubSeq(s, m, Len(s))[i] = s[m + i - 1]
        BY <3>1, <3>3, SubSeqProperties
      <3> QED  BY <3>2, <3>4 DEF m
    <2>3. Sse!Last(n, s) = SubSeq(s, Len(s) - n + 1, Len(s))
      BY <1>2, <2>1 DEF Sse!Last
    <2>4. ~(Len(s) <= n)
      BY <1>2, <2>1
    <2> QED  BY <2>2, <2>3, <2>4
  <1> QED  BY <1>1, <1>2, LenProperties

\* Where the element i of what Last keeps of p + q elements stood, with p of them
\* cut to r before.
LEMMA LastIndex ==
    ASSUME NEW n \in Nat \ {0}, NEW p \in Nat, NEW q \in Nat, NEW r \in Nat,
           r = IF p <= n THEN p ELSE n,
           NEW m \in Nat, m = IF r + q <= n THEN r + q ELSE n,
           NEW i \in 1..m
    PROVE  /\ m = IF p + q <= n THEN p + q ELSE n
           /\ r + q - m + i \in 1..(r + q)
           /\ p + q - m + i \in 1..(p + q)
           /\ p - r + (r + q - m + i) = p + q - m + i
  OBVIOUS

\* An accumulator that drops its oldest frames at each flush ends with what it
\* would hold had it dropped them at once.
LEMMA LastOfLast ==
    ASSUME NEW S, NEW s \in Seq(S), NEW t \in Seq(S), NEW n \in Nat \ {0}
    PROVE  Sse!Last(n, Sse!Last(n, s) \o t) = Sse!Last(n, s \o t)
  <1> DEFINE l == Sse!Last(n, s)
  <1>1. /\ Len(s) \in Nat /\ Len(t) \in Nat /\ Len(l) \in Nat
        /\ l \in Seq(S)
        /\ Len(l) = IF Len(s) <= n THEN Len(s) ELSE n
        /\ \A i \in 1..Len(l) : l[i] = s[Len(s) - Len(l) + i]
    BY LastFacts, LenProperties
  <1> DEFINE st == s \o t
             b == Sse!Last(n, st)
  <1>2. /\ st \in Seq(S)
        /\ Len(st) = Len(s) + Len(t)
        /\ \A i \in 1..Len(s) + Len(t) :
              st[i] = IF i <= Len(s) THEN s[i] ELSE t[i - Len(s)]
    BY ConcatProperties
  <1> HIDE DEF l
  <1> DEFINE lt == l \o t
             a == Sse!Last(n, lt)
  <1>3. /\ lt \in Seq(S)
        /\ Len(lt) = Len(l) + Len(t)
        /\ \A i \in 1..Len(l) + Len(t) :
              lt[i] = IF i <= Len(l) THEN l[i] ELSE t[i - Len(l)]
    BY <1>1, ConcatProperties
  <1> HIDE DEF lt, st
  <1>4. /\ a \in Seq(S)
        /\ Len(a) = IF Len(l) + Len(t) <= n THEN Len(l) + Len(t) ELSE n
        /\ \A i \in 1..Len(a) : a[i] = lt[Len(l) + Len(t) - Len(a) + i]
    <2>1. /\ a \in Seq(S)
          /\ Len(a) = IF Len(lt) <= n THEN Len(lt) ELSE n
          /\ \A i \in 1..Len(a) : a[i] = lt[Len(lt) - Len(a) + i]
      <3> HIDE DEF a
      <3>1. lt \in Seq(S)
        BY <1>3
      <3> QED  BY <3>1, LastFacts DEF a
    <2> HIDE DEF a
    <2>2. Len(a) = IF Len(l) + Len(t) <= n THEN Len(l) + Len(t) ELSE n
      BY <1>3, <2>1
    <2>3. ASSUME NEW i \in 1..Len(a)
          PROVE  a[i] = lt[Len(l) + Len(t) - Len(a) + i]
      <3>1. a[i] = lt[Len(lt) - Len(a) + i]
        BY <2>1
      <3> QED  BY <1>3, <3>1
    <2> QED  BY <2>1, <2>2, <2>3
  <1>5. /\ b \in Seq(S)
        /\ Len(b) = IF Len(s) + Len(t) <= n THEN Len(s) + Len(t) ELSE n
        /\ \A i \in 1..Len(b) : b[i] = st[Len(s) + Len(t) - Len(b) + i]
    <2>1. /\ b \in Seq(S)
          /\ Len(b) = IF Len(st) <= n THEN Len(st) ELSE n
          /\ \A i \in 1..Len(b) : b[i] = st[Len(st) - Len(b) + i]
      <3> HIDE DEF b
      <3>1. st \in Seq(S)
        BY <1>2
      <3> QED  BY <3>1, LastFacts DEF b
    <2> HIDE DEF b
    <2>2. Len(b) = IF Len(s) + Len(t) <= n THEN Len(s) + Len(t) ELSE n
      BY <1>2, <2>1
    <2>3. ASSUME NEW i \in 1..Len(b)
          PROVE  b[i] = st[Len(s) + Len(t) - Len(b) + i]
      <3>1. b[i] = st[Len(st) - Len(b) + i]
        BY <2>1
      <3> QED  BY <1>2, <3>1
    <2> QED  BY <2>1, <2>2, <2>3
  <1> HIDE DEF a, b
  <1>6. Len(a) = Len(b) /\ Len(a) \in Nat
    BY <1>1, <1>4, <1>5
  <1>7. ASSUME NEW i \in 1..Len(a)
        PROVE  a[i] = b[i]
    <2> DEFINE j == Len(l) + Len(t) - Len(a) + i
               k == Len(s) + Len(t) - Len(b) + i
    <2>1. /\ j \in 1..Len(l) + Len(t)
          /\ k \in 1..Len(s) + Len(t)
          /\ Len(s) - Len(l) + j = k
      <3> DEFINE p == Len(s)
                 q == Len(t)
                 r == Len(l)
                 m == Len(a)
      <3>1. /\ p \in Nat /\ q \in Nat /\ r \in Nat /\ m \in Nat
            /\ r = IF p <= n THEN p ELSE n
            /\ m = IF r + q <= n THEN r + q ELSE n
            /\ i \in 1..m
        BY <1>1, <1>4, <1>6
      <3>2. Len(b) = m
        BY <1>6
      <3> HIDE DEF p, q, r, m
      <3>3. /\ r + q - m + i \in 1..(r + q)
            /\ p + q - m + i \in 1..(p + q)
            /\ p - r + (r + q - m + i) = p + q - m + i
        BY <3>1, LastIndex
      <3> QED  BY <3>2, <3>3 DEF p, q, r, m
    <2>2. a[i] = lt[j] /\ b[i] = st[k]
      <3>1. a[i] = lt[j]
        BY <1>4
      <3>2. b[i] = st[k]
        BY <1>5, <1>6
      <3> QED  BY <3>1, <3>2
    <2> HIDE DEF j, k
    <2>3. CASE j <= Len(l)
      <3>1. k <= Len(s) /\ Len(s) - Len(l) + j = k /\ j \in 1..Len(l)
        BY <1>1, <2>1, <2>3
      <3>2. lt[j] = l[j] /\ l[j] = s[Len(s) - Len(l) + j] /\ st[k] = s[k]
        BY <1>1, <1>2, <1>3, <2>1, <2>3, <3>1
      <3> QED  BY <2>2, <3>1, <3>2
    <2>4. CASE j > Len(l)
      <3>1. k > Len(s) /\ j - Len(l) = k - Len(s)
        BY <1>1, <2>1, <2>4
      <3>2. lt[j] = t[j - Len(l)] /\ st[k] = t[k - Len(s)]
        BY <1>1, <1>2, <1>3, <2>1, <2>4, <3>1
      <3> QED  BY <2>2, <3>1, <3>2
    <2> QED  BY <1>1, <2>1, <2>3, <2>4
  <1>8. a = b
    BY <1>4, <1>5, <1>6, <1>7, SeqEqual
  <1> QED  BY <1>8 DEF a, b, l, lt, st

\* The batch is flushed before it overflows, and the lock is held by a task that
\* runs: the tail is flushed after the ticker stopped.
LockInv ==
    /\ sseHolder = None => Len(sseBuf) < BatchMax
    /\ sseHolder = "tail" => ssePc = "stopped"
    /\ sseHolder = "sink" => ssePc = "sending"
    /\ ssePc \in {"stopped", "flushed", "done"} =>
          sseTicker = "stopped" /\ sseHolder \in {"tail", None}
    /\ ssePc \in {"flushed", "done"} => sseBuf = <<>> /\ sseHolder = None

\* What is accumulated is what was shown, but for a batch that is being flushed.
AccumInv ==
    /\ (sseHolder = None /\ ssePc # "done") => sseAccum = Sse!Last(FrameCap, sseShown)
    /\ sseHolder # None => \E recorded \in Seq(1..MaxFrames) :
          /\ sseShown = recorded \o sseBuf
          /\ sseAccum = Sse!Last(FrameCap, recorded)

SseInv ==
    /\ Sse!TypeOK
    /\ Sse!ShownOnceInOrder
    /\ LockInv
    /\ AccumInv
    /\ Sse!ResponseIsShownTail

\* A flush starts: the batch is shown while it is still in the batch.
LEMMA FlushShows ==
    ASSUME Sse!TypeOK, sseHolder = None, ssePc # "done",
           sseAccum = Sse!Last(FrameCap, sseShown),
           NEW b \in Seq(1..MaxFrames), sseBuf' = b,
           sseShown' = sseShown \o b, sseAccum' = sseAccum,
           sseHolder' \in {"sink", "ticker", "tail"}
    PROVE  sseShown' \in Seq(1..MaxFrames) /\ AccumInv'
  <1>1. sseShown \in Seq(1..MaxFrames)
    BY DEF Sse!TypeOK, Sse!Frames
  <1>2. sseHolder' # None
    BY InFlightAssumption DEF InFlightAssumption
  <1>3. sseShown' \in Seq(1..MaxFrames)
    BY <1>1, ConcatProperties
  <1> QED  BY <1>1, <1>2, <1>3 DEF AccumInv

LEMMA SseNext ==
    ASSUME SseInv, [Sse!Next]_sseVars
    PROVE  SseInv'
  <1> USE DEF SseInv, Sse!Frames
  <1>0. /\ MaxFrames \in Nat /\ BatchMax \in Nat \ {0} /\ FrameCap \in Nat \ {0}
        /\ None \notin {"sink", "ticker", "tail"}
    BY InFlightAssumption DEF InFlightAssumption
  <1>1. CASE Sse!Open
    <2>1. Sse!TypeOK'
      BY <1>1 DEF Sse!Open, Sse!TypeOK
    <2>2. Sse!ShownOnceInOrder'
      BY <1>1 DEF Sse!Open, Sse!ShownOnceInOrder
    <2>3. LockInv'
      BY <1>1 DEF Sse!Open, LockInv
    <2>4. AccumInv'
      BY <1>1 DEF Sse!Open, AccumInv
    <2>5. Sse!ResponseIsShownTail'
      BY <1>1 DEF Sse!Open, Sse!ResponseIsShownTail
    <2> QED  BY <2>1, <2>2, <2>3, <2>4, <2>5
  <1>2. CASE Sse!Frame
    <2> DEFINE b == Append(sseBuf, sseProduced + 1)
    <2>1. /\ sseProduced + 1 \in 1..MaxFrames
          /\ sseProduced \in 0..MaxFrames /\ sseProduced < MaxFrames
          /\ sseProduced' = sseProduced + 1
          /\ sseBuf' = b
          /\ sseHolder = None /\ ssePc = "sending" /\ ssePc' = ssePc
          /\ sseAccum' = sseAccum /\ sseResponse' = sseResponse
          /\ sseBuf \in Seq(1..MaxFrames) /\ sseShown \in Seq(1..MaxFrames)
      BY <1>0, <1>2 DEF Sse!Frame, Sse!TypeOK
    <2>2. b \in Seq(1..MaxFrames) /\ Len(b) = Len(sseBuf) + 1
      BY <2>1, AppendProperties
    <2>3. Len(sseBuf) \in Nat /\ Len(sseBuf) < BatchMax
      BY <2>1, LenProperties DEF LockInv
    <2>4. sseShown \o sseBuf = Produced(sseProduced)
      BY <2>1 DEF Sse!ShownOnceInOrder, Produced
    <2>5. sseShown \o b = Produced(sseProduced + 1)
      <3>1. b = sseBuf \o <<sseProduced + 1>> /\ <<sseProduced + 1>> \in Seq(1..MaxFrames)
        BY <2>1, AppendIsConcat
      <3>2. sseShown \o b = (sseShown \o sseBuf) \o <<sseProduced + 1>>
        BY <2>1, <3>1, ConcatAssociative
      <3>3. Produced(sseProduced) \in Seq(1..MaxFrames)
            /\ Produced(sseProduced + 1) = Append(Produced(sseProduced), sseProduced + 1)
        BY <1>0, <2>1, ProducedFacts
      <3> QED  BY <2>1, <2>4, <3>2, <3>3, AppendIsConcat
    <2>6. sseAccum = Sse!Last(FrameCap, sseShown)
      BY <2>1 DEF AccumInv
    <2> HIDE DEF b
    <2>7. CASE sseHolder' = "sink" /\ sseShown' = sseShown \o b
      <3>1. sseShown' \in Seq(1..MaxFrames) /\ AccumInv'
        BY <2>1, <2>2, <2>6, <2>7, FlushShows
      <3>2. Sse!TypeOK'
        BY <1>0, <1>2, <2>1, <2>2, <2>3, <2>7, <3>1 DEF Sse!Frame, Sse!TypeOK
      <3>3. sseShown' \o <<>> = [i \in 1..sseProduced' |-> i]
        BY <2>1, <2>5, <2>7, <3>1, ConcatEmptySeq DEF Produced
      <3>4. Sse!ShownOnceInOrder'
        BY <1>0, <2>7, <3>3 DEF Sse!ShownOnceInOrder
      <3>5. LockInv' /\ Sse!ResponseIsShownTail'
        BY <1>0, <2>1, <2>7 DEF LockInv, Sse!ResponseIsShownTail
      <3> QED  BY <3>1, <3>2, <3>4, <3>5
    <2>8. CASE ~Sse!Flushable(b, sseDue) /\ UNCHANGED <<sseHolder, sseShown>>
      <3>1. Len(b) < BatchMax
        BY <1>0, <2>2, <2>3, <2>8 DEF Sse!Flushable
      <3>2. Sse!TypeOK'
        BY <1>0, <1>2, <2>1, <2>2, <2>8, <3>1 DEF Sse!Frame, Sse!TypeOK
      <3>3. Sse!ShownOnceInOrder'
        BY <2>1, <2>5, <2>8 DEF Sse!ShownOnceInOrder, Produced
      <3>4. LockInv' /\ AccumInv' /\ Sse!ResponseIsShownTail'
        BY <1>0, <2>1, <2>6, <2>8, <3>1
           DEF LockInv, AccumInv, Sse!ResponseIsShownTail
      <3> QED  BY <3>2, <3>3, <3>4
    <2> QED  BY <1>2, <2>1, <2>7, <2>8 DEF Sse!Frame
  <1>3. CASE Sse!Tick
    <2>1. /\ sseHolder = None /\ sseHolder' = "ticker"
          /\ sseShown' = sseShown \o sseBuf
          /\ sseBuf' = sseBuf /\ sseAccum' = sseAccum
          /\ sseBuf \in Seq(1..MaxFrames)
          /\ UNCHANGED <<ssePc, sseTicker, sseResponse, sseProduced, sseOpen>>
          /\ ssePc \in {"sending", "stopping"}
      BY <1>3 DEF Sse!Tick, Sse!TypeOK, LockInv
    <2>2. sseShown' \in Seq(1..MaxFrames) /\ AccumInv'
      <3>1. sseAccum = Sse!Last(FrameCap, sseShown)
        BY <2>1 DEF AccumInv
      <3> QED  BY <2>1, <3>1, FlushShows
    <2>3. Sse!TypeOK' /\ LockInv' /\ Sse!ResponseIsShownTail'
      BY <1>0, <1>3, <2>1, <2>2
         DEF Sse!Tick, Sse!TypeOK, LockInv, Sse!ResponseIsShownTail
    <2>4. Sse!ShownOnceInOrder'
      BY <1>0, <2>1, <2>2, ConcatEmptySeq DEF Sse!ShownOnceInOrder
    <2> QED  BY <2>2, <2>3, <2>4
  <1>4. CASE Sse!TickerStop
    <2>1. Sse!TypeOK'
      BY <1>0, <1>4 DEF Sse!TickerStop, Sse!TypeOK
    <2>2. Sse!ShownOnceInOrder'
      BY <1>0, <1>4 DEF Sse!TickerStop, Sse!ShownOnceInOrder
    <2>3. LockInv'
      BY <1>0, <1>4 DEF Sse!TickerStop, LockInv, Sse!TypeOK
    <2>4. AccumInv'
      BY <1>0, <1>4 DEF Sse!TickerStop, AccumInv
    <2>5. Sse!ResponseIsShownTail'
      BY <1>0, <1>4 DEF Sse!TickerStop, Sse!ResponseIsShownTail
    <2> QED  BY <2>1, <2>2, <2>3, <2>4, <2>5
  <1>5. CASE Sse!Record
    <2>1. PICK recorded \in Seq(1..MaxFrames) :
                 /\ sseShown = recorded \o sseBuf
                 /\ sseAccum = Sse!Last(FrameCap, recorded)
      BY <1>5 DEF Sse!Record, AccumInv
    <2>2. /\ sseBuf \in Seq(1..MaxFrames) /\ sseShown \in Seq(1..MaxFrames)
          /\ sseHolder # None /\ sseHolder' = None /\ sseBuf' = <<>>
          /\ sseShown' = sseShown
          /\ sseAccum' = Sse!Last(FrameCap, sseAccum \o sseBuf)
          /\ ssePc # "done" /\ ssePc' # "done"
          /\ UNCHANGED <<sseTicker, sseResponse, sseProduced>>
      BY <1>5 DEF Sse!Record, Sse!TypeOK, LockInv
    <2>3. sseAccum' = Sse!Last(FrameCap, sseShown)
      BY <1>0, <2>1, <2>2, LastOfLast
    <2>4. sseAccum' \in Seq(1..MaxFrames) /\ Len(sseAccum') <= FrameCap
      <3>1. /\ Sse!Last(FrameCap, sseShown) \in Seq(1..MaxFrames)
            /\ Len(Sse!Last(FrameCap, sseShown)) =
                  IF Len(sseShown) <= FrameCap THEN Len(sseShown) ELSE FrameCap
        BY <1>0, <2>2, LastFacts
      <3> QED  BY <1>0, <2>3, <3>1
    <2>5. <<>> \in Seq(1..MaxFrames) /\ Len(<<>>) = 0
      BY EmptySeq
    <2>6. Sse!TypeOK'
      <3>1. /\ ssePc' \in {"sending", "stopping", "stopped", "flushed", "done"}
            /\ UNCHANGED <<sseEnded, sseProduced, sseTicker, sseOpen, sseShown, sseResponse>>
            /\ sseDue' = FALSE
        BY <1>5 DEF Sse!Record, Sse!TypeOK
      <3>2. sseBuf' \in Seq(1..MaxFrames) /\ Len(sseBuf') <= BatchMax
        BY <1>0, <2>2, <2>5
      <3> QED  BY <2>2, <2>4, <3>1, <3>2 DEF Sse!TypeOK
    <2>7. Sse!ShownOnceInOrder'
      BY <2>2 DEF Sse!ShownOnceInOrder
    <2>8. LockInv'
      BY <1>0, <1>5, <2>2, <2>5 DEF Sse!Record, LockInv, Sse!TypeOK
    <2>9. AccumInv' /\ Sse!ResponseIsShownTail'
      BY <2>2, <2>3 DEF AccumInv, Sse!ResponseIsShownTail
    <2> QED  BY <2>6, <2>7, <2>8, <2>9
  <1>6. CASE Sse!TimePasses
    <2>1. Sse!TypeOK'
      BY <1>6 DEF Sse!TimePasses, Sse!TypeOK
    <2>2. Sse!ShownOnceInOrder'
      BY <1>6 DEF Sse!TimePasses, Sse!ShownOnceInOrder
    <2>3. LockInv'
      BY <1>6 DEF Sse!TimePasses, LockInv
    <2>4. AccumInv'
      BY <1>6 DEF Sse!TimePasses, AccumInv
    <2>5. Sse!ResponseIsShownTail'
      BY <1>6 DEF Sse!TimePasses, Sse!ResponseIsShownTail
    <2> QED  BY <2>1, <2>2, <2>3, <2>4, <2>5
  <1>7. CASE Sse!SendReturns
    <2>1. Sse!TypeOK'
      BY <1>0, <1>7 DEF Sse!SendReturns, Sse!TypeOK
    <2>2. Sse!ShownOnceInOrder'
      BY <1>0, <1>7 DEF Sse!SendReturns, Sse!ShownOnceInOrder
    <2>3. LockInv'
      BY <1>0, <1>7 DEF Sse!SendReturns, LockInv
    <2>4. AccumInv'
      BY <1>0, <1>7 DEF Sse!SendReturns, AccumInv
    <2>5. Sse!ResponseIsShownTail'
      BY <1>0, <1>7 DEF Sse!SendReturns, Sse!ResponseIsShownTail
    <2> QED  BY <2>1, <2>2, <2>3, <2>4, <2>5
  <1>8. CASE Sse!FlushTail
    <2>1. /\ sseHolder = None /\ ssePc = "stopped" /\ sseTicker = "stopped"
          /\ sseBuf' = sseBuf /\ sseAccum' = sseAccum
          /\ sseBuf \in Seq(1..MaxFrames) /\ sseShown \in Seq(1..MaxFrames)
          /\ UNCHANGED <<sseTicker, sseResponse, sseProduced>>
      BY <1>8 DEF Sse!FlushTail, Sse!TypeOK, LockInv
    <2>2. sseAccum = Sse!Last(FrameCap, sseShown)
      BY <2>1 DEF AccumInv
    <2>3. CASE sseHolder' = "tail" /\ sseShown' = sseShown \o sseBuf /\ ssePc' = ssePc
      <3>1. sseShown' \in Seq(1..MaxFrames) /\ AccumInv'
        BY <2>1, <2>2, <2>3, FlushShows
      <3>2. Sse!TypeOK' /\ LockInv' /\ Sse!ResponseIsShownTail'
        BY <1>0, <1>8, <2>1, <2>3, <3>1
           DEF Sse!FlushTail, Sse!TypeOK, LockInv, Sse!ResponseIsShownTail
      <3>3. Sse!ShownOnceInOrder'
        BY <1>0, <2>1, <2>3, <3>1, ConcatEmptySeq DEF Sse!ShownOnceInOrder
      <3> QED  BY <3>1, <3>2, <3>3
    <2>4. CASE sseBuf = <<>> /\ ssePc' = "flushed" /\ UNCHANGED <<sseHolder, sseShown>>
      BY <1>0, <1>8, <2>1, <2>2, <2>4
         DEF Sse!FlushTail, Sse!TypeOK, Sse!ShownOnceInOrder, LockInv, AccumInv,
             Sse!ResponseIsShownTail
    <2> QED  BY <1>8, <2>3, <2>4 DEF Sse!FlushTail
  <1>9. CASE Sse!Answer
    <2>1. /\ ssePc = "flushed" /\ ssePc' = "done"
          /\ sseBuf = <<>> /\ sseHolder = None
          /\ sseAccum = Sse!Last(FrameCap, sseShown)
          /\ sseResponse' = Sse!ResponseOf(sseOpen \/ sseAccum # <<>>)
          /\ sseAccum' = <<>>
          /\ sseAccum \in Seq(1..MaxFrames) /\ sseShown \in Seq(1..MaxFrames)
          /\ UNCHANGED <<sseEnded, sseProduced, sseBuf, sseDue, sseHolder, sseTicker,
                         sseOpen, sseShown>>
      BY <1>9 DEF Sse!Answer, Sse!TypeOK, LockInv, AccumInv
    <2>2. sseShown = Produced(sseProduced) /\ Len(Produced(sseProduced)) = sseProduced
      <3>1. sseShown \o <<>> = Produced(sseProduced)
        BY <2>1 DEF Sse!ShownOnceInOrder, Produced
      <3>2. sseProduced \in 0..MaxFrames
        BY DEF Sse!TypeOK
      <3> QED  BY <2>1, <3>1, <3>2, ConcatEmptySeq, ProducedFacts
    <2>3. <<>> \in Seq(1..MaxFrames) /\ Len(<<>>) = 0
      BY EmptySeq
    <2>4. /\ sseResponse' \in [kind : {"none", "error", "plain", "stream"},
                               frames : Seq(1..MaxFrames)]
          /\ sseOpen => sseResponse' = [kind |-> "stream", frames |-> sseAccum]
      BY <2>1, <2>3 DEF Sse!ResponseOf
    <2>5. Sse!TypeOK'
      BY <1>0, <2>1, <2>3, <2>4 DEF Sse!TypeOK
    <2>6. Sse!ShownOnceInOrder' /\ LockInv' /\ AccumInv'
      BY <1>0, <2>1, <2>3 DEF Sse!ShownOnceInOrder, LockInv, AccumInv
    <2>7. Sse!ResponseIsShownTail'
      BY <2>1, <2>2, <2>4 DEF Sse!ResponseIsShownTail
    <2> QED  BY <2>5, <2>6, <2>7
  <1>10. CASE UNCHANGED sseVars
    <2>1. Sse!TypeOK'
      BY <1>10 DEF sseVars, Sse!TypeOK
    <2>2. Sse!ShownOnceInOrder'
      BY <1>10 DEF sseVars, Sse!ShownOnceInOrder
    <2>3. LockInv'
      BY <1>10 DEF sseVars, LockInv
    <2>4. AccumInv'
      BY <1>10 DEF sseVars, AccumInv
    <2>5. Sse!ResponseIsShownTail'
      BY <1>10 DEF sseVars, Sse!ResponseIsShownTail
    <2> QED  BY <2>1, <2>2, <2>3, <2>4, <2>5
  <1> QED
    BY <1>1, <1>2, <1>3, <1>4, <1>5, <1>6, <1>7, <1>8, <1>9, <1>10 DEF Sse!Next

LEMMA SseAlways == SpecAll => []SseInv
  <1>1. InitAll => SseInv
    <2>1. /\ <<>> \in Seq(1..MaxFrames) /\ Len(<<>>) = 0
          /\ <<>> \o <<>> = <<>>
      BY EmptySeq, ConcatEmptySeq
    <2>2. [i \in 1..0 |-> i] = <<>>
      BY ProducedFacts, EmptySeq DEF Produced
    <2> SUFFICES ASSUME InitAll
                 PROVE  SseInv
      OBVIOUS
    <2> USE InFlightAssumption DEF InFlightAssumption, InitAll, Sse!Init
    <2>3. Sse!TypeOK
      <3>1. sseBuf \in Seq(1..MaxFrames) /\ Len(sseBuf) <= BatchMax
        BY <2>1
      <3>2. sseAccum \in Seq(1..MaxFrames) /\ Len(sseAccum) <= FrameCap
        BY <2>1
      <3>3. sseResponse \in [kind : {"none", "error", "plain", "stream"},
                             frames : Seq(1..MaxFrames)]
        BY <2>1
      <3>4. sseShown \in Seq(1..MaxFrames) /\ sseProduced \in 0..MaxFrames
        BY <2>1
      <3> QED  BY <3>1, <3>2, <3>3, <3>4 DEF Sse!TypeOK, Sse!Frames
    <2>4. Sse!ShownOnceInOrder
      <3>1. sseShown \o (IF sseHolder = None THEN sseBuf ELSE <<>>) = <<>>
        BY <2>1
      <3>2. [i \in 1..sseProduced |-> i] = <<>>
        BY <2>2
      <3> QED  BY <3>1, <3>2 DEF Sse!ShownOnceInOrder
    <2>5. LockInv /\ AccumInv /\ Sse!ResponseIsShownTail
      BY <2>1 DEF LockInv, AccumInv, Sse!Last, Sse!ResponseIsShownTail
    <2> QED  BY <2>3, <2>4, <2>5 DEF SseInv
  <1>2. SseInv /\ [NextAll]_allVars => SseInv'
    <2>1. [NextAll]_allVars => [Sse!Next]_sseVars
      BY DEF NextAll, allVars, sseVars
    <2> QED  BY <2>1, SseNext
  <1> QED  BY <1>1, <1>2, PTL DEF SpecAll

\* Whichever of the sink, the ticker and the tail flush emits the batch, the UI is
\* shown every frame of the stream once and in the order they came.
THEOREM ShownOnceInOrderHolds == SpecAll => []ShownOnceInOrder
  <1>1. SseInv => ShownOnceInOrder
    BY DEF SseInv, ShownOnceInOrder
  <1> QED  BY <1>1, SseAlways, PTL

\* However the stream ends, the response that is stored and returned holds what the
\* UI was shown, up to the cap its newest frames, although the accumulator drops
\* its oldest ones flush by flush.
THEOREM ResponseIsShownTailHolds == SpecAll => []ResponseIsShownTail
  <1>1. SseInv => ResponseIsShownTail
    BY DEF SseInv, ResponseIsShownTail
  <1> QED  BY <1>1, SseAlways, PTL
=============================================================================
