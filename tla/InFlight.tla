------------------------------ MODULE InFlight ------------------------------
(***************************************************************************)
(* The backend's sends side by side: the cancel handles of HTTP, those of  *)
(* gRPC calls, and a stream of events.  The executors share no state, so   *)
(* what holds of each alone holds of them together: a behaviour is one of  *)
(* one of them.                                                            *)
(***************************************************************************)
EXTENDS HttpInFlight, Sequences

CONSTANTS
    MaxFrames, BatchMax, FrameCap  \* of the stream: see SseSend

\* The capacities of the code are 256 and 2000.  The placeholder is no call, and
\* none of those who hold the lock of the batch.
ASSUME InFlightAssumption ==
    /\ MaxFrames \in Nat
    /\ BatchMax \in Nat \ {0}
    /\ FrameCap \in Nat \ {0}
    /\ None \notin Sends \cup {"sink", "ticker", "tail"}

VARIABLES
    part,  \* the executor that runs
    callInFlight, callPc, callRx, callResult, callTold,
    ssePc, sseEnded, sseProduced, sseBuf, sseDue, sseHolder, sseTicker,
    sseOpen, sseAccum, sseShown, sseResponse

\* Unary calls, one for each send.
Unary == INSTANCE GrpcUnary WITH
    Calls <- Sends, inFlight <- callInFlight, pc <- callPc, rx <- callRx,
    result <- callResult, told <- callTold
callVars == <<callInFlight, callPc, callRx, callResult, callTold>>

\* An event stream.
Sse == INSTANCE SseSend WITH
    pc <- ssePc, ended <- sseEnded, produced <- sseProduced, buf <- sseBuf,
    due <- sseDue, holder <- sseHolder, ticker <- sseTicker, open <- sseOpen,
    accum <- sseAccum, shown <- sseShown, response <- sseResponse
sseVars == <<ssePc, sseEnded, sseProduced, sseBuf, sseDue, sseHolder,
             sseTicker, sseOpen, sseAccum, sseShown, sseResponse>>

allVars == <<part, vars, callVars, sseVars>>

InitAll == part \in {"http", "unary", "sse"} /\ Init /\ Unary!Init /\ Sse!Init

NextAll ==
    /\ UNCHANGED part
    /\ \/ part = "http" /\ Next /\ UNCHANGED <<callVars, sseVars>>
       \/ part = "unary" /\ Unary!Next /\ UNCHANGED <<vars, sseVars>>
       \/ part = "sse" /\ Sse!Next /\ UNCHANGED <<vars, callVars>>

\* Those of a stream only when it runs; nothing of the others is enabled
\* before their first step, which is nobody's duty.
FairnessAll ==
    /\ Fairness
    /\ Unary!Fairness
    /\ WF_sseVars(part = "sse" /\ Sse!TimePasses)
    /\ WF_sseVars(part = "sse" /\ Sse!Tick)
    /\ WF_sseVars(part = "sse" /\ Sse!Record)
    /\ WF_sseVars(part = "sse" /\ Sse!TickerStop)
    /\ WF_sseVars(part = "sse" /\ Sse!FlushTail)
    /\ WF_sseVars(part = "sse" /\ Sse!Answer)

SpecAll == InitAll /\ [][NextAll]_allVars /\ FairnessAll

-----------------------------------------------------------------------------
\* GrpcUnary: a waiting call that is cancelled or replaced never answers.
ToldIsCancelled == Unary!ToldIsCancelled

\* SseSend: the UI gets every frame once and in order.
ShownOnceInOrder == Sse!ShownOnceInOrder

\* SseSend: what is stored is the newest part of what was shown.
ResponseIsShownTail == Sse!ResponseIsShownTail

\* SseSend: no frame waits for another one to be shown.
QuietFramesShown ==
    \A n \in 1..MaxFrames : []<>(part = "sse" /\ sseProduced >= n => Len(sseShown) >= n)
=============================================================================
