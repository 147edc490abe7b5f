------------------------------ MODULE SseSend ------------------------------
(***************************************************************************)
(* A send whose response is an event stream: the send_request command of   *)
(* src-tauri and the SseAccum of crates/voleeo-http.                       *)
(*                                                                         *)
(* Two tasks flush the batch of frames to the UI: the sink, which the read *)
(* loop calls with each frame, and a ticker.  When the send ends, fails or *)
(* is cancelled the command stops the ticker, flushes the tail and makes   *)
(* the response from what was accumulated.  A flush holds the batch's lock *)
(* while it emits the batch and then records it in the accumulator.        *)
(***************************************************************************)
EXTENDS Integers, Sequences

CONSTANTS
    MaxFrames,  \* bound on the frames of the stream
    BatchMax,   \* SSE_BATCH_MAX
    FrameCap,   \* SseAccum::FRAME_CAP
    None        \* nobody holds the lock

VARIABLES
    pc,        \* where the command is
    ended,     \* how send_streamed returned
    produced,  \* how many frames the read loop handed to the sink; 1, 2, ...
    buf,       \* the batch
    due,       \* SSE_FLUSH_MS have passed since last_flush
    holder,    \* who is between emitting the batch and recording it
    ticker,    \* the ticker task
    open,      \* the accumulator has the response line
    accum,     \* the frames in the accumulator
    shown,     \* the frames of the sse:frames events, in order
    response   \* what the command returns, with the frames it stores

vars == <<pc, ended, produced, buf, due, holder, ticker, open, accum, shown, response>>

Frames == Seq(1..MaxFrames)

TypeOK ==
    /\ pc \in {"sending", "stopping", "stopped", "flushed", "done"}
    /\ ended \in {"no", "ok", "cancelled", "failed"}
    /\ produced \in 0..MaxFrames
    /\ buf \in Frames /\ Len(buf) <= BatchMax
    /\ due \in BOOLEAN
    /\ holder \in {"sink", "ticker", "tail", None}
    /\ ticker \in {"running", "stopped"}
    /\ open \in BOOLEAN
    /\ accum \in Frames /\ Len(accum) <= FrameCap
    /\ shown \in Frames
    /\ response \in [kind : {"none", "error", "plain", "stream"}, frames : Frames]

Init ==
    /\ pc = "sending"
    /\ ended = "no"
    /\ produced = 0
    /\ buf = <<>>
    /\ due = FALSE
    /\ holder = None
    /\ ticker = "running"
    /\ open = FALSE
    /\ accum = <<>>
    /\ shown = <<>>
    /\ response = [kind |-> "none", frames |-> <<>>]

\* The last n elements of s, or all of them if there are fewer.
Last(n, s) == IF Len(s) <= n THEN s ELSE SubSeq(s, Len(s) - n + 1, Len(s))

Flushable(batch, window) == Len(batch) >= BatchMax \/ window

----------------------------------------------------------------------------
(* The sink                                                                *)

Open ==
    /\ pc = "sending"
    /\ ~open
    /\ open' = TRUE
    /\ due' = FALSE
    /\ UNCHANGED <<pc, ended, produced, buf, holder, ticker, accum, shown, response>>

\* Push, and start a flush if the batch is full or the window has passed.
Frame ==
    /\ pc = "sending"
    /\ open
    /\ holder = None
    /\ produced < MaxFrames
    /\ produced' = produced + 1
    /\ buf' = Append(buf, produced')
    /\ \/ /\ Flushable(buf', due)
          /\ holder' = "sink"
          /\ shown' = shown \o buf'
       \/ /\ ~Flushable(buf', due)
          /\ UNCHANGED <<holder, shown>>
    /\ UNCHANGED <<pc, ended, due, ticker, open, accum, response>>

----------------------------------------------------------------------------
(* The ticker                                                              *)

\* Seeded fault: the ticker flushes a copy of the batch without its lock.
TickUnlocked ==
    /\ ticker = "running"
    /\ buf # <<>> /\ due
    /\ shown' = shown \o buf
    /\ accum' = Last(FrameCap, accum \o buf)
    /\ buf' = <<>>
    /\ UNCHANGED <<pc, ended, produced, due, holder, ticker, open, response>>

\* Seeded fault: the ticker, too, waits for a full batch.
TickFull ==
    /\ ticker = "running"
    /\ holder = None
    /\ Len(buf) >= BatchMax /\ due
    /\ holder' = "ticker"
    /\ shown' = shown \o buf
    /\ UNCHANGED <<pc, ended, produced, buf, due, ticker, open, accum, response>>

Tick ==
    /\ ticker = "running"
    /\ holder = None
    /\ buf # <<>> /\ due
    /\ holder' = "ticker"
    /\ shown' = shown \o buf
    /\ UNCHANGED <<pc, ended, produced, buf, due, ticker, open, accum, response>>

TickerStop ==
    /\ pc = "stopping"
    /\ holder # "ticker"
    /\ ticker' = "stopped"
    /\ pc' = "stopped"
    /\ UNCHANGED <<ended, produced, buf, due, holder, open, accum, shown, response>>

\* The end of a flush: the emitted frames move to the accumulator, which drops
\* the oldest past its cap, and the lock is released.
Record ==
    /\ holder # None
    /\ holder' = None
    /\ accum' = Last(FrameCap, accum \o buf)
    /\ buf' = <<>>
    /\ due' = FALSE
    /\ pc' = IF holder = "tail" THEN "flushed" ELSE pc
    /\ UNCHANGED <<ended, produced, ticker, open, shown, response>>

TimePasses ==
    /\ ~due
    /\ due' = TRUE
    /\ UNCHANGED <<pc, ended, produced, buf, holder, ticker, open, accum, shown, response>>

----------------------------------------------------------------------------
(* The command                                                             *)

\* send_streamed returns: the stream ended or broke, the send was cancelled, or
\* there never was a stream.  The sink is not running.
SendReturns ==
    /\ pc = "sending"
    /\ holder # "sink"
    /\ pc' = "stopping"
    /\ ended' \in {"ok", "cancelled", "failed"}
    /\ UNCHANGED <<produced, buf, due, holder, ticker, open, accum, shown, response>>

\* Seeded fault: what was buffered since the last flush is left behind.
TailDropped ==
    /\ pc = "stopped"
    /\ holder = None
    /\ pc' = "flushed"
    /\ UNCHANGED <<ended, produced, buf, due, holder, ticker, open, accum, shown, response>>

FlushTail ==
    /\ pc = "stopped"
    /\ holder = None
    /\ \/ /\ buf # <<>>
          /\ holder' = "tail"
          /\ shown' = shown \o buf
          /\ UNCHANGED pc
       \/ /\ buf = <<>>
          /\ pc' = "flushed"
          /\ UNCHANGED <<holder, shown>>
    /\ UNCHANGED <<ended, produced, buf, due, ticker, open, accum, response>>

ResponseOf(isSse) ==
    CASE isSse                   -> [kind |-> "stream", frames |-> accum]
      [] ~isSse /\ ended = "ok"  -> [kind |-> "plain", frames |-> <<>>]
      [] ~isSse /\ ended # "ok"  -> [kind |-> "error", frames |-> <<>>]

\* finalize, or the rebuild of a stream that was cancelled or interrupted; an
\* error if either happened before a stream was opened.
Answer ==
    /\ pc = "flushed"
    /\ pc' = "done"
    /\ response' = ResponseOf(open \/ accum # <<>>)
    /\ accum' = <<>>
    /\ UNCHANGED <<ended, produced, buf, due, holder, ticker, open, shown>>

----------------------------------------------------------------------------
Next ==
    \/ Open \/ Frame
    \/ Tick \/ TickerStop \/ Record \/ TimePasses
    \/ SendReturns \/ FlushTail \/ Answer

\* Time passes, and the tasks that can run do; the peer need never send
\* another frame, nor end the stream, and nobody has to cancel it.
Fairness ==
    /\ WF_vars(TimePasses) /\ WF_vars(Tick) /\ WF_vars(Record)
    /\ WF_vars(TickerStop) /\ WF_vars(FlushTail) /\ WF_vars(Answer)

Spec == Init /\ [][Next]_vars

FairSpec == Spec /\ Fairness

----------------------------------------------------------------------------
(* Properties                                                              *)

\* The UI gets every frame once and in order, although the sink, the ticker and
\* the tail flush all emit from the one batch: what is shown and what is still
\* to be emitted are the frames produced.
ShownOnceInOrder ==
    shown \o (IF holder = None THEN buf ELSE <<>>) = [i \in 1..produced |-> i]

\* The response that is stored and returned holds what the UI was shown, up to
\* the cap its newest frames, however the stream ended; and no stream whose
\* response line arrived ends as a bare error.
ResponseIsShownTail ==
    (pc = "done" /\ open) =>
        /\ Len(shown) = produced
        /\ response = [kind |-> "stream", frames |-> Last(FrameCap, shown)]

\* No frame waits for another one to be shown: a burst followed by silence
\* reaches the UI, as does the tail of a stream that ended.  What was produced
\* stays so: once there is an n-th frame, again and again n are shown.
QuietFramesShown ==
    \A n \in 1..MaxFrames : []<>(produced >= n => Len(shown) >= n)
=============================================================================
