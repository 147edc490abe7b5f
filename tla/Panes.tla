------------------------------- MODULE Panes -------------------------------
(***************************************************************************)
(* The panes of a request: the edits of a request, the sends of the pane   *)
(* and of a folder run, and the history of responses.  They share no       *)
(* variable, so what holds of each alone holds of them together: a         *)
(* behaviour is one of one part.                                           *)
(***************************************************************************)
EXTENDS RequestDraft, Sequences

CONSTANTS
    Ordered,              \* the requests in tree order
    PaneSends, Loops,     \* of the sends: see SendPipeline
    MaxStored, MaxReads   \* of the history: see HistoryView

VARIABLES
    part, \* the part that runs
    sendLoading, sendShown, sendFailure, sendSend, sendIncluded, sendStrategy,
    sendRunning, sendRow, sendCancelling, sendLoop, sendBusy,
    histStored, histMade, histLive, histSending, histRunning, histViewed, histPast,
    histChecking, histListed, histReads, histAsked

\* The sends of the pane beside the runs of a folder.
Se == INSTANCE SendPipeline WITH
    Reqs <- Requests, loading <- sendLoading, shown <- sendShown, failure <- sendFailure,
    send <- sendSend, included <- sendIncluded, strategy <- sendStrategy,
    running <- sendRunning, row <- sendRow, cancelling <- sendCancelling,
    loop <- sendLoop, busy <- sendBusy
sendVars == <<sendLoading, sendShown, sendFailure, sendSend, sendIncluded,
              sendStrategy, sendRunning, sendRow, sendCancelling, sendLoop,
              sendBusy>>
SeOff ==
    /\ sendLoading = None /\ sendShown = None /\ sendFailure = None
    /\ sendSend = None /\ sendIncluded = None /\ sendStrategy = None
    /\ sendRunning = None /\ sendRow = None /\ sendCancelling = None
    /\ sendLoop = None /\ sendBusy = None

\* The response pane and its history picker.
Hi == INSTANCE HistoryView WITH
    stored <- histStored, made <- histMade, live <- histLive, sending <- histSending,
    running <- histRunning, viewed <- histViewed, past <- histPast,
    checking <- histChecking, listed <- histListed, reads <- histReads,
    asked <- histAsked
histVars == <<histStored, histMade, histLive, histSending, histRunning, histViewed,
              histPast, histChecking, histListed, histReads, histAsked>>
HiOff ==
    /\ histStored = None /\ histMade = None /\ histLive = None
    /\ histSending = None /\ histRunning = None
    /\ histViewed = None /\ histPast = None /\ histChecking = None
    /\ histListed = None /\ histReads = None /\ histAsked = None

\* The request that is open in a pane where nobody types.
FirstOpen == CHOOSE r \in Requests : TRUE
DraftOff == Init /\ open = FirstOpen

allVars == <<part, draftVars, sendVars, histVars>>

\* One part runs, and the others are off.
InitAll ==
    \/ part = "draft" /\ Init /\ SeOff /\ HiOff
    \/ part = "send" /\ Se!Init /\ DraftOff /\ HiOff
    \/ part = "history" /\ Hi!Init /\ DraftOff /\ SeOff

NextAll ==
    /\ UNCHANGED part
    /\ \/ part = "draft" /\ Next /\ UNCHANGED <<sendVars, histVars>>
       \/ part = "send" /\ Se!Next /\ UNCHANGED <<draftVars, histVars>>
       \/ part = "history" /\ Hi!Next /\ UNCHANGED <<draftVars, sendVars>>

\* The fairness of SendPipeline and of HistoryView, of the part that runs.
Fairness ==
    /\ \A s \in PaneSends :
           WF_sendVars(part = "send" /\ (\/ Se!CommitsDone(s) \/ Se!ResolvedInPane(s)
                                        \/ Se!AbortedInPane(s) \/ Se!FailedInPane(s)
                                        \/ Se!AnswerStep(s)))
    /\ \A r \in Requests :
           WF_sendVars(part = "send" /\ (Se!AnswerStep(r) \/ Se!RunStep(r)))
    /\ \A l \in Loops : WF_sendVars(part = "send" /\ Se!LoopStep(l))
    /\ \A by \in {"open", "stored", "pick", "list", "clear"}, r \in Requests :
           WF_histVars(part = "history" /\ Hi!AnswerTo(by, r))

SpecAll == InitAll /\ [][NextAll]_allVars /\ Fairness

----------------------------------------------------------------------------
\* SendPipeline: the spinner never sticks, again and again it does not spin.
NoStuckSpinner ==
    \A r \in Requests : []<>(part = "send" => ~sendLoading[r])

\* SendPipeline: a folder run ends, whatever fails in it.
RunGivesBack == []<>(part = "send" => ~sendRunning)

\* HistoryView: a past response on the screen is of the request on the
\* screen.
PastIsOfViewed == part = "history" => Hi!PastIsOfViewed

\* HistoryView: the pane of a request that stays on the screen is not left
\* blank.
BlankEnds ==
    \A r \in Requests :
        []<>(part = "history" => histViewed # r \/ Hi!Screen # "blank")

\* EditsStayHome is RequestDraft's own.
=============================================================================
