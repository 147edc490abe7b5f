------------------------------ MODULE Preflight ------------------------------
(* How templates are resolved before a request is sent.  The parts of a     *)
(* request are resolved one after the other, the tokens of a part side by   *)
(* side; a token may use another request's response, which may have to be   *)
(* sent first, or a part of another request, which is itself a template.    *)
(* Promises of one request are shared, answers are kept for the cycle of a  *)
(* send, and marks guard against cycles (src/builtins).                     *)
EXTENDS Integers, FiniteSets, Sequences, SequencesExt

CONSTANTS
    Reqs, Sends, None,
    Questions,   \* what ask() asks
    Text,        \* request -> its parts; a text is its tokens
    JarText      \* the text of the active jar's cookies

\* What runs: a send's resolution, a response that is got, a value that is
\* read.  All but the sends go by the name of what they are for.
Send(s, r) == [kind |-> "send", of |-> r, as |-> s]
Response(r) == [kind |-> "response", of |-> r, as |-> None]
Value(r, part) == [kind |-> "request", of |-> r, as |-> part]

VARIABLES
    task,      \* what runs: name -> how far it is
    resolving, \* the names that are marked
    cached,    \* cycleCache: request -> the cycle that got its response, or None
    stored,    \* the requests with a stored response
    cycle,     \* sends so far
    dropped,   \* sends that were cancelled
    outcome,   \* send -> None, "sent", "aborted", "failed"
    prompts,   \* ask(): the prompt that is shown and those behind it
    remembered \* the prompts whose answer is remembered

preflightVars == <<task, resolving, cached, stored, cycle, dropped, outcome, prompts, remembered>>
askVars == <<prompts, remembered>>

Init ==
    /\ task = <<>> /\ resolving = {}
    /\ cached = [r \in Reqs |-> None]
    /\ stored \in {{}, Reqs}
    /\ cycle = 0 /\ dropped = {} /\ outcome = [s \in Sends |-> None]
    /\ prompts = <<>> /\ remembered = {}

Running(n) == n \in DOMAIN task
At(n, pc) == Running(n) /\ task[n].pc = pc
Fresh(pc, how, now) == [pc |-> pc, how |-> how, at |-> 0, open |-> {}, aborted |-> FALSE, cycle |-> now]

\* A name that runs already keeps what it is at.
With(tasks, m, t) == [x \in DOMAIN tasks \cup {m} |-> IF x \in DOMAIN tasks THEN tasks[x] ELSE t]

----------------------------------------------------------------------------
(* Texts. *)

\* Path parameters come before the URL and the query after it.
UrlTexts(t) == t.path \o <<t.url>> \o t.query
HeaderText(t) == t.inherited \o t.headers
BodyTexts(body) ==
    CASE body.kind = "graphql" -> <<body.text, body.variables>>
      [] body.kind \in {"text", "form"} -> <<body.text>>
      [] body.kind \in {"none", "binary"} -> <<>>

\* A part that is not there is empty.
FirstOf(texts) == Head(texts \o << <<>> >>)

\* The request's own auth or, if it inherits (None), a folder's or the workspace's.
NoAuth == [kind |-> "none", fields |-> <<>>]
AuthOf(t) ==
    LET auths == IF t.from = "workspace" THEN <<t.auth, t.workspaceAuth, t.folderAuth, NoAuth>>
                 ELSE <<t.auth, t.folderAuth, t.workspaceAuth, NoAuth>>
    IN auths[Min({i \in DOMAIN auths : auths[i] # None})]

\* The fields of a scheme, in the order they are resolved.
SchemeFields ==
    [none |-> <<>>, bearer |-> <<"token">>, basic |-> <<"username", "password">>,
     api_key |-> <<"key", "value">>,
     aws_sig_v4 |-> <<"access_key", "secret_key", "session_token", "region", "service">>,
     oauth1 |-> <<"consumer_key", "consumer_secret", "token", "token_secret", "realm",
                  "private_key", "callback", "verifier", "timestamp", "nonce", "version">>,
     digest |-> <<"username", "password">>,
     ntlm |-> <<"username", "password", "domain", "workstation">>,
     oauth2 |-> <<"token_url", "auth_url", "client_id", "client_secret", "scope", "audience",
                  "username", "password", "code_verifier">>]

\* The call that gets an OAuth 2 token, as a text of its own.
EnsureToken == <<[fn |-> "ensure", of |-> None, how |-> None]>>
AuthTexts(t) ==
    LET auth == AuthOf(t)
        fields == SchemeFields[auth.kind]
    IN [i \in DOMAIN fields |-> auth.fields[fields[i]]]
       \o (IF auth.kind = "oauth2" THEN <<EnsureToken>> ELSE <<>>)

\* A send resolves what it inherits with what is its own; a pre-flight takes
\* the request as it is stored, without its query and the cookies.
SendTexts(t) == UrlTexts(t) \o <<HeaderText(t)>> \o BodyTexts(t.body) \o AuthTexts(t) \o <<JarText>>
PreflightTexts(t) == t.path \o <<t.url, t.headers>> \o BodyTexts(t.body) \o AuthTexts(t)
\* What request.path, query, header and body read: a text of the request.
ReadFrom(t, part) ==
    CASE part \in {"path", "query"} -> FirstOf(t[part])
      [] part = "headers" -> t.headers
      [] part = "body" -> FirstOf(BodyTexts(t.body))
Texts(n) == CASE n.kind = "send" -> SendTexts(Text[n.of])
              [] n.kind = "response" -> PreflightTexts(Text[n.of])
              [] n.kind = "request" -> <<ReadFrom(Text[n.of], n.as)>>
\* The texts that are left to resolve; one without a token is its own result.
Left(n, texts) == {i \in DOMAIN texts : i > task[n].at /\ texts[i] # <<>>}

\* What a token waits for.
Awaited(tok) == CASE tok.fn = "response" -> Response(tok.of)
                  [] tok.fn = "request" -> Value(tok.of, tok.how)
                  [] tok.fn \in {"ask", "ensure"} -> None
Token(n, i) == Texts(n)[task[n].at][i]
Waiting(n, m) == {i \in task[n].open : Awaited(Token(n, i)) = m}
Calls(n, fn) == {i \in task[n].open : Token(n, i).fn = fn}

\* ensureResponse: an answer of this cycle, the promise that is under way, or a
\* new one, which marks the request when it is sent without a look at what is
\* stored.
Awaiting(st, i) == [st EXCEPT !.open = @ \cup {i}]
Started(st, m, pc, how) == [st EXCEPT !.task = With(@, m, Fresh(pc, how, cycle))]
Marked(st, m) == [st EXCEPT !.resolving = @ \cup {m}]

EnsureResponse(st, i, tok) ==
    LET m == Response(tok.of) IN
    IF cached[tok.of] # None THEN st
    ELSE IF m \in DOMAIN st.task THEN Awaiting(st, i)
    ELSE IF tok.how # "force" THEN Started(Awaiting(st, i), m, "latest", tok.how)
    ELSE IF m \in st.resolving THEN st
    ELSE Marked(Started(Awaiting(st, i), m, "texts", tok.how), m)

\* resolveValue: a mark that is there is an error, which leaves the token.
ResolveValue(st, i, tok) ==
    LET m == Value(tok.of, tok.how) IN
    IF m \in st.resolving THEN st
    ELSE Marked(Started(Awaiting(st, i), m, "texts", None), m)

\* ask(): a remembered answer, a prompt that is waiting already, or a new one.
AskPrompt(st, i, tok) ==
    IF tok.how \in remembered THEN st
    ELSE [Awaiting(st, i) EXCEPT !.prompts = IF Contains(@, tok.how) THEN @ ELSE Append(@, tok.how)]

Render(st, i, tok) ==
    CASE tok.fn = "response" -> EnsureResponse(st, i, tok)
      [] tok.fn = "request" -> ResolveValue(st, i, tok)
      [] tok.fn = "ask" -> AskPrompt(st, i, tok)
      [] tok.fn = "ensure" -> Awaiting(st, i)

\* All tokens of a text are called in one turn, from the first to the last.
Called(text) ==
    LET st[k \in 0..Len(text)] ==
            IF k = 0 THEN [task |-> task, resolving |-> resolving, prompts |-> prompts, open |-> {}]
            ELSE Render(st[k - 1], k, text[k])
    IN st[Len(text)]
NextPart(n) ==
    /\ At(n, "texts") /\ ~task[n].aborted /\ task[n].open = {}
    /\ \E texts \in {Texts(n)} : \E left \in {Left(n, texts)} :
         /\ left # {}
         /\ LET next == Min(left)
                st == Called(texts[next])
            IN /\ task' = [st.task EXCEPT ![n].at = next, ![n].open = st.open]
               /\ resolving' = st.resolving /\ prompts' = st.prompts
    /\ UNCHANGED <<cached, stored, cycle, dropped, outcome, remembered>>

----------------------------------------------------------------------------
(* What a request is given, for the assumptions of those who use this. *)

Tokens == [fn : {"response"}, of : Reqs, how : {"force", "cache", "refresh-after"}]
          \cup [fn : {"request"}, of : Reqs, how : {"path", "query", "headers", "body"}]
          \cup [fn : {"ask"}, of : {None}, how : Questions]
Bodies == [kind : {"graphql"}, text : Seq(Tokens), variables : Seq(Tokens)]
          \cup [kind : {"text", "form"}, text : Seq(Tokens)] \cup [kind : {"none", "binary"}]
IsAuth(auth) ==
    auth.kind \in DOMAIN SchemeFields /\ auth.fields \in [Range(SchemeFields[auth.kind]) -> Seq(Tokens)]
IsTemplates(t) ==
    /\ {t.path, t.query} \subseteq Seq(Seq(Tokens)) /\ {t.url, t.inherited, t.headers} \subseteq Seq(Tokens)
    /\ t.body \in Bodies
    /\ \A auth \in {t.auth, t.folderAuth, t.workspaceAuth} \ {None} : IsAuth(auth)

----------------------------------------------------------------------------
(* Ends. *)

\* What is left when n has ended: an error leaves a token as it is, an abort
\* ends whoever waited.
Without(n, aborts) ==
    [m \in DOMAIN task \ {n} |->
        LET got == Waiting(m, n)
        IN [task[m] EXCEPT !.open = @ \ got, !.aborted = @ \/ (aborts /\ got # {})]]

\* A seeded fault: the mark of what failed stays.
MarkLeft(n) == task' = Without(n, FALSE) /\ UNCHANGED <<resolving, cached>>
Failed(n) == task' = Without(n, FALSE) /\ resolving' = resolving \ {n} /\ UNCHANGED cached
Got(n) ==
    /\ task' = Without(n, FALSE) /\ resolving' = resolving \ {n}
    /\ cached' = IF n.kind = "response" THEN [cached EXCEPT ![n.of] = task[n].cycle] ELSE cached

Aborted(n) ==
    /\ Running(n) /\ task[n].aborted
    /\ task' = Without(n, TRUE) /\ resolving' = resolving \ {n}
    /\ outcome' = IF n.kind = "send" THEN [outcome EXCEPT ![n.as] = "aborted"] ELSE outcome
    /\ UNCHANGED <<cached, stored, cycle, dropped, askVars>>

\* All parts are resolved.
Resolved(n) ==
    /\ At(n, "texts") /\ ~task[n].aborted /\ task[n].open = {}
    /\ Left(n, Texts(n)) = {}
    /\ \/ n.kind = "response" /\ task' = [task EXCEPT ![n].pc = "wire"] /\ UNCHANGED <<resolving, cached, outcome>>
       \/ n.kind = "request" /\ Got(n) /\ UNCHANGED outcome
       \/ n.kind = "send" /\ Got(n)
          /\ outcome' = [outcome EXCEPT ![n.as] = IF n.as \in dropped THEN "aborted" ELSE "sent"]
    /\ UNCHANGED <<stored, cycle, dropped, askVars>>

----------------------------------------------------------------------------
(* A response (strategy.ts, preflightSender.ts). *)

\* The newest stored response is read; a read may fail.
Latest(n) ==
    /\ At(n, "latest")
    /\ \/ n.of \in stored /\ Got(n)
       \/ task[n].how = "cache" /\ Failed(n)
       \/ /\ task[n].how = "refresh-after"
          /\ IF n \in resolving THEN Failed(n)
             ELSE /\ task' = [task EXCEPT ![n].pc = "texts"]
                  /\ resolving' = resolving \cup {n} /\ UNCHANGED cached
    /\ UNCHANGED <<stored, cycle, dropped, outcome, askVars>>

\* The answer of the send, which stores its response.
Wire(n) ==
    /\ At(n, "wire")
    /\ \/ /\ task' = [task EXCEPT ![n].pc = "fetch"] /\ resolving' = resolving \ {n}
          /\ stored' = stored \cup {n.of} /\ UNCHANGED cached
       \/ Failed(n) /\ UNCHANGED stored
    /\ UNCHANGED <<cycle, dropped, outcome, askVars>>
Fetch(n) ==
    /\ At(n, "fetch")
    /\ Got(n) \/ Failed(n)
    /\ UNCHANGED <<stored, cycle, dropped, outcome, askVars>>

----------------------------------------------------------------------------
(* OAuth 2: an error is not left in a text but ends the resolution, of which a
   cancelled send shows nothing. *)

EnsureDone(n) ==
    /\ At(n, "texts")
    /\ \E i \in Calls(n, "ensure") :
         \/ /\ task' = [task EXCEPT ![n].open = @ \ {i}]
            /\ UNCHANGED <<resolving, cached, outcome>>
         \/ /\ Failed(n)
            /\ outcome' = IF n.kind = "send" THEN [outcome EXCEPT ![n.as] = IF n.as \in dropped THEN "aborted" ELSE "failed"]
                          ELSE outcome
    /\ UNCHANGED <<stored, cycle, dropped, askVars>>

----------------------------------------------------------------------------
(* The user. *)

Unsent(s) == \E r \in Reqs : Running(Send(s, r))

HandleSend(s, r) ==
    /\ outcome[s] = None /\ ~Unsent(s)
    /\ \A n \in DOMAIN task : n.kind = "send" => n.of # r \/ n.as \in dropped
    /\ cycle' = cycle + 1 /\ cached' = [q \in Reqs |-> None]
    /\ task' = With(task, Send(s, r), Fresh("texts", None, cycle'))
    /\ UNCHANGED <<resolving, stored, dropped, outcome, askVars>>

\* A cancel while templates are resolved takes back the spinner and no more.
Cancel(s) ==
    /\ s \notin dropped /\ Unsent(s)
    /\ dropped' = dropped \cup {s}
    /\ UNCHANGED <<task, resolving, cached, stored, cycle, outcome, askVars>>

\* The prompt that is shown is answered, perhaps to be remembered, or dismissed,
\* for all who wait for it; the next one is shown.
AskDone(dismissed) ==
    /\ prompts # <<>>
    /\ LET asked == Head(prompts)
           Asking(n) == {i \in Calls(n, "ask") : Token(n, i).how = asked}
       IN /\ task' = [n \in DOMAIN task |->
                        [task[n] EXCEPT !.open = @ \ Asking(n),
                                        !.aborted = @ \/ (dismissed /\ Asking(n) # {})]]
          /\ remembered' \in {remembered, IF dismissed THEN remembered ELSE remembered \cup {asked}}
    /\ prompts' = Tail(prompts)
    /\ UNCHANGED <<resolving, cached, stored, cycle, dropped, outcome>>

\* A remembered answer expires.
Forget(asked) ==
    /\ asked \in remembered /\ remembered' = remembered \ {asked}
    /\ UNCHANGED <<task, resolving, cached, stored, cycle, dropped, outcome, prompts>>

Step(n) == NextPart(n) \/ Resolved(n) \/ Aborted(n) \/ Latest(n) \/ Wire(n) \/ Fetch(n) \/ EnsureDone(n)

Next ==
    \/ \E n \in DOMAIN task : Step(n)
    \/ \E dismissed \in BOOLEAN : AskDone(dismissed)
    \/ \E asked \in remembered : Forget(asked)
    \/ \E s \in Sends : Cancel(s) \/ \E r \in Reqs : HandleSend(s, r)

Spec == Init /\ [][Next]_preflightVars

----------------------------------------------------------------------------
\* "finally { unmarkResolving }": a mark is held by what runs, whatever failed,
\* was aborted or went on after its send was cancelled.  A mark that stayed would
\* refuse the request in every later send.
MarksAreLive ==
    \A n \in resolving :
        /\ Running(n)
        /\ task[n].pc \in {"texts", "wire"}

\* "Cycle detected: ... indirectly references itself via response.*"
\* (preflightSender.ts:22): tasks never wait for each other in a circle.
NoCircularWait ==
    ~ \E circle \in SUBSET DOMAIN task :
          circle # {} /\ \A n \in circle : \E m \in circle : Waiting(n, m) # {}

----------------------------------------------------------------------------
(* What the comments of the code say and the code does not keep. *)

\* "Per-send-cycle cache": what a send finds there, its own cycle got.
CacheOfCycle == \A r \in Reqs : cached[r] \in {None, cycle}

\* "Cycle detected via request.*" (builtins/request): nothing refers back to the
\* text of a send, so none of its tokens is refused.
RefusedOnlyInCycle ==
    [][\A s \in Sends, r \in Reqs : NextPart(Send(s, r)) =>
          LET text == Texts(Send(s, r))[task'[Send(s, r)].at]
          IN \A i \in DOMAIN text : text[i].fn = "request" => i \in task'[Send(s, r)].open]_preflightVars
=============================================================================
