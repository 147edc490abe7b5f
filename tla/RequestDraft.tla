---------------------------- MODULE RequestDraft ----------------------------
(* The request pane: one component for whichever request is open, so all of *)
(* what is typed but not yet stored (the URL, the body, the auth, the rows  *)
(* of a tab) is state that must change hands when another request is opened *)
(* (RequestPane, useRequestDraft, useBodyEditor, useAuthEditor and the      *)
(* tabs). Every save writes a request as it was when the save was made,     *)
(* with the one field that changed.                                         *)
EXTENDS Integers, FiniteSets

CONSTANTS Requests,
          None,      \* no draft, no timer, nothing asked
          MaxEdits   \* edits, in the pane or outside it

VARIABLES
    stored, \* per request: its fields, as the request store holds them
    open,   \* the request of the pane
    tabs,   \* per request: the tab it was left on
    pane,   \* what the pane keeps across requests
    edits,
    strayed \* history: the fields an answer may write for the request now open
            \* instead of the one it was asked for

draftVars == <<stored, open, tabs, pane, edits, strayed>>

Tabs == {"params", "headers", "body", "auth"}
Fields == {"method", "url", "path", "query", "headers", "body", "auth"}
Rows == {"path", "query", "headers", "url", "auth", "field", "text", "pick"}
TabsOf(row) == CASE row \in {"path", "query"} -> {"params"}
                 [] row = "headers" -> {"headers"}
                 [] row = "auth" -> {"auth"}
                 [] row = "url" -> Tabs
                 [] OTHER -> {"body"}
\* Of a value only whose text is in it: what is typed while a request is open is
\* that request's.
Values == SUBSET Requests
Stored == [Fields -> Values]

\* A save that waits: the request it is for, as it was when the user typed.
Timer == [of : Requests, was : Stored, value : Values]

\* A widget that awaits an encryption or a picked file: the request it was asked
\* for; whether its save is the one of that moment (late); whether it is still
\* on the screen; the request it shows, and as it was; the text of its editor.
Asked == [of : Requests, row : Rows, late : BOOLEAN, mounted : BOOLEAN,
          on : Requests, was : Stored, doc : Values]
Pane == [tab : Tabs,
         url : {None} \cup [for : Requests, value : Values],
         bar : Values, \* text the URL bar may show beside its value
         path : Values,
         body : Values, seenBody : Values, bodyTimer : {None} \cup Timer,
         auth : Values, seenAuth : Values, authTimer : {None} \cup Timer,
         headers : {None} \cup [of : Requests, was : Stored],
         asked : {None} \cup Asked]

----------------------------------------------------------------------------
(* The store's update: everything but the body and the auth is written from *)
(* the copy the caller has.                                                 *)

Update(S, r, copy, field, value) ==
    [S EXCEPT ![r] = [f \in Fields |-> CASE f = field -> value
                                         [] f \in {"body", "auth"} /\ f # field -> S[r][f]
                                         [] OTHER -> copy[f]]]
Save(field, value) == Update(stored, open, stored[open], field, value)

\* The query rows and the path values are stored together.
ParamsStored(path, query) ==
    Update(stored, open, [stored[open] EXCEPT !.path = path], "query", query)

UrlShown == IF pane.url # None /\ pane.url.for = open THEN pane.url.value ELSE stored[open].url

----------------------------------------------------------------------------
(* What the hooks do after a render, with the request r of the store S.     *)

\* Another request takes over the drafts, the tab it was left on included.
DraftShown(p, S, r) ==
    LET q == IF r = open THEN p ELSE [p EXCEPT !.path = S[r].path, !.tab = tabs[r]]
    IN IF r = open /\ S[r].url = stored[open].url THEN q ELSE [q EXCEPT !.url = None]

\* A seeded fault: only another content counts as another body.
SameContent(p, S, r) == S[r].body = p.seenBody
\* The body's editor keeps its text when the content is the one it saved; another
\* content it takes up, unless it is the one it had before and React skips it.
OwnBody(p, S, r) == r = open /\ S[r].body = p.seenBody
BodyShown(p, S, r) ==
    IF OwnBody(p, S, r) THEN {p}
    ELSE {[p EXCEPT !.body = S[r].body, !.seenBody = S[r].body, !.bodyTimer = None]}
         \cup {q \in {p} : r = open /\ S[r].body = stored[open].body}

\* Auth edited elsewhere waits behind an edit here; a reload brings it as well.
AuthShown(p, S, r) ==
    LET read == [p EXCEPT !.auth = S[r].auth, !.seenAuth = S[r].auth]
    IN IF r # open THEN {[read EXCEPT !.authTimer = None]}
       ELSE IF p.authTimer # None THEN {[p EXCEPT !.seenAuth = S[r].auth]}
       ELSE {read} \cup {q \in {p} : S[r].auth = p.seenAuth}

\* The headers tab hands the pane the way to store its rows; nobody takes it back.
HeadersShown(p, S, r) ==
    IF p.tab = "headers" THEN [p EXCEPT !.headers = [of |-> r, was |-> S[r]]] ELSE p

\* A tab that was left keeps the request it last showed; the rows of a tab and a
\* text editor are those of the last render.
AskedShown(p, S, r) ==
    IF p.asked = None \/ ~p.asked.mounted THEN p
    ELSE IF p.tab \notin TabsOf(p.asked.row) THEN [p EXCEPT !.asked.mounted = FALSE]
    ELSE IF p.asked.row \in {"path", "query", "headers"}
         THEN [p EXCEPT !.asked.on = r, !.asked.was = S[r]]
    ELSE IF p.asked.row = "text" THEN [p EXCEPT !.asked.doc = p.body]
    ELSE p

\* The fields that an answer to an earlier request's question may reach: rows of
\* the params tab pass between path and query.
Strays(asked) ==
    IF asked = None THEN {}
    ELSE CASE asked.row = "url" -> {"url", "path", "query"}
           [] asked.row = "path" -> {"path", "query"}
           [] asked.row = "auth" -> {"auth"}
           [] asked.row \in {"field", "text", "pick"} -> {"body"}
           [] OTHER -> {}

Render(p, S, r) ==
    /\ stored' = S
    /\ open' = r
    /\ \E bodied \in BodyShown(DraftShown(p, S, r), S, r) :
          \E edited \in AuthShown(bodied, S, r) :
              pane' = AskedShown(HeadersShown(edited, S, r), S, r)
    /\ strayed' = IF r = open THEN strayed ELSE strayed \cup Strays(p.asked)

----------------------------------------------------------------------------
(* The URL bar. *)

Edited == edits < MaxEdits /\ edits' = edits + 1
OnTab(t) == [pane EXCEPT !.tab = t]

\* The text of the bar, and what an answer for another request left in it.
Typed(v, left) == [pane EXCEPT !.url = [for |-> open, value |-> v \cup left], !.bar = {}]
TypeUrl(v) ==
    /\ Edited
    /\ \E left \in {{}, pane.bar} : Render(Typed(v, left), stored, open)
    /\ UNCHANGED tabs

\* Leaving the URL bar stores the URL, with the body of the last render.
UrlStored(S) == IF UrlShown = stored[open].url THEN S ELSE Save("url", UrlShown)
LeaveUrl ==
    /\ UrlShown # stored[open].url
    /\ Render(pane, UrlStored(stored), open)
    /\ UNCHANGED <<tabs, edits>>

PickMethod(v) ==
    /\ Edited
    /\ v # stored[open].method
    /\ Render(pane, Save("method", v), open)
    /\ UNCHANGED tabs

\* A query string typed into the URL bar becomes rows of the params tab.
TypeQuestionMark(v) ==
    /\ Edited
    /\ \E left \in {{}, pane.bar} :
          Render([Typed(UrlShown, left) EXCEPT !.tab = "params"],
                 IF v \cup left = {} THEN stored ELSE ParamsStored(pane.path, v \cup left), open)
    /\ tabs' = [tabs EXCEPT ![open] = "params"]

\* A pasted command fills in the whole request.
PasteCommand(v) ==
    /\ Edited
    /\ UrlShown = {}
    /\ Render(Typed(v, {}), [stored EXCEPT ![open] = [f \in Fields |-> v]], open)
    /\ UNCHANGED tabs

----------------------------------------------------------------------------
(* The params tab: query rows and the values of the URL's path names.       *)

\* A value whose path name has left the URL is a query row.
TypeQuery(v) ==
    /\ Edited
    /\ pane.tab = "params"
    /\ \E row \in {{}, stored[open].path} :
          Render(pane, ParamsStored(pane.path, v \cup row), open)
    /\ UNCHANGED tabs

TypePath(v) ==
    /\ Edited
    /\ pane.tab = "params"
    /\ Render([pane EXCEPT !.path = v], ParamsStored(v, stored[open].query), open)
    /\ UNCHANGED tabs

\* Renaming or removing a path name rewrites the URL as well.
RenamePath(v) ==
    /\ Edited
    /\ pane.tab = "params"
    /\ LET url == UrlShown \cup v
           path == pane.path \cup v
           copy == [stored[open] EXCEPT !.url = url, !.path = path]
       IN Render([pane EXCEPT !.path = path, !.url = [for |-> open, value |-> url]],
                 Update(stored, open, copy, "url", url), open)
    /\ UNCHANGED tabs

\* A key `:name` makes a path value of a query row.
PromoteRow ==
    /\ Edited
    /\ pane.tab = "params"
    /\ stored[open].query # {}
    /\ Render([pane EXCEPT !.path = stored[open].query], ParamsStored(pane.path, {}), open)
    /\ UNCHANGED tabs

----------------------------------------------------------------------------
(* The headers, body and auth tabs. *)

TypeHeader(v) ==
    /\ Edited
    /\ pane.tab = "headers"
    /\ Render(pane, Save("headers", v), open)
    /\ UNCHANGED tabs

Pending(v) == [of |-> open, was |-> stored[open], value |-> v]

TypeBody(v) ==
    /\ Edited
    /\ pane.tab = "body"
    /\ Render([pane EXCEPT !.body = v, !.bodyTimer = Pending(v)], stored, open)
    /\ UNCHANGED tabs

BodyTimerFires ==
    /\ pane.bodyTimer # None
    /\ LET t == pane.bodyTimer
       IN Render([pane EXCEPT !.bodyTimer = None, !.seenBody = t.value],
                 Update(stored, t.of, t.was, "body", t.value), open)
    /\ UNCHANGED <<tabs, edits>>

\* Another kind of body is stored at once, with its Content-Type and the method it needs.
PickBodyKind(v) ==
    /\ Edited
    /\ pane.tab = "body"
    /\ LET copy == [stored[open] EXCEPT !.headers = v, !.method = v]
       IN Render([pane EXCEPT !.body = v, !.seenBody = v, !.bodyTimer = None],
                 Update(stored, open, copy, "body", v), open)
    /\ UNCHANGED tabs

TypeAuth(v) ==
    /\ Edited
    /\ pane.tab = "auth"
    /\ Render([pane EXCEPT !.auth = v, !.authTimer = Pending(v)], stored, open)
    /\ UNCHANGED tabs

AuthTimerFires ==
    /\ pane.authTimer # None
    /\ LET t == pane.authTimer
       IN Render([pane EXCEPT !.authTimer = None], Update(stored, t.of, t.was, "auth", t.value), open)
    /\ UNCHANGED <<tabs, edits>>

----------------------------------------------------------------------------
(* Widgets that wait: a secret is encrypted by the backend, and a file is    *)
(* picked in a dialog, before it is put where it was asked for.             *)

\* A chip that is edited is saved by the handler of that moment, as a file and
\* the text of an editor are; a chip that is inserted by the handler of then.
Lates(row) == CASE row \in {"auth", "field"} -> BOOLEAN
                [] row \in {"text", "pick"} -> {TRUE}
                [] OTHER -> {FALSE}
Ask(row) ==
    /\ Edited
    /\ pane.tab \in TabsOf(row)
    /\ pane.asked = None
    /\ \E late \in Lates(row) :
          pane' = [pane EXCEPT !.asked = [of |-> open, row |-> row, late |-> late,
                                          mounted |-> TRUE, on |-> open,
                                          was |-> stored[open], doc |-> pane.body]]
    /\ UNCHANGED <<stored, open, tabs, strayed>>

\* A path value is put back by its name, into whatever the pane holds by then.
AnsweredPath(s, p) ==
    Render([p EXCEPT !.path = {s.of}],
           IF s.mounted THEN ParamsStored({s.of}, stored[open].query)
           ELSE Update(stored, s.on, [s.was EXCEPT !.path = {s.of}], "query", s.was.query), open)
\* A row of the tab takes its secret while its request is the one of the tab; of
\* a tab that is gone React may still run the update.
AnsweredRow(s, p) ==
    /\ s.of = s.on
    /\ Render(p, IF ~s.mounted THEN Update(stored, s.on, s.was, s.row, s.was[s.row] \cup {s.of})
                 ELSE IF s.row = "query"
                 THEN ParamsStored(pane.path, stored[open].query \cup {s.of})
                 ELSE Save("headers", stored[open].headers \cup {s.of}), open)
\* The URL bar is one element: the secret goes where its text now is, and the
\* text to the request it was asked for.
AnsweredUrl(s, p) ==
    LET text == UrlShown \cup pane.bar \cup {s.of}
    IN Render([p EXCEPT !.url = [for |-> s.of, value |-> text],
                        !.bar = IF s.of = open THEN {} ELSE text], stored, open)
\* The editors' state is the open request's; the save is late or is not.
SaveOf(s, v) == IF s.late THEN [of |-> s.of, was |-> s.was, value |-> v] ELSE Pending(v)
AnsweredAuth(s, p) ==
    /\ s.mounted
    /\ LET v == pane.auth \cup {s.of}
       IN Render([p EXCEPT !.auth = v, !.authTimer = SaveOf(s, v)], stored, open)
\* The kind of the body that is open decides what of it is kept.
AnsweredBody(s, p) ==
    /\ s.row = "field" => s.mounted
    /\ \E v \in {pane.body, s.doc \cup {s.of}, pane.body \cup s.doc \cup {s.of}} :
          Render([p EXCEPT !.body = v, !.bodyTimer = SaveOf(s, v)], stored, open)

\* An answer that was refused or cancelled, or whose widget is gone, is dropped.
Answered ==
    /\ pane.asked # None
    /\ LET s == pane.asked
           p == [pane EXCEPT !.asked = None]
       IN \/ Render(p, stored, open)
          \/ s.row = "path" /\ AnsweredPath(s, p)
          \/ s.row \in {"query", "headers"} /\ AnsweredRow(s, p)
          \/ s.row = "url" /\ AnsweredUrl(s, p)
          \/ s.row = "auth" /\ AnsweredAuth(s, p)
          \/ s.row \in {"field", "text", "pick"} /\ AnsweredBody(s, p)
    /\ UNCHANGED <<tabs, edits>>

----------------------------------------------------------------------------
(* Moving between tabs and requests, edits from elsewhere, and the send.    *)

PickTab(t) ==
    /\ t # pane.tab
    /\ Render(OnTab(t), stored, open)
    /\ tabs' = [tabs EXCEPT ![open] = t]
    /\ UNCHANGED edits

Open(r) == r # open /\ Render(pane, stored, r) /\ UNCHANGED <<tabs, edits>>

\* A reload of the store: an MCP client, an import or a pull changed a request.
ExternalWrite(r, f) ==
    /\ Edited
    /\ \E v \in {{r}, {}} \ {stored[r][f]} :
          Render(pane, [stored EXCEPT ![r][f] = v], open)
    /\ UNCHANGED tabs

\* All that is pending is stored, field by field, each with the request of the last render.
HeadersStored(S) ==
    IF pane.headers = None THEN S
    ELSE Update(S, pane.headers.of, pane.headers.was, "headers", pane.headers.was.headers)
BodyStored(S) == Update(S, open, stored[open], "body", pane.body)
AuthStored(S) == Update(S, open, stored[open], "auth", pane.auth)
Send ==
    /\ Render([pane EXCEPT !.bodyTimer = None, !.seenBody = pane.body, !.authTimer = None],
              AuthStored(BodyStored(HeadersStored(UrlStored(stored)))), open)
    /\ UNCHANGED <<tabs, edits>>

----------------------------------------------------------------------------

Empty == [f \in Fields |-> {}]
Init ==
    /\ stored = [r \in Requests |-> Empty]
    /\ open \in Requests
    /\ tabs = [r \in Requests |-> "params"]
    /\ pane = [tab |-> "params", url |-> None, bar |-> {}, path |-> {},
               body |-> {}, seenBody |-> {}, bodyTimer |-> None,
               auth |-> {}, seenAuth |-> {}, authTimer |-> None,
               headers |-> None, asked |-> None]
    /\ edits = 0
    /\ strayed = {}

\* What the user types is the open request's own.
Typing == \E v \in {{open}, {}} :
    \/ TypeUrl(v) \/ PickMethod(v) \/ TypeQuestionMark(v) \/ PasteCommand(v)
    \/ TypeQuery(v) \/ TypePath(v) \/ RenamePath(v)
    \/ TypeHeader(v) \/ TypeBody(v) \/ PickBodyKind(v) \/ TypeAuth(v)

Next ==
    \/ Typing \/ LeaveUrl \/ PromoteRow \/ Answered
    \/ BodyTimerFires \/ AuthTimerFires \/ Send
    \/ \E row \in Rows : Ask(row)
    \/ \E t \in Tabs : PickTab(t)
    \/ \E r \in Requests : Open(r) \/ \E f \in Fields : ExternalWrite(r, f)

Spec == Init /\ [][Next]_draftVars

\* What was typed for one request is never stored in another, whatever is
\* pending when the user moves between them. The code makes one exception: a
\* field that a widget of an earlier request was waiting to write when the user
\* went on to the next (see AnswersStayHome).
EditsStayHome ==
    \A r \in Requests : \A f \in Fields \ strayed : stored[r][f] \subseteq {r}

----------------------------------------------------------------------------
(* What the comments of the code say and the code does not keep. *)

\* Sending one request leaves the others as they are.
SendKeepsOthers == [][Send => \A r \in Requests \ {open} : stored'[r] = stored[r]]_draftVars

\* What a widget waited for reaches the request it was asked for, or none.
AnswersStayHome == \A r \in Requests : \A f \in Fields : stored[r][f] \subseteq {r}
=============================================================================
