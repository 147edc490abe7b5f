---------------------------- MODULE PanesProofs ----------------------------
(***************************************************************************)
(* Theorems about Panes for any number of requests, edits and reads: what  *)
(* is typed for one request is stored in another only in the fields that a *)
(* widget of the first was waiting to write when the user went on, and a   *)
(* past response on the screen is of the request on the screen.            *)
(***************************************************************************)
EXTENDS Panes, TLAPS

----------------------------------------------------------------------------
(* RequestDraft.  A set X of fields is excepted throughout: those that an   *)
(* answer to an earlier request's question may have reached.               *)

\* Text of request r, in a field that is not excepted.
Home(field, v, r, X) == field \in X \/ v \subseteq {r}

HomeCopy(copy, r, X) ==
    /\ copy \in Stored
    /\ \A f \in Fields : Home(f, copy[f], r, X)

StoreHome(S, X) ==
    /\ S \in [Requests -> Stored]
    /\ \A r \in Requests : HomeCopy(S[r], r, X)

TimerHome(t, field, X) ==
    t # None => HomeCopy(t.was, t.of, X) /\ Home(field, t.value, t.of, X)

UrlHome(u, X) == u # None => Home("url", u.value, u.for, X)

\* What another request's answer left in the URL bar may come to the rows.
BarHome(bar, X) == bar = {} \/ {"url", "path", "query"} \subseteq X

HeadersHome(h, X) == h # None => HomeCopy(h.was, h.of, X)

Rendered == {"path", "query", "headers"}

\* A widget that waits while r is open: its copy is of the request it is for, or
\* of the one its tab shows, and if that is not where it was asked, the fields
\* it reaches are excepted.
AskedHome(s, r, X) ==
    s # None =>
        /\ s.row \in Rendered => HomeCopy(s.was, s.on, X)
        /\ s.row \notin Rendered => HomeCopy(s.was, s.of, X)
        /\ Home("body", s.doc, s.of, X)
        /\ s.of # r => Strays(s) \subseteq X
        /\ s.of # s.on => Strays(s) \subseteq X

\* After a render, rows that are on the screen are of the open request.
AskedShows(s, r) == s # None /\ s.mounted /\ s.row \in Rendered => s.on = r

PaneHome(p, r, X) ==
    /\ p \in Pane
    /\ UrlHome(p.url, X)
    /\ BarHome(p.bar, X)
    /\ Home("path", p.path, r, X)
    /\ Home("body", p.body, r, X)
    /\ TimerHome(p.bodyTimer, "body", X)
    /\ Home("auth", p.auth, r, X)
    /\ TimerHome(p.authTimer, "auth", X)
    /\ HeadersHome(p.headers, X)
    /\ AskedHome(p.asked, r, X)

\* Path values and query rows pass into each other.
RowsTogether(X) == "path" \in X <=> "query" \in X

IInv ==
    /\ open \in Requests
    /\ tabs \in [Requests -> Tabs]
    /\ RowsTogether(strayed)
    /\ StoreHome(stored, strayed)
    /\ PaneHome(pane, open, strayed)
    /\ AskedShows(pane.asked, open)

----------------------------------------------------------------------------
(* Stores. *)

LEMMA UpdateHome ==
    ASSUME NEW X, NEW S, StoreHome(S, X), NEW r \in Requests, NEW copy, HomeCopy(copy, r, X),
           NEW field \in Fields, NEW value \in Values, Home(field, value, r, X)
    PROVE  StoreHome(Update(S, r, copy, field, value), X)
  <1> DEFINE new == [f \in Fields |-> CASE f = field -> value
                                       [] f \in {"body", "auth"} /\ f # field -> S[r][f]
                                       [] OTHER -> copy[f]]
  <1>1. ASSUME NEW f \in Fields
        PROVE  \/ new[f] = value /\ f = field
               \/ new[f] = S[r][f] \/ new[f] = copy[f]
    OBVIOUS
  <1>2. \A f \in Fields : Home(f, new[f], r, X)
    <2> HIDE DEF new
    <2> QED  BY <1>1 DEF StoreHome, HomeCopy
  <1>3. new \in Stored
    BY DEF StoreHome, HomeCopy, Stored
  <1>4. HomeCopy(new, r, X)
    BY <1>2, <1>3 DEF HomeCopy
  <1>5. Update(S, r, copy, field, value) = [S EXCEPT ![r] = new]
    BY DEF Update
  <1> HIDE DEF new
  <1> QED  BY <1>3, <1>4, <1>5 DEF StoreHome

\* A copy with another path.
LEMMA OtherPathHome ==
    ASSUME NEW X, NEW r \in Requests, NEW copy, HomeCopy(copy, r, X),
           NEW v \in Values, Home("path", v, r, X)
    PROVE  HomeCopy([copy EXCEPT !.path = v], r, X)
  <1> DEFINE new == [copy EXCEPT !.path = v]
  <1>1. new \in Stored /\ \A f \in Fields : new[f] = IF f = "path" THEN v ELSE copy[f]
    BY DEF HomeCopy, Stored, Fields
  <1> HIDE DEF new
  <1>2. HomeCopy(new, r, X)
    BY <1>1 DEF HomeCopy
  <1> QED  BY <1>2 DEF new

\* What is true of the open request and of the pane.
LEMMA OpenFacts ==
    ASSUME IInv
    PROVE  /\ open \in Requests /\ {open} \in Values /\ {} \in Values
           /\ pane \in Pane /\ PaneHome(pane, open, strayed)
           /\ StoreHome(stored, strayed) /\ HomeCopy(stored[open], open, strayed)
           /\ stored[open] \in Stored
           /\ \A f \in Fields : stored[open][f] \in Values /\ Home(f, stored[open][f], open, strayed)
           /\ \A f \in Fields : Home(f, {open}, open, strayed) /\ Home(f, {}, open, strayed)
  <1>1. open \in Requests /\ PaneHome(pane, open, strayed) /\ StoreHome(stored, strayed)
    BY DEF IInv
  <1>2. stored[open] \in Stored /\ HomeCopy(stored[open], open, strayed)
    BY <1>1 DEF StoreHome
  <1>3. \A f \in Fields : stored[open][f] \in Values /\ Home(f, stored[open][f], open, strayed)
    BY <1>2 DEF HomeCopy, Stored
  <1> QED  BY <1>1, <1>2, <1>3 DEF PaneHome, Values, Home

LEMMA SaveHome ==
    ASSUME IInv, NEW field \in Fields, NEW v \in Values, Home(field, v, open, strayed)
    PROVE  StoreHome(Save(field, v), strayed)
  BY OpenFacts, UpdateHome DEF Save

LEMMA ParamsStoredHome ==
    ASSUME IInv, NEW path \in Values, NEW query \in Values,
           Home("path", path, open, strayed), Home("query", query, open, strayed)
    PROVE  StoreHome(ParamsStored(path, query), strayed)
  <1>1. HomeCopy([stored[open] EXCEPT !.path = path], open, strayed)
    BY OpenFacts, OtherPathHome
  <1>2. "query" \in Fields
    BY DEF Fields
  <1> QED  BY <1>1, <1>2, OpenFacts, UpdateHome DEF ParamsStored

\* What the URL bar shows is the open request's.
LEMMA UrlShownHome ==
    ASSUME IInv
    PROVE  UrlShown \in Values /\ Home("url", UrlShown, open, strayed)
  <1>1. stored[open].url \in Values /\ Home("url", stored[open].url, open, strayed)
    BY OpenFacts DEF Fields
  <1>2. pane.url # None => pane.url.value \in Values /\ Home("url", pane.url.value, pane.url.for, strayed)
    BY OpenFacts DEF PaneHome, Pane, UrlHome
  <1> QED  BY <1>1, <1>2 DEF UrlShown

LEMMA UrlStoredHome ==
    ASSUME IInv
    PROVE  StoreHome(UrlStored(stored), strayed)
  <1>1. "url" \in Fields
    BY DEF Fields
  <1> QED  BY <1>1, SaveHome, UrlShownHome, OpenFacts DEF UrlStored

----------------------------------------------------------------------------
(* A pane at home in which one field changes for a value at home.          *)

LEMMA TabSet ==
    ASSUME NEW X, NEW r, NEW p, PaneHome(p, r, X), NEW t \in Tabs
    PROVE  PaneHome([p EXCEPT !.tab = t], r, X)
  <1> DEFINE q == [p EXCEPT !.tab = t]
  <1>1. q \in Pane
    BY DEF PaneHome, Pane
  <1>2. /\ q.url = p.url /\ q.bar = p.bar /\ q.path = p.path /\ q.body = p.body
        /\ q.bodyTimer = p.bodyTimer /\ q.auth = p.auth
        /\ q.authTimer = p.authTimer /\ q.headers = p.headers /\ q.asked = p.asked
    BY DEF PaneHome, Pane
  <1>3. PaneHome(q, r, X)
    <2> HIDE DEF q
    <2> QED  BY <1>1, <1>2 DEF PaneHome
  <1> QED  BY <1>3

LEMMA UrlSet ==
    ASSUME NEW X, NEW r, NEW p, PaneHome(p, r, X), NEW u \in {None} \cup [for : Requests, value : Values],
           UrlHome(u, X)
    PROVE  PaneHome([p EXCEPT !.url = u], r, X)
  <1> DEFINE q == [p EXCEPT !.url = u]
  <1>1. q \in Pane
    BY DEF PaneHome, Pane
  <1>2. /\ q.url = u /\ q.bar = p.bar /\ q.path = p.path /\ q.body = p.body
        /\ q.bodyTimer = p.bodyTimer /\ q.auth = p.auth
        /\ q.authTimer = p.authTimer /\ q.headers = p.headers /\ q.asked = p.asked
    BY DEF PaneHome, Pane
  <1>3. PaneHome(q, r, X)
    <2> HIDE DEF q
    <2> QED  BY <1>1, <1>2 DEF PaneHome
  <1> QED  BY <1>3

LEMMA BarSet ==
    ASSUME NEW X, NEW r, NEW p, PaneHome(p, r, X), NEW v \in Values,
           BarHome(v, X)
    PROVE  PaneHome([p EXCEPT !.bar = v], r, X)
  <1> DEFINE q == [p EXCEPT !.bar = v]
  <1>1. q \in Pane
    BY DEF PaneHome, Pane
  <1>2. /\ q.url = p.url /\ q.bar = v /\ q.path = p.path /\ q.body = p.body
        /\ q.bodyTimer = p.bodyTimer /\ q.auth = p.auth
        /\ q.authTimer = p.authTimer /\ q.headers = p.headers /\ q.asked = p.asked
    BY DEF PaneHome, Pane
  <1>3. PaneHome(q, r, X)
    <2> HIDE DEF q
    <2> QED  BY <1>1, <1>2 DEF PaneHome
  <1> QED  BY <1>3

LEMMA PathSet ==
    ASSUME NEW X, NEW r, NEW p, PaneHome(p, r, X), NEW v \in Values,
           Home("path", v, r, X)
    PROVE  PaneHome([p EXCEPT !.path = v], r, X)
  <1> DEFINE q == [p EXCEPT !.path = v]
  <1>1. q \in Pane
    BY DEF PaneHome, Pane
  <1>2. /\ q.url = p.url /\ q.bar = p.bar /\ q.path = v /\ q.body = p.body
        /\ q.bodyTimer = p.bodyTimer /\ q.auth = p.auth
        /\ q.authTimer = p.authTimer /\ q.headers = p.headers /\ q.asked = p.asked
    BY DEF PaneHome, Pane
  <1>3. PaneHome(q, r, X)
    <2> HIDE DEF q
    <2> QED  BY <1>1, <1>2 DEF PaneHome
  <1> QED  BY <1>3

LEMMA BodySet ==
    ASSUME NEW X, NEW r, NEW p, PaneHome(p, r, X), NEW v \in Values,
           Home("body", v, r, X)
    PROVE  PaneHome([p EXCEPT !.body = v], r, X)
  <1> DEFINE q == [p EXCEPT !.body = v]
  <1>1. q \in Pane
    BY DEF PaneHome, Pane
  <1>2. /\ q.url = p.url /\ q.bar = p.bar /\ q.path = p.path /\ q.body = v
        /\ q.bodyTimer = p.bodyTimer /\ q.auth = p.auth
        /\ q.authTimer = p.authTimer /\ q.headers = p.headers /\ q.asked = p.asked
    BY DEF PaneHome, Pane
  <1>3. PaneHome(q, r, X)
    <2> HIDE DEF q
    <2> QED  BY <1>1, <1>2 DEF PaneHome
  <1> QED  BY <1>3

LEMMA SeenBodySet ==
    ASSUME NEW X, NEW r, NEW p, PaneHome(p, r, X), NEW v \in Values
    PROVE  PaneHome([p EXCEPT !.seenBody = v], r, X)
  <1> DEFINE q == [p EXCEPT !.seenBody = v]
  <1>1. q \in Pane
    BY DEF PaneHome, Pane
  <1>2. /\ q.url = p.url /\ q.bar = p.bar /\ q.path = p.path /\ q.body = p.body
        /\ q.bodyTimer = p.bodyTimer /\ q.auth = p.auth
        /\ q.authTimer = p.authTimer /\ q.headers = p.headers /\ q.asked = p.asked
    BY DEF PaneHome, Pane
  <1>3. PaneHome(q, r, X)
    <2> HIDE DEF q
    <2> QED  BY <1>1, <1>2 DEF PaneHome
  <1> QED  BY <1>3

LEMMA BodyTimerSet ==
    ASSUME NEW X, NEW r, NEW p, PaneHome(p, r, X), NEW t \in {None} \cup Timer,
           TimerHome(t, "body", X)
    PROVE  PaneHome([p EXCEPT !.bodyTimer = t], r, X)
  <1> DEFINE q == [p EXCEPT !.bodyTimer = t]
  <1>1. q \in Pane
    BY DEF PaneHome, Pane
  <1>2. /\ q.url = p.url /\ q.bar = p.bar /\ q.path = p.path /\ q.body = p.body
        /\ q.bodyTimer = t /\ q.auth = p.auth /\ q.authTimer = p.authTimer
        /\ q.headers = p.headers /\ q.asked = p.asked
    BY DEF PaneHome, Pane
  <1>3. PaneHome(q, r, X)
    <2> HIDE DEF q
    <2> QED  BY <1>1, <1>2 DEF PaneHome
  <1> QED  BY <1>3

LEMMA AuthSet ==
    ASSUME NEW X, NEW r, NEW p, PaneHome(p, r, X), NEW v \in Values,
           Home("auth", v, r, X)
    PROVE  PaneHome([p EXCEPT !.auth = v], r, X)
  <1> DEFINE q == [p EXCEPT !.auth = v]
  <1>1. q \in Pane
    BY DEF PaneHome, Pane
  <1>2. /\ q.url = p.url /\ q.bar = p.bar /\ q.path = p.path /\ q.body = p.body
        /\ q.bodyTimer = p.bodyTimer /\ q.auth = v /\ q.authTimer = p.authTimer
        /\ q.headers = p.headers /\ q.asked = p.asked
    BY DEF PaneHome, Pane
  <1>3. PaneHome(q, r, X)
    <2> HIDE DEF q
    <2> QED  BY <1>1, <1>2 DEF PaneHome
  <1> QED  BY <1>3

LEMMA SeenAuthSet ==
    ASSUME NEW X, NEW r, NEW p, PaneHome(p, r, X), NEW v \in Values
    PROVE  PaneHome([p EXCEPT !.seenAuth = v], r, X)
  <1> DEFINE q == [p EXCEPT !.seenAuth = v]
  <1>1. q \in Pane
    BY DEF PaneHome, Pane
  <1>2. /\ q.url = p.url /\ q.bar = p.bar /\ q.path = p.path /\ q.body = p.body
        /\ q.bodyTimer = p.bodyTimer /\ q.auth = p.auth
        /\ q.authTimer = p.authTimer /\ q.headers = p.headers /\ q.asked = p.asked
    BY DEF PaneHome, Pane
  <1>3. PaneHome(q, r, X)
    <2> HIDE DEF q
    <2> QED  BY <1>1, <1>2 DEF PaneHome
  <1> QED  BY <1>3

LEMMA AuthTimerSet ==
    ASSUME NEW X, NEW r, NEW p, PaneHome(p, r, X), NEW t \in {None} \cup Timer,
           TimerHome(t, "auth", X)
    PROVE  PaneHome([p EXCEPT !.authTimer = t], r, X)
  <1> DEFINE q == [p EXCEPT !.authTimer = t]
  <1>1. q \in Pane
    BY DEF PaneHome, Pane
  <1>2. /\ q.url = p.url /\ q.bar = p.bar /\ q.path = p.path /\ q.body = p.body
        /\ q.bodyTimer = p.bodyTimer /\ q.auth = p.auth /\ q.authTimer = t
        /\ q.headers = p.headers /\ q.asked = p.asked
    BY DEF PaneHome, Pane
  <1>3. PaneHome(q, r, X)
    <2> HIDE DEF q
    <2> QED  BY <1>1, <1>2 DEF PaneHome
  <1> QED  BY <1>3

LEMMA HeadersSet ==
    ASSUME NEW X, NEW r, NEW p, PaneHome(p, r, X), NEW h \in {None} \cup [of : Requests, was : Stored],
           HeadersHome(h, X)
    PROVE  PaneHome([p EXCEPT !.headers = h], r, X)
  <1> DEFINE q == [p EXCEPT !.headers = h]
  <1>1. q \in Pane
    BY DEF PaneHome, Pane
  <1>2. /\ q.url = p.url /\ q.bar = p.bar /\ q.path = p.path /\ q.body = p.body
        /\ q.bodyTimer = p.bodyTimer /\ q.auth = p.auth
        /\ q.authTimer = p.authTimer /\ q.headers = h /\ q.asked = p.asked
    BY DEF PaneHome, Pane
  <1>3. PaneHome(q, r, X)
    <2> HIDE DEF q
    <2> QED  BY <1>1, <1>2 DEF PaneHome
  <1> QED  BY <1>3

LEMMA AskedSet ==
    ASSUME NEW X, NEW r, NEW p, PaneHome(p, r, X), NEW s \in {None} \cup Asked,
           AskedHome(s, r, X)
    PROVE  PaneHome([p EXCEPT !.asked = s], r, X)
  <1> DEFINE q == [p EXCEPT !.asked = s]
  <1>1. q \in Pane
    BY DEF PaneHome, Pane
  <1>2. /\ q.url = p.url /\ q.bar = p.bar /\ q.path = p.path /\ q.body = p.body
        /\ q.bodyTimer = p.bodyTimer /\ q.auth = p.auth
        /\ q.authTimer = p.authTimer /\ q.headers = p.headers /\ q.asked = s
    BY DEF PaneHome, Pane
  <1>3. PaneHome(q, r, X)
    <2> HIDE DEF q
    <2> QED  BY <1>1, <1>2 DEF PaneHome
  <1> QED  BY <1>3

----------------------------------------------------------------------------
(* The hooks of a render. *)

\* What is excepted only grows.
LEMMA MonotoneHome ==
    ASSUME NEW X, NEW Y, X \subseteq Y
    PROVE  /\ \A S : StoreHome(S, X) => StoreHome(S, Y)
           /\ \A p, r : PaneHome(p, r, X) => PaneHome(p, r, Y)
  <1>1. \A f, v, r : Home(f, v, r, X) => Home(f, v, r, Y)
    BY DEF Home
  <1>2. \A copy, r : HomeCopy(copy, r, X) => HomeCopy(copy, r, Y)
    BY <1>1 DEF HomeCopy
  <1>3. \A t, f : TimerHome(t, f, X) => TimerHome(t, f, Y)
    BY <1>1, <1>2 DEF TimerHome
  <1>4. \A u : UrlHome(u, X) => UrlHome(u, Y)
    BY <1>1 DEF UrlHome
  <1>5. \A v : BarHome(v, X) => BarHome(v, Y)
    BY DEF BarHome
  <1>6. \A h : HeadersHome(h, X) => HeadersHome(h, Y)
    BY <1>2 DEF HeadersHome
  <1>7. \A s, r : AskedHome(s, r, X) => AskedHome(s, r, Y)
    BY <1>1, <1>2 DEF AskedHome
  <1>8. \A S : StoreHome(S, X) => StoreHome(S, Y)
    BY <1>2 DEF StoreHome
  <1>9. ASSUME NEW p, NEW r, PaneHome(p, r, X)
        PROVE  PaneHome(p, r, Y)
    BY <1>1, <1>3, <1>4, <1>5, <1>6, <1>7, <1>9 DEF PaneHome
  <1> QED  BY <1>8, <1>9

\* Another request takes the editors over, and nothing they kept stays.
LEMMA SwitchedPane ==
    ASSUME NEW p \in Pane, NEW S, NEW r \in Requests, r # open,
           S[r] \in Stored, tabs[r] \in Tabs,
           NEW bodied \in BodyShown(DraftShown(p, S, r), S, r),
           NEW edited \in AuthShown(bodied, S, r)
    PROVE  /\ edited \in Pane
           /\ edited.url = None /\ edited.bar = p.bar /\ edited.path = S[r].path
           /\ edited.body = S[r].body /\ edited.bodyTimer = None
           /\ edited.auth = S[r].auth /\ edited.authTimer = None
           /\ edited.headers = p.headers /\ edited.asked = p.asked
  <1>1. S[r].path \in Values /\ S[r].body \in Values /\ S[r].auth \in Values
    BY DEF Stored, Fields
  <1> DEFINE pathed == [p EXCEPT !.path = S[r].path]
             tabbed == [pathed EXCEPT !.tab = tabs[r]]
             drafted == [tabbed EXCEPT !.url = None]
             body == [drafted EXCEPT !.body = S[r].body]
             seen == [body EXCEPT !.seenBody = S[r].body]
             auth == [bodied EXCEPT !.auth = S[r].auth]
             seenAuth == [auth EXCEPT !.seenAuth = S[r].auth]
  <1>2. DraftShown(p, S, r) = drafted
    BY DEF DraftShown
  <1>3. bodied = [seen EXCEPT !.bodyTimer = None]
    BY <1>2 DEF BodyShown, OwnBody
  <1>4. edited = [seenAuth EXCEPT !.authTimer = None]
    BY DEF AuthShown
  <1>5. /\ pathed \in Pane /\ pathed.path = S[r].path /\ pathed.bar = p.bar
        /\ pathed.headers = p.headers /\ pathed.asked = p.asked
    BY <1>1 DEF Pane
  <1> HIDE DEF pathed
  <1>6. /\ tabbed \in Pane /\ tabbed.path = pathed.path /\ tabbed.bar = pathed.bar
        /\ tabbed.headers = pathed.headers /\ tabbed.asked = pathed.asked
    BY <1>5 DEF Pane
  <1> HIDE DEF tabbed
  <1>7. /\ drafted \in Pane /\ drafted.url = None
        /\ drafted.path = tabbed.path /\ drafted.bar = tabbed.bar
        /\ drafted.headers = tabbed.headers /\ drafted.asked = tabbed.asked
    BY <1>6 DEF Pane
  <1> HIDE DEF drafted
  <1>8. /\ body \in Pane /\ body.url = drafted.url /\ body.body = S[r].body
        /\ body.path = drafted.path /\ body.bar = drafted.bar
        /\ body.headers = drafted.headers /\ body.asked = drafted.asked
    BY <1>1, <1>7 DEF Pane
  <1> HIDE DEF body
  <1>9. /\ seen \in Pane /\ seen.url = body.url /\ seen.body = body.body
        /\ seen.path = body.path /\ seen.bar = body.bar
        /\ seen.headers = body.headers /\ seen.asked = body.asked
    BY <1>1, <1>8 DEF Pane
  <1> HIDE DEF seen
  <1>10. /\ bodied \in Pane /\ bodied.url = seen.url /\ bodied.body = seen.body
         /\ bodied.path = seen.path /\ bodied.bar = seen.bar /\ bodied.bodyTimer = None
         /\ bodied.headers = seen.headers /\ bodied.asked = seen.asked
    BY <1>3, <1>9 DEF Pane
  <1>11. /\ auth \in Pane /\ auth.url = bodied.url /\ auth.body = bodied.body
         /\ auth.path = bodied.path /\ auth.bar = bodied.bar /\ auth.bodyTimer = bodied.bodyTimer
         /\ auth.headers = bodied.headers /\ auth.asked = bodied.asked /\ auth.auth = S[r].auth
    BY <1>1, <1>10 DEF Pane
  <1> HIDE DEF auth
  <1>12. /\ seenAuth \in Pane /\ seenAuth.url = auth.url /\ seenAuth.body = auth.body
         /\ seenAuth.path = auth.path /\ seenAuth.bar = auth.bar
         /\ seenAuth.bodyTimer = auth.bodyTimer /\ seenAuth.headers = auth.headers
         /\ seenAuth.asked = auth.asked /\ seenAuth.auth = auth.auth
    BY <1>1, <1>11 DEF Pane
  <1> HIDE DEF seenAuth
  <1>13. /\ edited \in Pane /\ edited.url = seenAuth.url /\ edited.body = seenAuth.body
         /\ edited.path = seenAuth.path /\ edited.bar = seenAuth.bar
         /\ edited.bodyTimer = seenAuth.bodyTimer /\ edited.headers = seenAuth.headers
         /\ edited.asked = seenAuth.asked /\ edited.auth = seenAuth.auth
         /\ edited.authTimer = None
    BY <1>4, <1>12 DEF Pane
  <1> QED  BY <1>5, <1>6, <1>7, <1>8, <1>9, <1>10, <1>11, <1>12, <1>13

\* The same request's editors may take up what the store now has of it.
LEMMA SamePaneHome ==
    ASSUME NEW X, NEW p, PaneHome(p, open, X), NEW S, S[open] \in Stored,
           HomeCopy(S[open], open, X),
           NEW bodied \in BodyShown(DraftShown(p, S, open), S, open),
           NEW edited \in AuthShown(bodied, S, open)
    PROVE  PaneHome(edited, open, X)
  <1>1. /\ S[open].body \in Values /\ Home("body", S[open].body, open, X)
        /\ S[open].auth \in Values /\ Home("auth", S[open].auth, open, X)
    BY DEF Stored, HomeCopy, Fields
  <1> DEFINE drafted == DraftShown(p, S, open)
             read == [bodied EXCEPT !.auth = S[open].auth, !.seenAuth = S[open].auth]
             seen == [bodied EXCEPT !.seenAuth = S[open].auth]
  <1>2. PaneHome(drafted, open, X)
    <2>1. PaneHome([p EXCEPT !.url = None], open, X)
      BY UrlSet DEF UrlHome
    <2> QED  BY <2>1 DEF DraftShown
  <1>3. PaneHome(bodied, open, X)
    <2> HIDE DEF drafted
    <2>1. PaneHome([drafted EXCEPT !.body = S[open].body], open, X)
      BY <1>1, <1>2, BodySet
    <2>2. PaneHome([drafted EXCEPT !.body = S[open].body, !.seenBody = S[open].body], open, X)
      BY <1>1, <2>1, SeenBodySet
    <2>3. PaneHome([drafted EXCEPT !.body = S[open].body, !.seenBody = S[open].body,
                                   !.bodyTimer = None], open, X)
      BY <2>2, BodyTimerSet DEF TimerHome
    <2>4. \/ bodied = drafted
          \/ bodied = [drafted EXCEPT !.body = S[open].body, !.seenBody = S[open].body,
                                      !.bodyTimer = None]
      BY DEF BodyShown, drafted
    <2> QED  BY <1>2, <2>3, <2>4
  <1>4. PaneHome(seen, open, X)
    BY <1>1, <1>3, SeenAuthSet
  <1>5. PaneHome(read, open, X)
    <2>1. PaneHome([bodied EXCEPT !.auth = S[open].auth], open, X)
      BY <1>1, <1>3, AuthSet
    <2> QED  BY <1>1, <2>1, SeenAuthSet
  <1>6. edited \in {bodied, seen, read}
    BY DEF AuthShown
  <1> HIDE DEF seen, read
  <1> QED  BY <1>3, <1>4, <1>5, <1>6

\* The widget that waits is shown with the pane, or no longer is.
LEMMA AskedShownHome ==
    ASSUME NEW X, NEW r \in Requests, NEW p, PaneHome(p, r, X), NEW S, S[r] \in Stored,
           HomeCopy(S[r], r, X)
    PROVE  /\ PaneHome(AskedShown(p, S, r), r, X)
           /\ AskedShows(AskedShown(p, S, r).asked, r)
  <1> DEFINE s == p.asked
             q == AskedShown(p, S, r)
  <1>1. CASE s = None \/ ~s.mounted
    BY <1>1 DEF AskedShown, AskedShows
  <1>2. CASE s # None /\ s.mounted
    <2>1. s \in Asked /\ p \in Pane /\ AskedHome(s, r, X) /\ Home("body", p.body, r, X)
          /\ p.body \in Values
      BY <1>2 DEF PaneHome, Pane
    <2>2. CASE p.tab \notin TabsOf(s.row)
      <3> DEFINE t == [s EXCEPT !.mounted = FALSE]
      <3>1. t \in Asked /\ ~t.mounted
        BY <2>1 DEF Asked
      <3>2. t.row = s.row /\ t.of = s.of /\ t.on = s.on /\ t.was = s.was /\ t.doc = s.doc
        BY <2>1 DEF Asked
      <3>3. q = [p EXCEPT !.asked = t]
        BY <1>2, <2>1, <2>2 DEF AskedShown, Pane
      <3> HIDE DEF t, q, s
      <3>4. Strays(t) = Strays(s) \/ t = None
        BY <1>2, <3>2 DEF Strays
      <3>5. AskedHome(t, r, X)
        BY <1>2, <2>1, <3>2, <3>4 DEF AskedHome
      <3>6. PaneHome(q, r, X)
        BY <3>1, <3>3, <3>5, AskedSet
      <3>7. q.asked = t
        BY <2>1, <3>3 DEF Pane
      <3> QED  BY <3>1, <3>6, <3>7 DEF AskedShows, q
    <2>3. CASE p.tab \in TabsOf(s.row) /\ s.row \in Rendered
      <3> DEFINE t == [s EXCEPT !.on = r, !.was = S[r]]
      <3>1. t \in Asked /\ t.on = r /\ t.was = S[r]
        BY <2>1 DEF Asked
      <3>2. t.row = s.row /\ t.of = s.of /\ t.doc = s.doc /\ t.mounted = s.mounted
        BY <2>1 DEF Asked
      <3>3. q = [p EXCEPT !.asked = t]
        BY <1>2, <2>1, <2>3 DEF AskedShown, Pane, Rendered
      <3> HIDE DEF t, q, s
      <3>4. Strays(t) = Strays(s) \/ t = None
        BY <1>2, <3>2 DEF Strays
      <3>5. AskedHome(t, r, X)
        BY <1>2, <2>1, <2>3, <3>1, <3>2, <3>4 DEF AskedHome
      <3>6. PaneHome(q, r, X)
        BY <3>1, <3>3, <3>5, AskedSet
      <3>7. q.asked = t
        BY <2>1, <3>3 DEF Pane
      <3> QED  BY <3>1, <3>6, <3>7 DEF AskedShows, q
    <2>4. CASE p.tab \in TabsOf(s.row) /\ s.row = "text"
      <3> DEFINE t == [s EXCEPT !.doc = p.body]
      <3>1. t \in Asked /\ t.doc = p.body
        BY <2>1 DEF Asked
      <3>2. /\ t.row = s.row /\ t.of = s.of /\ t.on = s.on /\ t.was = s.was
            /\ t.mounted = s.mounted
        BY <2>1 DEF Asked
      <3>3. q = [p EXCEPT !.asked = t]
        BY <1>2, <2>1, <2>4 DEF AskedShown, Pane
      <3> HIDE DEF t, q, s
      <3>4. Strays(t) = Strays(s) \/ t = None
        BY <1>2, <3>2 DEF Strays
      <3>5. Home("body", t.doc, t.of, X)
        <4>1. CASE s.of = r
          BY <2>1, <3>1, <3>2, <4>1
        <4>2. CASE s.of # r
          <5>1. "body" \in Strays(s)
            BY <1>2, <2>4 DEF Strays
          <5> QED  BY <1>2, <2>1, <4>2, <5>1 DEF AskedHome, Home
        <4> QED  BY <4>1, <4>2
      <3>6. AskedHome(t, r, X)
        BY <1>2, <2>1, <2>4, <3>2, <3>4, <3>5 DEF AskedHome, Rendered
      <3>7. PaneHome(q, r, X)
        BY <3>1, <3>3, <3>6, AskedSet
      <3>8. q.asked = t
        BY <2>1, <3>3 DEF Pane
      <3> QED  BY <2>4, <3>2, <3>7, <3>8 DEF AskedShows, Rendered, q
    <2>5. CASE p.tab \in TabsOf(s.row) /\ s.row \notin Rendered \cup {"text"}
      BY <1>2, <2>5 DEF AskedShown, AskedShows, Rendered
    <2> QED  BY <2>2, <2>3, <2>4, <2>5
  <1> QED  BY <1>1, <1>2

\* What every step of the pane comes to.
LEMMA RenderHome ==
    ASSUME IInv, NEW p, PaneHome(p, open, strayed), NEW S, StoreHome(S, strayed),
           NEW r \in Requests, Render(p, S, r)
    PROVE  /\ open' \in Requests /\ RowsTogether(strayed')
           /\ StoreHome(stored', strayed')
           /\ PaneHome(pane', open', strayed') /\ AskedShows(pane'.asked, open')
  <1> DEFINE X == strayed'
  <1>1. PICK bodied \in BodyShown(DraftShown(p, S, r), S, r) :
           \E edited \in AuthShown(bodied, S, r) :
               pane' = AskedShown(HeadersShown(edited, S, r), S, r)
    BY DEF Render
  <1>2. PICK edited \in AuthShown(bodied, S, r) :
           pane' = AskedShown(HeadersShown(edited, S, r), S, r)
    BY <1>1
  <1>3. stored' = S /\ open' = r
        /\ X = IF r = open THEN strayed ELSE strayed \cup Strays(p.asked)
    BY DEF Render
  <1>4. strayed \subseteq X /\ RowsTogether(X)
    BY <1>3 DEF IInv, RowsTogether, Strays
  <1> HIDE DEF X
  <1>5. PaneHome(p, open, X) /\ StoreHome(S, X)
    BY <1>4, MonotoneHome
  <1>6. S[r] \in Stored /\ HomeCopy(S[r], r, X) /\ tabs[r] \in Tabs
    BY <1>5 DEF StoreHome, IInv
  <1>7. PaneHome(edited, r, X)
    <2>1. CASE r = open
      BY <1>5, <1>6, <2>1, SamePaneHome
    <2>2. CASE r # open
      <3>1. /\ Home("path", S[r].path, r, X) /\ Home("body", S[r].body, r, X)
            /\ Home("auth", S[r].auth, r, X)
        BY <1>6 DEF HomeCopy, Fields
      <3>2. p \in Pane /\ BarHome(p.bar, X) /\ HeadersHome(p.headers, X) /\ AskedHome(p.asked, open, X)
        BY <1>5 DEF PaneHome
      <3>3. /\ edited \in Pane
            /\ edited.url = None /\ edited.bar = p.bar /\ edited.path = S[r].path
            /\ edited.body = S[r].body /\ edited.bodyTimer = None
            /\ edited.auth = S[r].auth /\ edited.authTimer = None
            /\ edited.headers = p.headers /\ edited.asked = p.asked
        BY <1>6, <2>2, <3>2, SwitchedPane
      <3>4. Strays(p.asked) \subseteq X
        BY <1>3, <2>2
      <3>5. AskedHome(p.asked, r, X)
        BY <3>2, <3>4 DEF AskedHome
      <3>6. UrlHome(None, X) /\ TimerHome(None, "body", X) /\ TimerHome(None, "auth", X)
        BY DEF UrlHome, TimerHome
      <3> QED  BY <3>1, <3>2, <3>3, <3>5, <3>6 DEF PaneHome
    <2> QED  BY <2>1, <2>2
  <1>8. PaneHome(HeadersShown(edited, S, r), r, X)
    <2> DEFINE h == [of |-> r, was |-> S[r]]
    <2>1. h \in {None} \cup [of : Requests, was : Stored] /\ HeadersHome(h, X)
      BY <1>6 DEF HeadersHome
    <2>2. HeadersShown(edited, S, r) \in {edited, [edited EXCEPT !.headers = h]}
      BY DEF HeadersShown
    <2> HIDE DEF h
    <2>3. PaneHome([edited EXCEPT !.headers = h], r, X)
      BY <1>7, <2>1, HeadersSet
    <2> QED  BY <1>7, <2>2, <2>3
  <1>9. /\ PaneHome(pane', r, X) /\ AskedShows(pane'.asked, r)
    BY <1>2, <1>6, <1>8, AskedShownHome
  <1> QED  BY <1>3, <1>4, <1>5, <1>9 DEF X

----------------------------------------------------------------------------
(* The steps.  Each renders a pane and a store that are at home. *)

LEMMA RenderIInv ==
    ASSUME IInv, NEW p, PaneHome(p, open, strayed), NEW S, StoreHome(S, strayed),
           NEW r \in Requests, Render(p, S, r), UNCHANGED tabs
    PROVE  IInv'
  BY RenderHome DEF IInv

\* What another request's answer left in the bar may join what is typed there.
LEMMA LeftHome ==
    ASSUME IInv, NEW left \in {{}, pane.bar}, NEW v \in Values,
           NEW field \in {"url", "path", "query"}, Home(field, v, open, strayed)
    PROVE  v \cup left \in Values /\ Home(field, v \cup left, open, strayed)
  <1>1. pane.bar \in Values /\ BarHome(pane.bar, strayed)
    BY OpenFacts DEF PaneHome, Pane
  <1> QED  BY <1>1 DEF BarHome, Home, Values

LEMMA TypedHome ==
    ASSUME IInv, NEW left \in {{}, pane.bar}, NEW v \in Values, Home("url", v, open, strayed)
    PROVE  PaneHome(Typed(v, left), open, strayed)
  <1> DEFINE u == [for |-> open, value |-> v \cup left]
  <1>1. u \in {None} \cup [for : Requests, value : Values] /\ UrlHome(u, strayed)
    BY LeftHome, OpenFacts DEF UrlHome
  <1> HIDE DEF u
  <1>2. PaneHome([pane EXCEPT !.url = u], open, strayed)
    BY <1>1, OpenFacts, UrlSet
  <1>3. PaneHome([pane EXCEPT !.url = u, !.bar = {}], open, strayed)
    BY <1>2, OpenFacts, BarSet DEF BarHome
  <1> QED  BY <1>3 DEF Typed, u

\* A save of what the open request now is.
LEMMA PendingHome ==
    ASSUME IInv, NEW field \in {"body", "auth"}, NEW v \in Values, Home(field, v, open, strayed)
    PROVE  Pending(v) \in Timer /\ TimerHome(Pending(v), field, strayed)
  BY OpenFacts DEF Pending, Timer, TimerHome

LEMMA UrlTypingIInv ==
    ASSUME IInv, NEW v \in {{open}, {}},
           TypeUrl(v) \/ PickMethod(v) \/ TypeQuestionMark(v) \/ PasteCommand(v)
    PROVE  IInv'
  <1>1. /\ v \in Values /\ \A f \in Fields : Home(f, v, open, strayed)
        /\ "url" \in Fields /\ "method" \in Fields /\ "query" \in Fields
    BY OpenFacts DEF Fields
  <1>2. CASE TypeUrl(v)
    <2>1. PICK left \in {{}, pane.bar} : Render(Typed(v, left), stored, open)
      BY <1>2 DEF TypeUrl
    <2>2. PaneHome(Typed(v, left), open, strayed)
      BY <1>1, TypedHome
    <2> QED  BY <1>2, <2>1, <2>2, OpenFacts, RenderIInv DEF TypeUrl
  <1>3. CASE PickMethod(v)
    <2>1. StoreHome(Save("method", v), strayed)
      BY <1>1, SaveHome
    <2> QED  BY <1>3, <2>1, OpenFacts, RenderIInv DEF PickMethod
  <1>4. CASE TypeQuestionMark(v)
    <2>1. PICK left \in {{}, pane.bar} :
              Render([Typed(UrlShown, left) EXCEPT !.tab = "params"],
                     IF v \cup left = {} THEN stored
                     ELSE ParamsStored(pane.path, v \cup left), open)
      BY <1>4 DEF TypeQuestionMark
    <2> DEFINE typed == Typed(UrlShown, left)
               p == [typed EXCEPT !.tab = "params"]
               S == IF v \cup left = {} THEN stored ELSE ParamsStored(pane.path, v \cup left)
    <2>2. PaneHome(typed, open, strayed)
      BY UrlShownHome, TypedHome
    <2> HIDE DEF typed
    <2>3. PaneHome(p, open, strayed)
      BY <2>2, TabSet DEF Tabs
    <2>4. v \cup left \in Values /\ Home("query", v \cup left, open, strayed)
      BY <1>1, LeftHome
    <2>5. pane.path \in Values /\ Home("path", pane.path, open, strayed)
      BY OpenFacts DEF PaneHome, Pane
    <2>6. StoreHome(S, strayed)
      BY <2>4, <2>5, OpenFacts, ParamsStoredHome
    <2>7. Render(p, S, open)
      BY <2>1 DEF typed
    <2> HIDE DEF p, S
    <2>8. tabs' = [tabs EXCEPT ![open] = "params"]
      BY <1>4 DEF TypeQuestionMark
    <2> QED  BY <2>3, <2>6, <2>7, <2>8, OpenFacts, RenderHome DEF IInv, Tabs
  <1>5. CASE PasteCommand(v)
    <2> DEFINE filled == [f \in Fields |-> v]
               S == [stored EXCEPT ![open] = filled]
    <2>1. filled \in Stored /\ \A f \in Fields : filled[f] = v
      BY <1>1 DEF Stored
    <2> HIDE DEF filled
    <2>2. HomeCopy(filled, open, strayed)
      BY <1>1, <2>1 DEF HomeCopy
    <2>3. StoreHome(S, strayed)
      BY <2>1, <2>2, OpenFacts DEF StoreHome
    <2>4. PaneHome(Typed(v, {}), open, strayed)
      BY <1>1, TypedHome
    <2>5. Render(Typed(v, {}), S, open) /\ UNCHANGED tabs
      BY <1>5 DEF PasteCommand, filled
    <2> HIDE DEF S
    <2> QED  BY <2>3, <2>4, <2>5, OpenFacts, RenderIInv
  <1> QED  BY <1>2, <1>3, <1>4, <1>5

\* The params tab; a row may pass from the path to the query and back.
LEMMA ParamsTypingIInv ==
    ASSUME IInv, (\E v \in {{open}, {}} : TypeQuery(v) \/ TypePath(v) \/ RenamePath(v)) \/ PromoteRow
    PROVE  IInv'
  <1>1. /\ stored[open].path \in Values /\ stored[open].query \in Values
        /\ Home("path", stored[open].path, open, strayed)
        /\ Home("query", stored[open].query, open, strayed)
        /\ pane.path \in Values /\ Home("path", pane.path, open, strayed)
        /\ UrlShown \in Values /\ Home("url", UrlShown, open, strayed)
        /\ "url" \in Fields
    BY OpenFacts, UrlShownHome DEF PaneHome, Pane, Fields
  <1>2. \A w \in Values : Home("path", w, open, strayed) <=> Home("query", w, open, strayed)
    BY DEF IInv, RowsTogether, Home
  <1>3. ASSUME NEW v \in {{open}, {}}, TypeQuery(v)
        PROVE  IInv'
    <2>1. PICK row \in {{}, stored[open].path} : Render(pane, ParamsStored(pane.path, v \cup row), open)
      BY <1>3 DEF TypeQuery
    <2>2. v \cup row \in Values /\ Home("path", v \cup row, open, strayed)
      BY <1>1, OpenFacts DEF Home, Values
    <2>3. StoreHome(ParamsStored(pane.path, v \cup row), strayed)
      BY <1>1, <1>2, <2>2, ParamsStoredHome
    <2> QED  BY <1>3, <2>1, <2>3, OpenFacts, RenderIInv DEF TypeQuery
  <1>4. ASSUME NEW v \in {{open}, {}}, TypePath(v)
        PROVE  IInv'
    <2>1. v \in Values /\ Home("path", v, open, strayed)
      BY OpenFacts DEF Fields
    <2>2. StoreHome(ParamsStored(v, stored[open].query), strayed)
      BY <1>1, <2>1, ParamsStoredHome
    <2>3. PaneHome([pane EXCEPT !.path = v], open, strayed)
      BY <2>1, OpenFacts, PathSet
    <2> QED  BY <1>4, <2>2, <2>3, OpenFacts, RenderIInv DEF TypePath
  <1>5. ASSUME NEW v \in {{open}, {}}, RenamePath(v)
        PROVE  IInv'
    <2> DEFINE url == UrlShown \cup v
               path == pane.path \cup v
               copy == [stored[open] EXCEPT !.url = url, !.path = path]
               u == [for |-> open, value |-> url]
    <2>1. /\ url \in Values /\ Home("url", url, open, strayed)
          /\ path \in Values /\ Home("path", path, open, strayed)
      BY <1>1, OpenFacts DEF Home, Values
    <2>2. Render([pane EXCEPT !.path = path, !.url = u], Update(stored, open, copy, "url", url), open)
          /\ UNCHANGED tabs
      BY <1>5 DEF RenamePath
    <2> HIDE DEF url, path
    <2>3. copy \in Stored /\ \A f \in Fields :
              copy[f] = CASE f = "url" -> url [] f = "path" -> path [] OTHER -> stored[open][f]
      BY <2>1, OpenFacts DEF Stored, Fields
    <2> HIDE DEF copy
    <2>4. HomeCopy(copy, open, strayed)
      BY <2>1, <2>3, OpenFacts DEF HomeCopy
    <2>5. StoreHome(Update(stored, open, copy, "url", url), strayed)
      BY <1>1, <2>1, <2>4, OpenFacts, UpdateHome
    <2>6. u \in {None} \cup [for : Requests, value : Values] /\ UrlHome(u, strayed)
      BY <2>1, OpenFacts DEF UrlHome
    <2> HIDE DEF u
    <2>7. PaneHome([pane EXCEPT !.path = path], open, strayed)
      BY <2>1, OpenFacts, PathSet
    <2>8. PaneHome([pane EXCEPT !.path = path, !.url = u], open, strayed)
      BY <2>6, <2>7, UrlSet
    <2> QED  BY <2>2, <2>5, <2>8, OpenFacts, RenderIInv
  <1>6. CASE PromoteRow
    <2>1. StoreHome(ParamsStored(pane.path, {}), strayed)
      BY <1>1, OpenFacts, ParamsStoredHome DEF Fields
    <2>2. PaneHome([pane EXCEPT !.path = stored[open].query], open, strayed)
      BY <1>1, <1>2, OpenFacts, PathSet
    <2> QED  BY <1>6, <2>1, <2>2, OpenFacts, RenderIInv DEF PromoteRow
  <1> QED  BY <1>3, <1>4, <1>5, <1>6

LEMMA TabTypingIInv ==
    ASSUME IInv, NEW v \in {{open}, {}},
           TypeHeader(v) \/ TypeBody(v) \/ PickBodyKind(v) \/ TypeAuth(v)
    PROVE  IInv'
  <1>1. /\ v \in Values /\ \A f \in Fields : Home(f, v, open, strayed)
        /\ "headers" \in Fields /\ "body" \in Fields /\ "auth" \in Fields
    BY OpenFacts DEF Fields
  <1>2. CASE TypeHeader(v)
    <2>1. StoreHome(Save("headers", v), strayed)
      BY <1>1, SaveHome
    <2> QED  BY <1>2, <2>1, OpenFacts, RenderIInv DEF TypeHeader
  <1>3. CASE TypeBody(v)
    <2> DEFINE t == Pending(v)
    <2>1. t \in Timer /\ TimerHome(t, "body", strayed)
      BY <1>1, PendingHome
    <2> HIDE DEF t
    <2>2. PaneHome([pane EXCEPT !.body = v], open, strayed)
      BY <1>1, OpenFacts, BodySet
    <2>3. PaneHome([pane EXCEPT !.body = v, !.bodyTimer = t], open, strayed)
      BY <2>1, <2>2, BodyTimerSet
    <2> QED  BY <1>3, <2>3, OpenFacts, RenderIInv DEF TypeBody, t
  <1>4. CASE PickBodyKind(v)
    <2> DEFINE copy == [stored[open] EXCEPT !.headers = v, !.method = v]
    <2>1. copy \in Stored /\ \A f \in Fields :
              copy[f] = IF f \in {"headers", "method"} THEN v ELSE stored[open][f]
      BY <1>1, OpenFacts DEF Stored, Fields
    <2> HIDE DEF copy
    <2>2. HomeCopy(copy, open, strayed)
      BY <1>1, <2>1, OpenFacts DEF HomeCopy
    <2>3. StoreHome(Update(stored, open, copy, "body", v), strayed)
      BY <1>1, <2>2, OpenFacts, UpdateHome
    <2>4. PaneHome([pane EXCEPT !.body = v], open, strayed)
      BY <1>1, OpenFacts, BodySet
    <2>5. PaneHome([pane EXCEPT !.body = v, !.seenBody = v], open, strayed)
      BY <1>1, <2>4, SeenBodySet
    <2>6. PaneHome([pane EXCEPT !.body = v, !.seenBody = v, !.bodyTimer = None], open, strayed)
      BY <2>5, BodyTimerSet DEF TimerHome
    <2> QED  BY <1>4, <2>3, <2>6, OpenFacts, RenderIInv DEF PickBodyKind, copy
  <1>5. CASE TypeAuth(v)
    <2> DEFINE t == Pending(v)
    <2>1. t \in Timer /\ TimerHome(t, "auth", strayed)
      BY <1>1, PendingHome
    <2> HIDE DEF t
    <2>2. PaneHome([pane EXCEPT !.auth = v], open, strayed)
      BY <1>1, OpenFacts, AuthSet
    <2>3. PaneHome([pane EXCEPT !.auth = v, !.authTimer = t], open, strayed)
      BY <2>1, <2>2, AuthTimerSet
    <2> QED  BY <1>5, <2>3, OpenFacts, RenderIInv DEF TypeAuth, t
  <1> QED  BY <1>2, <1>3, <1>4, <1>5

LEMMA TypingIInv == ASSUME IInv, Typing PROVE IInv'
  BY UrlTypingIInv, ParamsTypingIInv, TabTypingIInv DEF Typing

\* The saves that were waiting, and the URL that was left.
LEMMA SavingIInv ==
    ASSUME IInv, LeaveUrl \/ BodyTimerFires \/ AuthTimerFires \/ Send
    PROVE  IInv'
  <1>1. /\ pane.body \in Values /\ Home("body", pane.body, open, strayed)
        /\ pane.auth \in Values /\ Home("auth", pane.auth, open, strayed)
        /\ pane.bodyTimer \in {None} \cup Timer /\ TimerHome(pane.bodyTimer, "body", strayed)
        /\ pane.authTimer \in {None} \cup Timer /\ TimerHome(pane.authTimer, "auth", strayed)
        /\ pane.headers \in {None} \cup [of : Requests, was : Stored]
        /\ HeadersHome(pane.headers, strayed)
        /\ "headers" \in Fields /\ "body" \in Fields /\ "auth" \in Fields
    BY OpenFacts DEF PaneHome, Pane, Fields
  <1>2. CASE LeaveUrl
    BY <1>2, OpenFacts, UrlStoredHome, RenderIInv DEF LeaveUrl
  <1>3. CASE BodyTimerFires
    <2> DEFINE t == pane.bodyTimer
    <2>1. /\ t.of \in Requests /\ HomeCopy(t.was, t.of, strayed)
          /\ t.value \in Values /\ Home("body", t.value, t.of, strayed)
      BY <1>1, <1>3 DEF BodyTimerFires, Timer, TimerHome
    <2>2. StoreHome(Update(stored, t.of, t.was, "body", t.value), strayed)
      BY <1>1, <2>1, OpenFacts, UpdateHome
    <2>3. PaneHome([pane EXCEPT !.bodyTimer = None], open, strayed)
      BY OpenFacts, BodyTimerSet DEF TimerHome
    <2>4. PaneHome([pane EXCEPT !.bodyTimer = None, !.seenBody = t.value], open, strayed)
      BY <2>1, <2>3, SeenBodySet
    <2> QED  BY <1>3, <2>2, <2>4, OpenFacts, RenderIInv DEF BodyTimerFires
  <1>4. CASE AuthTimerFires
    <2> DEFINE t == pane.authTimer
    <2>1. /\ t.of \in Requests /\ HomeCopy(t.was, t.of, strayed)
          /\ t.value \in Values /\ Home("auth", t.value, t.of, strayed)
      BY <1>1, <1>4 DEF AuthTimerFires, Timer, TimerHome
    <2>2. StoreHome(Update(stored, t.of, t.was, "auth", t.value), strayed)
      BY <1>1, <2>1, OpenFacts, UpdateHome
    <2>3. PaneHome([pane EXCEPT !.authTimer = None], open, strayed)
      BY OpenFacts, AuthTimerSet DEF TimerHome
    <2> QED  BY <1>4, <2>2, <2>3, OpenFacts, RenderIInv DEF AuthTimerFires
  <1>5. CASE Send
    <2> DEFINE headers == HeadersStored(UrlStored(stored))
               body == BodyStored(headers)
    <2>1. StoreHome(headers, strayed)
      <3> DEFINE h == pane.headers
      <3>1. CASE h = None
        BY <3>1, UrlStoredHome DEF HeadersStored
      <3>2. CASE h # None
        <4>1. h.of \in Requests /\ HomeCopy(h.was, h.of, strayed) /\ h.was \in Stored
          BY <1>1, <3>2 DEF HeadersHome
        <4>2. h.was["headers"] \in Values /\ Home("headers", h.was["headers"], h.of, strayed)
          BY <1>1, <4>1 DEF HomeCopy, Stored
        <4> QED  BY <1>1, <3>2, <4>1, <4>2, UrlStoredHome, UpdateHome DEF HeadersStored
      <3> QED  BY <3>1, <3>2
    <2> HIDE DEF headers
    <2>2. StoreHome(body, strayed)
      BY <1>1, <2>1, OpenFacts, UpdateHome DEF BodyStored
    <2> HIDE DEF body
    <2>3. StoreHome(AuthStored(body), strayed)
      BY <1>1, <2>2, OpenFacts, UpdateHome DEF AuthStored
    <2>4. PaneHome([pane EXCEPT !.bodyTimer = None], open, strayed)
      BY OpenFacts, BodyTimerSet DEF TimerHome
    <2>5. PaneHome([pane EXCEPT !.bodyTimer = None, !.seenBody = pane.body], open, strayed)
      BY <1>1, <2>4, SeenBodySet
    <2>6. PaneHome([pane EXCEPT !.bodyTimer = None, !.seenBody = pane.body, !.authTimer = None],
                   open, strayed)
      BY <2>5, AuthTimerSet DEF TimerHome
    <2> QED  BY <1>5, <2>3, <2>6, OpenFacts, RenderIInv DEF Send, body, headers
  <1> QED  BY <1>2, <1>3, <1>4, <1>5

\* An answer that reaches another request than it was asked for reaches fields
\* that are excepted.
LEMMA AnsweredIInv ==
    ASSUME IInv, Answered
    PROVE  IInv'
  <1> DEFINE s == pane.asked
             p == [pane EXCEPT !.asked = None]
  <1>1. s \in Asked /\ s # None /\ AskedHome(s, open, strayed) /\ AskedShows(s, open)
    BY OpenFacts DEF Answered, PaneHome, Pane, IInv
  <1>2. PaneHome(p, open, strayed)
    BY OpenFacts, AskedSet DEF AskedHome
  <1>3. /\ UNCHANGED tabs
        /\ \/ Render(p, stored, open)
           \/ s.row = "path" /\ AnsweredPath(s, p)
           \/ s.row \in {"query", "headers"} /\ AnsweredRow(s, p)
           \/ s.row = "url" /\ AnsweredUrl(s, p)
           \/ s.row = "auth" /\ AnsweredAuth(s, p)
           \/ s.row \in {"field", "text", "pick"} /\ AnsweredBody(s, p)
    BY DEF Answered
  <1> HIDE DEF p, s
  <1>4. /\ s.of \in Requests /\ s.on \in Requests /\ s.was \in Stored /\ s.doc \in Values
        /\ {s.of} \in Values /\ s.was["query"] \in Values /\ s.was["headers"] \in Values
        /\ "query" \in Fields /\ "headers" \in Fields /\ "path" \in Fields
    BY <1>1 DEF Asked, Stored, Fields, Values
  <1>5. CASE Render(p, stored, open)
    BY <1>2, <1>3, <1>5, OpenFacts, RenderIInv
  <1>6. ASSUME s.row = "path", AnsweredPath(s, p)
        PROVE  IInv'
    <2> DEFINE S == IF s.mounted THEN ParamsStored({s.of}, stored[open].query)
                    ELSE Update(stored, s.on, [s.was EXCEPT !.path = {s.of}], "query", s.was.query)
    <2>1. Home("path", {s.of}, open, strayed) /\ Home("path", {s.of}, s.on, strayed)
      <3>1. s.of # open \/ s.of # s.on => "path" \in strayed
        BY <1>1, <1>6 DEF AskedHome, Strays
      <3> QED  BY <3>1 DEF Home
    <2>2. PaneHome([p EXCEPT !.path = {s.of}], open, strayed)
      BY <1>2, <1>4, <2>1, PathSet
    <2>3. HomeCopy(s.was, s.on, strayed)
      BY <1>1, <1>6 DEF AskedHome, Rendered
    <2>4. HomeCopy([s.was EXCEPT !.path = {s.of}], s.on, strayed)
      BY <1>4, <2>1, <2>3, OtherPathHome
    <2>5. Home("query", s.was["query"], s.on, strayed)
      BY <1>4, <2>3 DEF HomeCopy
    <2>6. StoreHome(Update(stored, s.on, [s.was EXCEPT !.path = {s.of}], "query", s.was["query"]), strayed)
      BY <1>4, <2>4, <2>5, OpenFacts, UpdateHome
    <2>7. StoreHome(ParamsStored({s.of}, stored[open]["query"]), strayed)
      BY <1>4, <2>1, OpenFacts, ParamsStoredHome
    <2>8. StoreHome(S, strayed)
      BY <2>6, <2>7
    <2>9. Render([p EXCEPT !.path = {s.of}], S, open)
      BY <1>6 DEF AnsweredPath
    <2> HIDE DEF S
    <2> QED  BY <1>3, <2>2, <2>8, <2>9, OpenFacts, RenderIInv
  <1>7. ASSUME s.row \in {"query", "headers"}, AnsweredRow(s, p)
        PROVE  IInv'
    <2> DEFINE S == IF ~s.mounted THEN Update(stored, s.on, s.was, s.row, s.was[s.row] \cup {s.of})
                    ELSE IF s.row = "query"
                    THEN ParamsStored(pane.path, stored[open].query \cup {s.of})
                    ELSE Save("headers", stored[open].headers \cup {s.of})
    <2>1. s.of = s.on /\ Render(p, S, open)
      BY <1>7 DEF AnsweredRow
    <2>2. StoreHome(S, strayed)
      <3>1. CASE ~s.mounted
        <4>1. HomeCopy(s.was, s.on, strayed) /\ s.was[s.row] \in Values
          BY <1>1, <1>4, <1>7 DEF AskedHome, Rendered
        <4>2. s.was[s.row] \cup {s.of} \in Values /\ Home(s.row, s.was[s.row] \cup {s.of}, s.on, strayed)
          BY <1>4, <1>7, <2>1, <4>1 DEF HomeCopy, Home, Values
        <4>3. StoreHome(Update(stored, s.on, s.was, s.row, s.was[s.row] \cup {s.of}), strayed)
          BY <1>4, <1>7, <4>1, <4>2, OpenFacts, UpdateHome
        <4> QED  BY <3>1, <4>3
      <3>2. CASE s.mounted
        <4>1. s.of = open
          BY <1>1, <1>7, <2>1, <3>2 DEF AskedShows, Rendered
        <4>2. CASE s.row = "query"
          <5>1. /\ stored[open]["query"] \cup {s.of} \in Values
                /\ Home("query", stored[open]["query"] \cup {s.of}, open, strayed)
            BY <1>4, <4>1, OpenFacts DEF Home, Values
          <5>2. pane.path \in Values /\ Home("path", pane.path, open, strayed)
            BY OpenFacts DEF PaneHome, Pane
          <5> QED  BY <3>2, <4>2, <5>1, <5>2, ParamsStoredHome
        <4>3. CASE s.row = "headers"
          <5>1. /\ stored[open]["headers"] \cup {s.of} \in Values
                /\ Home("headers", stored[open]["headers"] \cup {s.of}, open, strayed)
            BY <1>4, <4>1, OpenFacts DEF Home, Values
          <5>2. StoreHome(Save("headers", stored[open]["headers"] \cup {s.of}), strayed)
            BY <1>4, <5>1, SaveHome
          <5> QED  BY <3>2, <4>3, <5>2
        <4> QED  BY <1>7, <4>2, <4>3
      <3> QED  BY <1>1, <3>1, <3>2 DEF Asked
    <2> HIDE DEF S
    <2> QED  BY <1>2, <1>3, <2>1, <2>2, OpenFacts, RenderIInv
  <1>8. ASSUME s.row = "url", AnsweredUrl(s, p)
        PROVE  IInv'
    <2> DEFINE text == UrlShown \cup pane.bar \cup {s.of}
               u == [for |-> s.of, value |-> text]
               b == IF s.of = open THEN {} ELSE text
    <2>1. Render([p EXCEPT !.url = u, !.bar = b], stored, open)
      BY <1>8 DEF AnsweredUrl
    <2>2. s.of # open => {"url", "path", "query"} \subseteq strayed
      BY <1>1, <1>8 DEF AskedHome, Strays
    <2>3. /\ UrlShown \cup pane.bar \in Values
          /\ Home("url", UrlShown \cup pane.bar, open, strayed)
      BY UrlShownHome, LeftHome
    <2>4. text \in Values
      BY <1>4, <2>3 DEF Values
    <2>5. Home("url", text, s.of, strayed)
      BY <2>2, <2>3 DEF Home
    <2> HIDE DEF text
    <2>6. BarHome(b, strayed) /\ b \in Values
      BY <2>2, <2>4, OpenFacts DEF BarHome
    <2>7. u \in {None} \cup [for : Requests, value : Values] /\ UrlHome(u, strayed)
      BY <1>4, <2>4, <2>5 DEF UrlHome
    <2> HIDE DEF u, b
    <2>8. PaneHome([p EXCEPT !.url = u], open, strayed)
      BY <1>2, <2>7, UrlSet
    <2>9. PaneHome([p EXCEPT !.url = u, !.bar = b], open, strayed)
      BY <2>6, <2>8, BarSet
    <2> QED  BY <1>3, <2>1, <2>9, OpenFacts, RenderIInv
  <1>9. ASSUME NEW field \in {"body", "auth"}, s.row \notin Rendered, NEW v \in Values,
               Home(field, v, open, strayed), Home(field, v, s.of, strayed)
        PROVE  SaveOf(s, v) \in Timer /\ TimerHome(SaveOf(s, v), field, strayed)
    <2> DEFINE t == [of |-> s.of, was |-> s.was, value |-> v]
    <2>1. t \in Timer /\ TimerHome(t, field, strayed)
      BY <1>1, <1>4, <1>9 DEF Timer, TimerHome, AskedHome
    <2>2. Pending(v) \in Timer /\ TimerHome(Pending(v), field, strayed)
      BY <1>9, PendingHome
    <2>3. SaveOf(s, v) \in {t, Pending(v)}
      BY DEF SaveOf
    <2> HIDE DEF t
    <2> QED  BY <2>1, <2>2, <2>3
  <1>10. ASSUME s.row = "auth", AnsweredAuth(s, p)
         PROVE  IInv'
    <2> DEFINE v == pane.auth \cup {s.of}
               t == SaveOf(s, v)
    <2>1. Render([p EXCEPT !.auth = v, !.authTimer = t], stored, open)
      BY <1>10 DEF AnsweredAuth
    <2>2. s.of # open => "auth" \in strayed
      BY <1>1, <1>10 DEF AskedHome, Strays
    <2>3. pane.auth \in Values /\ Home("auth", pane.auth, open, strayed)
      BY OpenFacts DEF PaneHome, Pane
    <2>4. v \in Values /\ Home("auth", v, open, strayed) /\ Home("auth", v, s.of, strayed)
      BY <1>4, <2>2, <2>3 DEF Home, Values
    <2> HIDE DEF v
    <2>5. t \in Timer /\ TimerHome(t, "auth", strayed)
      BY <1>9, <1>10, <2>4 DEF Rendered
    <2> HIDE DEF t
    <2>6. PaneHome([p EXCEPT !.auth = v], open, strayed)
      BY <1>2, <2>4, AuthSet
    <2>7. PaneHome([p EXCEPT !.auth = v, !.authTimer = t], open, strayed)
      BY <2>5, <2>6, AuthTimerSet
    <2> QED  BY <1>3, <2>1, <2>7, OpenFacts, RenderIInv
  <1>11. ASSUME s.row \in {"field", "text", "pick"}, AnsweredBody(s, p)
         PROVE  IInv'
    <2>1. PICK v \in {pane.body, s.doc \cup {s.of}, pane.body \cup s.doc \cup {s.of}} :
              Render([p EXCEPT !.body = v, !.bodyTimer = SaveOf(s, v)], stored, open)
      BY <1>11 DEF AnsweredBody
    <2> DEFINE t == SaveOf(s, v)
    <2>2. s.of # open => "body" \in strayed
      BY <1>1, <1>11 DEF AskedHome, Strays
    <2>3. pane.body \in Values /\ Home("body", pane.body, open, strayed)
      BY OpenFacts DEF PaneHome, Pane
    <2>4. Home("body", s.doc, s.of, strayed)
      BY <1>1 DEF AskedHome
    <2>5. v \in Values
      BY <1>4, <2>3 DEF Values
    <2>6. Home("body", v, open, strayed) /\ Home("body", v, s.of, strayed)
      BY <2>2, <2>3, <2>4 DEF Home
    <2>7. t \in Timer /\ TimerHome(t, "body", strayed)
      BY <1>9, <1>11, <2>5, <2>6 DEF Rendered
    <2> HIDE DEF t
    <2>8. PaneHome([p EXCEPT !.body = v], open, strayed)
      BY <1>2, <2>5, <2>6, BodySet
    <2>9. PaneHome([p EXCEPT !.body = v, !.bodyTimer = t], open, strayed)
      BY <2>7, <2>8, BodyTimerSet
    <2> QED  BY <1>3, <2>1, <2>9, OpenFacts, RenderIInv DEF t
  <1> QED  BY <1>3, <1>5, <1>6, <1>7, <1>8, <1>10, <1>11

\* Another tab or request, a widget that begins to wait, and a change from
\* elsewhere.
LEMMA MovingIInv ==
    ASSUME IInv,
           \/ \E row \in Rows : Ask(row)
           \/ \E t \in Tabs : PickTab(t)
           \/ \E r \in Requests : Open(r) \/ \E f \in Fields : ExternalWrite(r, f)
    PROVE  IInv'
  <1>1. ASSUME NEW row \in Rows, Ask(row)
        PROVE  IInv'
    <2>1. PICK late \in Lates(row) :
              pane' = [pane EXCEPT !.asked = [of |-> open, row |-> row, late |-> late,
                                              mounted |-> TRUE, on |-> open,
                                              was |-> stored[open], doc |-> pane.body]]
      BY <1>1 DEF Ask
    <2> DEFINE s == [of |-> open, row |-> row, late |-> late, mounted |-> TRUE,
                     on |-> open, was |-> stored[open], doc |-> pane.body]
    <2>2. pane.body \in Values /\ Home("body", pane.body, open, strayed) /\ pane \in Pane
      BY OpenFacts DEF PaneHome, Pane
    <2>3. late \in BOOLEAN
      BY DEF Lates
    <2>4. s \in Asked
      BY <2>2, <2>3, OpenFacts DEF Asked
    <2>5. AskedHome(s, open, strayed) /\ AskedShows(s, open)
      BY <2>2, OpenFacts DEF AskedHome, AskedShows
    <2>6. pane' = [pane EXCEPT !.asked = s]
      BY <2>1
    <2> HIDE DEF s
    <2>7. PaneHome(pane', open, strayed)
      BY <2>4, <2>5, <2>6, OpenFacts, AskedSet
    <2>8. pane'.asked = s
      BY <2>2, <2>6 DEF Pane
    <2>9. UNCHANGED <<stored, open, tabs, strayed>>
      BY <1>1 DEF Ask
    <2> QED  BY <2>5, <2>7, <2>8, <2>9 DEF IInv
  <1>2. ASSUME NEW t \in Tabs, PickTab(t)
        PROVE  IInv'
    <2>1. PaneHome(OnTab(t), open, strayed)
      BY OpenFacts, TabSet DEF OnTab
    <2>2. Render(OnTab(t), stored, open) /\ tabs' = [tabs EXCEPT ![open] = t]
      BY <1>2 DEF PickTab
    <2> QED  BY <2>1, <2>2, OpenFacts, RenderHome DEF IInv
  <1>3. ASSUME NEW r \in Requests, Open(r)
        PROVE  IInv'
    BY <1>3, OpenFacts, RenderIInv DEF Open
  <1>4. ASSUME NEW r \in Requests, NEW f \in Fields, ExternalWrite(r, f)
        PROVE  IInv'
    <2>1. PICK v \in {{r}, {}} : Render(pane, [stored EXCEPT ![r][f] = v], open)
      BY <1>4 DEF ExternalWrite
    <2> DEFINE changed == [stored[r] EXCEPT ![f] = v]
    <2>2. stored \in [Requests -> Stored] /\ HomeCopy(stored[r], r, strayed)
      BY OpenFacts DEF StoreHome
    <2>3. changed \in Stored /\ \A g \in Fields : changed[g] = IF g = f THEN v ELSE stored[r][g]
      BY <2>2 DEF Stored, Values
    <2>4. [stored EXCEPT ![r][f] = v] = [stored EXCEPT ![r] = changed]
      OBVIOUS
    <2> HIDE DEF changed
    <2>5. HomeCopy(changed, r, strayed)
      BY <2>2, <2>3 DEF HomeCopy, Home
    <2>6. StoreHome([stored EXCEPT ![r] = changed], strayed)
      BY <2>3, <2>5, OpenFacts DEF StoreHome
    <2> QED  BY <1>4, <2>1, <2>4, <2>6, OpenFacts, RenderIInv DEF ExternalWrite
  <1> QED  BY <1>1, <1>2, <1>3, <1>4

LEMMA InitIInv == Init => IInv
  <1> SUFFICES ASSUME Init PROVE IInv
    OBVIOUS
  <1>1. Empty \in Stored /\ {} \in Values /\ \A f \in Fields : Empty[f] = {}
    BY DEF Empty, Stored, Values
  <1>2. StoreHome(stored, strayed)
    BY <1>1 DEF Init, StoreHome, HomeCopy, Home
  <1>3. PaneHome(pane, open, strayed)
    BY <1>1 DEF Init, PaneHome, Pane, Tabs, Home, UrlHome, BarHome, TimerHome, HeadersHome, AskedHome
  <1>4. AskedShows(pane.asked, open) /\ RowsTogether(strayed)
    BY DEF Init, AskedShows, RowsTogether
  <1> QED  BY <1>2, <1>3, <1>4 DEF Init, IInv, Tabs

\* However many requests are switched in the pane and whatever is pending when
\* they are (a debounced save, a URL that is being typed, headers to store, a
\* secret that is being encrypted), a field has no other request's text, but
\* those that a widget was waiting to write when its request was left.
THEOREM EditsStayHomeHolds == SpecAll => []EditsStayHome
  <1>1. IInv /\ [NextAll]_allVars => IInv'
    <2>1. ASSUME IInv, Next
          PROVE  IInv'
      BY <2>1, TypingIInv, ParamsTypingIInv, SavingIInv, AnsweredIInv, MovingIInv DEF Next
    <2>2. ASSUME IInv, UNCHANGED draftVars
          PROVE  IInv'
      BY <2>2 DEF draftVars, IInv
    <2>3. [NextAll]_allVars => Next \/ UNCHANGED draftVars
      BY DEF NextAll, allVars
    <2> QED  BY <2>1, <2>2, <2>3
  <1>2. IInv => EditsStayHome
    BY DEF IInv, EditsStayHome, StoreHome, HomeCopy, Home
  <1>3. InitAll => IInv
    BY InitIInv DEF InitAll, DraftOff
  <1> QED  BY <1>1, <1>2, <1>3, PTL DEF SpecAll

----------------------------------------------------------------------------
(* HistoryView *)

\* The reads that nobody compares with the active request are those its effect
\* cancels when it changes.
EffectRead(read) == read.by \in {"open", "stored"}

HistInv ==
    part = "history" =>
        /\ Hi!PastIsOfViewed
        /\ \A read \in histReads :
              /\ EffectRead(read) => read.req = histViewed
              /\ read.step = "get" => EffectRead(read) \/ read.by = "pick"

LEMMA HistNext ==
    ASSUME HistInv, part = "history", part' = part, Hi!Next
    PROVE  HistInv'
  <1> USE DEF HistInv, Hi!PastIsOfViewed, EffectRead
  <1>1. ASSUME NEW r \in Requests, Hi!Select(r)
        PROVE  HistInv'
    BY <1>1 DEF Hi!Select, Hi!Outlives, Hi!Listing
  <1>2. ASSUME NEW r \in Requests, Hi!SendStarts(r)
        PROVE  HistInv'
    BY <1>2 DEF Hi!SendStarts, Hi!ResetSelection
  <1>3. ASSUME NEW r \in Requests, Hi!SendEnds(r)
        PROVE  HistInv'
    <2>1. PICK response : Hi!Answered(r, response)
      BY <1>3 DEF Hi!SendEnds
    <2> QED  BY <2>1 DEF Hi!Answered, Hi!ResetSelection, Hi!Listing
  <1>4. ASSUME NEW r \in Requests, Hi!StoredElsewhere(r)
        PROVE  HistInv'
    BY <1>4 DEF Hi!StoredElsewhere, Hi!Listing
  <1>5. ASSUME NEW read \in histReads, Hi!Answer(read)
        PROVE  HistInv'
    <2>1. CASE Hi!ListAnswer(read)
      BY <2>1 DEF Hi!ListAnswer, Hi!Getting
    <2>2. CASE Hi!ItemsAnswer(read)
      BY <2>2 DEF Hi!ItemsAnswer
    <2>3. CASE Hi!GetAnswer(read)
      BY <2>3 DEF Hi!GetAnswer, Hi!StillShown
    <2>4. CASE Hi!ReadFails(read)
      BY <2>4 DEF Hi!ReadFails
    <2>5. CASE Hi!Cleared(read)
      BY <2>5 DEF Hi!Cleared, Hi!ResetSelection
    <2> QED  BY <1>5, <2>1, <2>2, <2>3, <2>4, <2>5 DEF Hi!Answer
  <1>6. ASSUME NEW i \in 1..MaxStored, Hi!Pick(i)
        PROVE  HistInv'
    BY <1>6 DEF Hi!Pick, Hi!Getting
  <1>7. CASE Hi!Deselect
    BY <1>7 DEF Hi!Deselect, Hi!ResetSelection, Hi!Outlives
  <1>8. CASE Hi!ShowLive
    BY <1>8 DEF Hi!ShowLive, Hi!ResetSelection
  <1>9. CASE Hi!ConfirmClear
    BY <1>9 DEF Hi!ConfirmClear, Hi!Listing
  <1>10. ASSUME NEW r \in Requests, Hi!CancelRequest(r)
         PROVE  HistInv'
    BY <1>10 DEF Hi!CancelRequest
  <1> QED
    BY <1>1, <1>2, <1>3, <1>4, <1>5, <1>6, <1>7, <1>8, <1>9, <1>10 DEF Hi!Next

\* However the reads of opened requests, stored responses and picks interleave
\* with the user's changes of request, a past response on the screen is one of
\* the request on the screen.
THEOREM PastIsOfViewedHolds == SpecAll => []PastIsOfViewed
  <1>1. InitAll => HistInv
    BY DEF InitAll, Hi!Init, HistInv, Hi!PastIsOfViewed
  <1>2. HistInv /\ [NextAll]_allVars => HistInv'
    <2>1. ASSUME HistInv, NextAll
          PROVE  HistInv'
      <3>1. CASE part = "history" /\ Hi!Next
        BY <2>1, <3>1, HistNext DEF NextAll
      <3>2. CASE part # "history" \/ UNCHANGED histVars
        BY <2>1, <3>2 DEF NextAll, histVars, HistInv, Hi!PastIsOfViewed
      <3> QED  BY <2>1, <3>1, <3>2 DEF NextAll
    <2>2. ASSUME HistInv, UNCHANGED allVars
          PROVE  HistInv'
      BY <2>2 DEF allVars, histVars, HistInv, Hi!PastIsOfViewed
    <2> QED  BY <2>1, <2>2
  <1>3. HistInv => PastIsOfViewed
    BY DEF HistInv, PastIsOfViewed
  <1> QED  BY <1>1, <1>2, <1>3, PTL DEF SpecAll
=============================================================================
