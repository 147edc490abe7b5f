-------------------------------- MODULE Cookies ------------------------------
(* The cookie jars of a workspace: the files, which every command reads,    *)
(* changes and writes back under no lock, the store (store/cookies), the    *)
(* dialog with its editor, and the cookies a request brings in.             *)
EXTENDS Integers, FiniteSets

CONSTANTS Jars, Default,   \* jars; the one that is always there
          CookieIds, Values, Expired, \* cookies; what one may hold; of that, what has expired
          Blank,           \* a draft without a name or a domain
          None,
          MaxCalls, MaxTyped

VARIABLES
    disk,      \* per jar: its cookies, each with a value or None; or None
    selection, \* the stored active jar
    jars, active, \* the store: jars, activeJarId
    calls,     \* commands that were not answered
    picked,    \* the dialog: the jar and the cookie that are selected
    draft,     \* of the editor: [value, dirty]
    made, typed

cookieVars == <<disk, selection, jars, active, calls, picked, draft, made, typed>>

Contents == [CookieIds -> Values \cup {None}]
Empty == [c \in CookieIds |-> None]
Listed(js) == {j \in Jars : js[j] # None}
\* The default jar comes first.
First(js) == IF js[Default] # None THEN Default
             ELSE IF Listed(js) = {} THEN None ELSE CHOOSE j \in Listed(js) : TRUE
ResolveActive(js, j) == IF j \in Listed(js) THEN j ELSE First(js)
\* What the backend sends with: the selection as it is stored.
ActiveOf(d, s) == IF s # None THEN s ELSE First(d)
WithoutExpired(c) == [k \in CookieIds |-> IF c[k] \in Expired THEN None ELSE c[k]]

NoPick == [jar |-> None, cookie |-> None]
NoDraft == [value |-> None, dirty |-> FALSE]
CookieAt(js, p) == IF p.jar = None \/ p.cookie = None THEN None
                   ELSE IF js[p.jar] = None THEN None ELSE js[p.jar][p.cookie]

Init ==
    /\ disk \in [Jars -> {Empty, None}] /\ disk[Default] # None
    /\ selection \in Listed(disk) \cup {None}
    /\ jars = disk /\ active = ResolveActive(disk, selection)
    /\ calls = {} /\ picked = NoPick /\ draft = NoDraft /\ made = 0 /\ typed = 0

----------------------------------------------------------------------------
(* Commands: issued, read, written, answered.                               *)

Call(op, j, c, v) == [op |-> op, jar |-> j, cookie |-> c, value |-> v, mine |-> FALSE,
                      n |-> made, at |-> "issued", seen |-> None]
Issue(c) == made < MaxCalls /\ made' = made + 1 /\ calls' = calls \cup {c}

Edits == {"rename", "save", "deleteCookie", "clear", "clearExpired", "capture"}
After(c, old) ==
    CASE c.op \in {"save", "capture"} -> [old EXCEPT ![c.cookie] = c.value]
      [] c.op = "deleteCookie" -> [old EXCEPT ![c.cookie] = None]
      [] c.op = "clear" -> Empty
      [] c.op = "clearExpired" -> WithoutExpired(old)
      [] OTHER -> old

To(c, new) == calls' = (calls \ {c}) \cup {new}
shown == <<jars, active, picked, draft, made, typed>>

Fail(c) == calls' = calls \ {c}
           /\ UNCHANGED <<disk, selection, jars, active, picked, draft, made, typed>>
\* get: a jar that is not there is an error, but for the default one.
Read(c) ==
    /\ c.at = "issued" /\ c.op \in Edits
    /\ IF disk[c.jar] = None /\ c.jar # Default THEN Fail(c)
       ELSE /\ To(c, [c EXCEPT !.at = "read", !.seen = IF disk[c.jar] = None THEN Empty ELSE disk[c.jar]])
            /\ UNCHANGED <<disk, selection, shown>>
Write(c) ==
    /\ c.at = "read" /\ disk' = [disk EXCEPT ![c.jar] = After(c, c.seen)]
    /\ To(c, [c EXCEPT !.at = "done", !.seen = After(c, c.seen)])
    /\ UNCHANGED <<selection, shown>>
Execute(c) ==
    /\ c.at = "issued" /\ c.op \notin Edits
    /\ CASE c.op = "list" -> UNCHANGED <<disk, selection>> /\ To(c, [c EXCEPT !.at = "done", !.seen = disk])
         [] c.op = "create" -> /\ disk' = [disk EXCEPT ![c.jar] = Empty] /\ UNCHANGED selection
                               /\ To(c, [c EXCEPT !.at = "done", !.seen = Empty])
         [] c.op = "delete" -> /\ disk' = [disk EXCEPT ![c.jar] = None]
                               /\ selection' = IF selection = c.jar THEN First(disk') ELSE selection
                               /\ To(c, [c EXCEPT !.at = "done", !.seen = ActiveOf(disk', selection')])
         [] c.op = "setActive" -> /\ disk[c.jar] # None /\ selection' = c.jar /\ UNCHANGED disk
                                  /\ To(c, [c EXCEPT !.at = "done"])
    /\ UNCHANGED shown
Refused(c) == c.at = "issued" /\ Fail(c)

----------------------------------------------------------------------------
(* The answers, in the store; then the dialog follows.                      *)

\* A seeded fault: the draft is taken again whenever the list is rebuilt.
ByObject(js, p) == IF CookieAt(js, p) = None THEN NoDraft ELSE [value |-> CookieAt(js, p), dirty |-> FALSE]
\* The editor is mounted per cookie.
ById(js, p) == IF p = picked /\ draft.value # None /\ CookieAt(js, p) # None THEN draft
               ELSE IF CookieAt(js, p) = None THEN NoDraft ELSE [value |-> CookieAt(js, p), dirty |-> FALSE]
\* A jar that disappears gives way to the first one.
Fallback(js, p) == IF p.jar = None \/ js[p.jar] # None THEN p ELSE [p EXCEPT !.jar = First(js)]
Follow(js, p) == picked' = Fallback(js, p) /\ draft' = ById(js, Fallback(js, p))
\* The callbacks of a save are of the editor that made it.
Kept(cs) == calls' = IF picked' = picked /\ draft'.value # None THEN cs
                     ELSE {[x EXCEPT !.mine = FALSE] : x \in cs}

InJar(c, new) == IF jars[c.jar] = None THEN jars ELSE [jars EXCEPT ![c.jar] = new]

Answer(c) ==
    /\ c.at = "done"
    /\ \/ /\ c.op = "list" /\ jars' = c.seen /\ Follow(jars', picked)
          /\ active' = ResolveActive(c.seen, active)
       \/ /\ c.op = "create" /\ jars' = [jars EXCEPT ![c.jar] = Empty] /\ UNCHANGED active
          /\ Follow(jars', IF picked.jar = None THEN NoPick ELSE [jar |-> c.jar, cookie |-> None])
       \/ /\ c.op = "rename" /\ jars' = InJar(c, c.seen) /\ UNCHANGED active /\ Follow(jars', picked)
       \/ /\ c.op = "delete" /\ jars' = [jars EXCEPT ![c.jar] = None]
          /\ active' = ResolveActive(jars', c.seen)
          /\ Follow(jars', IF picked.jar = None THEN NoPick ELSE [jar |-> First(jars'), cookie |-> None])
       \/ /\ c.op = "setActive" /\ active' = c.jar
          /\ UNCHANGED <<jars, picked, draft>>
       \/ /\ c.op = "save" /\ UNCHANGED active
          /\ jars' = InJar(c, IF jars[c.jar] = None THEN None ELSE [jars[c.jar] EXCEPT ![c.cookie] = c.value])
          /\ IF c.mine THEN draft' = [value |-> c.value, dirty |-> FALSE] /\ UNCHANGED picked
             ELSE Follow(jars', picked)
       \/ /\ c.op = "deleteCookie" /\ UNCHANGED active
          /\ jars' = InJar(c, IF jars[c.jar] = None THEN None ELSE [jars[c.jar] EXCEPT ![c.cookie] = None])
          /\ Follow(jars', IF c.cookie = picked.cookie THEN [picked EXCEPT !.cookie = None] ELSE picked)
       \/ /\ c.op = "clear" /\ UNCHANGED active /\ jars' = InJar(c, Empty)
          /\ Follow(jars', [picked EXCEPT !.cookie = None])
       \/ /\ c.op = "clearExpired" /\ UNCHANGED active
          /\ jars' = InJar(c, IF jars[c.jar] = None THEN None ELSE WithoutExpired(jars[c.jar]))
          /\ Follow(jars', picked)
    /\ Kept(calls \ {c}) /\ UNCHANGED <<disk, selection, made, typed>>
\* The answer of the request: the store reads the jars again.
Captured(c) ==
    /\ c.at = "done" /\ c.op = "capture" /\ made < MaxCalls /\ made' = made + 1
    /\ calls' = (calls \ {c}) \cup {Call("list", None, None, None)}
    /\ UNCHANGED <<disk, selection, jars, active, picked, draft, typed>>

----------------------------------------------------------------------------
(* The user, requests, and other programs.                                  *)

idle == <<disk, selection, jars, active, typed>>

OpenDialog == picked.jar = None /\ picked' = [jar |-> active, cookie |-> None]
              /\ active # None /\ UNCHANGED <<idle, calls, draft, made>>
CloseDialog == picked.jar # None /\ picked' = NoPick /\ draft' = NoDraft
               /\ Kept(calls) /\ UNCHANGED <<idle, made>>
SelectJar(j) ==
    /\ picked.jar # None /\ jars[j] # None /\ picked' = [jar |-> j, cookie |-> None] /\ picked' # picked
    /\ draft' = NoDraft /\ Kept(calls) /\ UNCHANGED <<idle, made>>
SelectCookie(k) ==
    /\ picked.jar # None /\ picked.cookie # k /\ CookieAt(jars, [picked EXCEPT !.cookie = k]) # None
    /\ picked' = [picked EXCEPT !.cookie = k] /\ draft' = ByObject(jars, picked')
    /\ Kept(calls) /\ UNCHANGED <<idle, made>>

\* Patched: a text field; it is committed when it is left, if it was touched.
Patch(v) ==
    /\ draft.value # None /\ v # draft.value /\ typed < MaxTyped /\ typed' = typed + 1
    /\ draft' = [value |-> v, dirty |-> TRUE]
    /\ UNCHANGED <<disk, selection, jars, active, calls, picked, made>>
Commit(v) == Issue([Call("save", picked.jar, picked.cookie, v) EXCEPT !.mine = TRUE])
CommitBlur ==
    /\ draft.dirty /\ draft.value # Blank /\ Commit(draft.value) /\ UNCHANGED <<idle, picked, draft>>
\* A switch is committed at once, with the draft it was made on.
PatchAndSave(v) ==
    /\ draft.value \notin {None, Blank} /\ v # draft.value /\ v # Blank
    /\ typed < MaxTyped /\ typed' = typed + 1
    /\ draft' = [draft EXCEPT !.value = v] /\ Commit(v)
    /\ UNCHANGED <<disk, selection, jars, active, picked>>

AddCookie(k) ==
    /\ picked.jar # None /\ jars[picked.jar] # None /\ jars[picked.jar][k] = None
    /\ \E v \in Values \ Expired : Issue(Call("save", picked.jar, k, v))
    /\ UNCHANGED <<idle, picked, draft>>
AskOf(op, j, k) ==
    /\ picked.jar # None /\ jars[j] # None
    /\ CASE op = "deleteCookie" -> j = picked.jar /\ jars[j][k] # None
         [] op = "delete" -> j # Default /\ Cardinality(Listed(jars)) > 1
         [] op \in {"clear", "clearExpired"} -> j = picked.jar /\ jars[j] # Empty
         [] op = "setActive" -> j # active
         [] OTHER -> TRUE
    /\ Issue(Call(op, j, k, None)) /\ UNCHANGED <<idle, picked, draft>>
CreateJar(j) ==
    /\ picked.jar # None /\ disk[j] = None /\ jars[j] = None /\ ~ \E c \in calls : c.jar = j
    /\ Issue(Call("create", j, None, None)) /\ UNCHANGED <<idle, picked, draft>>

\* A request is sent with the active jar, and what it brings goes into that jar.
Send(k, v) ==
    /\ Issue(Call("capture", ActiveOf(disk, selection), k, v)) /\ UNCHANGED <<idle, picked, draft>>
\* An MCP client or a pull changed the jars.
ReloadAsked == Issue(Call("list", None, None, None)) /\ UNCHANGED <<idle, picked, draft>>

Next ==
    \/ \E c \in calls : Read(c) \/ Write(c) \/ Execute(c) \/ Refused(c) \/ Answer(c) \/ Captured(c)
    \/ OpenDialog \/ CloseDialog \/ CommitBlur \/ ReloadAsked
    \/ \E j \in Jars : \/ SelectJar(j) \/ CreateJar(j)
                       \/ \E op \in {"delete", "setActive", "rename", "clear", "clearExpired"} : AskOf(op, j, None)
                       \/ \E k \in CookieIds : AskOf("deleteCookie", j, k)
    \/ \E k \in CookieIds : SelectCookie(k) \/ AddCookie(k) \/ (\E v \in Values : Send(k, v))
    \/ \E v \in Values \cup {Blank} : Patch(v) \/ PatchAndSave(v)

Spec == Init /\ [][Next]_cookieVars

----------------------------------------------------------------------------
\* "Reset draft only when a different cookie is selected: the parent rebuilds the
\* cookie list on every reload".  What was typed and not saved is never taken from
\* the user by something that happens elsewhere: a reload, a capture, a jar that is
\* renamed or cleared of what expired, as long as the cookie under edit is there.
OwnDraft ==
    draft.dirty /\ draft' # draft
        => \/ \E v \in Values \cup {Blank} : Patch(v) \/ PatchAndSave(v)
           \/ \E c \in calls : c.mine /\ Answer(c)
           \/ picked' # picked \/ CookieAt(jars', picked) = None
TypedIsKept == [][OwnDraft]_cookieVars
=============================================================================
