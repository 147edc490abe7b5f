----------------------------- MODULE Environments ----------------------------
(* The environments of a workspace: the store (store/environment), the      *)
(* dialog that edits them as rows or as text, with a save that follows the  *)
(* last key by 400 ms, the renaming of a variable wherever it is used, and  *)
(* the variables taken from the system.  Every workspace's Global           *)
(* Environment is denoted by the workspace itself.                          *)
EXTENDS Integers, FiniteSets

CONSTANTS Workspaces, Envs,
          Home,    \* the workspace of an environment
          Keys,    \* names of variables; a value is a name (a reference to it) or Plain
          Plain, None,
          Start,   \* the variables an environment may begin with
          MaxCalls, MaxEdits \* calls to the backend, edits of rows

VARIABLES
    disk,     \* the files, per environment: [vars, name, at] or None
    settings, \* per workspace: the stored active environment and the exposed system variables
    ws,       \* workspace -> the one in the window, the one that is loaded
    envs, active, system, \* the store's environments, activeEnvId, systemEnvVars
    calls,    \* calls that were not answered
    editor,   \* the dialog: the environment it shows, as what, the rows, whether it ever saved
    focus,    \* the variable the dialog was opened for
    timers,   \* debounced saves
    rename,   \* the propagation of a rename
    uses,     \* per workspace: the variable its requests, connections and folders refer to
    made, edits

envVars == <<disk, settings, ws, envs, active, system, calls, editor, focus, timers, rename, uses, made, edits>>

Ids == Envs \cup Workspaces
HomeOf(e) == IF e \in Workspaces THEN e ELSE Home[e]
Vars == [Keys -> Keys \cup {Plain, None}]
NoVars == [k \in Keys |-> None]
Listing(w) == [e \in Ids |-> IF HomeOf(e) = w THEN disk[e] ELSE None]

\* `{{ old }}` becomes `{{ new }}` in every value.
Rewritten(vars, old, new) == [k \in Keys |-> IF vars[k] = old THEN new ELSE vars[k]]
Moved(vars, old, new) ==
    Rewritten([vars EXCEPT ![new] = vars[old], ![old] = None], old, new)

Closed == [id |-> None, as |-> "form", rows |-> NoVars, armed |-> FALSE]
Opened(es, e) ==
    IF e = None \/ es[e] = None THEN Closed
    ELSE [id |-> e, as |-> "form", rows |-> es[e].vars, armed |-> FALSE]

Init ==
    /\ disk \in [Ids -> {[vars |-> v, name |-> 0, at |-> 0] : v \in Start} \cup {None}]
    /\ \A w \in Workspaces : disk[w] # None
    /\ settings \in [Workspaces -> [active : Envs \cup {None}, allow : {{}}]]
    /\ \A w \in Workspaces : settings[w].active # None => Home[settings[w].active] = w
    /\ ws = [shown |-> None, loaded |-> None]
    /\ envs = [e \in Ids |-> None] /\ active = None /\ system = {}
    /\ calls = {} /\ editor = Closed /\ focus = None /\ timers = {} /\ rename = <<>>
    /\ uses \in {[w \in Workspaces |-> k] : k \in Keys}
    /\ made = 0 /\ edits = 0

----------------------------------------------------------------------------
(* What follows a change of the store: the dialog selects the environment   *)
(* of the variable it was opened for, and the editor takes over what was    *)
(* written elsewhere - unless it ever scheduled a save: the reference to    *)
(* the timer is not given up when the timer fires.                          *)

Holder(es, a, k) ==
    LET holds == {e \in Ids : es[e] # None /\ es[e].vars[k] # None} IN
    IF a \in holds THEN a
    ELSE IF holds \cap Workspaces # {} THEN CHOOSE e \in holds \cap Workspaces : TRUE
    ELSE IF holds # {} THEN CHOOSE e \in holds : TRUE ELSE None

Reselected(es, a, sel) ==
    IF focus # None /\ Holder(es, a, focus) # None THEN Holder(es, a, focus) ELSE sel

\* fresh: the environments whose objects are new.
Follow(es, a, sel, fresh) ==
    LET now == IF sel # None /\ focus # None THEN Reselected(es, a, sel) ELSE sel IN
    editor' =
        IF now = None \/ now # editor.id \/ es[now] = None THEN Opened(es, now)
        ELSE IF editor.as = "text" THEN IF now \in fresh THEN [editor EXCEPT !.rows = es[now].vars] ELSE editor
        ELSE IF ~editor.armed /\ envs[now] # None /\ es[now].at # envs[now].at
             THEN [editor EXCEPT !.rows = es[now].vars] ELSE editor

\* A mounted editor's timer is replaced; that of one which is gone still fires.
Left == IF editor'.id # editor.id \/ editor'.as # editor.as
        THEN timers' = {[t EXCEPT !.mine = FALSE] : t \in timers} ELSE timers' = timers

----------------------------------------------------------------------------
(* Calls.                                                                   *)

Ask(new) ==
    /\ made + Cardinality(new) <= MaxCalls /\ made' = made + Cardinality(new)
    /\ calls' = calls \cup new
Call(op, id, arg) == [op |-> op, id |-> id, arg |-> arg, n |-> made, done |-> FALSE, res |-> None]

rest == <<envs, active, system>>
panes == <<editor, focus, timers>>

\* load: a workspace is selected (no dialog is open).
Open(w) ==
    /\ editor.id = None /\ ws.shown # w /\ ws' = [ws EXCEPT !.shown = w]
    /\ Ask({Call("load", w, None)})
    /\ UNCHANGED <<disk, settings, rest, panes, rename, uses, edits>>

\* Another window, an MCP client or a git pull writes; the window is told to reload.
Overwritten(r, v) == [r EXCEPT !.vars = v, !.at = @ + 1]
Elsewhere(e, v) ==
    /\ ws.loaded # None /\ HomeOf(e) = ws.loaded /\ disk[e] # None /\ v # disk[e].vars
    /\ disk' = [disk EXCEPT ![e] = Overwritten(@, v)]
    /\ Ask({Call("reload", ws.loaded, None)})
    /\ UNCHANGED <<settings, ws, rest, panes, rename, uses, edits>>
DeletedElsewhere(e) ==
    /\ ws.loaded # None /\ Home[e] = ws.loaded /\ disk[e] # None
    /\ disk' = [disk EXCEPT ![e] = None]
    /\ Ask({Call("reload", ws.loaded, None)})
    /\ UNCHANGED <<settings, ws, rest, panes, rename, uses, edits>>

Create(e) ==
    /\ ws.shown # None /\ Home[e] = ws.shown /\ disk[e] = None /\ envs[e] = None
    /\ ~ \E c \in calls : c.id = e
    /\ Ask({Call("create", e, None)})
    /\ UNCHANGED <<disk, settings, ws, rest, panes, rename, uses, edits>>
Remove(e) ==
    /\ envs[e] # None /\ Ask({Call("remove", e, None)})
    /\ UNCHANGED <<disk, settings, ws, rest, panes, rename, uses, edits>>
\* The name in the list of the dialog, likewise the scope in the pane: of the
\* environment as this render has it.
RenameEnv(e) ==
    /\ envs[e] # None /\ Ask({Call("update", e, [envs[e] EXCEPT !.name = 1 - @])})
    /\ UNCHANGED <<disk, settings, ws, rest, panes, rename, uses, edits>>

\* env_update writes nothing when nothing changed; env_delete of none succeeds.
Same(a, b) == a # None /\ a.vars = b.vars /\ a.name = b.name
Execute(c) ==
    /\ ~c.done
    /\ LET e == c.id
           wrote == CASE c.op = "update" /\ ~Same(disk[e], c.arg) ->
                            [c.arg EXCEPT !.at = (IF disk[e] = None THEN @ ELSE disk[e].at) + 1]
                      [] c.op = "create" -> [vars |-> NoVars, name |-> 0, at |-> 0]
                      [] c.op = "remove" -> None
                      [] OTHER -> disk[e]
       IN /\ disk' = [disk EXCEPT ![e] = wrote]
          /\ calls' = (calls \ {c}) \cup {[c EXCEPT !.done = TRUE,
                !.res = CASE c.op \in {"load", "reload"} -> Listing(e)
                          [] c.op = "system" -> c.arg [] OTHER -> wrote]}
    /\ UNCHANGED <<settings, ws, rest, panes, rename, uses, made, edits>>
\* Every caller catches the error and goes on; load shows it.
Fail(c) ==
    /\ ~c.done /\ calls' = calls \ {c}
    /\ UNCHANGED <<disk, settings, ws, rest, panes, rename, uses, made, edits>>

\* A seeded fault: a reload keeps the active environment.
KeptActive(a, es) == a
Validated(a, es) == IF a \in Envs /\ es[a] # None THEN a ELSE None

Loaded(c) ==
    /\ c.op = "load" /\ envs' = c.res /\ ws' = [ws EXCEPT !.loaded = c.id]
    /\ active' = Validated(settings[c.id].active, c.res)
    /\ IF settings[c.id].allow = {} \/ made = MaxCalls
       THEN system' = {} /\ calls' = calls \ {c} /\ UNCHANGED made
       ELSE /\ UNCHANGED system /\ made' = made + 1
            /\ calls' = (calls \ {c}) \cup {Call("system", c.id, settings[c.id].allow)}
    /\ Follow(envs', active', editor.id, Ids) /\ UNCHANGED settings
Reloaded(c) ==
    /\ c.op = "reload" /\ envs' = c.res /\ active' = Validated(active, c.res)
    /\ Follow(envs', active', editor.id, Ids)
    /\ calls' = calls \ {c} /\ UNCHANGED <<settings, ws, system, made>>
Created(c) ==
    /\ c.op = "create" /\ envs' = [envs EXCEPT ![c.id] = c.res]
    /\ Follow(envs', active, IF editor.id = None THEN None ELSE c.id, {c.id})
    /\ calls' = calls \ {c} /\ UNCHANGED <<settings, ws, active, system, made>>
Updated(c) ==
    /\ c.op = "update" /\ envs' = [envs EXCEPT ![c.id] = IF @ = None THEN None ELSE c.res]
    /\ Follow(envs', active, editor.id, {c.id})
    /\ calls' = calls \ {c} /\ UNCHANGED <<settings, ws, active, system, made>>
Removed(c) ==
    /\ c.op = "remove" /\ envs' = [envs EXCEPT ![c.id] = None]
    /\ active' = IF active = c.id THEN None ELSE active
    /\ settings' = IF active = c.id THEN [settings EXCEPT ![Home[c.id]].active = None] ELSE settings
    /\ Follow(envs', active', IF editor.id = None THEN None ELSE Home[c.id], {})
    /\ calls' = calls \ {c} /\ UNCHANGED <<ws, system, made>>
SystemRead(c) ==
    /\ c.op = "system" /\ system' = c.res
    /\ calls' = calls \ {c} /\ UNCHANGED <<settings, ws, envs, active, editor, made>>
Answer(c) ==
    /\ c.done
    /\ \/ Loaded(c) \/ Reloaded(c) \/ Created(c) \/ Updated(c) \/ Removed(c) \/ SystemRead(c)
    /\ Left /\ UNCHANGED <<disk, focus, uses, edits>>
    /\ rename' = IF rename # <<>> /\ rename.wait = c.n THEN [rename EXCEPT !.wait = -1] ELSE rename

----------------------------------------------------------------------------
(* The switcher and the dialog.                                             *)

stored == <<disk, ws, envs, uses>>

SetActive(e) ==
    /\ ws.shown # None /\ e # active /\ (e # None => envs[e] # None)
    /\ active' = e /\ settings' = [settings EXCEPT ![ws.shown].active = e]
    /\ Follow(envs, e, editor.id, {}) /\ Left
    /\ UNCHANGED <<stored, system, calls, focus, rename, made, edits>>

OpenDialog(k) ==
    /\ ws.loaded # None /\ ws.loaded = ws.shown /\ editor.id = None /\ focus' = k
    /\ editor' = Opened(envs, IF k # None /\ Holder(envs, active, k) # None THEN Holder(envs, active, k)
                              ELSE IF active # None THEN active ELSE ws.loaded)
    /\ UNCHANGED <<stored, settings, active, system, calls, timers, rename, made, edits>>
CloseDialog ==
    /\ editor.id # None /\ editor' = Closed /\ focus' = None /\ Left
    /\ UNCHANGED <<stored, settings, active, system, calls, rename, made, edits>>
Select(e) ==
    /\ editor.id # None /\ e # editor.id /\ envs[e] # None /\ editor' = Opened(envs, e) /\ Left
    /\ UNCHANGED <<stored, settings, active, system, calls, focus, rename, made, edits>>
SwitchView ==
    /\ editor.id # None
    /\ editor' = [Opened(envs, editor.id) EXCEPT !.as = IF editor.as = "form" THEN "text" ELSE "form"]
    /\ Left /\ UNCHANGED <<stored, settings, active, system, calls, focus, rename, made, edits>>

\* A keystroke: the rows change and the save is put off, with the environment of this render.
Typed(rows) ==
    /\ edits < MaxEdits /\ edits' = edits + 1 /\ rows # editor.rows
    /\ editor' = [editor EXCEPT !.rows = rows, !.armed = (editor.as = "form")]
    /\ timers' = IF editor.as = "text" THEN timers
                 ELSE {t \in timers : ~t.mine} \cup {[mine |-> TRUE, id |-> editor.id, env |-> envs[editor.id], vars |-> rows]}
TypeRow(k, v) ==
    /\ editor.id # None /\ Typed([editor.rows EXCEPT ![k] = v])
    /\ UNCHANGED <<stored, settings, active, system, calls, focus, rename, made>>
\* A key is edited and left: its rows here, then - in turn - the other environments as they are now.
RenameKey(old, new) ==
    /\ editor.id # None /\ editor.as = "form" /\ rename = <<>>
    /\ editor.rows[old] # None /\ editor.rows[new] = None /\ Typed(Moved(editor.rows, old, new))
    /\ rename' = [old |-> old, new |-> new, wait |-> -1, home |-> HomeOf(editor.id),
                  left |-> {<<e, envs[e]>> : e \in {x \in Ids \ {editor.id} : envs[x] # None
                                /\ \E k \in Keys : envs[x].vars[k] = old}}]
    /\ UNCHANGED <<stored, settings, active, system, calls, focus, made>>
RewriteEnv(x) ==
    /\ rename # <<>> /\ rename.wait = -1 /\ x \in rename.left
    /\ Ask({Call("update", x[1], [x[2] EXCEPT !.vars = Rewritten(@, rename.old, rename.new)])})
    /\ rename' = [rename EXCEPT !.left = @ \ {x}, !.wait = made]
    /\ UNCHANGED <<disk, settings, ws, rest, panes, uses, edits>>
\* The requests, the connections, the folders and the workspace come last.
RewriteUses ==
    /\ rename # <<>> /\ rename.wait = -1 /\ rename.left = {} /\ rename' = <<>>
    /\ uses' = [uses EXCEPT ![rename.home] = IF @ = rename.old THEN rename.new ELSE @]
    /\ UNCHANGED <<disk, settings, ws, rest, calls, panes, made, edits>>
GivenUp ==
    /\ rename # <<>> /\ rename.wait >= 0 /\ ~ \E c \in calls : c.n = rename.wait
    /\ rename' = [rename EXCEPT !.wait = -1]
    /\ UNCHANGED <<disk, settings, ws, rest, calls, panes, uses, made, edits>>

Fire(t) ==
    /\ Ask({Call("update", t.id, [t.env EXCEPT !.vars = t.vars])}) /\ timers' = timers \ {t}
    /\ UNCHANGED <<disk, settings, ws, rest, editor, focus, rename, uses, edits>>
\* The text is saved when it loses the focus.
Blur ==
    /\ editor.id # None /\ editor.as = "text"
    /\ Ask({Call("update", editor.id, [envs[editor.id] EXCEPT !.vars = editor.rows])})
    /\ UNCHANGED <<disk, settings, ws, rest, panes, rename, uses, edits>>

\* A system variable is exposed or not; the store reads the values again.
Expose(k) ==
    /\ editor.id \in Workspaces
    /\ LET w == editor.id
           allow == (settings[w].allow \ {k}) \cup ({k} \ settings[w].allow) IN
         /\ settings' = [settings EXCEPT ![w].allow = allow]
         /\ IF allow = {} THEN system' = {} /\ UNCHANGED <<calls, made>>
            ELSE Ask({Call("system", w, allow)}) /\ UNCHANGED system
    /\ UNCHANGED <<stored, active, editor, focus, timers, rename, edits>>

Next ==
    \/ \E w \in Workspaces : Open(w)
    \/ \E e \in Ids : \/ RenameEnv(e) \/ Select(e)
                      \/ \E k \in Keys : Elsewhere(e, [NoVars EXCEPT ![k] = Plain])
    \/ \E e \in Envs : DeletedElsewhere(e) \/ Create(e) \/ Remove(e)
    \/ \E e \in Envs \cup {None} : SetActive(e)
    \/ \E c \in calls : Execute(c) \/ Fail(c) \/ Answer(c)
    \/ \E k \in Keys \cup {None} : OpenDialog(k)
    \/ \E k \in Keys : Expose(k) \/ (\E v \in Keys \cup {Plain, None} : TypeRow(k, v)) \/ (\E n \in Keys : RenameKey(k, n))
    \/ CloseDialog \/ SwitchView \/ RewriteUses \/ GivenUp \/ Blur
    \/ rename # <<>> /\ \E x \in rename.left : RewriteEnv(x)
    \/ \E t \in timers : Fire(t)

Spec == Init /\ [][Next]_envVars

----------------------------------------------------------------------------
\* Requests are resolved with activeEnvId, looked up in the store: whatever the
\* order of the answers of load, reload, create and remove, it is one of the
\* environments that are listed, and never the global one.
ActiveListed == active # None => active \in Envs /\ envs[active] # None

----------------------------------------------------------------------------
(* What the comments of the code say and the code does not keep. *)

\* "Resync on external writes; skip mid-save (the incoming change is our echo)":
\* with no save scheduled or under way, what was written elsewhere is shown.
ExternalWriteShown ==
    [][\A c \in calls :
         /\ Answer(c) /\ c.op = "reload" /\ editor.as = "form"
         /\ timers = {} /\ ~ \E d \in calls : d.op = "update"
         /\ editor'.id # None /\ editor'.id = editor.id /\ envs'[editor.id].at # envs[editor.id].at
         => editor'.rows = envs'[editor.id].vars]_envVars
=============================================================================
