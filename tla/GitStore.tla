------------------------------ MODULE GitStore ------------------------------
(* The git store (store/git, store/gitReview) behind the source control     *)
(* menu, the review of changes and the history.  A call of the store is a   *)
(* chain of commands; the answer of one starts the next, and any number of  *)
(* chains run at a time.  Readings of the repository are stamped with the   *)
(* state of the worktree they were made of.  Each window has a store of its *)
(* own; one store serves the menu and the window here.                      *)
EXTENDS Integers, Sequences, SequencesExt

CONSTANTS Workspaces,
          None,
          MaxTree,     \* changes of a worktree
          MaxCalls     \* calls that start chains

VARIABLES
    disk,      \* "none" (no repository), "clean" or "merging"
    tree,      \* how often the worktree changed
    loaded,    \* loadedWorkspaceId
    repo,      \* the repository as the last answer described it
    files,     \* the status the badges are made of: whose, and of which tree
    changes,   \* the changes under review, likewise
    conflicts, \* there are entity conflicts
    op,        \* the operation the buttons show
    notice,    \* None, "error" or "auth" (authPrompt)
    chains,    \* the chains, oldest first
    debounce,  \* the workspace the debounced refresh is for
    view,      \* "changes" or "history"
    modal,     \* None, "settings" or "remote"
    calls

gitVars == <<disk, tree, loaded, repo, files, changes, conflicts, op, notice, chains,
             debounce, view, modal, calls>>
readings == <<files, changes, conflicts, repo>>
screen == <<view, modal>>
worktree == <<disk, tree>>

Nothing == [of |-> None, v |-> 0]

Init ==
    /\ disk \in [Workspaces -> {"none", "clean"}] /\ tree = [w \in Workspaces |-> 0]
    /\ loaded = None /\ repo = [of |-> None, is |-> "none"]
    /\ files = Nothing /\ changes = Nothing /\ conflicts = FALSE
    /\ op = None /\ notice = None /\ chains = <<>> /\ debounce = None
    /\ view = "changes" /\ modal = None /\ calls = 0

----------------------------------------------------------------------------
(* Chains.  A new "status" or "repo" command outdates the ones before it    *)
(* (refreshSeq, repoSeq); "info" is the same command without that guard.    *)

ChainFrom(steps, w, t) == [todo |-> steps, ws |-> w, from |-> t, fresh |-> TRUE]
Chain(steps, w) == ChainFrom(steps, w, tree[w])
Outdated(cs, step) ==
    [i \in DOMAIN cs |->
        IF cs[i].todo[1] = step THEN [cs[i] EXCEPT !.fresh = FALSE] ELSE cs[i]]
Begun(cs, c) == Append(Outdated(cs, c.todo[1]), c)

\* Chain i goes on with steps, or ends.
GoesFrom(i, steps, t) ==
    chains' = IF steps = <<>> THEN RemoveAt(chains, i)
              ELSE [Outdated(chains, steps[1]) EXCEPT
                        ![i] = ChainFrom(steps, chains[i].ws, t)]
Goes(i, steps) == GoesFrom(i, steps, tree[chains[i].ws])

Count == calls < MaxCalls /\ calls' = calls + 1
Call(steps, w) == Count /\ chains' = Begun(chains, Chain(steps, w))

\* withOp: the operation is shown, and given back by the chain's last step.
StartOp(o, steps) ==
    /\ loaded # None /\ Call(steps \o <<"end">>, loaded)
    /\ op' = o /\ notice' = None

\* What is left of a chain when a command of it is refused.
AfterThrow(todo) == IF todo[Len(todo)] = "end" THEN <<"end">> ELSE <<>>

----------------------------------------------------------------------------
(* What the menu and the window offer.  Whether there is a remote, commits   *)
(* ahead of it or selected changes is left open.                            *)

Conflicted == conflicts \/ repo.is = "merging"
IsRepo == repo.is # "none"

\* The window: without a repository it offers to make one, and conflicts come
\* before the changes but not before the history.
Panel == IF ~IsRepo THEN (IF repo.of = None THEN "loading" ELSE "init")
         ELSE IF Conflicted /\ view # "history" THEN "resolve" ELSE view

CanInit == Panel = "init" /\ op # "init"
Reviewed == IF Panel = "changes" THEN changes ELSE Nothing
CanCommit == Reviewed # Nothing /\ op # "publish"

\* The menu is a plain button until there is a repository.
MenuItems == ({"history", "settings", "remote", "branch", "share", "update"} \ {op})
             \cup (IF Conflicted \/ files # Nothing THEN {"changes"} ELSE {})
Offered == IF IsRepo THEN MenuItems ELSE {"changes"}

----------------------------------------------------------------------------
(* Calls. *)

Loading == <<"info", "status", "changes", "calm">>
Load(w) ==
    /\ Call(Loading, w) /\ loaded' = w /\ notice' = None
    /\ UNCHANGED <<worktree, readings, op, debounce, screen>>

\* A new window shows what it was opened for, and loads.
OpenWindow(w, v) ==
    /\ loaded = None /\ Call(Loading, w) /\ loaded' = w /\ notice' = None /\ view' = v
    /\ UNCHANGED <<worktree, readings, op, debounce, modal>>

OpenMenu ==
    /\ loaded # None /\ Count
    /\ chains' = Begun(Begun(chains, Chain(<<"repo">>, loaded)), Chain(<<"status">>, loaded))
    /\ UNCHANGED <<worktree, loaded, readings, op, notice, debounce, screen>>

\* Entities that change in this window, or files that change on the disk.
Touch(w) ==
    /\ tree[w] < MaxTree /\ tree' = [tree EXCEPT ![w] = @ + 1]
    /\ debounce' \in IF w = loaded THEN {w} ELSE {debounce}
    /\ UNCHANGED <<disk, loaded, readings, op, notice, chains, screen, calls>>

Debounced ==
    /\ debounce # None /\ debounce' = None /\ Count
    /\ chains' = Begun(Begun(Begun(chains, Chain(<<"status">>, debounce)),
                             Chain(<<"changes">>, debounce)), Chain(<<"repo">>, debounce))
    /\ UNCHANGED <<worktree, loaded, readings, op, notice, screen>>

InitRepo == CanInit /\ StartOp("init", <<"create", "status", "changes">>)
            /\ UNCHANGED <<worktree, loaded, readings, debounce, screen>>
Publish ==
    /\ CanCommit /\ StartOp("publish", <<"commit", "info", "changes", "status">>)
    /\ UNCHANGED <<worktree, loaded, readings, debounce, screen>>
GetUpdates == IsRepo /\ "update" \in Offered /\ StartOp("update", <<"pull">>)
              /\ UNCHANGED <<worktree, loaded, readings, debounce, screen>>
Share == IsRepo /\ "share" \in Offered /\ StartOp("share", <<"push", "info">>)
         /\ UNCHANGED <<worktree, loaded, readings, debounce, screen>>
SetRemote ==
    /\ modal = "remote" /\ StartOp("update", <<"remote", "info">>) /\ modal' = None
    /\ UNCHANGED <<worktree, loaded, readings, debounce, view>>

\* Rolling back an entity or a field, from the tree too, and reverting a commit.
RolledBackInTree == <<"discard", "status", "changes">>
RolledBack == <<"discard", "changes", "status">>
Reverted == <<"discard", "status", "changes", "leave">>
Discard ==
    /\ loaded # None
    /\ \/ Call(RolledBackInTree, loaded)
       \/ Panel = "changes" /\ Call(RolledBack, loaded)
       \/ Panel = "history" /\ Call(Reverted, loaded)
    /\ UNCHANGED <<worktree, loaded, readings, op, notice, debounce, screen>>

\* A branch is switched, made or renamed, and everything is loaded again.
Branch ==
    /\ loaded # None /\ "branch" \in Offered /\ Call(<<"checkout">> \o Loading, loaded)
    /\ UNCHANGED <<worktree, loaded, readings, op, notice, debounce, screen>>

\* The author and the credentials are saved, and the repository is loaded again.
SaveSettings ==
    /\ modal = "settings" /\ Call(Loading, loaded) /\ modal' = None /\ notice' = None
    /\ UNCHANGED <<worktree, loaded, readings, op, debounce, view>>

ShowView(v) == loaded # None /\ v \in Offered /\ view # v /\ view' = v
               /\ UNCHANGED <<worktree, loaded, readings, op, notice, chains, debounce, modal, calls>>
ShowModal(m) == /\ loaded # None /\ m \in Offered \cup {None} /\ modal # m /\ modal' = m
                /\ notice' = IF modal = "settings" THEN None ELSE notice
                /\ UNCHANGED <<worktree, loaded, readings, op, chains, debounce, view, calls>>

----------------------------------------------------------------------------
(* Answers. *)

Read(i, reading) == \E v \in chains[i].from .. tree[chains[i].ws] :
                        reading' = [of |-> chains[i].ws, v |-> v]
Changed(w) == tree[w] < MaxTree /\ tree' = [tree EXCEPT ![w] = @ + 1]

\* A seeded fault: whatever answer comes is taken.
AnyAnswer(c) == TRUE
\* Only the newest refresh counts.
Newest(c) == c.fresh

Status(i) ==
    /\ chains[i].todo[1] = "status"
    /\ \/ Newest(chains[i]) /\ Read(i, files)
       \/ UNCHANGED files
    /\ Goes(i, Tail(chains[i].todo))
    /\ UNCHANGED <<worktree, loaded, changes, conflicts, repo, op, notice, debounce, screen, calls>>

Changes(i) ==
    /\ chains[i].todo[1] = "changes"
    /\ Read(i, changes) \/ UNCHANGED changes
    /\ Goes(i, Tail(chains[i].todo))
    /\ UNCHANGED <<worktree, loaded, files, conflicts, repo, op, notice, debounce, screen, calls>>

\* What the repository is.  None empties the readings; a merge has conflicts
\* that are read once the chain is through.
Info(i) ==
    LET c == chains[i] todo == Tail(c.todo) IN
    /\ c.todo[1] \in {"info", "repo"} /\ (c.todo[1] = "repo" => c.fresh)
    /\ repo' = [of |-> c.ws, is |-> disk[c.ws]]
    /\ CASE disk[c.ws] = "none" /\ todo # <<>> ->
              files' = Nothing /\ changes' = Nothing /\ conflicts' = FALSE /\ Goes(i, AfterThrow(todo))
         [] disk[c.ws] = "merging" ->
              Goes(i, SelectSeq(todo, LAMBDA s : s \notin {"calm", "end"}) \o <<"conflicts">>
                      \o SelectSeq(todo, LAMBDA s : s = "end"))
              /\ UNCHANGED <<files, changes, conflicts>>
         [] OTHER ->
              Goes(i, todo) /\ UNCHANGED <<files, changes>>
              /\ conflicts' = IF c.todo[1] = "repo" THEN FALSE ELSE conflicts
    /\ UNCHANGED <<worktree, loaded, op, notice, debounce, screen, calls>>
StaleInfo(i) ==
    /\ chains[i].todo[1] = "repo" /\ ~chains[i].fresh /\ Goes(i, <<>>)
    /\ UNCHANGED <<worktree, loaded, readings, op, notice, debounce, screen, calls>>

Conflicts(i) ==
    /\ chains[i].todo[1] \in {"conflicts", "calm"}
    /\ conflicts' = (chains[i].todo[1] = "conflicts" /\ disk[chains[i].ws] = "merging")
    /\ Goes(i, Tail(chains[i].todo))
    /\ UNCHANGED <<worktree, loaded, files, changes, repo, op, notice, debounce, screen, calls>>

\* A pull that conflicts is finished at once if every conflict merges by itself.
Pull(i) ==
    LET w == chains[i].ws IN
    /\ chains[i].todo[1] = "pull"
    /\ \/ /\ disk' = [disk EXCEPT ![w] = "merging"] /\ Changed(w)
          /\ \E clean \in BOOLEAN :
               GoesFrom(i, <<"info", "conflicts">> \o (IF clean THEN <<"finish", "info", "changes">> ELSE <<>>)
                           \o <<"status", "end">>, tree'[w])
       \/ /\ UNCHANGED disk /\ (Changed(w) \/ UNCHANGED tree)
          /\ GoesFrom(i, <<"info", "changes", "status", "end">>, tree'[w])
    /\ UNCHANGED <<loaded, readings, op, notice, debounce, screen, calls>>

\* Commands that rewrite the worktree or its repository.
Rewrite(i) ==
    LET c == chains[i] IN
    /\ c.todo[1] \in {"create", "commit", "finish", "discard", "checkout"}
    /\ Changed(c.ws)
    /\ disk' = IF c.todo[1] \in {"create", "finish"} THEN [disk EXCEPT ![c.ws] = "clean"] ELSE disk
    /\ GoesFrom(i, Tail(c.todo), tree'[c.ws])
    /\ UNCHANGED <<loaded, readings, op, notice, debounce, screen, calls>>
Sent(i) ==
    /\ chains[i].todo[1] \in {"push", "remote"} /\ Goes(i, Tail(chains[i].todo))
    /\ UNCHANGED <<worktree, loaded, readings, op, notice, debounce, screen, calls>>

\* A refused command ends the chain; of an operation the last step is left.
\* An authentication failure asks for credentials.
Refused(i) ==
    LET c == chains[i] IN
    /\ c.todo[1] \notin {"status", "changes", "calm", "end", "leave"}
    /\ Goes(i, AfterThrow(c.todo))
    /\ notice' \in CASE AfterThrow(c.todo) # <<>> -> {"error", "auth"}
                     [] c.todo[1] \in {"info", "conflicts"} -> {"error", notice}
                     [] OTHER -> {notice}
    /\ modal' = IF notice' = "auth" /\ notice # "auth" THEN "settings" ELSE modal
    /\ UNCHANGED <<worktree, loaded, readings, op, debounce, view, calls>>

End(i) ==
    /\ chains[i].todo[1] = "end" /\ Goes(i, <<>>)
    /\ op' = None
    /\ UNCHANGED <<worktree, loaded, readings, notice, debounce, view, modal, calls>>
Leave(i) ==
    /\ chains[i].todo[1] = "leave" /\ Goes(i, <<>>) /\ view' = "changes"
    /\ UNCHANGED <<worktree, loaded, readings, op, notice, debounce, modal, calls>>

Next ==
    \/ \E w \in Workspaces : Load(w) \/ Touch(w)
    \/ OpenMenu \/ Debounced \/ InitRepo \/ Publish \/ GetUpdates \/ Share \/ SetRemote
    \/ Discard \/ Branch \/ SaveSettings
    \/ \E v \in {"changes", "history"} :
         ShowView(v) \/ \E w \in Workspaces : OpenWindow(w, v)
    \/ \E m \in {None, "settings", "remote"} : ShowModal(m)
    \/ \E i \in DOMAIN chains :
         \/ Status(i) \/ Changes(i) \/ Info(i) \/ StaleInfo(i) \/ Conflicts(i) \/ Pull(i)
         \/ Rewrite(i) \/ Sent(i) \/ Refused(i) \/ End(i) \/ Leave(i)

Spec == Init /\ [][Next]_gitVars

----------------------------------------------------------------------------
\* Refreshes overlap whenever files change under a menu that opens, a pull, or
\* a commit (refreshSeq in store/git/actions.ts): a status that was read of an
\* older worktree never replaces one of a newer worktree of the same workspace.
NotOlder == files'.of = files.of => files'.v >= files.v
BadgesNotOlder == [][NotOlder]_gitVars
=============================================================================
