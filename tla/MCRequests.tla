----------------------------- MODULE MCRequests -----------------------------
(***************************************************************************)
(* The instance of Requests for TLC: three overlapping actions of the      *)
(* request store; two sends with the token of one key, a fetch and a clear *)
(* of it; the tree, with one node moved or made; and two sends whose       *)
(* templates send other requests.                                          *)
(***************************************************************************)
EXTENDS Requests, TLC

CONSTANTS f1, f2, f3, r1, r2, k1, g1, w1, w2, x1, x2, q1, c1, c2

\* The token cache has one key.
OneKey == [o \in Calls |-> k1]

\* A workspace with two nested folders, a request and a connection, and an
\* empty one; ids r2 and g1 are free for new nodes.
Node(p) == [parent |-> p, value |-> 0]
StoredAt(i) ==
    CASE i = f1 -> Node(None) [] i = f2 -> Node(f1)
      [] i = r1 -> Node(f2) [] i = k1 -> Node(f1) [] OTHER -> None
StoredAtFirst ==
    [w \in {w1, w2} |->
        [i \in {f1, f2, r1, r2, k1, g1} |-> IF w = w1 THEN StoredAt(i) ELSE None]]

\* Folder f2 is in f1 and has r1; g1 follows f1.  Ids f3 and r2 are free, for a
\* new node or a copy of f2 with what it has.
StartAtFirst ==
    (TreeRoot :> <<f1, g1>>) @@ (f1 :> <<f2>>) @@ (f2 :> <<r1>>) @@ (f3 :> <<>>)

\* Request x1 sends x2 for its URL, x2 sends q1 for its path, and q1 asks the
\* user.  No request refers back to itself.  x2 inherits its OAuth 2.
Plain == [path |-> <<>>, url |-> <<>>, query |-> <<>>, inherited |-> <<>>,
          headers |-> <<>>, body |-> [kind |-> "none"], from |-> "folder",
          auth |-> [kind |-> "none", fields |-> <<>>],
          folderAuth |-> None, workspaceAuth |-> None]
Resp(r, how) == [fn |-> "response", of |-> r, how |-> how]
Part(r, text) == [fn |-> "request", of |-> r, how |-> text]
Ask == [fn |-> "ask", of |-> None, how |-> "prompt"]
Secret(text) ==
    [kind |-> "oauth2",
     fields |-> [f \in {"token_url", "auth_url", "client_id", "client_secret", "scope",
                        "audience", "username", "password", "code_verifier"} |->
                    IF f = "client_secret" THEN text ELSE <<>>]]
RequestTexts ==
    [r \in {x1, x2, q1} |->
        CASE r = x1 -> [Plain EXCEPT !.url = <<Resp(x2, "force")>>,
                                     !.inherited = <<Part(q1, "headers")>>,
                                     !.headers = <<Part(q1, "headers"),
                                                   Resp(q1, "refresh-after")>>]
          [] r = x2 -> [Plain EXCEPT !.path = <<<<Resp(q1, "cache")>>>>, !.auth = None,
                                     !.folderAuth = Secret(<<Part(q1, "headers")>>)]
          [] r = q1 -> [Plain EXCEPT !.headers = <<Ask>>]]

\* An action constraint.  What is alike takes turns in one order: the actions
\* of the store start, the sends with one token ask for its lock and get it, the
\* sends that resolve templates start.  And a token that no file, read or save
\* holds does not expire: nobody would see it.  In the tree no more than two rows
\* are selected together.
InTurn(from, to) == \A x \in from \ to : x = CHOOSE first \in from : TRUE
Idle == {c \in StoreCalls : storeCall[c].pc = "idle"}
At(at) == {e \in Ensures : pc[e] = at}
Unstarted == {s \in Sends : pfOutcome[s] = None /\ ~Pf!Unsent(s)}
Kept ==
    {file[k] : k \in Keys} \cup {read[o][k] : o \in Calls, k \in Keys}
        \cup {o \in Calls \ Clears : pc[o] \in {"save", "read", "truncated"}}
Canonical ==
    /\ part = "store" => InTurn(Idle, Idle')
    /\ part = "tokens" =>
          /\ InTurn(At("idle"), At("idle")') /\ InTurn(At("wait"), At("wait")')
          /\ expired' \ expired \subseteq Kept
    /\ part = "tree" => Cardinality(treeChosen') <= 2
    /\ part = "preflight" => InTurn(Unstarted, Unstarted')
=============================================================================
