----------------------------- MODULE MCScreens -----------------------------
(***************************************************************************)
(* The instance of Screens for TLC: two texts in one input, an environment *)
(* of one of two workspaces, two jars with a cookie that may expire, two   *)
(* chains of git commands, a merge with two conflicting entities of which  *)
(* one may be deleted, the changes of two folders and a request, two       *)
(* responses of five lines read in blocks of three, a stream of two        *)
(* frames of which one is kept, and two WebSocket connections.             *)
(***************************************************************************)
EXTENDS Screens, TLC

CONSTANTS o1, o2, w1, e1, k1, k2, x1, x2, q1

\* One text starts with an encrypted chip, one with a letter.
TwoTexts == (o1 :> <<<<"cipher", "s1">>>>) @@ (o2 :> <<<<"char", "">>>>)

\* The environment is of w1; it has a variable, which refers to itself.
HomeOfEnv == e1 :> w1
SelfReference == {(k1 :> k1) @@ (k2 :> None)}

\* The rows of a name in a list of an entity: a name may be there twice.
ListsOfRows == {<<>>, <<"a">>, <<"a", "b">>}

\* Blocks that nest and that follow each other; a filtered body has others.
BodyOpensAt ==
    [x \in {x1, x2} \X {q1, None} |->
        [l \in 0..4 |->
            CASE l = 0 -> IF x[2] = None THEN 3 ELSE 2
              [] l = 1 -> 2
              [] l = 3 -> 4
              [] OTHER -> 0]]

\* An action constraint.  The workspaces of git are alike, and the connections
\* are: the first that is opened is always the same one.  So are the folders under
\* review: the second was not committed alone, and the first not into it.
OpensFirst(old, new, S) == old = None => new \in {None, CHOOSE x \in S : TRUE}
FirstFolder == CHOOSE f \in Folders : TRUE
FoldersInOrder ==
    \A f \in Folders \ {FirstFolder} : reviewCommitted[f] # None =>
        reviewCommitted[FirstFolder] # None /\ reviewCommitted[FirstFolder].in # f
Canonical ==
    /\ part = "review" => FoldersInOrder
    /\ part = "git" => OpensFirst(gitLoaded, gitLoaded', Workspaces)
    /\ part = "ws" => OpensFirst(wsActive, wsActive', Conns)
=============================================================================
