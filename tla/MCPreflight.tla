---------------------------- MODULE MCPreflight ----------------------------
(***************************************************************************)
(* Instance of Preflight for TLC: two requests that use each other's       *)
(* responses, and one send.                                                *)
(***************************************************************************)
EXTENDS Preflight, TLC

CONSTANTS r1, r2, s1

TwoReqs == {r1, r2}
OneSend == {s1}
NoText == <<>>
Plain == [path |-> <<>>, url |-> <<>>, query |-> <<>>, inherited |-> <<>>,
          headers |-> <<>>, body |-> [kind |-> "none"], from |-> "folder",
          auth |-> [kind |-> "none", fields |-> <<>>],
          folderAuth |-> None, workspaceAuth |-> None]
Uses(r) == [Plain EXCEPT !.headers = << [fn |-> "response", of |-> r, how |-> "force"] >>]
EachOther == (r1 :> Uses(r2)) @@ (r2 :> Uses(r1))
=============================================================================
