------------------------------ MODULE MCPanes ------------------------------
(***************************************************************************)
(* The instance of Panes for TLC: two requests that are edited in one      *)
(* pane; a send of the pane beside a folder run of both; and the two       *)
(* requests with two stored responses.                                     *)
(***************************************************************************)
EXTENDS Panes

CONSTANTS r1, r2, s1, l1

TreeOrder == <<r1, r2>>
=============================================================================
