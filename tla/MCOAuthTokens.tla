--------------------------- MODULE MCOAuthTokens ---------------------------
(***************************************************************************)
(* Instance of OAuthTokens for TLC: two sends of two keys.                 *)
(***************************************************************************)
EXTENDS OAuthTokens

CONSTANTS k1, k2, e1, e2

TwoKeys == {k1, k2}
TwoEnsures == {e1, e2}
NoCall == {}
KeyPerEnsure == [o \in Calls |-> IF o = e1 THEN k1 ELSE k2]
=============================================================================
