---------------------------- MODULE MCWsManager ----------------------------
(***************************************************************************)
(* Instances of WsManager for TLC.  Two connects of one id and one         *)
(* disconnect reach every overlap of two connections; two messages on a    *)
(* channel of capacity one reach its limit.                                *)
(***************************************************************************)
EXTENDS WsManager

CONSTANTS c1, a1, a2, s1, s2, d1

OneId == {c1}
TwoAttempts == {a1, a2}
OneSender == {s1}
TwoSenders == {s1, s2}
OneDisconnect == {d1}
NoSender == {}
NoDisconnect == {}
=============================================================================
