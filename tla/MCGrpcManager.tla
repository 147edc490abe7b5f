--------------------------- MODULE MCGrpcManager ---------------------------
(* Instance of GrpcManager for TLC: two calls of one request and one message. *)
EXTENDS GrpcManager

CONSTANTS r1, g1, g2, m1

OneId == {r1}
TwoCalls == {g1, g2}
OneSender == {m1}
NoSender == {}
=============================================================================
