----------------------------- MODULE MCInFlight -----------------------------
(***************************************************************************)
(* The instance of InFlight for TLC: three HTTP sends of one request and   *)
(* one of another, so that a cleanup can meet the entry of a later and of  *)
(* an earlier send; gRPC calls likewise; and a stream of nine frames, in   *)
(* batches of three.                                                       *)
(***************************************************************************)
EXTENDS InFlight

CONSTANTS i1, i2, s1, s2, s3, s4

TwoIds == {i1, i2}
FourSends == {s1, s2, s3, s4}
IdOfSend == [s \in FourSends |-> IF s = s4 THEN i2 ELSE i1]
=============================================================================
