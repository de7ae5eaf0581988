------------------------- MODULE MCOrderEscalation -------------------------
(* Instances of OrderEscalation for TLC. *)
EXTENDS OrderEscalation

CONSTANTS c1, c2

TwoCalls == {c1, c2}
=============================================================================
