----------------------------- MODULE MCOtpLogin -----------------------------
(* Instances of OtpLogin for TLC. *)
EXTENDS OtpLogin, TLC

CONSTANTS r1, r2, a, b, c

OneSlot    == {r1}
TwoSlots   == {r1, r2}
ThreeCodes == {a, b, c}
=============================================================================
