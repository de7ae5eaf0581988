-------------------------- MODULE MCOrderLifecycle --------------------------
(* Instances of OrderLifecycle for TLC. *)
EXTENDS OrderLifecycle, TLC

CONSTANTS tea, soap, r1, r2

TwoItems == {tea, soap}
OneSlot  == {r1}
TwoSlots == {r1, r2}

\* Neither the lines nor the slots are told apart by any action or property.
LinesAndSlots == Permutations(TwoItems) \cup Permutations(TwoSlots)
=============================================================================
