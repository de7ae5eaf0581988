----------------------------- MODULE MCCheckout -----------------------------
(* An instance of Checkout for TLC. *)
EXTENDS Checkout, TLC

CONSTANTS tea, soap, r1, r2

MCProducts == {tea, soap}
MCRequests == {r1, r2}
MCPrices == {1, 2}

\* Neither products nor slots are told apart by any action or property.
ProductsAndSlots == Permutations(MCProducts) \cup Permutations(MCRequests)
=============================================================================
