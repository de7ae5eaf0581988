------------------------------ MODULE MCBasket ------------------------------
(* An instance of Basket for TLC: two products of one shop and one of another. *)
EXTENDS Basket, TLC

CONSTANTS grocer, baker, tea, soap, bread, r1, r2

MCShops == {grocer, baker}
MCUnits == {tea, soap, bread}
MCShopOf == [u \in MCUnits |-> IF u = bread THEN baker ELSE grocer]
MCRequests == {r1, r2}

UnitsAndSlots == Permutations({tea, soap}) \cup Permutations(MCRequests)
=============================================================================
