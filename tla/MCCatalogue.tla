---------------------------- MODULE MCCatalogue -----------------------------
(* Instances of Catalogue for TLC. *)
EXTENDS Catalogue, TLC

CONSTANTS c1, c2, c3, drinks, snacks, tea, r1, r2

MCCategories == {c1, c2, c3}
MCNames == {drinks, snacks}
MCGoods == {tea}
MCSlots == {r1, r2}

\* Identities and slots are not told apart by any action or property.  Names are, by the
\* CHOOSE in NoRequest.
IdsAndSlots == Permutations(MCCategories) \cup Permutations(MCSlots)
=============================================================================
