--------------------------- MODULE MCShopProducts ---------------------------
(* One product on the shelf and room for two to be added, one of the three
   found by the search term. *)
EXTENDS ShopProducts, TLC

CONSTANTS p1, p2, p3, ph1, ph2
ProductsDef == {p1, p2, p3}
ShelfDef == {p1}
MatchingDef == {p2}
FieldsDef == {"name"}
PhotosDef == {ph1, ph2}
Day(does, drafts) == [does |-> does, drafts |-> drafts]
DaysDef ==
    {Day({"photo", "edit"}, 3), Day({"photo", "save"}, 2), Day({"open", "edit", "save"}, 3),
     Day({"open", "edit", "delete"}, 3), Day({"open", "search", "toggle"}, 1)}

\* No action or property tells one photo from another.
PhotosAlike == Permutations(PhotosDef)
=============================================================================
