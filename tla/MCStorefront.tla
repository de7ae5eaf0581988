---------------------------- MODULE MCStorefront ----------------------------
(* Two keepers; a customer who looks at the shop of one of them.            *)
EXTENDS Storefront

CONSTANTS omar, lina
KeepersDef == {omar, lina}
FiltersDef == {"all", "milk"}
Day(does, st) == [tries |-> does, status |-> [k \in Keepers |-> IF k = omar THEN st ELSE None]]
DaysDef ==
    {Day({"register", "admin"}, "PENDING"), Day({"list", "browse", "admin"}, "APPROVED"),
     Day({"list", "browse", "order", "area"}, "APPROVED")}
=============================================================================
