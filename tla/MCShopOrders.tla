---------------------------- MODULE MCShopOrders ----------------------------
(* Two orders of one line.  On the first days one of them comes in and is confirmed and picked,   *)
(* sent out, or trimmed and cancelled; on the last the shop works on both.                        *)
EXTENDS ShopOrders, TLC

CONSTANTS o1, o2, i1
OrdersDef == {o1, o2}
ItemsDef == {i1}

from(status, tries) == [from |-> status, tries |-> tries]
One(d) == o1 :> d @@ o2 :> from("PENDING", {})
DaysDef == {One(from("PENDING", {"confirm", "startPreparing", "cancel"})),
            One(from("PREPARING", {"assignDelivery", "updateDelivery", "cancel"})),
            One(from("CONFIRMED", {"setItemStatus", "merchantCancel", "acceptChanges"})),
            o1 :> from("PENDING", {"confirm"}) @@ o2 :> from("CONFIRMED", {"merchantCancel"})}
=============================================================================
