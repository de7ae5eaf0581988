---------------------------- MODULE OrderServer -----------------------------
(***************************************************************************)
(* An order whose requests are served whole, one at a time, as the two     *)
(* order screens are modelled to meet it: a request is refused or has all  *)
(* of its effect in one step.  OrderLifecycle, whose handlers may be       *)
(* interrupted at every await, is shown to be one of these as long as the  *)
(* requests do not overlap.                                                *)
(***************************************************************************)
EXTENDS OrderRequests

VARIABLE order   \* the order and its rows

\* What the routes of an order let in: an operation, and the argument its DTO admits.
Sent ==
    {Plain(op) : op \in Operations \ {"setItemStatus", "updateDelivery"}}
        \cup {Op("setItemStatus", s, i) : s \in ItemStatuses, i \in Items}
        \cup {Op("updateDelivery", d, "none") : d \in DeliveryStatuses \ {"ASSIGNED"}}

Init == order = NewOrder

Serves(q) == Accepts(order, q) /\ order' = After(order, q)

Next == \E q \in Sent : Serves(q)

Spec == Init /\ [][Next]_order
=============================================================================
