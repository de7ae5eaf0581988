---------------------------- MODULE OrderPolicy ----------------------------
(***************************************************************************)
(* The tables every order handler consults: the statuses of the schema,    *)
(* which status admits which operation (order-policy.ts) and how the       *)
(* delivery's status drives the order's (delivery-policy.ts).  They are    *)
(* constants and pure functions; the handlers are in OrderLifecycle.       *)
(***************************************************************************)

OrderStatuses == {"PENDING", "CONFIRMED", "PREPARING", "DELIVERING",
                  "DELIVERED", "CANCELLED"}

\* The enum CancelledBy; "NONE" is the NULL of the nullable column.
Cancellers == {"CUSTOMER", "MERCHANT", "SYSTEM"}

ItemStatuses == {"CONFIRMED", "UNAVAILABLE"}

DeliveryStatuses == {"ASSIGNED", "PICKED_UP", "ON_WAY", "DELIVERED", "FAILED"}

MerchantStatuses == {"PENDING", "APPROVED", "SUSPENDED"}

-----------------------------------------------------------------------------
CUSTOMER_FREE_CANCEL    == {"PENDING"}
CUSTOMER_WARNED_CANCEL  == {"CONFIRMED", "PREPARING"}
MERCHANT_CANCEL_ALLOWED == {"CONFIRMED", "PREPARING"}
ITEM_EDIT_ALLOWED       == {"PENDING", "CONFIRMED", "PREPARING"}
DELIVERY_ASSIGNABLE_FROM == {"PREPARING"}

\* A review is accepted on a delivered order only.
REVIEWABLE_STATUSES == {"DELIVERED"}

FORWARD_TRANSITIONS ==
    [from \in OrderStatuses |->
        CASE from = "PENDING"    -> {"CONFIRMED"}
          [] from = "CONFIRMED"  -> {"PREPARING"}
          [] from = "PREPARING"  -> {"DELIVERING"}
          [] from = "DELIVERING" -> {"DELIVERED"}
          [] OTHER               -> {}]

\* A table in which a shop may still confirm an order it is already picking.
canMoveTo_Backwards(from, to) ==
    to \in FORWARD_TRANSITIONS[from] \/ (from = "PREPARING" /\ to = "CONFIRMED")
canMoveTo(from, to) == to \in FORWARD_TRANSITIONS[from]

customerCancelAllowed(s) == s \in CUSTOMER_FREE_CANCEL \cup CUSTOMER_WARNED_CANCEL
merchantCancelAllowed(s) == s \in MERCHANT_CANCEL_ALLOWED

-----------------------------------------------------------------------------
DELIVERY_TRANSITIONS ==
    [from \in DeliveryStatuses |->
        CASE from = "ASSIGNED"  -> {"PICKED_UP", "FAILED"}
          [] from = "PICKED_UP" -> {"ON_WAY", "DELIVERED", "FAILED"}
          [] from = "ON_WAY"    -> {"DELIVERED", "FAILED"}
          [] OTHER              -> {}]

canMoveDelivery(from, to) == to \in DELIVERY_TRANSITIONS[from]

\* The order status a delivery status implies; "NONE" leaves the order alone.
\* Three slips in this switch: a case left out, a pickup that does not move
\* the order, and a failed delivery that leaves its order where it was.
orderStatusForDelivery_DeliveredLate(d) ==
    CASE d = "ASSIGNED" -> "NONE"
      [] d \in {"PICKED_UP", "ON_WAY", "DELIVERED"} -> "DELIVERING"
      [] d = "FAILED" -> "CANCELLED"
orderStatusForDelivery_PickupIgnored(d) ==
    CASE d \in {"ASSIGNED", "PICKED_UP"} -> "NONE"
      [] d = "ON_WAY"    -> "DELIVERING"
      [] d = "DELIVERED" -> "DELIVERED"
      [] d = "FAILED"    -> "CANCELLED"
orderStatusForDelivery_FailureIgnored(d) ==
    CASE d \in {"ASSIGNED", "FAILED"} -> "NONE"
      [] d \in {"PICKED_UP", "ON_WAY"} -> "DELIVERING"
      [] d = "DELIVERED" -> "DELIVERED"
orderStatusForDelivery(d) ==
    CASE d = "ASSIGNED" -> "NONE"
      [] d \in {"PICKED_UP", "ON_WAY"} -> "DELIVERING"
      [] d = "DELIVERED" -> "DELIVERED"
      [] d = "FAILED"    -> "CANCELLED"
=============================================================================
