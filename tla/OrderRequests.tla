--------------------------- MODULE OrderRequests ---------------------------
(***************************************************************************)
(* What a request does to an order when it is served without another in    *)
(* between, and what the two apps are sent back: the order as its shop or  *)
(* its customer may see it.  OrderLifecycle takes the same handlers apart  *)
(* statement by statement; here they are what the screens talk to.         *)
(***************************************************************************)
EXTENDS OrderPolicy

CONSTANTS Items      \* the lines an order is placed with

ASSUME OrderHasItems == Items # {}

\* An order and its rows; `lines` those left, `out` those out of stock.
Order == [status : OrderStatuses, by : Cancellers \cup {"NONE"},
          delivery : DeliveryStatuses \cup {"NONE"},
          lines : SUBSET Items, out : SUBSET Items, reviewed : BOOLEAN]

NewOrder == [status |-> "PENDING", by |-> "NONE", delivery |-> "NONE",
             lines |-> Items, out |-> {}, reviewed |-> FALSE]

\* An operation, with the status it sets and the line it is about where it has them.
Operations == {"cancel", "review", "acceptChanges", "setItemStatus", "confirm",
               "startPreparing", "merchantCancel", "assignDelivery", "updateDelivery"}
Op(op, to, item) == [op |-> op, to |-> to, item |-> item]
Plain(op) == Op(op, "none", "none")

-----------------------------------------------------------------------------
\* The CHECK on (status, cancelled_by) refuses to take a cancelled order up again.
DeliveryMoves(o, to) ==
    /\ o.delivery # "NONE" /\ canMoveDelivery(o.delivery, to)
    /\ orderStatusForDelivery(to) # "CANCELLED" => o.status # "CANCELLED"

Accepts(o, q) ==
    CASE q.op = "cancel"         -> customerCancelAllowed(o.status)
      [] q.op = "review"         -> o.status \in REVIEWABLE_STATUSES /\ ~o.reviewed
      [] q.op = "acceptChanges"  -> o.status \notin {"CANCELLED", "DELIVERED"} /\ o.out # {}
      [] q.op = "setItemStatus"  -> o.status \in ITEM_EDIT_ALLOWED /\ q.item \in o.lines
      [] q.op = "confirm"        -> canMoveTo(o.status, "CONFIRMED")
      [] q.op = "startPreparing" -> canMoveTo(o.status, "PREPARING")
      [] q.op = "merchantCancel" -> merchantCancelAllowed(o.status)
      [] q.op = "assignDelivery" -> o.status \in DELIVERY_ASSIGNABLE_FROM /\ o.delivery = "NONE"
      [] q.op = "updateDelivery" -> DeliveryMoves(o, q.to)

Cancelled(o, by) == [o EXCEPT !.status = "CANCELLED", !.by = by]

Trimmed(o) ==
    IF o.out = o.lines THEN Cancelled(o, "SYSTEM")
    ELSE [o EXCEPT !.lines = @ \ o.out, !.out = {}]

Delivered(o, to) ==
    LET moved == [o EXCEPT !.delivery = to]
    IN  IF orderStatusForDelivery(to) = "CANCELLED" THEN Cancelled(moved, "SYSTEM")
        ELSE [moved EXCEPT !.status = orderStatusForDelivery(to)]

\* The order after an operation it accepts.
After(o, q) ==
    CASE q.op = "cancel"         -> Cancelled(o, "CUSTOMER")
      [] q.op = "review"         -> [o EXCEPT !.reviewed = TRUE]
      [] q.op = "acceptChanges"  -> Trimmed(o)
      [] q.op = "setItemStatus"  -> [o EXCEPT !.out = IF q.to = "UNAVAILABLE" THEN @ \cup {q.item}
                                                      ELSE @ \ {q.item}]
      [] q.op = "confirm"        -> [o EXCEPT !.status = "CONFIRMED"]
      [] q.op = "startPreparing" -> [o EXCEPT !.status = "PREPARING"]
      [] q.op = "merchantCancel" -> Cancelled(o, "MERCHANT")
      [] q.op = "assignDelivery" -> [o EXCEPT !.delivery = "ASSIGNED"]
      [] q.op = "updateDelivery" -> Delivered(o, q.to)

\* What a driver has on the way belongs to an order under way, or to one that the system cancelled
\* when its customer gave up the last line of it.
CarriedIsSent(o) ==
    o.delivery \in {"PICKED_UP", "ON_WAY"} =>
        o.status = "DELIVERING" \/ (o.status = "CANCELLED" /\ o.by = "SYSTEM")

Attempt(o, q) == IF Accepts(o, q) THEN After(o, q) ELSE o

-----------------------------------------------------------------------------
(* What the server's view of an order tells its two readers. *)

SHOP_CONTACT_WINDOW   == {"CONFIRMED", "PREPARING"}
\* A window that opens when the driver is named rather than when the goods are picked up.
DRIVER_CONTACT_WINDOW_FromAssigned == {"ASSIGNED", "PICKED_UP", "ON_WAY"}
DRIVER_CONTACT_WINDOW == {"PICKED_UP", "ON_WAY"}

shopPhone(o)   == o.status \in SHOP_CONTACT_WINDOW
driverPhone(o) == o.delivery \in DRIVER_CONTACT_WINDOW
\* The driver's number once more, with the delivery: in no window.
captainPhone(o) == o.delivery # "NONE"

canAssignDelivery(o) == o.delivery = "NONE" /\ o.status \in DELIVERY_ASSIGNABLE_FROM
canReview(o) == o.status \in REVIEWABLE_STATUSES /\ ~o.reviewed
canCancel(o) == customerCancelAllowed(o.status)
\* A warning once the shop is picking, but not once it has confirmed.
cancelRequiresWarning_Picking(o) == o.status = "PREPARING"
cancelRequiresWarning(o) == o.status \in CUSTOMER_WARNED_CANCEL
=============================================================================
