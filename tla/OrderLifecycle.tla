--------------------------- MODULE OrderLifecycle ---------------------------
(***************************************************************************)
(* One placed order and the requests that act on it.                       *)
(*                                                                         *)
(* OrdersService and MerchantOrdersService run on one Node process: a      *)
(* handler runs until its next `await` and every database statement is a   *)
(* step of its own, so two handlers interleave there.  A request is        *)
(* therefore a small process: `at` says which statement it awaits, and the *)
(* rest of the record is what it carries across the await.  PostgreSQL     *)
(* runs at READ COMMITTED: a statement sees what is committed when it      *)
(* starts, and the writes of a $transaction become visible together, when  *)
(* it commits.  A request that a guard rejects ends with no effect; one    *)
(* rejected by its very first read changes nothing and is not a step.      *)
(*                                                                         *)
(* Handlers are scoped to the caller's own orders, so every request here   *)
(* comes from the customer or from the shop of this order; orders do not   *)
(* share rows, and one of them is the whole story.  What the customer      *)
(* pays is represented by `charged`, the lines summed into total_price (the*)
(* flat delivery fee is always added).                                     *)
(***************************************************************************)
EXTENDS OrderPolicy

CONSTANTS Items,      \* the lines the order was placed with
          Requests    \* slots for requests in flight; a slot is reused

\* CreateOrderDto: an order contains at least one item.
ASSUME ItemsAssumption == Items # {}

VARIABLES
    status,       \* orders.status
    cancelledBy,  \* orders.cancelled_by
    charged,      \* the lines that make up orders.total_price
    line,         \* order_items: status of each line, or "DELETED"
    delivery,     \* deliveries: status of the order's row, or "NONE"
    reviewed,     \* whether reviews has a row for the order
    shop,         \* merchants.status of the order's shop
    req           \* the requests in flight

vars == <<status, cancelledBy, charged, line, delivery, reviewed, shop, req>>

CustomerOps == {"cancel", "review", "acceptChanges"}
MerchantOps == {"setItemStatus", "confirm", "startPreparing", "merchantCancel",
                "assignDelivery", "updateDelivery"}

\* The statuses UpdateDeliveryDto admits.
DeliveryTargets == {"PICKED_UP", "ON_WAY", "DELIVERED", "FAILED"}

\* The statement a request awaits next.
Points == {"idle", "order", "lines", "item", "reviewRow", "deliveryRow", "write"}

Request == [op    : CustomerOps \cup MerchantOps \cup {"none"},
            at    : Points,
            to    : ItemStatuses \cup DeliveryStatuses \cup {"none"},
            lines : SUBSET Items,     \* the line to edit, or those seen UNAVAILABLE
            kept  : SUBSET Items]     \* the lines seen CONFIRMED

Idle == [op |-> "none", at |-> "idle", to |-> "none", lines |-> {}, kept |-> {}]

\* The rows order_items still holds.
Lines == {i \in Items : line[i] # "DELETED"}

-----------------------------------------------------------------------------
\* An order just created, its shop approved when it was (OrdersService.create).
Init ==
    /\ status = "PENDING"
    /\ cancelledBy = "NONE"
    /\ charged = Items
    /\ line = [i \in Items |-> "CONFIRMED"]
    /\ delivery = "NONE"
    /\ reviewed = FALSE
    /\ shop = "APPROVED"
    /\ req = [r \in Requests |-> Idle]

\* Request plumbing.
Starts(r, op, point) ==
    /\ req[r] = Idle
    /\ req' = [req EXCEPT ![r] = [Idle EXCEPT !.op = op, !.at = point]]
Awaits(r, op, point) == req[r].op = op /\ req[r].at = point
Goes(r, point) == req' = [req EXCEPT ![r].at = point]
Ends(r) == req' = [req EXCEPT ![r] = Idle]

-----------------------------------------------------------------------------
(***************************************************************************)
(* The CHECK orders_cancelled_by_matches_status.  Every write below sets   *)
(* one of a pair (status, cancelled_by); a statement that would leave a    *)
(* live status beside a canceller is refused and the handler throws.       *)
(***************************************************************************)
CheckAccepts_NoConstraint(newStatus, newBy) == TRUE
CheckAccepts(newStatus, newBy) == (newStatus = "CANCELLED") <=> (newBy # "NONE")

\* UPDATE orders SET status = newStatus, by a handler that then returns.
MoveOrder(r, newStatus) ==
    /\ status' = IF CheckAccepts(newStatus, cancelledBy) THEN newStatus ELSE status
    /\ Ends(r)
    /\ UNCHANGED <<cancelledBy, charged, line, delivery, reviewed, shop>>

\* UPDATE orders SET status = 'cancelled', cancelled_by = by.
CancelOrder(r, by) ==
    /\ status' = "CANCELLED"
    /\ cancelledBy' = by
    /\ Ends(r)
    /\ UNCHANGED <<charged, line, delivery, reviewed, shop>>

-----------------------------------------------------------------------------
(* OrdersService.cancel *)

CancelRead(r) ==
    /\ customerCancelAllowed(status)
    /\ Starts(r, "cancel", "write")
    /\ UNCHANGED <<status, cancelledBy, charged, line, delivery, reviewed, shop>>

CancelWrite(r) ==
    /\ Awaits(r, "cancel", "write")
    /\ CancelOrder(r, "CUSTOMER")

(* OrdersService.review: the review row is read with a query of its own. *)

ReviewReadOrder(r) ==
    /\ status \in REVIEWABLE_STATUSES
    /\ Starts(r, "review", "reviewRow")
    /\ UNCHANGED <<status, cancelledBy, charged, line, delivery, reviewed, shop>>

ReviewReadReview(r) ==
    /\ Awaits(r, "review", "reviewRow")
    /\ IF reviewed THEN Ends(r) ELSE Goes(r, "write")
    /\ UNCHANGED <<status, cancelledBy, charged, line, delivery, reviewed, shop>>

\* INSERT INTO reviews; a second row is refused by the unique order_id.
ReviewWrite(r) ==
    /\ Awaits(r, "review", "write")
    /\ reviewed' = TRUE
    /\ Ends(r)
    /\ UNCHANGED <<status, cancelledBy, charged, line, delivery, shop>>

(* OrdersService.acceptChanges: one transaction, two reads, then the writes. *)

AcceptReadOrder(r) ==
    /\ status \notin {"CANCELLED", "DELIVERED"}
    /\ Starts(r, "acceptChanges", "lines")
    /\ UNCHANGED <<status, cancelledBy, charged, line, delivery, reviewed, shop>>

\* `remaining` taken as every line that was read, the unavailable ones too.
AcceptReadLines_AllRemain(r) ==
    /\ Awaits(r, "acceptChanges", "lines")
    /\ LET unavailable == {i \in Items : line[i] = "UNAVAILABLE"}
       IN  IF unavailable = {} THEN Ends(r)
           ELSE req' = [req EXCEPT ![r] =
                  [op |-> "acceptChanges", at |-> "write", to |-> "none",
                   lines |-> unavailable, kept |-> Lines]]
    /\ UNCHANGED <<status, cancelledBy, charged, line, delivery, reviewed, shop>>
AcceptReadLines(r) ==
    /\ Awaits(r, "acceptChanges", "lines")
    /\ LET unavailable == {i \in Items : line[i] = "UNAVAILABLE"}
           remaining   == {i \in Items : line[i] = "CONFIRMED"}
       IN  IF unavailable = {} THEN Ends(r)
           ELSE req' = [req EXCEPT ![r] =
                  [op |-> "acceptChanges", at |-> "write", to |-> "none",
                   lines |-> unavailable, kept |-> remaining]]
    /\ UNCHANGED <<status, cancelledBy, charged, line, delivery, reviewed, shop>>

\* Nothing left to deliver: the order is cancelled by the system.
AcceptCancels(r) ==
    /\ Awaits(r, "acceptChanges", "write")
    /\ req[r].kept = {}
    /\ CancelOrder(r, "SYSTEM")

\* deleteMany of the lines seen unavailable (by id, whatever their status is
\* now) and the total of the lines seen confirmed, committed together.
AcceptTrims(r) ==
    /\ Awaits(r, "acceptChanges", "write")
    /\ req[r].kept # {}
    /\ line' = [i \in Items |-> IF i \in req[r].lines THEN "DELETED" ELSE line[i]]
    /\ charged' = req[r].kept
    /\ Ends(r)
    /\ UNCHANGED <<status, cancelledBy, delivery, reviewed, shop>>

-----------------------------------------------------------------------------
(***************************************************************************)
(* The shop's handlers.  Each reads the caller's merchant row first        *)
(* (requireOwnMerchant), then the order (requireOwnOrder).                 *)
(***************************************************************************)

MerchantBegins(r, op, to, lines) ==
    /\ shop # "SUSPENDED"
    /\ req[r] = Idle
    /\ req' = [req EXCEPT ![r] =
                  [op |-> op, at |-> "order", to |-> to, lines |-> lines, kept |-> {}]]
    /\ UNCHANGED <<status, cancelledBy, charged, line, delivery, reviewed, shop>>

SetItemStatusBegin(r) ==
    \E i \in Items, s \in ItemStatuses : MerchantBegins(r, "setItemStatus", s, {i})
ConfirmBegin(r)        == MerchantBegins(r, "confirm", "none", {})
StartPreparingBegin(r) == MerchantBegins(r, "startPreparing", "none", {})
MerchantCancelBegin(r) == MerchantBegins(r, "merchantCancel", "none", {})
AssignDeliveryBegin(r) == MerchantBegins(r, "assignDelivery", "none", {})
UpdateDeliveryBegin(r) ==
    \E d \in DeliveryTargets : MerchantBegins(r, "updateDelivery", d, {})

MerchantBegin(r) ==
    \/ SetItemStatusBegin(r) \/ ConfirmBegin(r) \/ StartPreparingBegin(r)
    \/ MerchantCancelBegin(r) \/ AssignDeliveryBegin(r) \/ UpdateDeliveryBegin(r)

\* The status guard each handler applies to the order it has just read, and the
\* statement it awaits when the guard lets it through.  updateDelivery has none.
AfterOrderRead(op) ==
    CASE op = "setItemStatus"  -> [allowed |-> status \in ITEM_EDIT_ALLOWED,
                                   next |-> "item"]
      [] op = "confirm"        -> [allowed |-> canMoveTo(status, "CONFIRMED"),
                                   next |-> "write"]
      [] op = "startPreparing" -> [allowed |-> canMoveTo(status, "PREPARING"),
                                   next |-> "write"]
      [] op = "merchantCancel" -> [allowed |-> merchantCancelAllowed(status),
                                   next |-> "write"]
      [] op = "assignDelivery" -> [allowed |-> status \in DELIVERY_ASSIGNABLE_FROM,
                                   next |-> "deliveryRow"]
      [] op = "updateDelivery" -> [allowed |-> TRUE, next |-> "deliveryRow"]

MerchantReadOrder(r) ==
    /\ req[r].op \in MerchantOps /\ req[r].at = "order"
    /\ LET step == AfterOrderRead(req[r].op)
       IN  IF step.allowed THEN Goes(r, step.next) ELSE Ends(r)
    /\ UNCHANGED <<status, cancelledBy, charged, line, delivery, reviewed, shop>>

(* MerchantOrdersService.setItemStatus *)

SetItemStatusReadItem(r) ==
    /\ Awaits(r, "setItemStatus", "item")
    /\ IF req[r].lines \subseteq Lines THEN Goes(r, "write") ELSE Ends(r)
    /\ UNCHANGED <<status, cancelledBy, charged, line, delivery, reviewed, shop>>

\* UPDATE by id; when the row is gone the statement throws.
SetItemStatusWrite(r) ==
    /\ Awaits(r, "setItemStatus", "write")
    /\ line' = [i \in Items |-> IF i \in req[r].lines \cap Lines THEN req[r].to ELSE line[i]]
    /\ Ends(r)
    /\ UNCHANGED <<status, cancelledBy, charged, delivery, reviewed, shop>>

(* MerchantOrdersService.confirm, startPreparing, cancel *)

ConfirmWrite(r)        == Awaits(r, "confirm", "write") /\ MoveOrder(r, "CONFIRMED")
StartPreparingWrite(r) == Awaits(r, "startPreparing", "write") /\ MoveOrder(r, "PREPARING")
MerchantCancelWrite(r) == Awaits(r, "merchantCancel", "write") /\ CancelOrder(r, "MERCHANT")

(* MerchantOrdersService.assignDelivery *)

AssignDeliveryReadDelivery(r) ==
    /\ Awaits(r, "assignDelivery", "deliveryRow")
    /\ IF delivery = "NONE" THEN Goes(r, "write") ELSE Ends(r)
    /\ UNCHANGED <<status, cancelledBy, charged, line, delivery, reviewed, shop>>

\* INSERT INTO deliveries; a second row is refused by the unique order_id.
AssignDeliveryWrite(r) ==
    /\ Awaits(r, "assignDelivery", "write")
    /\ delivery' = IF delivery = "NONE" THEN "ASSIGNED" ELSE delivery
    /\ Ends(r)
    /\ UNCHANGED <<status, cancelledBy, charged, line, reviewed, shop>>

(* MerchantOrdersService.updateDelivery *)

UpdateDeliveryReadDelivery(r) ==
    /\ Awaits(r, "updateDelivery", "deliveryRow")
    /\ IF delivery # "NONE" /\ canMoveDelivery(delivery, req[r].to)
       THEN Goes(r, "write") ELSE Ends(r)
    /\ UNCHANGED <<status, cancelledBy, charged, line, delivery, reviewed, shop>>

\* The two updates sent one after the other: the delivery's stays when the order's is refused.
UpdateDeliveryWrite_NotInOne(r) ==
    /\ Awaits(r, "updateDelivery", "write")
    /\ LET derived == orderStatusForDelivery(req[r].to)
           by == IF derived = "CANCELLED" THEN "SYSTEM" ELSE cancelledBy
       IN  /\ delivery' = req[r].to
           /\ status' = IF CheckAccepts(derived, by) THEN derived ELSE status
           /\ cancelledBy' = by
    /\ Ends(r)
    /\ UNCHANGED <<charged, line, reviewed, shop>>
\* One transaction: the delivery row moves, and the order with it.  When the
\* CHECK refuses the order's new status, both updates roll back.
UpdateDeliveryWrite(r) ==
    /\ Awaits(r, "updateDelivery", "write")
    /\ LET derived == orderStatusForDelivery(req[r].to)
           by == IF derived = "CANCELLED" THEN "SYSTEM" ELSE cancelledBy
           committed == derived = "NONE" \/ CheckAccepts(derived, by)
       IN  /\ delivery' = IF committed THEN req[r].to ELSE delivery
           /\ status' = IF committed /\ derived # "NONE" THEN derived ELSE status
           /\ cancelledBy' = IF committed THEN by ELSE cancelledBy
    /\ Ends(r)
    /\ UNCHANGED <<charged, line, reviewed, shop>>

-----------------------------------------------------------------------------
\* AdminService.setMerchantStatus on the order's shop, at any moment.
SetMerchantStatus ==
    /\ \E s \in MerchantStatuses \ {shop} : shop' = s
    /\ UNCHANGED <<status, cancelledBy, charged, line, delivery, reviewed, req>>

\* What the runtime does for a request in flight: its next statement.
Step(r) ==
    \/ CancelWrite(r)
    \/ ReviewReadReview(r) \/ ReviewWrite(r)
    \/ AcceptReadLines(r) \/ AcceptCancels(r) \/ AcceptTrims(r)
    \/ MerchantReadOrder(r)
    \/ SetItemStatusReadItem(r) \/ SetItemStatusWrite(r)
    \/ ConfirmWrite(r) \/ StartPreparingWrite(r) \/ MerchantCancelWrite(r)
    \/ AssignDeliveryReadDelivery(r) \/ AssignDeliveryWrite(r)
    \/ UpdateDeliveryReadDelivery(r) \/ UpdateDeliveryWrite(r)

Arrives(r) ==
    \/ CancelRead(r) \/ ReviewReadOrder(r) \/ AcceptReadOrder(r) \/ MerchantBegin(r)

Next == SetMerchantStatus \/ \E r \in Requests : Arrives(r) \/ Step(r)

Spec == Init /\ [][Next]_vars

-----------------------------------------------------------------------------
(***************************************************************************)
(* What the order promises however the requests interleave.                *)
(***************************************************************************)

\* The rows as the one record of OrderServer, with the lines that are out of stock.
OutOfStock == {i \in Items : line[i] = "UNAVAILABLE"}
TheOrder == [status |-> status, by |-> cancelledBy, delivery |-> delivery, lines |-> Lines,
             out |-> OutOfStock, reviewed |-> reviewed]
Served == INSTANCE OrderServer WITH order <- TheOrder

\* Every variable has its type, a request carries an argument its DTO admits, and
\* the order row satisfies the CHECK: it names a canceller exactly when cancelled.
TypeOK ==
    /\ status \in OrderStatuses
    /\ cancelledBy \in Cancellers \cup {"NONE"}
    /\ charged \in SUBSET Items
    /\ line \in [Items -> ItemStatuses \cup {"DELETED"}]
    /\ delivery \in DeliveryStatuses \cup {"NONE"}
    /\ reviewed \in BOOLEAN
    /\ shop \in MerchantStatuses
    /\ req \in [Requests -> Request]
    /\ \A r \in Requests :
          /\ req[r].op = "updateDelivery" => req[r].to \in DeliveryTargets
          /\ req[r].op = "setItemStatus" =>
                req[r].to \in ItemStatuses /\ \E i \in Items : req[r].lines = {i}
    /\ (status = "CANCELLED") <=> (cancelledBy # "NONE")

\* No order is stranded, the part of OrderSettles that needs no fairness: as long as it is not over,
\* a request that its shop may send unless suspended, served now, takes it to another status.
NeverStranded ==
    status \notin {"DELIVERED", "CANCELLED"} =>
        \E q \in Served!Sent :
            /\ q.op \in MerchantOps /\ Served!Accepts(TheOrder, q)
            /\ Served!After(TheOrder, q).status # status

\* A cancelled order stays cancelled, whatever request was in flight with an
\* older status in hand: no handler rechecks, the CHECK refuses its write.
CancelledIsFinal == [][status = "CANCELLED" => status' = "CANCELLED"]_vars

\* The order is never ahead of its delivery, and a failed delivery never leaves
\* a live order behind: the two rows are written by different handlers, but
\* updateDelivery moves both in one transaction.
OrderBackedByDelivery ==
    /\ status = "DELIVERING" => delivery \in {"PICKED_UP", "ON_WAY"}
    /\ status = "DELIVERED" => delivery = "DELIVERED"
    /\ delivery = "FAILED" => status = "CANCELLED"

\* A driver is assigned once: two assignDelivery requests that both found no
\* delivery row never restart a delivery already under way.
DriverAssignedOnce ==
    [][delivery # "NONE" /\ delivery # "ASSIGNED" => delivery' # "ASSIGNED"]_vars

\* A failed delivery stays failed: an update that read the row earlier and lands
\* later is rolled back with its order update.
FailedDeliveryIsFinal == [][delivery = "FAILED" => delivery' = "FAILED"]_vars

\* A line the customer agreed to drop never comes back, though the shop may be
\* editing that very line when acceptChanges deletes it.
DroppedLineStaysDropped ==
    [][\A i \in Items : line[i] = "DELETED" => line'[i] = "DELETED"]_vars

\* An order leaves PENDING once, for CONFIRMED or cancelled, and not by its shop's cancellation: the
\* escalation chases it, and the customer is not warned of giving up work begun, on that account.
PendingIsLeftOnce ==
    [][/\ status # "PENDING" => status' # "PENDING"
       /\ status = "PENDING" /\ status' # "PENDING" =>
             \/ status' = "CONFIRMED"
             \/ status' = "CANCELLED" /\ cancelledBy' \in {"CUSTOMER", "SYSTEM"}]_vars

\* None of that is taken back by a request that was in flight.
NothingComesBack ==
    /\ CancelledIsFinal /\ FailedDeliveryIsFinal
    /\ DriverAssignedOnce /\ DroppedLineStaysDropped
    /\ PendingIsLeftOnce

\* Why the last of them holds: while it is PENDING nothing of the order has been begun, nor is a
\* request past the guard of what may only come later.
NothingBegun ==
    status = "PENDING" =>
        /\ delivery = "NONE"
        /\ \A r \in Requests :
              /\ req[r].op \in {"startPreparing", "merchantCancel", "updateDelivery"} =>
                    req[r].at # "write"
              /\ req[r].op = "assignDelivery" => req[r].at \notin {"deliveryRow", "write"}

-----------------------------------------------------------------------------
(***************************************************************************)
(* What it promises when requests do not overlap (one slot).               *)
(***************************************************************************)

\* The customer pays for exactly the lines the order still has: total_price and
\* order_items are recalculated together.
ChargedMatchesLines == charged = Lines

\* An order never loses its last line: acceptChanges cancels it instead.
NeverEmptied == Lines # {}

\* The order status is the one the delivery implies, in both directions, on
\* every order that has not been cancelled.
DeliveryDrivesOrder ==
    status # "CANCELLED" =>
        CASE delivery = "NONE"     -> status \in {"PENDING", "CONFIRMED", "PREPARING"}
          [] delivery = "ASSIGNED" -> status = "PREPARING"
          [] OTHER                 -> status = orderStatusForDelivery(delivery)

\* A review belongs to an order that arrived, and the order stays arrived.
ReviewedWasDelivered == reviewed => status = "DELIVERED"

\* Why those hold: between its guard and its write a lone request's guard stays
\* true, and what it read is still what the rows say.
GuardStillHolds(r) ==
    LET q == req[r]
        checked(op, points) == q.op = op /\ q.at \in points
    IN  /\ checked("cancel", {"write"}) => customerCancelAllowed(status)
        /\ checked("review", {"reviewRow", "write"}) => status \in REVIEWABLE_STATUSES
        /\ checked("acceptChanges", {"lines", "write"}) =>
              status \notin {"CANCELLED", "DELIVERED"}
        /\ checked("acceptChanges", {"write"}) =>
              /\ q.lines = {i \in Items : line[i] = "UNAVAILABLE"} /\ q.lines # {}
              /\ q.kept = {i \in Items : line[i] = "CONFIRMED"}
        /\ checked("setItemStatus", {"item", "write"}) => status \in ITEM_EDIT_ALLOWED
        /\ checked("setItemStatus", {"write"}) => q.lines \subseteq Lines
        /\ checked("confirm", {"write"}) => canMoveTo(status, "CONFIRMED")
        /\ checked("startPreparing", {"write"}) => canMoveTo(status, "PREPARING")
        /\ checked("merchantCancel", {"write"}) => merchantCancelAllowed(status)
        /\ checked("assignDelivery", {"deliveryRow", "write"}) =>
              status \in DELIVERY_ASSIGNABLE_FROM
        /\ checked("assignDelivery", {"write"}) => delivery = "NONE"
        /\ checked("updateDelivery", {"write"}) =>
              delivery # "NONE" /\ canMoveDelivery(delivery, q.to)

\* The inductive invariant of the one-slot instances.
SerialInv ==
    /\ TypeOK /\ OrderBackedByDelivery
    /\ ChargedMatchesLines /\ NeverEmptied
    /\ DeliveryDrivesOrder /\ ReviewedWasDelivered
    /\ \A r \in Requests : GuardStillHolds(r)

\* The order keeps the promise stated in OrderPromise.
Promise == INSTANCE OrderPromise WITH stage <- status, basket <- Lines, canceller <- cancelledBy
KeepsPromise == Promise!Spec

\* Taking the handlers apart lost nothing: what the rows go through is an order whose requests
\* are served whole, one at a time, which is how the order screens are modelled to meet it.
ServedAsOne == Served!Spec

\* Who cancelled an order, and so what its customer is told, stands: only a delivery that fails
\* afterwards, of a driver assigned before, puts SYSTEM in its place.
CancellerStands ==
    [][cancelledBy # "NONE" /\ cancelledBy' # cancelledBy =>
          cancelledBy' = "SYSTEM" /\ delivery # "FAILED" /\ delivery' = "FAILED"]_vars

-----------------------------------------------------------------------------
(***************************************************************************)
(* Progress.  The runtime always resumes a request in flight (WF on its    *)
(* next statement).  The rest is an assumption on people, named as such:   *)
(* the shop presses the button its screen offers (SF, since other requests *)
(* come between).                                                          *)
(***************************************************************************)
RuntimeFairness == \A r \in Requests : WF_vars(Step(r))

Useful(A, enabledBy) == enabledBy /\ shop # "SUSPENDED" /\ A
DiligentShop == \A r \in Requests :
    /\ SF_vars(Useful(ConfirmBegin(r), status = "PENDING"))
    /\ SF_vars(Useful(StartPreparingBegin(r), status = "CONFIRMED"))
    /\ SF_vars(Useful(AssignDeliveryBegin(r), status = "PREPARING" /\ delivery = "NONE"))
    /\ SF_vars(Useful(MerchantBegins(r, "updateDelivery", "PICKED_UP", {}),
                      delivery = "ASSIGNED"))
    /\ SF_vars(Useful(MerchantBegins(r, "updateDelivery", "DELIVERED", {}),
                      delivery \in {"PICKED_UP", "ON_WAY"}))

FairSpec == Spec /\ RuntimeFairness /\ DiligentShop

\* No order is stranded: unless its shop keeps being suspended, it is delivered or
\* cancelled in the end, and stays so.  delivery-policy.ts makes a failed delivery
\* cancel its order for this reason.
OrderSettles ==
    <>[](shop # "SUSPENDED") => <>[](status \in {"DELIVERED", "CANCELLED"})

-----------------------------------------------------------------------------
(***************************************************************************)
(* What the documentation says and the code does not keep.                 *)
(***************************************************************************)

\* order-policy.ts: once DELIVERING, cancellation is blocked for everyone.  Only
\* a delivery that fails may cancel the order from there.
NoCancelWhileDelivering ==
    [][status = "DELIVERING" /\ status' = "CANCELLED" => delivery' = "FAILED"]_vars

\* merchant-orders.service.ts: the order's and the delivery's status can never
\* contradict each other; here, a delivered bag on a cancelled order.
DeliveredIsNotCancelled == delivery = "DELIVERED" => status # "CANCELLED"
=============================================================================
