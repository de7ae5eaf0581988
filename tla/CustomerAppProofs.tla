------------------------- MODULE CustomerAppProofs --------------------------
(***************************************************************************)
(* What the customer's order screen guarantees for any orders, any number  *)
(* of requests on their way and any pace of the shop.  That it warns rests *)
(* on what it has shown: the server's orders never go back to PENDING, and *)
(* with one detail asked for at a time none that is older than the one on  *)
(* the screen is still to come.                                            *)
(***************************************************************************)
EXTENDS CustomerOrders, Basket, TLAPS

-----------------------------------------------------------------------------
(* Orders *)

LEMMA MovesAreTyped ==
    ASSUME NEW from \in DeliveryStatuses, NEW to, canMoveDelivery(from, to)
    PROVE  /\ to \in DeliveryStatuses \ {"ASSIGNED"}
           /\ orderStatusForDelivery(to) \in {"DELIVERING", "DELIVERED", "CANCELLED"}
           /\ to \in {"PICKED_UP", "ON_WAY"} => orderStatusForDelivery(to) = "DELIVERING"
           /\ from \in {"PICKED_UP", "ON_WAY"} \/ from = "ASSIGNED"
  BY DEF canMoveDelivery, DELIVERY_TRANSITIONS, DeliveryStatuses, orderStatusForDelivery

\* What is so of an order from when a detail could say it on.
Past(o, m) ==
    /\ m = "started" => o.status \notin CUSTOMER_FREE_CANCEL
    /\ m = "driver" => captainPhone(o)
    /\ m = "call" => o.status \notin CUSTOMER_FREE_CANCEL \cup SHOP_CONTACT_WINDOW

LEMMA TellsPast ==
    ASSUME NEW o \in Order, CarriedIsSent(o), NEW m \in Marks, Tells(o, m)
    PROVE  Past(o, m)
  BY DEF Order, CarriedIsSent, Marks, Tells, Past, driverBox, captainPhone, driverPhone,
         CUSTOMER_FREE_CANCEL, CUSTOMER_WARNED_CANCEL, SHOP_CONTACT_WINDOW, DRIVER_CONTACT_WINDOW

\* An operation keeps an order an order, leaves no bag on the way of an order that is not, and
\* never takes it back behind what was said of it.
LEMMA AfterKeeps ==
    ASSUME NEW o \in Order, NEW q, q.op \in Operations, CarriedIsSent(o), Accepts(o, q)
    PROVE  /\ After(o, q) \in Order /\ CarriedIsSent(After(o, q))
           /\ \A m \in Marks : Past(o, m) => Past(After(o, q), m)
  <1> USE DEF Order, OrderStatuses, Cancellers, DeliveryStatuses, CUSTOMER_FREE_CANCEL,
              SHOP_CONTACT_WINDOW, Past, captainPhone
  <1>1. CASE q.op = "cancel"
    BY <1>1 DEF Accepts, After, Cancelled, customerCancelAllowed, CUSTOMER_WARNED_CANCEL,
                CarriedIsSent
  <1>2. CASE q.op = "review"
    BY <1>2 DEF Accepts, After, CarriedIsSent
  <1>3. CASE q.op = "acceptChanges"
    BY <1>3 DEF Accepts, After, Trimmed, Cancelled, CarriedIsSent
  <1>4. CASE q.op = "setItemStatus"
    BY <1>4 DEF Accepts, After, CarriedIsSent
  <1>5. CASE q.op = "confirm"
    BY <1>5 DEF Accepts, After, canMoveTo, FORWARD_TRANSITIONS, CarriedIsSent
  <1>6. CASE q.op = "startPreparing"
    BY <1>6 DEF Accepts, After, canMoveTo, FORWARD_TRANSITIONS, CarriedIsSent
  <1>7. CASE q.op = "merchantCancel"
    BY <1>7 DEF Accepts, After, Cancelled, merchantCancelAllowed, MERCHANT_CANCEL_ALLOWED,
                CarriedIsSent
  <1>8. CASE q.op = "assignDelivery"
    BY <1>8 DEF Accepts, After, CarriedIsSent
  <1>9. CASE q.op = "updateDelivery"
    <2>1. /\ o.delivery \in DeliveryStatuses /\ canMoveDelivery(o.delivery, q.to)
          /\ After(o, q) = Delivered(o, q.to)
      BY <1>9 DEF Accepts, After, DeliveryMoves
    <2>2. /\ q.to \in DeliveryStatuses \ {"ASSIGNED"}
          /\ orderStatusForDelivery(q.to) \in {"DELIVERING", "DELIVERED", "CANCELLED"}
          /\ q.to \in {"PICKED_UP", "ON_WAY"} => orderStatusForDelivery(q.to) = "DELIVERING"
      BY ONLY <2>1, MovesAreTyped
    <2>3. CASE orderStatusForDelivery(q.to) = "CANCELLED"
      <3>1. After(o, q) = [o EXCEPT !.delivery = q.to, !.status = "CANCELLED", !.by = "SYSTEM"]
        BY <2>1, <2>3 DEF Delivered, Cancelled
      <3>2. QED
        BY <2>2, <2>3, <3>1 DEF CarriedIsSent
    <2>4. CASE orderStatusForDelivery(q.to) # "CANCELLED"
      <3>1. After(o, q) = [o EXCEPT !.delivery = q.to, !.status = orderStatusForDelivery(q.to)]
        BY <2>1, <2>4 DEF Delivered
      <3>2. QED
        BY <2>2, <2>4, <3>1 DEF CarriedIsSent
    <2>5. QED
      BY <2>3, <2>4
  <1>10. QED
    BY <1>1, <1>2, <1>3, <1>4, <1>5, <1>6, <1>7, <1>8, <1>9 DEF Operations

-----------------------------------------------------------------------------
(* The invariant *)

\* A request as it may be on its way, where P are the orders placed.
Fit(q, P) ==
    /\ q \in IF q.kind = "load" THEN Request({"load"}, SUBSET Orders)
            ELSE Request({"idle", "open", "act"}, Order)
    /\ q.kind = "idle" => q.q = None
    /\ q.kind = "open" => q.q = None /\ q.id \in P /\ (q.served => q.answer \in Order)
    /\ q.kind = "act" => q.q # None /\ q.id \in P
    /\ q.kind = "load" => (q.id # None => q.id \in P) /\ (q.served => q.answer \in SUBSET P)

OrdersInv ==
    /\ day \in Days
    /\ order \in [Orders -> Order \cup {None}]
    /\ \A o \in Placed : CarriedIsSent(order[o])

\* The screen speaks of orders that are there.
ScreenInv ==
    /\ visible \in BOOLEAN /\ loading \in BOOLEAN /\ crossed \in BOOLEAN
    /\ rows \in SUBSET Placed /\ seen \in SUBSET (Placed \X Marks)
    /\ selected \in [id : Placed, o : Order] \cup {None}
    /\ asking \in Placed \cup {None}

RequestsInv ==
    /\ req = [r \in Slots |-> req[r]]
    /\ \A r \in Slots : Fit(req[r], Placed)

\* While the customer is asked nothing else is on its way, so that one action is at most.
BusyInv ==
    /\ busy \in BOOLEAN /\ (busy <=> Acting # {})
    /\ \A r, s \in Acting : r = s
    /\ asking # None => ~busy

ScreensInv == OrdersInv /\ ScreenInv /\ RequestsInv /\ BusyInv

Answered(r) == r \in Awaiting /\ req[r].served /\ req[r].answer # None

\* The detail shown and those on their way are orders as they may be.
SoundInv ==
    /\ selected # None => CarriedIsSent(selected.o)
    /\ \A r \in Slots : Answered(r) => CarriedIsSent(req[r].answer)

\* An order never goes back behind what was shown of it, or is about to be; and of one detail asked
\* for at a time none is older than the one shown.
WarnInv ==
    /\ SoundInv
    /\ \A o \in Placed, m \in Marks : <<o, m>> \in seen => Past(order[o], m)
    /\ \A r \in Slots, m \in Marks :
          Answered(r) /\ Past(req[r].answer, m) => Past(order[req[r].id], m)
    /\ ~crossed =>
          /\ \A r, s \in Awaiting : r = s
          /\ \A m \in Marks :
                selected # None /\ <<selected.id, m>> \in seen => Past(selected.o, m)
          /\ \A r \in Slots, m \in Marks :
                Answered(r) /\ <<req[r].id, m>> \in seen => Past(req[r].answer, m)
    /\ WarnedOnceShown

CustomerInv == ScreensInv /\ WarnInv

-----------------------------------------------------------------------------
(* Requests *)

LEMMA FitNew ==
    ASSUME NEW P \in SUBSET Orders
    PROVE  /\ Fit(Idle, P) /\ Fit(Load(None, None), P)
           /\ \A id \in P : Fit(Load(id, None), P) /\ Fit(Read(id), P)
           /\ \A id \in P, op \in Operations, w \in BOOLEAN : Fit(Action(id, Plain(op), w), P)
           /\ \A id \in P, op \in Operations : Fit(Load(id, Plain(op)), P)
  <1> USE NoneIsNothing DEF Fit, Request, Idle, Load, Read, Action
  <1>1. Fit(Idle, P) /\ Fit(Load(None, None), P)
    OBVIOUS
  <1>2. ASSUME NEW id \in P PROVE Fit(Load(id, None), P) /\ Fit(Read(id), P)
    OBVIOUS
  <1>3. ASSUME NEW id \in P, NEW op \in Operations, NEW w \in BOOLEAN
        PROVE  Fit(Action(id, Plain(op), w), P)
    <2>1. Plain(op) \in {Plain(x) : x \in Operations} /\ Plain(op) # None
      OBVIOUS
    <2>2. QED
      BY <2>1
  <1>4. ASSUME NEW id \in P, NEW op \in Operations
        PROVE  Fit(Load(id, Plain(op)), P)
    <2>1. Plain(op) \in {Plain(x) : x \in Operations} /\ Plain(op) # None
      OBVIOUS
    <2>2. QED
      BY <2>1
  <1>5. QED
    BY <1>1, <1>2, <1>3, <1>4

LEMMA FitMore ==
    ASSUME NEW q, NEW P, NEW Q, Fit(q, P), P \subseteq Q
    PROVE  Fit(q, Q)
  BY DEF Fit

\* One request is replaced by another that fits.
LEMMA ReplaceRequest ==
    ASSUME RequestsInv, Placed \subseteq Placed', NEW r \in Slots, NEW q, Fit(q, Placed'),
           req' = [req EXCEPT ![r] = q]
    PROVE  RequestsInv' /\ req'[r] = q /\ \A s \in Slots \ {r} : req'[s] = req[s]
  BY FitMore DEF RequestsInv

LEMMA SameRequests ==
    ASSUME RequestsInv, Placed \subseteq Placed', UNCHANGED req
    PROVE  RequestsInv'
  BY FitMore DEF RequestsInv

\* The buttons stay off where an action goes on, come back where the last one ends, and go off with
\* a new one.
LEMMA BusyStays ==
    ASSUME BusyInv, UNCHANGED busy, asking' # None => asking' = asking \/ ~busy,
           \A r \in Slots : req'[r].q = None <=> req[r].q = None
    PROVE  BusyInv'
  <1>1. Acting' = Acting
    BY DEF Acting
  <1>2. QED
    BY <1>1 DEF BusyInv

LEMMA BusyEnds ==
    ASSUME BusyInv, NEW r \in Acting, busy' = FALSE, req'[r].q = None,
           \A s \in Slots \ {r} : req'[s] = req[s]
    PROVE  BusyInv'
  <1>1. Acting = {r}
    BY DEF BusyInv
  <1>2. Acting' = {}
    BY <1>1 DEF Acting
  <1>3. QED
    BY <1>2 DEF BusyInv

LEMMA BusyBegins ==
    ASSUME BusyInv, ~busy, NEW r \in Slots, busy' = TRUE, req'[r].q # None, asking' = None,
           \A s \in Slots \ {r} : req'[s] = req[s]
    PROVE  BusyInv'
  BY DEF BusyInv, Acting

-----------------------------------------------------------------------------
(* Orders and screens, step by step *)

\* Whatever is done to an order, it is still there, sound, and no further back.
OrdersGo ==
    /\ OrdersInv' /\ Placed \subseteq Placed'
    /\ \A o \in Placed, m \in Marks : Past(order[o], m) => Past(order'[o], m)

LEMMA SameOrders ==
    ASSUME OrdersInv, UNCHANGED <<day, order>>
    PROVE  OrdersGo /\ Placed' = Placed
  BY DEF OrdersGo, OrdersInv, Placed

LEMMA OneOrderGoes ==
    ASSUME OrdersInv, day' = day, NEW o \in Placed, NEW q, q.op \in Operations,
           order' = [order EXCEPT ![o] = Attempt(order[o], q)]
    PROVE  OrdersGo /\ Placed' = Placed
  <1>1. order[o] \in Order /\ CarriedIsSent(order[o])
    BY DEF OrdersInv, Placed
  <1>2. /\ Attempt(order[o], q) \in Order /\ CarriedIsSent(Attempt(order[o], q))
        /\ \A m \in Marks : Past(order[o], m) => Past(Attempt(order[o], q), m)
    BY <1>1, AfterKeeps DEF Attempt
  <1>3. Placed' = Placed
    BY <1>2, NoneIsNothing DEF Placed, OrdersInv
  <1>4. QED
    BY <1>1, <1>2, <1>3 DEF OrdersGo, OrdersInv, Placed

LEMMA PlaceGoes ==
    ASSUME OrdersInv, NEW o \in Orders, Place(o)
    PROVE  OrdersGo
  <1>1. day.from \in Order /\ CarriedIsSent(day.from)
    BY DaysAssumption DEF OrdersInv
  <1>2. QED
    BY <1>1 DEF OrdersGo, OrdersInv, Placed, Place

LEMMA ShopGoes ==
    ASSUME OrdersInv, NEW o \in Orders, ShopActs(o)
    PROVE  OrdersGo
  <1>1. PICK op \in day.tries,
             to \in ItemStatuses \cup DeliveryStatuses \cup {"none"}, i \in Items \cup {"none"} :
             /\ Accepts(order[o], Op(op, to, i))
             /\ order' = [order EXCEPT ![o] = After(order[o], Op(op, to, i))]
    BY DEF ShopActs
  <1>2. Op(op, to, i).op \in Operations
    BY DaysAssumption DEF OrdersInv, Op
  <1>3. o \in Placed /\ day' = day
    BY DEF ShopActs
  <1>4. QED
    BY <1>1, <1>2, <1>3, OneOrderGoes DEF Attempt

LEMMA ServeGoes ==
    ASSUME ScreensInv, NEW r \in Slots, Serve(r)
    PROVE  OrdersGo /\ Placed' = Placed
  <1>1. CASE req[r].kind \in {"load", "open"}
    BY <1>1, SameOrders DEF Serve, ScreensInv
  <1>2. CASE req[r].kind = "act"
    <2>1. req[r].id \in Placed /\ req[r].q.op \in Operations
      BY <1>2 DEF ScreensInv, RequestsInv, Fit, Request, Plain, Op
    <2>2. QED
      BY <1>2, <2>1, OneOrderGoes DEF Serve, ScreensInv
  <1>3. QED
    BY <1>1, <1>2 DEF Serve, ScreensInv, RequestsInv, Fit, Request

LEMMA ScreensInit == Init => ScreensInv
  <1> SUFFICES ASSUME Init PROVE ScreensInv
    OBVIOUS
  <1>1. Placed = {} /\ Acting = {}
    BY DEF Init, Placed, Acting, Idle
  <1>2. RequestsInv
    BY <1>1, FitNew DEF Init, RequestsInv
  <1>3. QED
    BY <1>1, <1>2 DEF Init, ScreensInv, OrdersInv, ScreenInv, BusyInv

\* Orders may go on and come in without the screen noticing.
LEMMA ScreenKept ==
    ASSUME ScreenInv, UNCHANGED <<screen, seen, crossed>>, Placed \subseteq Placed'
    PROVE  ScreenInv'
  BY DEF ScreenInv, screen

LEMMA WorldStep ==
    ASSUME ScreensInv, NEW o \in Orders, Place(o) \/ ShopActs(o)
    PROVE  ScreensInv'
  <1>1. OrdersGo
    BY PlaceGoes, ShopGoes DEF ScreensInv
  <1>2. UNCHANGED <<screen, req, seen, crossed>>
    BY DEF Place, ShopActs
  <1>3. ScreenInv' /\ RequestsInv'
    BY <1>1, <1>2, ScreenKept, SameRequests DEF ScreensInv, OrdersGo
  <1>4. BusyInv'
    BY <1>2, BusyStays DEF ScreensInv, screen
  <1>5. QED
    BY <1>1, <1>3, <1>4 DEF ScreensInv, OrdersGo

\* What the server answers: the orders there are, the order, or the order it left.
LEMMA ServeAnswers ==
    ASSUME ScreensInv, NEW r \in Slots, Serve(r)
    PROVE  \E a : /\ req' = [req EXCEPT ![r] = [req[r] EXCEPT !.served = TRUE, !.answer = a]]
                  /\ req[r].kind = "load" => a = Placed'
                  /\ req[r].kind = "open" => a = order'[req[r].id]
                  /\ req[r].kind = "act" => a \in {order'[req[r].id], None}
  <1>1. req[r].kind \in {"load", "open", "act"} /\ Placed' = Placed
    BY ServeGoes DEF Serve, ScreensInv, RequestsInv, Fit, Request
  <1>2. QED
    BY <1>1 DEF Serve

LEMMA ServeStep ==
    ASSUME ScreensInv, NEW r \in Slots, Serve(r)
    PROVE  ScreensInv'
  <1>1. OrdersGo /\ Placed' = Placed
    BY ServeGoes
  <1>2. PICK a : /\ req' = [req EXCEPT ![r] = [req[r] EXCEPT !.served = TRUE, !.answer = a]]
                 /\ req[r].kind = "load" => a = Placed'
                 /\ req[r].kind = "open" => a = order'[req[r].id]
                 /\ req[r].kind = "act" => a \in {order'[req[r].id], None}
    BY ServeAnswers
  <1>3. UNCHANGED <<screen, seen, crossed>> /\ req[r].kind \in {"load", "open", "act"}
    BY DEF Serve, ScreensInv, RequestsInv, Fit, Request
  <1> DEFINE q == [req[r] EXCEPT !.served = TRUE, !.answer = a]
  <1>4. Fit(req[r], Placed)
    BY DEF ScreensInv, RequestsInv
  <1>5. \A o \in Placed : order'[o] \in Order
    BY <1>1 DEF OrdersGo, OrdersInv, Placed
  <1>6. Fit(q, Placed')
    <2>1. CASE req[r].kind = "load"
      BY <1>1, <1>2, <1>4, <2>1 DEF Fit, Request, Placed
    <2>2. CASE req[r].kind = "open"
      BY <1>1, <1>2, <1>4, <1>5, <2>2 DEF Fit, Request
    <2>3. CASE req[r].kind = "act"
      BY <1>1, <1>2, <1>4, <1>5, <2>3 DEF Fit, Request
    <2>4. QED
      BY <1>3, <2>1, <2>2, <2>3
  <1>7. RequestsInv' /\ req'[r] = q /\ \A s \in Slots \ {r} : req'[s] = req[s]
    BY <1>1, <1>2, <1>6, ReplaceRequest DEF ScreensInv
  <1>8. q.q = req[r].q
    BY <1>4, <1>3 DEF Fit, Request
  <1>9. BusyInv'
    BY <1>3, <1>7, <1>8, BusyStays DEF ScreensInv, screen
  <1>10. QED
    BY <1>1, <1>3, <1>7, <1>9, ScreenKept DEF ScreensInv, OrdersGo

\* Closing, and what is asked before a cancellation.
LEMMA QuietStep ==
    ASSUME ScreensInv, close \/ askFirst \/ keepOrder
    PROVE  ScreensInv'
  <1>1. OrdersInv' /\ Placed' = Placed /\ UNCHANGED <<req, busy>>
    BY SameOrders DEF ScreensInv, close, askFirst, keepOrder, OrdersGo
  <1>2. ScreenInv'
    <2>1. UNCHANGED <<loading, rows, seen, crossed>> /\ visible' \in BOOLEAN
      BY DEF ScreensInv, ScreenInv, close, askFirst, keepOrder
    <2>2. selected' \in {selected, None}
      BY DEF close, askFirst, keepOrder
    <2>3. asking' \in Placed \cup {None}
      BY DEF ScreensInv, ScreenInv, close, askFirst, keepOrder, DetailShown
    <2>4. QED
      BY <1>1, <2>1, <2>2, <2>3 DEF ScreensInv, ScreenInv
  <1>3. asking' # None => asking' = asking \/ ~busy
    BY DEF close, askFirst, keepOrder
  <1>4. RequestsInv' /\ BusyInv'
    BY <1>1, <1>3, SameRequests, BusyStays DEF ScreensInv
  <1>5. QED
    BY <1>1, <1>2, <1>4 DEF ScreensInv

\* Reading the list or an order.
LEMMA AskStep ==
    ASSUME ScreensInv, NEW r \in Slots,
           show(r) \/ handleRefresh(r) \/ \E o \in Orders : open(r, o)
    PROVE  ScreensInv'
  <1>1. OrdersInv' /\ Placed' = Placed /\ UNCHANGED <<busy, asking>>
    BY SameOrders DEF ScreensInv, show, handleRefresh, open, OrdersGo, screen
  <1>2. ScreenInv'
    <2>1. visible' \in BOOLEAN /\ loading' \in BOOLEAN /\ crossed' \in BOOLEAN
      BY DEF ScreensInv, ScreenInv, show, handleRefresh, open, screen
    <2>2. UNCHANGED <<rows, seen, selected, asking>>
      BY DEF show, handleRefresh, open, screen
    <2>3. QED
      BY <1>1, <2>1, <2>2 DEF ScreensInv, ScreenInv
  <1>3. PICK q : /\ q = Load(None, None) \/ \E id \in Placed : q \in {Load(id, None), Read(id)}
                 /\ Sends(r, q)
    BY DEF show, handleRefresh, open, ScreensInv, ScreenInv
  <1>4. Fit(q, Placed) /\ q.q = None /\ req[r].q = None
    <2>1. Placed \in SUBSET Orders
      BY DEF Placed
    <2>2. Fit(q, Placed)
      BY <1>3, <2>1, FitNew
    <2>3. \A id : Load(id, None).q = None /\ Read(id).q = None
      BY DEF Load, Read, Idle
    <2>4. q.q = None /\ req[r].q = None
      BY <1>3, <2>3 DEF Idle, Sends
    <2>5. QED
      BY <2>2, <2>4
  <1>5. RequestsInv' /\ req'[r] = q /\ \A s \in Slots \ {r} : req'[s] = req[s]
    BY <1>1, <1>3, <1>4, ReplaceRequest DEF ScreensInv, Sends
  <1>6. BusyInv'
    BY <1>1, <1>4, <1>5, BusyStays DEF ScreensInv
  <1>7. QED
    BY <1>1, <1>2, <1>5, <1>6 DEF ScreensInv

\* Buttons: none while an action is on its way.
LEMMA ActStep ==
    ASSUME ScreensInv, NEW r \in Slots,
           \/ cancelAnyway(r)
           \/ \E op \in {"cancel", "acceptChanges", "review"} : act(r, Plain(op))
    PROVE  ScreensInv'
  <1>1. PICK id \in Placed, op \in Operations, w \in BOOLEAN : sendsAction(r, id, Plain(op), w)
    <2>1. CASE cancelAnyway(r)
      BY <2>1 DEF cancelAnyway, ScreensInv, ScreenInv, Cancel, Operations
    <2>2. ASSUME NEW op \in {"cancel", "acceptChanges", "review"}, act(r, Plain(op))
          PROVE  selected.id \in Placed /\ sendsAction(r, selected.id, Plain(op), FALSE)
      BY <2>2 DEF act, DetailShown, ScreensInv, ScreenInv
    <2>3. {"cancel", "acceptChanges", "review"} \subseteq Operations
      BY DEF Operations
    <2>4. QED
      BY <2>1, <2>2, <2>3
  <1>2. /\ OrdersInv' /\ Placed' = Placed /\ ~busy /\ asking' = None /\ busy' = TRUE
        /\ UNCHANGED <<visible, loading, rows, selected, seen>> /\ crossed' \in BOOLEAN
    BY SameOrders
    DEF ScreensInv, ScreenInv, BusyInv, OrdersGo, cancelAnyway, act, sendsAction, DetailShown,
        Touchable
  <1>3. ScreenInv'
    BY <1>2 DEF ScreensInv, ScreenInv
  <1> DEFINE q == Action(id, Plain(op), w)
  <1>4. Fit(q, Placed) /\ q.q # None
    <2>1. Placed \in SUBSET Orders
      BY DEF Placed
    <2>2. Plain(op) # None
      BY NoneIsNothing
    <2>3. QED
      BY <2>1, <2>2, FitNew DEF Action, Idle
  <1>5. RequestsInv' /\ req'[r] = q /\ \A s \in Slots \ {r} : req'[s] = req[s]
    BY <1>1, <1>2, <1>4, ReplaceRequest DEF ScreensInv, sendsAction, Sends
  <1>6. BusyInv'
    BY <1>2, <1>4, <1>5, BusyBegins DEF ScreensInv
  <1>7. QED
    BY <1>2, <1>3, <1>5, <1>6 DEF ScreensInv

\* What follows a load leaves a request that fits, and the buttons off only where an action is left.
LEMMA ThenReadStep ==
    ASSUME ScreensInv, Placed' = Placed, UNCHANGED asking, NEW r \in Slots, req[r].kind = "load",
           ThenRead(r)
    PROVE  /\ RequestsInv' /\ BusyInv' /\ loading' \in BOOLEAN /\ crossed' \in BOOLEAN
           /\ \E q : req' = [req EXCEPT ![r] = q] /\ q \in {Idle} \cup {Read(id) : id \in Placed}
  <1>1. PICK q : req' = [req EXCEPT ![r] = q] /\ q \in {Idle} \cup {Read(id) : id \in Placed}
    BY DEF ThenRead, ScreensInv, RequestsInv, Fit
  <1>2. Fit(q, Placed) /\ q.q = None
    <2>1. Placed \in SUBSET Orders
      BY DEF Placed
    <2>2. Idle.q = None /\ \A id : Read(id).q = None
      BY DEF Idle, Read
    <2>3. QED
      BY <1>1, <2>1, <2>2, FitNew
  <1>3. RequestsInv' /\ req'[r] = q /\ \A s \in Slots \ {r} : req'[s] = req[s]
    BY <1>1, <1>2, ReplaceRequest DEF ScreensInv
  <1>4. BusyInv'
    <2>1. CASE req[r].q = None
      BY <1>2, <1>3, <2>1, BusyStays DEF ScreensInv, ThenRead, BusyInv
    <2>2. CASE req[r].q # None
      <3>1. r \in Acting /\ busy' = FALSE
        BY <2>2 DEF Acting, ThenRead
      <3>2. QED
        BY <1>2, <1>3, <3>1, BusyEnds DEF ScreensInv
    <2>3. QED
      BY <2>1, <2>2
  <1>5. loading' \in BOOLEAN /\ crossed' \in BOOLEAN
    BY DEF ThenRead, ScreensInv, ScreenInv
  <1>6. QED
    BY <1>1, <1>3, <1>4, <1>5

LEMMA HearListStep ==
    ASSUME ScreensInv, NEW r \in Slots, hearList(r)
    PROVE  ScreensInv'
  <1>1. OrdersInv' /\ Placed' = Placed /\ UNCHANGED <<visible, selected, asking, seen>>
    BY SameOrders DEF ScreensInv, hearList, OrdersGo
  <1>2. /\ RequestsInv' /\ BusyInv' /\ loading' \in BOOLEAN /\ crossed' \in BOOLEAN
    BY <1>1, ThenReadStep DEF hearList
  <1>3. rows' \in SUBSET Placed
    BY DEF hearList, ScreensInv, RequestsInv, Fit
  <1>4. ScreenInv'
    BY <1>1, <1>2, <1>3 DEF ScreensInv, ScreenInv
  <1>5. QED
    BY <1>1, <1>2, <1>4 DEF ScreensInv

\* A detail shown is of an order that is there.
LEMMA ShowsStep ==
    ASSUME ScreensInv, NEW r \in Slots, req[r].kind \in {"open", "act"}, req[r].served,
           req[r].answer # None, Shows(r), Placed' = Placed,
           UNCHANGED <<visible, loading, rows, asking, crossed>>
    PROVE  ScreenInv'
  <1>1. req[r].id \in Placed /\ req[r].answer \in Order
    BY DEF ScreensInv, RequestsInv, Fit, Request
  <1>2. selected' \in [id : Placed, o : Order] /\ seen' \in SUBSET (Placed \X Marks)
    BY <1>1 DEF Shows, ScreensInv, ScreenInv
  <1>3. QED
    BY <1>2 DEF ScreensInv, ScreenInv

LEMMA HearOrderStep ==
    ASSUME ScreensInv, NEW r \in Slots, hearOrder(r)
    PROVE  ScreensInv'
  <1>1. OrdersInv' /\ Placed' = Placed /\ UNCHANGED <<visible, loading, rows, asking, busy, crossed>>
    BY SameOrders DEF ScreensInv, hearOrder, OrdersGo
  <1>2. req[r].q = None /\ req[r].answer # None
    BY NoneIsNothing DEF ScreensInv, RequestsInv, Fit, hearOrder
  <1>3. ScreenInv'
    BY <1>1, <1>2, ShowsStep DEF hearOrder
  <1>4. Fit(Idle, Placed) /\ Idle.q = None
    BY FitNew DEF Placed, Idle
  <1>5. RequestsInv' /\ req'[r] = Idle /\ \A s \in Slots \ {r} : req'[s] = req[s]
    BY <1>1, <1>4, ReplaceRequest DEF ScreensInv, hearOrder
  <1>6. BusyInv'
    BY <1>1, <1>2, <1>4, <1>5, BusyStays DEF ScreensInv
  <1>7. QED
    BY <1>1, <1>3, <1>5, <1>6 DEF ScreensInv

\* An action ends with its refusal, or its review; the others hand the buttons on to a load.
LEMMA HearActionStep ==
    ASSUME ScreensInv, NEW r \in Slots, hearAction(r) \/ hearRefusal(r)
    PROVE  ScreensInv'
  <1>1. /\ OrdersInv' /\ Placed' = Placed
        /\ UNCHANGED <<visible, loading, rows, asking, crossed>>
    BY SameOrders DEF ScreensInv, hearAction, hearRefusal, OrdersGo
  <1>2. r \in Acting /\ req[r].id \in Placed /\ \E op \in Operations : req[r].q = Plain(op)
    BY DEF hearAction, hearRefusal, Acting, ScreensInv, RequestsInv, Fit, Request
  <1>3. ScreenInv'
    <2>1. CASE hearAction(r)
      BY <1>1, <2>1, ShowsStep DEF hearAction
    <2>2. CASE hearRefusal(r)
      BY <1>1, <2>2 DEF hearRefusal, ScreensInv, ScreenInv
    <2>3. QED
      BY <2>1, <2>2
  <1>4. \/ req' = [req EXCEPT ![r] = Idle] /\ busy' = FALSE
        \/ req' = [req EXCEPT ![r] = Load(req[r].id, req[r].q)] /\ busy' = busy
    BY DEF hearAction, hearRefusal
  <1>5. /\ Fit(Idle, Placed) /\ Idle.q = None
        /\ Fit(Load(req[r].id, req[r].q), Placed) /\ Load(req[r].id, req[r].q).q = req[r].q
    BY <1>2, FitNew DEF Placed, Idle, Load
  <1>6. CASE req' = [req EXCEPT ![r] = Idle] /\ busy' = FALSE
    <2>1. RequestsInv' /\ req'[r] = Idle /\ \A s \in Slots \ {r} : req'[s] = req[s]
      BY <1>1, <1>5, <1>6, ReplaceRequest DEF ScreensInv
    <2>2. BusyInv'
      BY <1>2, <1>5, <1>6, <2>1, BusyEnds DEF ScreensInv
    <2>3. QED
      BY <1>1, <1>3, <2>1, <2>2 DEF ScreensInv
  <1>7. CASE req' = [req EXCEPT ![r] = Load(req[r].id, req[r].q)] /\ busy' = busy
    <2>1. /\ RequestsInv' /\ req'[r] = Load(req[r].id, req[r].q)
          /\ \A s \in Slots \ {r} : req'[s] = req[s]
      BY <1>1, <1>5, <1>7, ReplaceRequest DEF ScreensInv
    <2>2. BusyInv'
      BY <1>1, <1>5, <1>7, <2>1, BusyStays DEF ScreensInv
    <2>3. QED
      BY <1>1, <1>3, <2>1, <2>2 DEF ScreensInv
  <1>8. QED
    BY <1>4, <1>6, <1>7

LEMMA FailStep ==
    ASSUME ScreensInv, NEW r \in Slots, connectionFails(r)
    PROVE  ScreensInv'
  <1>1. OrdersInv' /\ Placed' = Placed /\ UNCHANGED <<visible, rows, selected, asking, seen>>
    BY SameOrders DEF ScreensInv, connectionFails, OrdersGo
  <1>2. CASE req[r].kind = "load"
    <2>1. RequestsInv' /\ BusyInv' /\ loading' \in BOOLEAN /\ crossed' \in BOOLEAN
      BY <1>1, <1>2, ThenReadStep DEF connectionFails
    <2>2. ScreenInv'
      BY <1>1, <2>1 DEF ScreensInv, ScreenInv
    <2>3. QED
      BY <1>1, <2>1, <2>2 DEF ScreensInv
  <1>3. CASE req[r].kind # "load"
    <2>1. /\ req' = [req EXCEPT ![r] = Idle] /\ busy' = (busy /\ req[r].kind # "act")
          /\ UNCHANGED <<loading, crossed>>
      BY <1>3 DEF connectionFails
    <2>2. ScreenInv'
      BY <1>1, <2>1 DEF ScreensInv, ScreenInv
    <2>3. Fit(Idle, Placed) /\ Idle.q = None
      BY FitNew DEF Placed, Idle
    <2>4. RequestsInv' /\ req'[r] = Idle /\ \A s \in Slots \ {r} : req'[s] = req[s]
      BY <1>1, <2>1, <2>3, ReplaceRequest DEF ScreensInv
    <2>5. CASE req[r].kind = "act"
      <3>1. r \in Acting
        BY <2>5 DEF ScreensInv, RequestsInv, Fit, Acting
      <3>2. BusyInv'
        BY <2>1, <2>3, <2>4, <2>5, <3>1, BusyEnds DEF ScreensInv
      <3>3. QED
        BY <1>1, <2>2, <2>4, <3>2 DEF ScreensInv
    <2>6. CASE req[r].kind # "act"
      <3>1. req[r].q = None /\ busy' = busy
        BY <1>3, <2>1, <2>6 DEF ScreensInv, RequestsInv, Fit, Request, BusyInv
      <3>2. BusyInv'
        BY <1>1, <2>3, <2>4, <3>1, BusyStays DEF ScreensInv
      <3>3. QED
        BY <1>1, <2>2, <2>4, <3>2 DEF ScreensInv
    <2>7. QED
      BY <2>5, <2>6
  <1>4. QED
    BY <1>2, <1>3

LEMMA ScreensStep == ScreensInv /\ [Next]_vars => ScreensInv'
  <1> SUFFICES ASSUME ScreensInv, [Next]_vars PROVE ScreensInv'
    OBVIOUS
  <1>1. CASE UNCHANGED vars
    <2>1. OrdersInv' /\ Placed' = Placed
      BY <1>1, SameOrders DEF vars, ScreensInv, OrdersGo
    <2>2. ScreenInv' /\ RequestsInv' /\ BusyInv'
      BY <1>1, <2>1, ScreenKept, SameRequests, BusyStays DEF vars, screen, ScreensInv
    <2>3. QED
      BY <2>1, <2>2 DEF ScreensInv
  <1>2. ASSUME NEW o \in Orders, Place(o) \/ ShopActs(o) PROVE ScreensInv'
    BY <1>2, WorldStep
  <1>3. CASE close \/ askFirst \/ keepOrder
    BY <1>3, QuietStep
  <1>4. ASSUME NEW r \in Slots, Serve(r) PROVE ScreensInv'
    BY <1>4, ServeStep
  <1>5. ASSUME NEW r \in Slots, show(r) \/ handleRefresh(r) \/ \E o \in Orders : open(r, o)
        PROVE  ScreensInv'
    BY <1>5, AskStep
  <1>6. ASSUME NEW r \in Slots,
               \/ cancelAnyway(r)
               \/ \E op \in {"cancel", "acceptChanges", "review"} : act(r, Plain(op))
        PROVE  ScreensInv'
    BY <1>6, ActStep
  <1>7. ASSUME NEW r \in Slots, Settles(r) PROVE ScreensInv'
    BY <1>7, HearListStep, HearOrderStep, HearActionStep, FailStep DEF Settles
  <1>8. QED
    BY <1>1, <1>2, <1>3, <1>4, <1>5, <1>6, <1>7 DEF Next, Settles

-----------------------------------------------------------------------------
(* Warned once shown *)

\* Nothing more is awaited, nothing shown, and orders go on.
LEMMA WarnKept ==
    ASSUME ScreensInv, WarnInv, OrdersGo, UNCHANGED seen, crossed => crossed',
           selected' \in {selected, None},
           \A s \in Slots : s \in Awaiting' => s \in Awaiting /\ req'[s] = req[s]
    PROVE  WarnInv'
  <1>1. \A o \in Placed', m \in Marks : <<o, m>> \in seen' => o \in Placed /\ Past(order'[o], m)
    BY DEF WarnInv, OrdersGo, ScreensInv, ScreenInv
  <1>2. \A s \in Slots : Answered(s)' => Answered(s) /\ req'[s] = req[s] /\ req[s].id \in Placed
    BY DEF Answered, Awaiting, ScreensInv, RequestsInv, Fit
  <1>3. \A s \in Slots, m \in Marks :
           Answered(s)' /\ Past(req'[s].answer, m) => Past(order'[req'[s].id], m)
    BY <1>2 DEF WarnInv, OrdersGo
  <1>4. ASSUME ~crossed'
        PROVE  /\ \A s, t \in Awaiting' : s = t
               /\ \A m \in Marks :
                     selected' # None /\ <<selected'.id, m>> \in seen' => Past(selected'.o, m)
               /\ \A s \in Slots, m \in Marks :
                     Answered(s)' /\ <<req'[s].id, m>> \in seen' => Past(req'[s].answer, m)
    BY <1>2, <1>4 DEF WarnInv, Awaiting
  <1>5. WarnedOnceShown'
    BY DEF WarnInv, WarnedOnceShown, Awaiting
  <1>6. SoundInv'
    BY <1>2 DEF WarnInv, SoundInv
  <1>7. QED
    BY <1>1, <1>3, <1>4, <1>5, <1>6 DEF WarnInv, Past

\* One more detail is asked for; if it is by a cancellation that did not warn, of an order that was
\* not shown as started.
LEMMA WarnAsked ==
    ASSUME ScreensInv, WarnInv, UNCHANGED <<order, selected, seen>>,
           crossed' = (crossed \/ Awaiting # {}), NEW r \in Slots, NEW q,
           req' = [req EXCEPT ![r] = q], ~q.served,
           ~crossed /\ q.kind = "act" /\ q.q = Cancel /\ ~q.warned => <<q.id, "started">> \notin seen
    PROVE  WarnInv'
  <1>1. req'[r] = q /\ \A s \in Slots \ {r} : req'[s] = req[s]
    BY DEF ScreensInv, RequestsInv
  <1>2. \A s \in Slots : Answered(s)' => s # r /\ Answered(s) /\ req'[s] = req[s]
    BY <1>1 DEF Answered, Awaiting
  <1>3. ~crossed' => ~crossed /\ Awaiting = {} /\ Awaiting' \subseteq {r}
    BY <1>1 DEF Awaiting
  <1>4. WarnedOnceShown'
    BY <1>1, <1>3 DEF WarnInv, WarnedOnceShown, Awaiting
  <1>5. Placed' = Placed /\ SoundInv'
    BY <1>2 DEF WarnInv, SoundInv, Placed
  <1>6. QED
    BY <1>2, <1>3, <1>4, <1>5 DEF WarnInv, Past

\* An answer is shown, and was the only one awaited.
LEMMA WarnShown ==
    ASSUME ScreensInv, WarnInv, NEW r \in Slots, Answered(r), Shows(r), UNCHANGED <<order, crossed>>,
           r \notin Awaiting', \A s \in Slots \ {r} : req'[s] = req[s]
    PROVE  WarnInv'
  <1>1. req[r].answer \in Order /\ req[r].id \in Placed /\ CarriedIsSent(req[r].answer)
    BY DEF Answered, Awaiting, ScreensInv, RequestsInv, Fit, Request, WarnInv, SoundInv
  <1>2. /\ selected' = [id |-> req[r].id, o |-> req[r].answer]
        /\ \A o \in Placed, m \in Marks : <<o, m>> \in seen' =>
              <<o, m>> \in seen \/ (o = req[r].id /\ Past(req[r].answer, m))
    BY <1>1, TellsPast DEF Shows
  <1>3. Placed' = Placed
    BY DEF Placed
  <1>4. \A o \in Placed', m \in Marks : <<o, m>> \in seen' => Past(order'[o], m)
    BY <1>2, <1>3 DEF WarnInv
  <1>5. \A s \in Slots : Answered(s)' => s # r /\ Answered(s) /\ req'[s] = req[s]
    BY DEF Answered, Awaiting
  <1>6. ~crossed => Awaiting = {r} /\ Awaiting' = {}
    BY DEF WarnInv, Answered, Awaiting
  <1>7. ~crossed' => \A m \in Marks :
           selected' # None /\ <<selected'.id, m>> \in seen' => Past(selected'.o, m)
    BY <1>1, <1>2 DEF WarnInv
  <1>8. WarnedOnceShown'
    BY <1>6 DEF WarnedOnceShown, Awaiting
  <1>9. \A s \in Slots, m \in Marks :
           Answered(s)' /\ Past(req'[s].answer, m) => Past(order'[req'[s].id], m)
    BY <1>5 DEF WarnInv
  <1>10. ~crossed' => /\ \A s, t \in Awaiting' : s = t
                     /\ \A s \in Slots : ~Answered(s)'
    BY <1>6 DEF Answered
  <1>11. SoundInv'
    BY <1>1, <1>2, <1>5 DEF WarnInv, SoundInv
  <1>12. QED
    BY <1>4, <1>7, <1>8, <1>9, <1>10, <1>11 DEF WarnInv, Past

LEMMA WarnServed ==
    ASSUME ScreensInv, WarnInv, NEW r \in Slots, Serve(r)
    PROVE  WarnInv'
  <1>1. OrdersGo
    BY ServeGoes
  <1>2. UNCHANGED <<selected, seen, crossed>>
    BY DEF Serve, screen
  <1>3. PICK a : /\ req' = [req EXCEPT ![r] = [req[r] EXCEPT !.served = TRUE, !.answer = a]]
                 /\ req[r].kind = "open" => a = order'[req[r].id]
                 /\ req[r].kind = "act" => a \in {order'[req[r].id], None}
    BY ServeAnswers
  <1>4. /\ req'[r].kind = req[r].kind /\ req'[r].id = req[r].id /\ req'[r].q = req[r].q
        /\ req'[r].warned = req[r].warned /\ req'[r].answer = a
        /\ \A s \in Slots \ {r} : req'[s] = req[s]
    BY <1>3 DEF ScreensInv, RequestsInv, Fit, Request
  <1>5. Awaiting' = Awaiting
    BY <1>4 DEF Awaiting
  <1>6. \A s \in Slots : Answered(s)' =>
            /\ req'[s].id = req[s].id /\ req[s].id \in Placed
            /\ (s = r /\ req'[s].answer = order'[req[s].id]) \/ (Answered(s) /\ req'[s] = req[s])
    BY <1>3, <1>4, <1>5 DEF Answered, Awaiting, ScreensInv, RequestsInv, Fit
  <1>7. \A o \in Placed', m \in Marks : <<o, m>> \in seen' => Past(order'[o], m)
    BY <1>1, <1>2 DEF WarnInv, OrdersGo, ScreensInv, ScreenInv
  <1>8. \A s \in Slots, m \in Marks :
           Answered(s)' /\ Past(req'[s].answer, m) => Past(order'[req'[s].id], m)
    BY <1>1, <1>6 DEF WarnInv, OrdersGo
  <1>9. ~crossed => \A s \in Slots, m \in Marks :
           Answered(s)' /\ <<req'[s].id, m>> \in seen => Past(req'[s].answer, m)
    BY <1>1, <1>2, <1>6, <1>7 DEF WarnInv, OrdersGo
  <1>10. WarnedOnceShown'
    <2>1. \A s \in Slots : /\ req'[s].kind = req[s].kind /\ req'[s].q = req[s].q
                           /\ req'[s].warned = req[s].warned /\ req'[s].id = req[s].id
      BY <1>4
    <2>2. QED
      BY <1>2, <2>1 DEF WarnInv, WarnedOnceShown
  <1>11. SoundInv'
    BY <1>1, <1>2, <1>6 DEF WarnInv, SoundInv, OrdersGo, OrdersInv
  <1>12. QED
    BY <1>2, <1>5, <1>7, <1>8, <1>9, <1>10, <1>11 DEF WarnInv, Past

\* Once shown to be started, the detail on the screen has the warning.
LEMMA WarnAct ==
    ASSUME ScreensInv, WarnInv, NEW r \in Slots, NEW q, act(r, q)
    PROVE  WarnInv'
  <1>1. /\ UNCHANGED <<order, selected, seen>> /\ crossed' = (crossed \/ Awaiting # {})
        /\ req' = [req EXCEPT ![r] = Action(selected.id, q, FALSE)]
    BY DEF act, sendsAction, Sends
  <1>2. q = Cancel => ~Past(selected.o, "started")
    <2>1. q = Cancel => canCancel(selected.o) /\ ~cancelRequiresWarning(selected.o)
      BY DEF act, offers, Cancel, Plain, Op
    <2>2. QED
      BY <2>1 DEF canCancel, cancelRequiresWarning, customerCancelAllowed, Past
  <1>3. ~crossed /\ q = Cancel => <<selected.id, "started">> \notin seen
    BY <1>2 DEF WarnInv, act, DetailShown, Marks
  <1>4. ~Action(selected.id, q, FALSE).served
    BY DEF Action, Idle
  <1>5. Action(selected.id, q, FALSE).q = q /\ Action(selected.id, q, FALSE).id = selected.id
    BY DEF Action, Idle
  <1>6. QED
    BY <1>1, <1>3, <1>4, <1>5, WarnAsked

\* After a load there is nothing more awaited, or the detail read again.
LEMMA WarnThenRead ==
    ASSUME ScreensInv, WarnInv, UNCHANGED <<day, order, selected, seen>>, NEW r \in Slots,
           req[r].kind = "load", ThenRead(r)
    PROVE  WarnInv'
  <1>1. OrdersGo
    BY SameOrders DEF ScreensInv
  <1>2. CASE req' = [req EXCEPT ![r] = Idle] /\ UNCHANGED crossed
    <2>1. r \notin Awaiting' /\ \A s \in Slots \ {r} : req'[s] = req[s]
      BY <1>2 DEF ScreensInv, RequestsInv, Awaiting, Idle
    <2>2. QED
      BY <1>1, <1>2, <2>1, WarnKept DEF Awaiting
  <1>3. CASE req' = [req EXCEPT ![r] = Read(req[r].id)] /\ crossed' = (crossed \/ Awaiting # {})
    <2>1. ~Read(req[r].id).served /\ Read(req[r].id).kind = "open"
      BY DEF Read, Idle
    <2>2. QED
      BY <1>3, <2>1, WarnAsked
  <1>4. QED
    BY <1>2, <1>3 DEF ThenRead

\* Nothing awaited where the slot is let go.
LEMMA WarnLetGo ==
    ASSUME ScreensInv, WarnInv, UNCHANGED <<day, order, selected, seen, crossed>>, NEW r \in Slots,
           NEW q, req' = [req EXCEPT ![r] = q], q.kind \notin {"open", "act"}
    PROVE  WarnInv'
  <1>1. OrdersGo
    BY SameOrders DEF ScreensInv
  <1>2. r \notin Awaiting' /\ \A s \in Slots \ {r} : req'[s] = req[s]
    BY DEF ScreensInv, RequestsInv, Awaiting
  <1>3. QED
    BY <1>1, <1>2, WarnKept DEF Awaiting

LEMMA WarnHeard ==
    ASSUME ScreensInv, WarnInv, NEW r \in Slots, hearOrder(r) \/ hearAction(r)
    PROVE  WarnInv'
  <1>1. Answered(r) /\ Shows(r) /\ UNCHANGED <<order, crossed>>
    BY NoneIsNothing
    DEF hearOrder, hearAction, Answered, Awaiting, ScreensInv, RequestsInv, Fit
  <1>2. PICK q : req' = [req EXCEPT ![r] = q] /\ q \in {Idle, Load(req[r].id, req[r].q)}
    BY DEF hearOrder, hearAction
  <1>3. q.kind \in {"idle", "load"}
    <2>1. Idle.kind = "idle" /\ Load(req[r].id, req[r].q).kind = "load"
      BY DEF Idle, Load
    <2>2. QED
      BY <1>2, <2>1
  <1>4. r \notin Awaiting' /\ \A s \in Slots \ {r} : req'[s] = req[s]
    BY <1>2, <1>3 DEF ScreensInv, RequestsInv, Awaiting
  <1>5. QED
    BY <1>1, <1>4, WarnShown

LEMMA WarnStep == ScreensInv /\ WarnInv /\ [Next]_vars => WarnInv'
  <1> SUFFICES ASSUME ScreensInv, WarnInv, [Next]_vars PROVE WarnInv'
    OBVIOUS
  <1>1. CASE UNCHANGED vars
    BY <1>1, SameOrders, WarnKept DEF vars, screen, ScreensInv, Awaiting
  <1>2. ASSUME NEW o \in Orders, Place(o) \/ ShopActs(o) PROVE WarnInv'
    <2>1. OrdersGo
      BY <1>2, PlaceGoes, ShopGoes DEF ScreensInv
    <2>2. UNCHANGED <<selected, req, seen, crossed>>
      BY <1>2 DEF Place, ShopActs, screen
    <2>3. QED
      BY <2>1, <2>2, WarnKept DEF Awaiting
  <1>3. CASE close \/ askFirst \/ keepOrder
    <2>1. OrdersGo
      BY <1>3, SameOrders DEF close, askFirst, keepOrder, ScreensInv
    <2>2. UNCHANGED <<req, seen, crossed>> /\ selected' \in {selected, None}
      BY <1>3 DEF close, askFirst, keepOrder
    <2>3. QED
      BY <2>1, <2>2, WarnKept DEF Awaiting
  <1>4. ASSUME NEW r \in Slots, Serve(r) PROVE WarnInv'
    BY <1>4, WarnServed
  <1>5. ASSUME NEW r \in Slots, show(r) \/ handleRefresh(r) PROVE WarnInv'
    <2>1. UNCHANGED <<day, order, selected, seen, crossed>>
      BY <1>5 DEF show, handleRefresh, screen
    <2>2. PICK id : req' = [req EXCEPT ![r] = Load(id, None)]
      BY <1>5 DEF show, handleRefresh, Sends
    <2>3. Load(id, None).kind = "load"
      BY DEF Load, Idle
    <2>4. QED
      BY <2>1, <2>2, <2>3, WarnLetGo
  <1>6. ASSUME NEW r \in Slots, NEW o \in Orders, open(r, o) PROVE WarnInv'
    <2>1. ~Read(o).served /\ Read(o).kind = "open"
      BY DEF Read, Idle
    <2>2. QED
      BY <1>6, <2>1, WarnAsked DEF open, Sends, screen
  <1>7. ASSUME NEW r \in Slots, cancelAnyway(r) PROVE WarnInv'
    <2>1. ~Action(asking, Cancel, TRUE).served /\ Action(asking, Cancel, TRUE).warned
      BY DEF Action, Idle
    <2>2. QED
      BY <1>7, <2>1, WarnAsked DEF cancelAnyway, sendsAction, Sends
  <1>8. ASSUME NEW r \in Slots, NEW q, act(r, q) PROVE WarnInv'
    BY <1>8, WarnAct
  <1>9. ASSUME NEW r \in Slots, hearList(r) PROVE WarnInv'
    BY <1>9, WarnThenRead DEF hearList
  <1>10. ASSUME NEW r \in Slots, hearOrder(r) \/ hearAction(r) PROVE WarnInv'
    BY <1>10, WarnHeard
  <1>11. ASSUME NEW r \in Slots, hearRefusal(r) PROVE WarnInv'
    BY <1>11, WarnLetGo DEF hearRefusal, Idle
  <1>12. ASSUME NEW r \in Slots, connectionFails(r) PROVE WarnInv'
    <2>1. CASE req[r].kind = "load"
      BY <1>12, <2>1, WarnThenRead DEF connectionFails
    <2>2. CASE req[r].kind # "load"
      BY <1>12, <2>2, WarnLetGo DEF connectionFails, Idle
    <2>3. QED
      BY <2>1, <2>2
  <1>13. QED
    BY <1>1, <1>2, <1>3, <1>4, <1>5, <1>6, <1>7, <1>8, <1>9, <1>10, <1>11, <1>12 DEF Next

-----------------------------------------------------------------------------
(* Theorems *)

\* The screen and the orders stay sound together through every step of either.
THEOREM CustomerInvariant == Spec => []CustomerInv
  <1>1. Init => CustomerInv
    <2>1. Init => WarnInv
      BY DEF Init, WarnInv, SoundInv, WarnedOnceShown, Awaiting, Answered, Idle
    <2>2. QED
      BY <2>1, ScreensInit DEF CustomerInv
  <1>2. CustomerInv /\ [Next]_vars => CustomerInv'
    BY ScreensStep, WarnStep DEF CustomerInv
  <1>3. QED
    BY <1>1, <1>2, PTL DEF Spec

\* OrdersScreen.tsx: every variable keeps its type, and the buttons are off exactly while an action
\* is on its way, of which there is one at most.
THEOREM CustomerTyped == Spec => []TypeOK
  <1>1. CustomerInv => TypeOK
    <2> SUFFICES ASSUME CustomerInv PROVE TypeOK
      OBVIOUS
    <2>1. \A r \in Slots : req[r] \in IF req[r].kind = "load" THEN Request({"load"}, SUBSET Orders)
                                      ELSE Request({"idle", "open", "act"}, Order)
      BY DEF CustomerInv, ScreensInv, RequestsInv, Fit
    <2>2. Placed \subseteq Orders
      BY DEF Placed
    <2>3. QED
      BY <2>1, <2>2
      DEF CustomerInv, ScreensInv, OrdersInv, ScreenInv, RequestsInv, BusyInv, TypeOK, Detail
  <1>2. QED
    BY <1>1, CustomerInvariant, PTL

\* OrdersScreen.tsx, the call buttons and the driver's box: one call is offered at a time, and as long
\* as one detail is asked for at a time none of the numbers shown is taken back by a late answer.
THEOREM NumbersGoForwardHolds == Spec => []NumbersGoForward
  <1>1. CustomerInv => NumbersGoForward
    <2> SUFFICES ASSUME CustomerInv, selected # None PROVE NumbersGoForward
      BY DEF NumbersGoForward
    <2>1. ~(shopPhone(selected.o) /\ driverPhone(selected.o))
      BY DEF CustomerInv, WarnInv, SoundInv, CarriedIsSent, shopPhone, driverPhone,
             SHOP_CONTACT_WINDOW, DRIVER_CONTACT_WINDOW
    <2>2. \A m \in Marks : ~crossed /\ <<selected.id, m>> \in seen => Past(selected.o, m)
      BY DEF CustomerInv, WarnInv
    <2>3. Past(selected.o, "call") => ~shopPhone(selected.o)
      BY DEF Past, shopPhone
    <2>4. Past(selected.o, "driver") => driverBox(selected.o) \/ selected.o.status = "CANCELLED"
      BY DEF Past, driverBox
    <2>5. QED
      BY <2>1, <2>2, <2>3, <2>4 DEF NumbersGoForward, Marks
  <1>2. QED
    BY <1>1, CustomerInvariant, PTL

\* OrdersScreen.tsx, handleCancel: as long as one detail is asked for at a time, no order that was
\* shown as started is cancelled without the warning.
THEOREM WarnedOnceShownHolds == Spec => []WarnedOnceShown
  <1>1. CustomerInv => WarnedOnceShown
    BY DEF CustomerInv, WarnInv
  <1>2. QED
    BY <1>1, CustomerInvariant, PTL

-----------------------------------------------------------------------------
(* The basket of Basket, for any shops, products and number of orders on their way. *)

\* A basket with a shop holds that shop's products.
OfItsShop(b) == \A u \in b.units : b.shop # NoShop => ShopOf[u] = b.shop

\* The screen waits for at most one order, and one that is closed for none.
WaitingInv ==
    /\ \A r, q \in Requests : sent[r].here /\ sent[q].here => r = q
    /\ \A r \in Requests : sent[r].at = "idle" => sent[r].units = {}
    /\ opened = NoShop => cart = Empty /\ ~loaded /\ ~placing

\* Every unit was added once, and what was added before the stored basket came is not in it.
FreshInv ==
    /\ cart.units \subseteq used /\ handed.units \subseteq used /\ disk.units \subseteq used
    /\ heard \subseteq used
    /\ \A r \in Requests : sent[r].units \subseteq used
    /\ ~loaded => /\ cart.units \cap (handed.units \cup disk.units) = {}
                  /\ \A r \in Requests :
                        sent[r].here => sent[r].units \cap (handed.units \cup disk.units) = {}

\* What an order is known to hold has left the basket, and the disk once settled.
SettledInv ==
    /\ settled \subseteq heard
    /\ heard \cap (cart.units \cup handed.units) = {}
    /\ settled \cap disk.units = {}

\* What has left the basket stored since the last write had its reason.
DroppedInv ==
    /\ disk.units \ handed.units \subseteq dropped
    /\ loaded => handed.units \ cart.units \subseteq dropped

BasketInv ==
    /\ BasketTypeOK /\ OneShopPerOrder /\ WaitingInv /\ FreshInv /\ SettledInv /\ DroppedInv
    /\ OfItsShop(cart) /\ OfItsShop(handed) /\ OfItsShop(disk)

-----------------------------------------------------------------------------
LEMMA EmptyType ==
    /\ Empty \in Basket /\ Empty.units = {} /\ Empty.shop = NoShop
    /\ NoOrder \in OrderSent /\ NoOrder.units = {} /\ NoOrder.here = FALSE /\ NoOrder.at = "idle"
BY DEF Empty, Basket, NoOrder, OrderSent

LEMMA InitBasket == BasketInit => BasketInv
<1>. SUFFICES ASSUME BasketInit PROVE BasketInv
  OBVIOUS
<1>1. PICK s \in Shops : disk \in Basket /\ Sold(disk, s) /\ disk.shop \in {s, NoShop}
  BY DEF BasketInit
<1>2. /\ cart = Empty /\ handed = disk /\ opened = NoShop /\ ~loaded /\ placing = FALSE
      /\ sent = [r \in Requests |-> NoOrder]
      /\ used = disk.units /\ heard = {} /\ settled = {} /\ dropped = {} /\ ordered = {}
      /\ loaded = FALSE
  BY DEF BasketInit
<1>3. BasketTypeOK /\ OneShopPerOrder
  BY <1>1, <1>2, EmptyType DEF BasketTypeOK, OneShopPerOrder, Basket
<1>4. WaitingInv /\ FreshInv /\ SettledInv /\ DroppedInv
  BY <1>2, EmptyType DEF WaitingInv, FreshInv, SettledInv, DroppedInv
<1>5. OfItsShop(cart) /\ OfItsShop(disk)
  BY <1>1, <1>2, EmptyType DEF OfItsShop, Sold
<1>. QED  BY <1>2, <1>3, <1>4, <1>5 DEF BasketInv

-----------------------------------------------------------------------------
\* The screen opens, and reads the stored basket or fails to.
LEMMA OpenStep ==
    ASSUME BasketInv, (\E s \in Shops : Open(s)) \/ Restore \/ RestoreFails
    PROVE  BasketInv'
<1>. USE EmptyType DEF BasketInv
<1>1. CASE \E s \in Shops : Open(s)
  <2>1. /\ opened' \in Shops /\ cart' = Empty /\ handed' = handed /\ opened = NoShop /\ ~loaded
        /\ UNCHANGED <<loaded, placing, disk, sent, used, ordered, heard, settled, dropped>>
    BY <1>1 DEF Open, ShowsBasket, history, WaitingInv
  <2>2. BasketTypeOK' /\ OneShopPerOrder'
    BY <2>1 DEF BasketTypeOK, OneShopPerOrder
  <2>3. WaitingInv'
    BY <2>1, UnitsAssumption DEF WaitingInv, UnitsAssumption
  <2>4. FreshInv' /\ SettledInv' /\ DroppedInv'
    BY <2>1 DEF FreshInv, SettledInv, DroppedInv
  <2>5. OfItsShop(cart)' /\ OfItsShop(handed)' /\ OfItsShop(disk)'
    BY <2>1 DEF OfItsShop
  <2>. QED  BY <2>2, <2>3, <2>4, <2>5
<1>2. CASE Restore
  <2>1. /\ opened # NoShop /\ cart' = handed /\ loaded' = TRUE
        /\ UNCHANGED <<opened, placing, handed, disk, sent, used, ordered, heard, settled, dropped>>
    BY <1>2 DEF Restore, history
  <2>2. BasketTypeOK' /\ OneShopPerOrder' /\ WaitingInv'
    BY <2>1 DEF BasketTypeOK, OneShopPerOrder, WaitingInv
  <2>3. FreshInv' /\ SettledInv' /\ DroppedInv'
    BY <2>1 DEF FreshInv, SettledInv, DroppedInv
  <2>4. OfItsShop(cart)' /\ OfItsShop(handed)' /\ OfItsShop(disk)'
    BY <2>1 DEF OfItsShop
  <2>. QED  BY <2>2, <2>3, <2>4
<1>3. CASE RestoreFails
  <2>1. /\ opened # NoShop /\ handed' = cart /\ loaded' = TRUE
        /\ dropped' = dropped \cup handed.units \cup disk.units
        /\ UNCHANGED <<opened, cart, placing, disk, sent, used, ordered, heard, settled>>
    BY <1>3 DEF RestoreFails
  <2>2. BasketTypeOK' /\ OneShopPerOrder' /\ WaitingInv'
    BY <2>1 DEF BasketTypeOK, OneShopPerOrder, WaitingInv, Basket
  <2>3. FreshInv' /\ SettledInv' /\ DroppedInv'
    BY <2>1 DEF FreshInv, SettledInv, DroppedInv
  <2>4. OfItsShop(cart)' /\ OfItsShop(handed)' /\ OfItsShop(disk)'
    BY <2>1 DEF OfItsShop
  <2>. QED  BY <2>2, <2>3, <2>4
<1>. QED  BY <1>1, <1>2, <1>3

\* The screen closes, with the app or without.
LEMMA CloseStep ==
    ASSUME BasketInv, Leave \/ Kill
    PROVE  BasketInv'
<1>. USE EmptyType DEF BasketInv
<1>1. /\ opened' = NoShop /\ cart' = Empty /\ loaded' = FALSE /\ placing' = FALSE
      /\ sent' = [r \in Requests |-> [sent[r] EXCEPT !.here = FALSE]]
      /\ UNCHANGED <<disk, used, ordered, settled, dropped>>
      /\ \/ UNCHANGED <<handed, heard>>
         \/ handed' = disk /\ heard' = settled
  BY DEF Leave, Kill, Closes, history
<1>2. /\ sent' \in [Requests -> OrderSent]
      /\ \A r \in Requests : ~sent'[r].here /\ sent'[r].units = sent[r].units /\ sent'[r].shop = sent[r].shop
                           /\ sent'[r].at = sent[r].at
  BY <1>1 DEF BasketTypeOK, OrderSent
<1>3. BasketTypeOK' /\ OneShopPerOrder' /\ WaitingInv'
  BY <1>1, <1>2 DEF BasketTypeOK, OneShopPerOrder, WaitingInv
<1>4. FreshInv' /\ SettledInv' /\ DroppedInv'
  BY <1>1, <1>2 DEF FreshInv, SettledInv, DroppedInv
<1>5. OfItsShop(cart)' /\ OfItsShop(handed)' /\ OfItsShop(disk)'
  BY <1>1 DEF OfItsShop
<1>. QED  BY <1>3, <1>4, <1>5

\* The storage writes, or fails to.
LEMMA WriteStep ==
    ASSUME BasketInv, Flush \/ WriteFails
    PROVE  BasketInv'
<1>. USE DEF BasketInv
<1>1. /\ UNCHANGED <<opened, cart, loaded, placing, sent, used, ordered, dropped>>
      /\ \/ disk' = handed /\ handed' = handed /\ settled' = heard /\ heard' = heard
         \/ disk' = disk /\ handed' = disk /\ heard' = settled /\ settled' = settled
  BY DEF Flush, WriteFails
<1>2. BasketTypeOK' /\ OneShopPerOrder' /\ WaitingInv'
  BY <1>1 DEF BasketTypeOK, OneShopPerOrder, WaitingInv
<1>3. SettledInv' /\ DroppedInv'
  BY <1>1 DEF SettledInv, DroppedInv
<1>4. FreshInv'
  BY <1>1 DEF FreshInv, SettledInv
<1>5. OfItsShop(cart)' /\ OfItsShop(handed)' /\ OfItsShop(disk)'
  BY <1>1 DEF OfItsShop
<1>. QED  BY <1>2, <1>3, <1>4, <1>5

-----------------------------------------------------------------------------
\* The customer adds a unit or takes one out.
LEMMA AddStep ==
    ASSUME BasketInv, NEW u \in Units, Add(u)
    PROVE  BasketInv'
<1>. USE DEF BasketInv
<1>1. /\ u \notin used /\ opened = ShopOf[u] /\ opened # NoShop /\ opened \in Shops
      /\ used' = used \cup {u}
      /\ UNCHANGED <<opened, loaded, placing, disk, sent, ordered, heard, settled>>
      /\ handed' = IF loaded THEN cart' ELSE handed
  BY UnitsAssumption DEF Add, OnCard, ShowsBasket, UnitsAssumption
<1>2. /\ cart' \in Basket /\ u \in cart'.units /\ cart'.units \subseteq cart.units \cup {u}
      /\ cart'.shop = opened /\ cart.units \ cart'.units \subseteq dropped'
      /\ dropped \subseteq dropped' /\ dropped' \subseteq Units
  <2>1. CASE cart.shop = opened
    BY <1>1, <2>1 DEF Add, ShowsBasket, BasketTypeOK, Basket
  <2>2. CASE cart.shop # opened
    BY <1>1, <2>2 DEF Add, ShowsBasket, BasketTypeOK, Basket
  <2>. QED  BY <2>1, <2>2
<1>3. OfItsShop(cart)'
  <2>1. CASE cart.shop = opened
    BY <1>1, <2>1 DEF Add, ShowsBasket, OfItsShop, BasketTypeOK, Basket
  <2>2. CASE cart.shop # opened
    BY <1>1, <2>2 DEF Add, ShowsBasket, OfItsShop
  <2>. QED  BY <2>1, <2>2
<1>4. BasketTypeOK' /\ OneShopPerOrder' /\ WaitingInv'
  BY <1>1, <1>2 DEF BasketTypeOK, OneShopPerOrder, WaitingInv
<1>5. FreshInv'
  BY <1>1, <1>2 DEF FreshInv
<1>6. SettledInv'
  BY <1>1, <1>2 DEF SettledInv, FreshInv
<1>7. DroppedInv'
  BY <1>1, <1>2 DEF DroppedInv, FreshInv
<1>8. OfItsShop(handed)' /\ OfItsShop(disk)'
  BY <1>1, <1>3 DEF OfItsShop
<1>. QED  BY <1>3, <1>4, <1>5, <1>6, <1>7, <1>8

LEMMA RemoveStep ==
    ASSUME BasketInv, NEW u \in Units, Remove(u)
    PROVE  BasketInv'
<1>. USE DEF BasketInv
<1>. DEFINE b == [cart EXCEPT !.units = @ \ {u}]
<1>1. /\ opened = ShopOf[u] /\ opened # NoShop
      /\ cart' = b /\ dropped' = dropped \cup {u}
      /\ UNCHANGED <<opened, loaded, placing, disk, sent, used, ordered, heard, settled>>
      /\ handed' = IF loaded THEN b ELSE handed
  <2>1. opened = ShopOf[u]
    BY DEF Remove, OnCard, OnLine, OfItsShop
  <2>. QED  BY <2>1, UnitsAssumption DEF Remove, ShowsBasket, UnitsAssumption
<1>2. b \in Basket /\ b.units = cart.units \ {u} /\ b.shop = cart.shop
  BY DEF BasketTypeOK, Basket
<1>. HIDE DEF b
<1>3. BasketTypeOK' /\ OneShopPerOrder' /\ WaitingInv'
  BY <1>1, <1>2 DEF BasketTypeOK, OneShopPerOrder, WaitingInv
<1>4. FreshInv' /\ SettledInv'
  BY <1>1, <1>2 DEF FreshInv, SettledInv
<1>5. DroppedInv'
  BY <1>1, <1>2 DEF DroppedInv
<1>6. OfItsShop(cart)' /\ OfItsShop(handed)' /\ OfItsShop(disk)'
  BY <1>1, <1>2 DEF OfItsShop
<1>. QED  BY <1>3, <1>4, <1>5, <1>6

-----------------------------------------------------------------------------
\* One order's way: what is said of the other requests stands.
LEMMA RequestType ==
    ASSUME BasketTypeOK, NEW r \in Requests, NEW q \in OrderSent, sent' = [sent EXCEPT ![r] = q]
    PROVE  /\ sent' \in [Requests -> OrderSent] /\ sent'[r] = q
           /\ \A s \in Requests \ {r} : sent'[s] = sent[s]
BY DEF BasketTypeOK

LEMMA PlaceStep ==
    ASSUME BasketInv, NEW r \in Requests, PlaceOrder(r)
    PROVE  BasketInv'
<1>. USE DEF BasketInv
<1>. DEFINE q == [at |-> "sent", units |-> Shown, shop |-> opened, here |-> TRUE]
<1>1. /\ opened # NoShop /\ ~placing /\ sent' = [sent EXCEPT ![r] = q] /\ placing' = TRUE
      /\ cart.shop = opened /\ Shown = cart.units
      /\ UNCHANGED <<opened, cart, loaded, handed, disk, used, ordered, heard, settled, dropped>>
  BY DEF PlaceOrder, PlaceOffered, Shown, history
<1>2. /\ q \in OrderSent /\ q.units = cart.units /\ q.shop = opened /\ q.here = TRUE
      /\ q.at = "sent"
  BY <1>1 DEF BasketTypeOK, OrderSent, Basket
<1>. HIDE DEF q
<1>3. /\ sent' \in [Requests -> OrderSent] /\ sent'[r] = q
      /\ \A s \in Requests \ {r} : sent'[s] = sent[s] /\ ~sent[s].here
  BY <1>1, <1>2, RequestType DEF BasketTypeOK
<1>4. BasketTypeOK' /\ WaitingInv'
  BY <1>1, <1>2, <1>3 DEF BasketTypeOK, WaitingInv
<1>5. OneShopPerOrder'
  BY <1>1, <1>2, <1>3 DEF OneShopPerOrder, OfItsShop
<1>6. FreshInv'
  BY <1>1, <1>2, <1>3 DEF FreshInv
<1>7. SettledInv' /\ DroppedInv'
  BY <1>1 DEF SettledInv, DroppedInv
<1>8. OfItsShop(cart)' /\ OfItsShop(handed)' /\ OfItsShop(disk)'
  BY <1>1 DEF OfItsShop
<1>. QED  BY <1>4, <1>5, <1>6, <1>7, <1>8

\* The request moves on and the basket is left alone.
LEMMA MovesStep ==
    ASSUME BasketInv, NEW r \in Requests,
           ServeOrder(r) \/ HearsRefusal(r) \/ ConnectionFails(r) \/ GoesUnheard(r)
    PROVE  BasketInv'
<1>. USE EmptyType DEF BasketInv
<1>1. PICK q \in OrderSent :
         /\ sent' = [sent EXCEPT ![r] = q]
         /\ (q.units = sent[r].units /\ q.shop = sent[r].shop) \/ q.units = {}
         /\ q.at = "idle" => q.units = {}
         /\ q.here => sent[r].here
         /\ IF q.here = sent[r].here THEN placing' = placing ELSE placing' = FALSE
         /\ UNCHANGED <<opened, cart, loaded, handed, disk, used, heard, settled, dropped>>
         /\ ordered' \in SUBSET Units
  <2>0. sent[r] \in OrderSent /\ sent[r].here \in BOOLEAN /\ sent[r].units \subseteq Units
    BY DEF BasketTypeOK, OrderSent
  <2>1. CASE ServeOrder(r)
    <3>1. PICK a \in {"accepted", "refused"} : sent' = [sent EXCEPT ![r].at = a]
      BY <2>1 DEF ServeOrder
    <3>. DEFINE q == [sent[r] EXCEPT !.at = a]
    <3>2. /\ q \in OrderSent /\ q.units = sent[r].units /\ q.shop = sent[r].shop
          /\ q.here = sent[r].here /\ q.at # "idle"
      BY <2>0 DEF OrderSent
    <3>3. sent' = [sent EXCEPT ![r] = q]
      BY <3>1 DEF BasketTypeOK
    <3>4. /\ UNCHANGED <<opened, cart, loaded, placing, handed, disk, used, heard, settled, dropped>>
          /\ ordered' \in SUBSET Units
      BY <2>0, <2>1 DEF ServeOrder, BasketTypeOK
    <3>. HIDE DEF q
    <3>. QED  BY <3>2, <3>3, <3>4
  <2>2. CASE HearsRefusal(r)
    BY <2>0, <2>2 DEF HearsRefusal, history, BasketTypeOK
  <2>3. CASE ConnectionFails(r)
    <3>. DEFINE q == [sent[r] EXCEPT !.here = FALSE]
    <3>1. /\ q \in OrderSent /\ q.units = sent[r].units /\ q.shop = sent[r].shop /\ q.here = FALSE
          /\ q.at = "idle" => q.units = {}
      BY <2>0 DEF OrderSent, WaitingInv
    <3>2. sent' = [sent EXCEPT ![r] = q] /\ sent[r].here /\ placing' = FALSE
      BY <2>3 DEF ConnectionFails, BasketTypeOK
    <3>3. /\ UNCHANGED <<opened, cart, loaded, handed, disk, used, heard, settled, dropped>>
          /\ ordered' \in SUBSET Units
      BY <2>3 DEF ConnectionFails, history, BasketTypeOK
    <3>. HIDE DEF q
    <3>. QED  BY <3>1, <3>2, <3>3
  <2>4. CASE GoesUnheard(r)
    BY <2>0, <2>4 DEF GoesUnheard, history, BasketTypeOK
  <2>. QED  BY <2>1, <2>2, <2>3, <2>4
<1>2. /\ sent' \in [Requests -> OrderSent] /\ sent'[r] = q
      /\ \A s \in Requests \ {r} : sent'[s] = sent[s]
  BY <1>1, RequestType
<1>3. BasketTypeOK'
  <2>1. placing' <=> \E s \in Requests : sent'[s].here
    BY <1>1, <1>2 DEF BasketTypeOK, OrderSent, WaitingInv
  <2>. QED  BY <1>1, <1>2, <2>1 DEF BasketTypeOK
<1>4. OneShopPerOrder'
  BY <1>1, <1>2 DEF OneShopPerOrder
<1>5. WaitingInv'
  BY <1>1, <1>2 DEF WaitingInv, BasketTypeOK, OrderSent
<1>6. FreshInv'
  BY <1>1, <1>2 DEF FreshInv
<1>7. SettledInv' /\ DroppedInv'
  BY <1>1 DEF SettledInv, DroppedInv
<1>8. OfItsShop(cart)' /\ OfItsShop(handed)' /\ OfItsShop(disk)'
  BY <1>1 DEF OfItsShop
<1>. QED  BY <1>3, <1>4, <1>5, <1>6, <1>7, <1>8

\* The answer empties the basket: all it ordered is out of what is handed over.
LEMMA HearsStep ==
    ASSUME BasketInv, NEW r \in Requests, Hears(r)
    PROVE  BasketInv'
<1>. USE EmptyType DEF BasketInv
<1>1. /\ sent[r].here /\ cart' = Empty /\ handed' = IF loaded THEN Empty ELSE handed
      /\ dropped' = dropped \cup cart.units /\ heard' = heard \cup sent[r].units
      /\ sent' = [sent EXCEPT ![r] = NoOrder] /\ placing' = FALSE
      /\ UNCHANGED <<opened, loaded, disk, used, ordered, settled>>
  BY DEF Hears, ShowsBasket
<1>2. /\ sent' \in [Requests -> OrderSent] /\ sent'[r] = NoOrder
      /\ \A s \in Requests \ {r} : sent'[s] = sent[s] /\ ~sent[s].here
  BY <1>1, RequestType DEF WaitingInv
<1>3. /\ sent[r].units \subseteq Units /\ cart.units \subseteq Units
  BY DEF BasketTypeOK, OrderSent, Basket
<1>4. BasketTypeOK' /\ OneShopPerOrder' /\ WaitingInv'
  BY <1>1, <1>2, <1>3 DEF BasketTypeOK, OneShopPerOrder, WaitingInv
<1>5. FreshInv'
  BY <1>1, <1>2 DEF FreshInv
<1>6. SettledInv'
  BY <1>1 DEF SettledInv, FreshInv
<1>7. DroppedInv'
  BY <1>1 DEF DroppedInv
<1>8. OfItsShop(cart)' /\ OfItsShop(handed)' /\ OfItsShop(disk)'
  BY <1>1 DEF OfItsShop
<1>. QED  BY <1>4, <1>5, <1>6, <1>7, <1>8

LEMMA BasketStep == BasketInv /\ [BasketNext]_basketVars => BasketInv'
<1>1. ASSUME BasketInv, UNCHANGED basketVars PROVE BasketInv'
  BY <1>1 DEF BasketInv, BasketTypeOK, OneShopPerOrder, WaitingInv, FreshInv, SettledInv, DroppedInv,
              OfItsShop, basketVars, history
<1>. QED  BY <1>1, OpenStep, CloseStep, WriteStep, AddStep, RemoveStep, PlaceStep, MovesStep,
             HearsStep DEF BasketNext

-----------------------------------------------------------------------------
\* The inductive invariant: where each unit may be, and why it is nowhere else.
THEOREM BasketInvariant == BasketSpec => []BasketInv
<1>1. BasketInit => BasketInv
  BY InitBasket
<1>2. BasketInv /\ [BasketNext]_basketVars => BasketInv'
  BY BasketStep
<1>. QED  BY <1>1, <1>2, PTL DEF BasketSpec

\* An order never mixes shops, whatever basket was restored.
THEOREM OneShopPerOrderHolds == BasketSpec => []OneShopPerOrder
<1>1. BasketInv => OneShopPerOrder
  BY DEF BasketInv
<1>2. BasketSpec => []BasketInv
  BY BasketInvariant
<1>. QED  BY <1>1, <1>2, PTL

\* What an order the app knows of held, and has stored as gone, is never sent again.
THEOREM SettledNotRepeatedHolds == BasketSpec => SettledNotRepeated
<1>1. BasketInv /\ [BasketNext]_basketVars =>
         [\A r \in Requests : sent[r].at = "idle" => sent'[r].units \cap settled = {}]_basketVars
  <2>1. ASSUME BasketInv, BasketNext, NEW r \in Requests, sent[r].at = "idle"
        PROVE  sent'[r].units \cap settled = {}
    <3>1. ASSUME NEW s \in Requests, PlaceOrder(s)
          PROVE  sent'[r].units = {} \/ sent'[r].units = cart.units
      BY <2>1, <3>1 DEF PlaceOrder, PlaceOffered, Shown, BasketInv, WaitingInv, BasketTypeOK
    <3>2. cart.units \cap settled = {}
      BY <2>1 DEF BasketInv, SettledInv
    <3>3. ASSUME \A s \in Requests : ~PlaceOrder(s) PROVE sent'[r].units = {}
      <4>1. sent \in [Requests -> OrderSent] /\ sent[r].units = {}
        BY <2>1 DEF BasketInv, WaitingInv, BasketTypeOK
      <4>2. CASE UNCHANGED sent \/ Closes
        BY <4>1, <4>2 DEF Closes, OrderSent
      <4>3. ASSUME NEW s \in Requests, ServeOrder(s) \/ ConnectionFails(s)
            PROVE  sent'[r].units = {}
        BY <4>1, <4>3 DEF ServeOrder, ConnectionFails, OrderSent
      <4>4. ASSUME NEW s \in Requests, Hears(s) \/ HearsRefusal(s) \/ GoesUnheard(s)
            PROVE  sent'[r].units = {}
        BY <4>1, <4>4, EmptyType DEF Hears, HearsRefusal, GoesUnheard
      <4>5. \/ UNCHANGED sent \/ Closes
            \/ \E s \in Requests : ServeOrder(s) \/ ConnectionFails(s)
            \/ \E s \in Requests : Hears(s) \/ HearsRefusal(s) \/ GoesUnheard(s)
        BY <2>1, <3>3 DEF BasketNext, Open, Restore, RestoreFails, Leave, Add,
                          Remove, Flush, WriteFails, Kill
      <4>. QED  BY <4>2, <4>3, <4>4, <4>5
    <3>. QED  BY <3>1, <3>2, <3>3
  <2>2. ASSUME UNCHANGED basketVars, BasketInv, NEW r \in Requests, sent[r].at = "idle"
        PROVE  sent'[r].units \cap settled = {}
    BY <2>2 DEF basketVars, BasketInv, WaitingInv
  <2>. QED  BY <2>1, <2>2
<1>2. BasketSpec => []BasketInv
  BY BasketInvariant
<1>. QED  BY <1>1, <1>2, PTL DEF BasketSpec, SettledNotRepeated

\* Nothing stored is lost to a screen that opens empty, to a restart or to a failed write.
THEOREM SavedIsKeptHolds == BasketSpec => SavedIsKept
<1>1. BasketInv /\ [BasketNext]_basketVars => [disk.units \ disk'.units \subseteq dropped]_basketVars
  <2>1. ASSUME BasketInv, BasketNext PROVE disk' = disk \/ (disk' = handed /\ dropped' = dropped)
    BY <2>1 DEF BasketNext, Open, Restore, RestoreFails, Leave, Closes, Add,
                Remove, Flush, WriteFails, Kill,
                PlaceOrder, ServeOrder, Hears, HearsRefusal, ConnectionFails,
                GoesUnheard, history
  <2>. QED  BY <2>1 DEF BasketInv, DroppedInv
<1>2. BasketSpec => []BasketInv
  BY BasketInvariant
<1>. QED  BY <1>1, <1>2, PTL DEF BasketSpec, SavedIsKept
=============================================================================
