-------------------------- MODULE ShopOrdersProofs --------------------------
(***************************************************************************)
(* What the shopkeeper's order screen guarantees for any orders, any       *)
(* number of requests on their way and any pace of the customers.          *)
(***************************************************************************)
EXTENDS ShopOrders, TLAPS

Rows == [Orders -> {"new", "active", "done", None}]

Request == [kind : {"idle", "load", "open", "act"}, id : Orders \cup {None},
            q : Presses \cup {None}, served : BOOLEAN, answer : Order \cup Rows \cup {None},
            here : BOOLEAN]

\* A request as it may be on its way, where P are the orders placed.
Fit(q, P) ==
    /\ q \in Request
    /\ q.kind = "idle" => q = Idle
    /\ q.kind = "load" /\ q.served =>
          q.answer \in Rows /\ \A o \in Orders : q.answer[o] # None => o \in P
    /\ q.kind = "open" => q.q = None /\ q.id \in P /\ (q.served => q.answer \in Order)
    /\ q.kind = "act" => q.q # None /\ q.id \in P /\ (q.served => q.answer \in Order \cup {None})

OrdersInv ==
    /\ day \in Days
    /\ order \in [Orders -> Order \cup {None}]

\* The screen speaks of orders that are there.
ScreenInv ==
    /\ list \in Rows /\ \A o \in Orders : list[o] # None => o \in Placed
    /\ selected \in [id : Placed, o : Order] \cup {None}
    /\ cancelling \in Orders \cup {None} /\ failing \in Orders \cup {None}
    /\ crossed \in BOOLEAN

RequestsInv ==
    /\ req = [r \in Slots |-> req[r]]
    /\ \A r \in Slots : Fit(req[r], Placed)

BusyInv ==
    /\ busy \in BOOLEAN /\ (busy <=> Acting # {})
    /\ \A r, s \in Acting : r = s

TypeInv == OrdersInv /\ ScreenInv /\ RequestsInv /\ BusyInv

\* As long as rows are tapped one at a time, a tap finds the screen without a detail or a box, and
\* an action finds the boxes and the detail of its own order.
BoxInv ==
    ~crossed =>
        /\ \A r \in InFlight("open") :
              /\ selected = None /\ cancelling = None /\ failing = None
              /\ Acting = {} /\ \A s \in InFlight("open") : r = s
        /\ \A r \in InFlight("act") :
              /\ selected # None => selected.id = req[r].id
              /\ cancelling \in {None, req[r].id} /\ failing \in {None, req[r].id}
        /\ BoxKeepsItsOrder

ShopInv == TypeInv /\ BoxInv

-----------------------------------------------------------------------------
(* Orders *)

LEMMA MovesAreTyped ==
    ASSUME NEW from \in DeliveryStatuses, NEW to, canMoveDelivery(from, to)
    PROVE  /\ to \in DeliveryStatuses
           /\ orderStatusForDelivery(to) \in OrderStatuses
  BY DEF canMoveDelivery, DELIVERY_TRANSITIONS, DeliveryStatuses, orderStatusForDelivery,
         OrderStatuses

\* An operation leaves an order an order.
LEMMA AfterIsOrder ==
    ASSUME NEW o \in Order, NEW q, q.op \in Operations, Accepts(o, q)
    PROVE  After(o, q) \in Order
  <1> USE DEF Order
  <1>1. CASE q.op \in {"cancel", "merchantCancel", "confirm", "startPreparing", "review",
                       "acceptChanges", "setItemStatus"}
    BY <1>1 DEF Accepts, After, Cancelled, Trimmed, OrderStatuses, Cancellers
  <1>2. CASE q.op = "assignDelivery"
    BY <1>2 DEF Accepts, After, DeliveryStatuses
  <1>3. CASE q.op = "updateDelivery"
    <2>1. /\ o.delivery \in DeliveryStatuses /\ canMoveDelivery(o.delivery, q.to)
          /\ After(o, q) = Delivered(o, q.to)
      BY <1>3 DEF Accepts, After, DeliveryMoves
    <2>2. q.to \in DeliveryStatuses /\ orderStatusForDelivery(q.to) \in OrderStatuses
      BY <2>1, MovesAreTyped
    <2>3. QED
      BY <2>1, <2>2 DEF Delivered, Cancelled, Cancellers, OrderStatuses
  <1>4. QED
    BY <1>1, <1>2, <1>3 DEF Operations

LEMMA AttemptIsOrder ==
    ASSUME NEW o \in Order, NEW q, q.op \in Operations
    PROVE  Attempt(o, q) \in Order
  BY AfterIsOrder DEF Attempt

LEMMA PressesAreOperations == \A q \in Presses : q.op \in Operations
  BY DEF Presses, Plain, Op, Operations

LEMMA PlacedAreOrders == Placed \in SUBSET Orders /\ Placed' \in SUBSET Orders
  BY DEF Placed

\* Orders come in and go on, and are still there.
OrdersGo == OrdersInv' /\ Placed \subseteq Placed'

LEMMA SameOrders ==
    ASSUME OrdersInv, UNCHANGED <<day, order>>
    PROVE  OrdersGo /\ Placed' = Placed
  BY DEF OrdersGo, OrdersInv, Placed

LEMMA OneOrderGoes ==
    ASSUME OrdersInv, day' = day, NEW o \in Orders, NEW x \in Order,
           order' = [order EXCEPT ![o] = x]
    PROVE  OrdersGo
  BY NoneIsNothing DEF OrdersGo, OrdersInv, Placed

LEMMA WorldGoes ==
    ASSUME OrdersInv, NEW o \in Orders, Place(o) \/ CustomerActs(o)
    PROVE  OrdersGo
  <1>1. CASE Place(o)
    <2>1. [NewOrder EXCEPT !.status = day[o].from] \in Order
      BY DaysAssumption DEF OrdersInv, NewOrder, Order, OrderStatuses
    <2>2. QED
      BY <1>1, <2>1, OneOrderGoes DEF Place
  <1>2. CASE CustomerActs(o)
    <2>1. PICK op \in {"cancel", "acceptChanges"} :
             /\ Accepts(order[o], Plain(op))
             /\ order' = [order EXCEPT ![o] = After(order[o], Plain(op))]
      BY <1>2 DEF CustomerActs
    <2>2. order[o] \in Order
      BY <1>2 DEF CustomerActs, Placed, OrdersInv
    <2>3. After(order[o], Plain(op)) \in Order
      BY <2>1, <2>2, AfterIsOrder DEF Plain, Op, Operations
    <2>4. QED
      BY <1>2, <2>1, <2>3, OneOrderGoes DEF CustomerActs
  <1>3. QED
    BY <1>1, <1>2

-----------------------------------------------------------------------------
(* Requests *)

LEMMA FitNew ==
    ASSUME NEW P \in SUBSET Orders
    PROVE  /\ Fit(Idle, P)
           /\ \A q \in Presses \cup {None} :
                 Fit([Idle EXCEPT !.kind = "load", !.q = q, !.here = TRUE], P)
           /\ \A o \in P : Fit([Idle EXCEPT !.kind = "open", !.id = o, !.here = TRUE], P)
           /\ \A o \in P, q \in Presses :
                 Fit([Idle EXCEPT !.kind = "act", !.id = o, !.q = q, !.here = TRUE], P)
  <1> USE NoneIsNothing DEF Fit, Request, Idle
  <1>1. Fit(Idle, P)
    OBVIOUS
  <1>2. ASSUME NEW q \in Presses \cup {None}
        PROVE  Fit([Idle EXCEPT !.kind = "load", !.q = q, !.here = TRUE], P)
    OBVIOUS
  <1>3. ASSUME NEW o \in P
        PROVE  Fit([Idle EXCEPT !.kind = "open", !.id = o, !.here = TRUE], P)
    OBVIOUS
  <1>4. ASSUME NEW o \in P, NEW q \in Presses
        PROVE  Fit([Idle EXCEPT !.kind = "act", !.id = o, !.q = q, !.here = TRUE], P)
    OBVIOUS
  <1>5. QED
    BY ONLY <1>1, <1>2, <1>3, <1>4

LEMMA FitMore ==
    ASSUME NEW q, NEW P, NEW Q, Fit(q, P), P \subseteq Q
    PROVE  Fit(q, Q)
  BY DEF Fit

\* One request is replaced by another that fits.
LEMMA ReplaceRequest ==
    ASSUME RequestsInv, Placed \subseteq Placed', NEW r \in Slots, NEW q, Fit(q, Placed'),
           req' = [req EXCEPT ![r] = q]
    PROVE  RequestsInv' /\ req'[r] = q /\ \A s \in Slots \ {r} : req'[s] = req[s]
  BY FitMore DEF RequestsInv

LEMMA SameRequests ==
    ASSUME RequestsInv, Placed \subseteq Placed', UNCHANGED req
    PROVE  RequestsInv'
  BY FitMore DEF RequestsInv

\* The screen keeps what it is about.
LEMMA ScreenKept ==
    ASSUME ScreenInv, UNCHANGED <<screen, crossed>>, Placed \subseteq Placed'
    PROVE  ScreenInv'
  BY DEF ScreenInv, screen

-----------------------------------------------------------------------------
(* The buttons *)

\* The buttons stay off where an action goes on, come back where it ends, and go off with a new one.
LEMMA BusyStays ==
    ASSUME BusyInv, UNCHANGED busy,
           \A r \in Slots : (req'[r].here /\ req'[r].q # None) <=> (req[r].here /\ req[r].q # None)
    PROVE  BusyInv'
  <1>1. Acting' = Acting
    BY DEF Acting
  <1>2. QED
    BY <1>1 DEF BusyInv

LEMMA BusyEnds ==
    ASSUME BusyInv, NEW r \in Acting, busy' = FALSE, ~req'[r].here \/ req'[r].q = None,
           \A s \in Slots \ {r} : req'[s] = req[s]
    PROVE  BusyInv'
  <1>1. Acting = {r}
    BY DEF BusyInv
  <1>2. Acting' = {}
    BY <1>1 DEF Acting
  <1>3. QED
    BY <1>2 DEF BusyInv

LEMMA BusyBegins ==
    ASSUME BusyInv, ~busy, NEW r \in Slots, busy' = TRUE, req'[r].here, req'[r].q # None,
           \A s \in Slots \ {r} : req'[s] = req[s]
    PROVE  BusyInv'
  BY DEF BusyInv, Acting

\* A request that is over: an action ends with its load, its refusal or the connection.
LEMMA BusyAfter ==
    ASSUME RequestsInv, BusyInv, NEW r \in Slots, req[r].here, Ends(req[r].q), ~req'[r].here,
           \A s \in Slots \ {r} : req'[s] = req[s]
    PROVE  BusyInv'
  <1>1. CASE req[r].q = None
    <2>1. busy' = busy
      BY <1>1 DEF Ends, BusyInv
    <2>2. \A s \in Slots : (req'[s].here /\ req'[s].q # None) <=> (req[s].here /\ req[s].q # None)
      BY <1>1
    <2>3. QED
      BY <2>1, <2>2, BusyStays
  <1>2. CASE req[r].q # None
    <2>1. r \in Acting /\ busy' = FALSE
      BY <1>2 DEF Acting, Ends
    <2>2. QED
      BY <2>1, BusyEnds
  <1>3. QED
    BY <1>1, <1>2

-----------------------------------------------------------------------------
(* Type correctness, step by step *)

LEMMA TypeInit == Init => TypeInv
  <1> SUFFICES ASSUME Init PROVE TypeInv
    OBVIOUS
  <1>1. RequestsInv
    BY FitNew, PlacedAreOrders DEF Init, RequestsInv
  <1>2. Acting = {}
    BY DEF Init, Acting, Idle
  <1>3. BusyInv
    BY <1>2 DEF Init, BusyInv
  <1>4. OrdersInv /\ ScreenInv
    BY DEF Init, OrdersInv, ScreenInv, Rows
  <1>5. QED
    BY <1>1, <1>3, <1>4 DEF TypeInv

LEMMA WorldStep ==
    ASSUME TypeInv, NEW o \in Orders, Place(o) \/ CustomerActs(o)
    PROVE  TypeInv'
  <1>1. OrdersGo
    BY WorldGoes DEF TypeInv
  <1>2. UNCHANGED <<screen, req, crossed>>
    BY DEF Place, CustomerActs
  <1>3. ScreenInv' /\ RequestsInv'
    BY <1>1, <1>2, ScreenKept, SameRequests DEF TypeInv, OrdersGo
  <1>4. BusyInv'
    BY <1>2, BusyStays DEF TypeInv, screen
  <1>5. QED
    BY <1>1, <1>3, <1>4 DEF TypeInv, OrdersGo

\* What the server answers: the orders there are, the order, or the order it left.
LEMMA ServeGoes ==
    ASSUME TypeInv, NEW r \in Slots, Serve(r)
    PROVE  /\ OrdersGo /\ UNCHANGED <<screen, crossed>>
           /\ \E q : /\ req' = [req EXCEPT ![r] = q] /\ Fit(q, Placed')
                     /\ \/ /\ q.here = req[r].here /\ q.kind = req[r].kind
                           /\ q.id = req[r].id /\ q.q = req[r].q
                        \/ ~req[r].here /\ ~q.here
  <1>1. Fit(req[r], Placed)
    BY DEF TypeInv, RequestsInv
  <1>2. CASE ServeList(r)
    <2> DEFINE q == [req[r] EXCEPT !.served = TRUE, !.answer = listed]
    <2>1. OrdersGo /\ Placed' = Placed /\ UNCHANGED <<screen, crossed>>
      BY <1>2, SameOrders DEF ServeList, TypeInv
    <2>2. req' = [req EXCEPT ![r] = q]
      BY <1>2 DEF ServeList
    <2>3. \A s : inFilter(s) \in {"new", "active", "done"}
      BY DEF inFilter
    <2>4. listed \in Rows /\ \A o \in Orders : listed[o] # None => o \in Placed
      BY <2>3 DEF listed, Rows
    <2>5. Fit(q, Placed')
      <3> HIDE DEF OrdersGo
      <3>1. req[r].kind = "load"
        BY <1>2 DEF ServeList
      <3>2. QED
        BY <1>1, <2>1, <2>4, <3>1 DEF Fit, Request
    <2>6. q.here = req[r].here /\ q.kind = req[r].kind /\ q.id = req[r].id /\ q.q = req[r].q
      BY <1>1 DEF Fit, Request
    <2>7. QED
      BY <2>1, <2>2, <2>5, <2>6
  <1>3. CASE ServeOrder(r)
    <2> DEFINE q == [req[r] EXCEPT !.served = TRUE, !.answer = order[req[r].id]]
    <2>1. OrdersGo /\ Placed' = Placed /\ UNCHANGED <<screen, crossed>>
      BY <1>3, SameOrders DEF ServeOrder, TypeInv
    <2>2. req' = [req EXCEPT ![r] = q]
      BY <1>3 DEF ServeOrder
    <2>3. req[r].kind = "open" /\ order[req[r].id] \in Order
      BY <1>1, <1>3 DEF ServeOrder, Fit, Placed, TypeInv, OrdersInv
    <2>4. Fit(q, Placed')
      BY <1>1, <2>1, <2>3 DEF Fit, Request
    <2>5. q.here = req[r].here /\ q.kind = req[r].kind /\ q.id = req[r].id /\ q.q = req[r].q
      BY <1>1 DEF Fit, Request
    <2>6. QED
      BY <2>1, <2>2, <2>4, <2>5
  <1>4. CASE ServeAction(r)
    <2> DEFINE o == req[r].id
               x == Attempt(order[o], req[r].q)
               a == IF Accepts(order[o], req[r].q) THEN order'[o] ELSE None
               q == IF req[r].here THEN [req[r] EXCEPT !.served = TRUE, !.answer = a] ELSE Idle
    <2>1. /\ req[r].kind = "act" /\ UNCHANGED <<day, screen, crossed>>
          /\ order' = [order EXCEPT ![o] = x]
      BY <1>4 DEF ServeAction
    <2>2. req' = [req EXCEPT ![r] = q]
      BY <1>4 DEF ServeAction, TypeInv, RequestsInv
    <2>3. o \in Placed /\ o \in Orders /\ order[o] \in Order /\ req[r].q.op \in Operations
      BY <1>1, <2>1, PressesAreOperations DEF Fit, Request, Placed, TypeInv, OrdersInv
    <2>4. x \in Order
      BY <2>3, AttemptIsOrder
    <2>5. OrdersGo
      BY <2>1, <2>3, <2>4, OneOrderGoes DEF TypeInv
    <2>6. order'[o] = x
      BY <2>1, <2>3 DEF TypeInv, OrdersInv
    <2>7. a \in Order \cup {None}
      BY ONLY <2>4, <2>6
    <2>8. Fit([req[r] EXCEPT !.served = TRUE, !.answer = a], Placed')
      <3> HIDE DEF a, x
      <3>1. QED
        BY <1>1, <2>1, <2>5, <2>7 DEF Fit, Request, OrdersGo
    <2>9. Fit(q, Placed')
      BY <2>8, FitNew, PlacedAreOrders
    <2>10. \/ q.here = req[r].here /\ q.kind = req[r].kind /\ q.id = req[r].id /\ q.q = req[r].q
           \/ ~req[r].here /\ ~q.here
      BY <1>1 DEF Fit, Request, Idle
    <2>11. QED
      <3> HIDE DEF q
      <3>1. QED
        BY <2>1, <2>2, <2>5, <2>9, <2>10
  <1>5. QED
    BY <1>2, <1>3, <1>4 DEF Serve

LEMMA ServeStep ==
    ASSUME TypeInv, NEW r \in Slots, Serve(r)
    PROVE  TypeInv'
  <1>1. OrdersGo /\ UNCHANGED <<screen, crossed>>
    BY ServeGoes
  <1>2. PICK q : /\ req' = [req EXCEPT ![r] = q] /\ Fit(q, Placed')
                 /\ \/ q.here = req[r].here /\ q.kind = req[r].kind /\ q.id = req[r].id /\ q.q = req[r].q
                    \/ ~req[r].here /\ ~q.here
    BY ServeGoes
  <1>3. RequestsInv' /\ req'[r] = q /\ \A s \in Slots \ {r} : req'[s] = req[s]
    BY <1>1, <1>2, ReplaceRequest DEF TypeInv, OrdersGo
  <1>4. \A s \in Slots : (req'[s].here /\ req'[s].q # None) <=> (req[s].here /\ req[s].q # None)
    BY <1>2, <1>3
  <1>5. BusyInv'
    BY <1>1, <1>4, BusyStays DEF TypeInv, screen
  <1>6. QED
    BY <1>1, <1>3, <1>5, ScreenKept DEF TypeInv, OrdersGo

\* Closing, and the boxes.
LEMMA QuietStep ==
    ASSUME TypeInv, close \/ openCancel \/ openFail \/ closeBox
    PROVE  TypeInv'
  <1>1. UNCHANGED <<day, order, list, busy, req, crossed>>
    BY DEF close, openCancel, openFail, closeBox
  <1>2. OrdersInv' /\ Placed' = Placed
    BY <1>1, SameOrders DEF TypeInv, OrdersGo
  <1>3. selected' \in {selected, None}
    BY DEF close, openCancel, openFail, closeBox
  <1>4. cancelling' \in Orders \cup {None} /\ failing' \in Orders \cup {None}
    BY PlacedAreOrders DEF close, openCancel, openFail, closeBox, TypeInv, ScreenInv
  <1>5. ScreenInv'
    BY <1>1, <1>2, <1>3, <1>4 DEF TypeInv, ScreenInv
  <1>6. RequestsInv' /\ BusyInv'
    BY <1>1, <1>2, SameRequests, BusyStays DEF TypeInv
  <1>7. QED
    BY <1>2, <1>5, <1>6 DEF TypeInv

\* A request is sent: what becomes of the slot.
LEMMA SendsOne ==
    ASSUME TypeInv, NEW r \in Slots, NEW q, Sends(r, q), Fit(q, Placed), UNCHANGED <<day, order>>
    PROVE  /\ OrdersInv' /\ Placed' = Placed /\ RequestsInv'
           /\ req[r] = Idle /\ req'[r] = q /\ \A s \in Slots \ {r} : req'[s] = req[s]
  BY SameOrders, ReplaceRequest DEF TypeInv, Sends, OrdersGo

LEMMA LoadStep ==
    ASSUME TypeInv, NEW r \in Slots, load(r)
    PROVE  TypeInv'
  <1> DEFINE q == [Idle EXCEPT !.kind = "load", !.here = TRUE]
  <1>1. Fit(q, Placed) /\ q.q = None
    <2>1. q \in Request
      BY DEF Idle, Request
    <2>2. q.kind = "load" /\ ~q.served /\ q.q = None
      BY DEF Idle
    <2>3. QED
      BY <2>1, <2>2 DEF Fit
  <1>2. UNCHANGED <<day, order, screen, crossed>> /\ Sends(r, q)
    BY DEF load
  <1>3. /\ OrdersInv' /\ Placed' = Placed /\ RequestsInv'
        /\ req[r] = Idle /\ req'[r] = q /\ \A s \in Slots \ {r} : req'[s] = req[s]
    BY <1>1, <1>2, SendsOne
  <1>4. \A s \in Slots : (req'[s].here /\ req'[s].q # None) <=> (req[s].here /\ req[s].q # None)
    BY <1>1, <1>3 DEF Idle
  <1>5. BusyInv'
    BY <1>2, <1>4, BusyStays DEF TypeInv, screen
  <1>6. QED
    BY <1>2, <1>3, <1>5, ScreenKept DEF TypeInv

LEMMA OpenStep ==
    ASSUME TypeInv, NEW r \in Slots, NEW o \in Orders, open(r, o)
    PROVE  TypeInv'
  <1> DEFINE q == [Idle EXCEPT !.kind = "open", !.id = o, !.here = TRUE]
  <1>1. o \in Placed
    BY DEF open, Tappable, visibleOrders, TypeInv, ScreenInv
  <1>2. Fit(q, Placed) /\ q.q = None
    BY <1>1, FitNew, PlacedAreOrders DEF Idle
  <1>3. UNCHANGED <<day, order, list, selected, busy>> /\ Sends(r, q)
    BY DEF open
  <1>4. /\ OrdersInv' /\ Placed' = Placed /\ RequestsInv'
        /\ req[r] = Idle /\ req'[r] = q /\ \A s \in Slots \ {r} : req'[s] = req[s]
    BY <1>2, <1>3, SendsOne
  <1>5. \A s \in Slots : (req'[s].here /\ req'[s].q # None) <=> (req[s].here /\ req[s].q # None)
    BY <1>2, <1>4 DEF Idle
  <1>6. BusyInv'
    BY <1>3, <1>5, BusyStays DEF TypeInv
  <1>7. ScreenInv'
    BY <1>3, <1>4 DEF open, TypeInv, ScreenInv
  <1>8. QED
    BY <1>4, <1>6, <1>7 DEF TypeInv

LEMMA ActStep ==
    ASSUME TypeInv, NEW r \in Slots, NEW p \in Presses, act(r, p)
    PROVE  TypeInv'
  <1> DEFINE q == [Idle EXCEPT !.kind = "act", !.id = selected.id, !.q = p, !.here = TRUE]
  <1>1. Fit(q, Placed) /\ q.q # None /\ q.here
    <2>1. selected.id \in Placed
      BY DEF act, TypeInv, ScreenInv
    <2>2. Fit(q, Placed)
      BY <2>1, FitNew, PlacedAreOrders
    <2>3. q.q = p /\ q.here
      BY DEF Idle
    <2>4. QED
      BY <2>2, <2>3, NoneIsNothing
  <1>2. UNCHANGED <<day, order, list, selected, cancelling, failing, crossed>> /\ Sends(r, q)
    BY DEF act
  <1>3. /\ OrdersInv' /\ Placed' = Placed /\ RequestsInv'
        /\ req[r] = Idle /\ req'[r] = q /\ \A s \in Slots \ {r} : req'[s] = req[s]
    BY <1>1, <1>2, SendsOne
  <1>4. BusyInv'
    BY <1>1, <1>3, BusyBegins DEF act, TypeInv
  <1>5. ScreenInv'
    BY <1>2, <1>3 DEF TypeInv, ScreenInv
  <1>6. QED
    BY <1>3, <1>4, <1>5 DEF TypeInv

\* The screen takes an answer in, or lets go of a request: the slot holds something that fits.
LEMMA SlotChanges ==
    ASSUME TypeInv, NEW r \in Slots, NEW q, Fit(q, Placed), req' = [req EXCEPT ![r] = q],
           UNCHANGED <<day, order>>
    PROVE  /\ OrdersInv' /\ Placed' = Placed /\ RequestsInv'
           /\ req'[r] = q /\ \A s \in Slots \ {r} : req'[s] = req[s]
  BY SameOrders, ReplaceRequest DEF TypeInv, OrdersGo

LEMMA ForgottenFits ==
    ASSUME TypeInv, NEW r \in Slots
    PROVE  Fit(Forgotten(r), Placed) /\ ~Forgotten(r).here
  <1>1. Fit(req[r], Placed)
    BY DEF TypeInv, RequestsInv
  <1>2. CASE req[r].kind = "act" /\ ~req[r].served
    <2>1. Forgotten(r) = [req[r] EXCEPT !.here = FALSE]
      BY <1>2 DEF Forgotten
    <2>2. QED
      BY <1>1, <1>2, <2>1 DEF Fit, Request
  <1>3. CASE ~(req[r].kind = "act" /\ ~req[r].served)
    BY <1>3, FitNew, PlacedAreOrders DEF Forgotten, Idle
  <1>4. QED
    BY <1>2, <1>3

\* A list, a refusal or a failure, after which nothing is awaited in the slot.
LEMMA EndsStep ==
    ASSUME TypeInv, NEW r \in Slots, hearList(r) \/ hearRefusal(r) \/ connectionFails(r)
    PROVE  TypeInv'
  <1>1. PICK q \in {Idle, Forgotten(r)} : req' = [req EXCEPT ![r] = q]
    BY DEF hearList, hearRefusal, connectionFails
  <1>2. Fit(q, Placed) /\ ~q.here
    <2>1. Fit(Idle, Placed) /\ ~Idle.here
      BY FitNew, PlacedAreOrders DEF Idle
    <2>2. Fit(Forgotten(r), Placed) /\ ~Forgotten(r).here
      BY ForgottenFits
    <2>3. QED
      BY <1>1, <2>1, <2>2
  <1>3. UNCHANGED <<day, order, selected, crossed>> /\ req[r].here /\ Ends(req[r].q)
    BY DEF hearList, hearRefusal, connectionFails
  <1>4. /\ OrdersInv' /\ Placed' = Placed /\ RequestsInv'
        /\ req'[r] = q /\ \A s \in Slots \ {r} : req'[s] = req[s]
    BY <1>1, <1>2, <1>3, SlotChanges
  <1>5. BusyInv'
    BY <1>2, <1>3, <1>4, BusyAfter DEF TypeInv
  <1>6. list' \in Rows /\ \A o \in Orders : list'[o] # None => o \in Placed
    BY DEF hearList, hearRefusal, connectionFails, TypeInv, ScreenInv, RequestsInv, Fit
  <1>7. cancelling' \in Orders \cup {None} /\ failing' \in Orders \cup {None}
    BY <1>3 DEF Ends, TypeInv, ScreenInv
  <1>8. ScreenInv'
    BY <1>3, <1>4, <1>6, <1>7 DEF TypeInv, ScreenInv
  <1>9. QED
    BY <1>4, <1>5, <1>8 DEF TypeInv

LEMMA HearOrderStep ==
    ASSUME TypeInv, NEW r \in Slots, hearOrder(r)
    PROVE  TypeInv'
  <1>1. UNCHANGED <<day, order, list, busy, cancelling, failing, crossed>>
    BY DEF hearOrder
  <1>2. req[r].q = None /\ req[r].id \in Placed /\ req[r].answer \in Order
    BY DEF hearOrder, TypeInv, RequestsInv, Fit
  <1>3. /\ OrdersInv' /\ Placed' = Placed /\ RequestsInv'
        /\ req'[r] = Idle /\ \A s \in Slots \ {r} : req'[s] = req[s]
    BY <1>1, SlotChanges, FitNew, PlacedAreOrders DEF hearOrder
  <1>4. \A s \in Slots : (req'[s].here /\ req'[s].q # None) <=> (req[s].here /\ req[s].q # None)
    BY <1>2, <1>3 DEF Idle
  <1>5. BusyInv'
    BY <1>1, <1>4, BusyStays DEF TypeInv
  <1>6. ScreenInv'
    BY <1>1, <1>2, <1>3 DEF hearOrder, TypeInv, ScreenInv
  <1>7. QED
    BY <1>3, <1>5, <1>6 DEF TypeInv

LEMMA HearActionStep ==
    ASSUME TypeInv, NEW r \in Slots, hearAction(r)
    PROVE  TypeInv'
  <1> DEFINE q == [Idle EXCEPT !.kind = "load", !.q = req[r].q, !.here = TRUE]
  <1>1. UNCHANGED <<day, order, list, busy, cancelling, failing, crossed>>
    BY DEF hearAction
  <1>2. req[r].q \in Presses /\ req[r].id \in Placed /\ req[r].answer \in Order
    <2>1. Fit(req[r], Placed) /\ req[r].kind = "act" /\ req[r].served /\ req[r].answer # None
      BY DEF hearAction, TypeInv, RequestsInv
    <2>2. QED
      BY <2>1 DEF Fit, Request
  <1>3. Fit(q, Placed) /\ q.q = req[r].q /\ q.here
    BY <1>2, FitNew, PlacedAreOrders DEF Idle
  <1>4. /\ OrdersInv' /\ Placed' = Placed /\ RequestsInv'
        /\ req'[r] = q /\ \A s \in Slots \ {r} : req'[s] = req[s]
    BY <1>1, <1>3, SlotChanges DEF hearAction
  <1>5. \A s \in Slots : (req'[s].here /\ req'[s].q # None) <=> (req[s].here /\ req[s].q # None)
    BY <1>3, <1>4 DEF hearAction
  <1>6. BusyInv'
    BY <1>1, <1>5, BusyStays DEF TypeInv
  <1>7. ScreenInv'
    BY <1>1, <1>2, <1>4 DEF hearAction, TypeInv, ScreenInv
  <1>8. QED
    BY <1>4, <1>6, <1>7 DEF TypeInv

LEMMA IsLostStep ==
    ASSUME TypeInv, NEW r \in Slots, isLost(r)
    PROVE  TypeInv'
  <1>1. UNCHANGED <<day, order, screen, crossed>>
    BY DEF isLost
  <1>2. /\ OrdersInv' /\ Placed' = Placed /\ RequestsInv'
        /\ req'[r] = Idle /\ \A s \in Slots \ {r} : req'[s] = req[s]
    BY <1>1, SlotChanges, FitNew, PlacedAreOrders DEF isLost
  <1>3. \A s \in Slots : (req'[s].here /\ req'[s].q # None) <=> (req[s].here /\ req[s].q # None)
    BY <1>2 DEF isLost, Idle
  <1>4. BusyInv'
    BY <1>1, <1>3, BusyStays DEF TypeInv, screen
  <1>5. QED
    BY <1>1, <1>2, <1>4, ScreenKept DEF TypeInv

LEMMA LeaveStep ==
    ASSUME TypeInv, leave
    PROVE  TypeInv' /\ \A r \in Slots : ~req'[r].here
  <1>1. OrdersInv' /\ Placed' = Placed
    BY SameOrders DEF leave, TypeInv, OrdersGo
  <1>2. \A r \in Slots : req'[r] = Forgotten(r) /\ Fit(req'[r], Placed) /\ ~req'[r].here
    BY ForgottenFits DEF leave
  <1>3. RequestsInv'
    BY <1>1, <1>2 DEF leave, RequestsInv
  <1>4. Acting' = {}
    BY <1>2 DEF Acting
  <1>5. BusyInv'
    BY <1>4 DEF BusyInv, leave
  <1>6. ScreenInv'
    BY DEF ScreenInv, leave, Rows
  <1>7. QED
    BY <1>1, <1>2, <1>3, <1>5, <1>6 DEF TypeInv

LEMMA TypeStep == TypeInv /\ [Next]_vars => TypeInv'
  <1> SUFFICES ASSUME TypeInv, [Next]_vars PROVE TypeInv'
    OBVIOUS
  <1>1. CASE UNCHANGED vars
    <2>1. OrdersInv' /\ Placed' = Placed
      BY <1>1, SameOrders DEF vars, TypeInv, OrdersGo
    <2>2. ScreenInv' /\ RequestsInv' /\ BusyInv'
      BY <1>1, <2>1, ScreenKept, SameRequests, BusyStays DEF vars, screen, TypeInv
    <2>3. QED
      BY <2>1, <2>2 DEF TypeInv
  <1>2. ASSUME NEW o \in Orders, Place(o) \/ CustomerActs(o) PROVE TypeInv'
    BY <1>2, WorldStep
  <1>3. CASE close \/ openCancel \/ openFail \/ closeBox
    BY <1>3, QuietStep
  <1>4. CASE leave
    BY <1>4, LeaveStep
  <1>5. ASSUME NEW r \in Slots, Serve(r) PROVE TypeInv'
    BY <1>5, ServeStep
  <1>6. ASSUME NEW r \in Slots, load(r) \/ (\E o \in Orders : open(r, o)) \/ \E q \in Presses : act(r, q)
        PROVE  TypeInv'
    BY <1>6, LoadStep, OpenStep, ActStep
  <1>7. ASSUME NEW r \in Slots, hearList(r) \/ hearRefusal(r) \/ connectionFails(r) PROVE TypeInv'
    BY <1>7, EndsStep
  <1>8. ASSUME NEW r \in Slots, hearOrder(r) \/ hearAction(r) \/ isLost(r) PROVE TypeInv'
    BY <1>8, HearOrderStep, HearActionStep, IsLostStep
  <1>9. QED
    BY <1>1, <1>2, <1>3, <1>4, <1>5, <1>6, <1>7, <1>8 DEF Next

-----------------------------------------------------------------------------
(* The boxes, step by step *)

\* Nothing new is awaited, shown or opened.
LEMMA BoxKept ==
    ASSUME BoxInv, UNCHANGED crossed, selected' \in {selected, None},
           cancelling' \in {cancelling, None}, failing' \in {failing, None},
           \A s \in InFlight("open")' : s \in InFlight("open"),
           \A s \in InFlight("act")' : s \in InFlight("act") /\ req'[s].id = req[s].id,
           Acting' \subseteq Acting
    PROVE  BoxInv'
  <1> SUFFICES ASSUME ~crossed PROVE BoxInv'
    BY DEF BoxInv
  <1>1. ASSUME NEW r \in InFlight("open")'
        PROVE  /\ selected' = None /\ cancelling' = None /\ failing' = None
               /\ Acting' = {} /\ \A s \in InFlight("open")' : r = s
    BY <1>1 DEF BoxInv
  <1>2. ASSUME NEW r \in InFlight("act")'
        PROVE  /\ selected' # None => selected'.id = req'[r].id
               /\ cancelling' \in {None, req'[r].id} /\ failing' \in {None, req'[r].id}
    BY <1>2 DEF BoxInv
  <1>3. BoxKeepsItsOrder'
    BY DEF BoxInv, BoxKeepsItsOrder
  <1>4. QED
    BY <1>1, <1>2, <1>3 DEF BoxInv

\* One slot changes to a request that puts nothing on the screen.
LEMMA BoxKeptBut ==
    ASSUME BoxInv, UNCHANGED crossed, selected' \in {selected, None},
           cancelling' \in {cancelling, None}, failing' \in {failing, None},
           NEW r \in Slots, \A s \in Slots \ {r} : req'[s] = req[s],
           \/ ~req'[r].here
           \/ req'[r].kind \notin {"open", "act"} /\ (req'[r].q # None => r \in Acting)
           \/ /\ req'[r].here = req[r].here /\ req'[r].kind = req[r].kind
              /\ req'[r].id = req[r].id /\ req'[r].q = req[r].q
    PROVE  BoxInv'
  <1>1. \A s \in InFlight("open")' : s \in InFlight("open")
    BY DEF InFlight
  <1>2. \A s \in InFlight("act")' : s \in InFlight("act") /\ req'[s].id = req[s].id
    BY DEF InFlight
  <1>3. Acting' \subseteq Acting
    BY DEF Acting
  <1>4. QED
    BY <1>1, <1>2, <1>3, BoxKept

\* A tap clears the screen's boxes, and counts as crossed unless it is alone.
LEMMA BoxOpen ==
    ASSUME TypeInv, BoxInv, NEW r \in Slots, NEW o \in Orders, open(r, o)
    PROVE  BoxInv'
  <1>1. /\ req'[r].kind = "open" /\ req'[r].q = None
        /\ \A s \in Slots \ {r} : req'[s] = req[s]
    BY DEF open, Sends, Idle, TypeInv, RequestsInv
  <1>2. selected' = None /\ cancelling' = None /\ failing' = None
    BY DEF open, Tappable
  <1>3. ~crossed' => InFlight("open") = {} /\ Acting = {}
    BY DEF open
  <1>4. ~crossed' => Acting' = {} /\ \A s \in InFlight("open")' : s = r
    BY <1>1, <1>3 DEF InFlight, Acting
  <1>5. BoxKeepsItsOrder'
    BY <1>2 DEF BoxKeepsItsOrder
  <1>6. QED
    BY <1>2, <1>4, <1>5 DEF BoxInv

\* An action is of the order on the screen, which then no tap is about to replace.
LEMMA BoxAct ==
    ASSUME TypeInv, BoxInv, NEW r \in Slots, NEW p \in Presses, act(r, p)
    PROVE  BoxInv'
  <1> SUFFICES ASSUME ~crossed PROVE BoxInv'
    BY DEF BoxInv, act
  <1>1. /\ req'[r].kind = "act" /\ req'[r].id = selected.id
        /\ \A s \in Slots \ {r} : req'[s] = req[s]
    BY DEF act, Sends, Idle, TypeInv, RequestsInv
  <1>2. selected # None /\ UNCHANGED <<selected, cancelling, failing, crossed>> /\ Acting = {}
    BY DEF act, TypeInv, BusyInv
  <1>3. InFlight("open")' = {}
    BY <1>1, <1>2 DEF BoxInv, InFlight
  <1>4. InFlight("act") = {}
    BY <1>2 DEF InFlight, Acting, TypeInv, RequestsInv, Fit
  <1>5. \A s \in InFlight("act")' : s = r
    BY <1>1, <1>4 DEF InFlight
  <1>6. BoxKeepsItsOrder /\ BoxKeepsItsOrder'
    BY <1>2 DEF BoxInv, BoxKeepsItsOrder
  <1>7. QED
    BY <1>1, <1>2, <1>3, <1>5, <1>6 DEF BoxInv, BoxKeepsItsOrder

LEMMA BoxHearOrder ==
    ASSUME TypeInv, BoxInv, NEW r \in Slots, hearOrder(r)
    PROVE  BoxInv'
  <1> SUFFICES ASSUME ~crossed PROVE BoxInv'
    BY DEF BoxInv, hearOrder
  <1>1. r \in InFlight("open") /\ UNCHANGED <<cancelling, failing, crossed>>
    BY DEF hearOrder, InFlight
  <1>2. /\ cancelling = None /\ failing = None /\ Acting = {} /\ InFlight("open") = {r}
    BY <1>1 DEF BoxInv
  <1>3. ~req'[r].here /\ \A s \in Slots \ {r} : req'[s] = req[s]
    BY DEF hearOrder, Idle, TypeInv, RequestsInv
  <1>4. InFlight("open")' = {} /\ InFlight("act")' = {}
    BY <1>2, <1>3 DEF InFlight, Acting, TypeInv, RequestsInv, Fit
  <1>5. QED
    BY <1>1, <1>2, <1>4 DEF BoxInv, BoxKeepsItsOrder

\* The answer to an action is about the order whose box it was pressed in.
LEMMA BoxHearAction ==
    ASSUME TypeInv, BoxInv, NEW r \in Slots, hearAction(r)
    PROVE  BoxInv'
  <1> SUFFICES ASSUME ~crossed PROVE BoxInv'
    BY DEF BoxInv, hearAction
  <1>1. /\ r \in InFlight("act") /\ UNCHANGED <<cancelling, failing, crossed>>
        /\ selected'.id = req[r].id
    BY DEF hearAction, InFlight
  <1>2. r \in Acting
    BY <1>1 DEF InFlight, Acting, TypeInv, RequestsInv, Fit
  <1>3. InFlight("open") = {}
    BY <1>2 DEF BoxInv
  <1>4. InFlight("act") = {r}
    BY <1>1, <1>2 DEF InFlight, Acting, TypeInv, RequestsInv, BusyInv, Fit
  <1>5. req'[r].kind = "load" /\ \A s \in Slots \ {r} : req'[s] = req[s]
    BY DEF hearAction, Idle, TypeInv, RequestsInv
  <1>6. InFlight("open")' = {} /\ InFlight("act")' = {}
    BY <1>3, <1>4, <1>5 DEF InFlight
  <1>7. BoxKeepsItsOrder'
    BY <1>1 DEF BoxInv, BoxKeepsItsOrder
  <1>8. QED
    BY <1>6, <1>7 DEF BoxInv

\* A box is opened on the order shown, with no action on its way.
LEMMA BoxOpened ==
    ASSUME TypeInv, BoxInv, openCancel \/ openFail
    PROVE  BoxInv'
  <1> SUFFICES ASSUME ~crossed PROVE BoxInv'
    BY DEF BoxInv, openCancel, openFail
  <1>1. /\ selected # None /\ ~busy /\ UNCHANGED <<selected, req, crossed>>
        /\ cancelling' \in {cancelling, selected.id} /\ failing' \in {failing, selected.id}
    BY DEF openCancel, openFail
  <1>2. InFlight("open")' = {}
    BY <1>1 DEF BoxInv, InFlight
  <1>3. InFlight("act")' = {}
    BY <1>1 DEF InFlight, Acting, TypeInv, BusyInv, RequestsInv, Fit
  <1>4. BoxKeepsItsOrder'
    BY <1>1 DEF BoxInv, BoxKeepsItsOrder
  <1>5. QED
    BY <1>2, <1>3, <1>4 DEF BoxInv

LEMMA BoxStep == TypeInv /\ BoxInv /\ [Next]_vars => BoxInv'
  <1> SUFFICES ASSUME TypeInv, BoxInv, [Next]_vars PROVE BoxInv'
    OBVIOUS
  <1>1. ASSUME UNCHANGED <<req, crossed>>, selected' \in {selected, None},
               cancelling' \in {cancelling, None}, failing' \in {failing, None}
        PROVE  BoxInv'
    BY <1>1, BoxKept DEF InFlight, Acting
  <1>2. CASE UNCHANGED vars
    BY <1>1, <1>2 DEF vars, screen
  <1>3. ASSUME NEW o \in Orders, Place(o) \/ CustomerActs(o) PROVE BoxInv'
    BY <1>1, <1>3 DEF Place, CustomerActs, screen
  <1>4. CASE close \/ closeBox
    BY <1>1, <1>4 DEF close, closeBox
  <1>5. CASE openCancel \/ openFail
    BY <1>5, BoxOpened
  <1>6. CASE leave
    <2>1. \A r \in Slots : ~req'[r].here
      BY <1>6, LeaveStep
    <2>2. QED
      BY <1>6, <2>1 DEF leave, BoxInv, BoxKeepsItsOrder, InFlight
  <1>7. ASSUME NEW r \in Slots, Serve(r) PROVE BoxInv'
    <2>1. UNCHANGED <<screen, crossed>>
      BY <1>7, ServeGoes
    <2>2. PICK q : /\ req' = [req EXCEPT ![r] = q]
                   /\ \/ q.here = req[r].here /\ q.kind = req[r].kind /\ q.id = req[r].id /\ q.q = req[r].q
                      \/ ~req[r].here /\ ~q.here
      BY <1>7, ServeGoes
    <2>3. req'[r] = q /\ \A s \in Slots \ {r} : req'[s] = req[s]
      BY <2>2 DEF TypeInv, RequestsInv
    <2>4. QED
      BY <2>1, <2>2, <2>3, BoxKeptBut DEF screen
  <1>8. ASSUME NEW r \in Slots, load(r) PROVE BoxInv'
    <2>1. UNCHANGED <<screen, crossed>>
      BY <1>8 DEF load
    <2>2. /\ req'[r].kind = "load" /\ req'[r].q = None
          /\ \A s \in Slots \ {r} : req'[s] = req[s]
      BY <1>8 DEF load, Sends, Idle, TypeInv, RequestsInv
    <2>3. QED
      BY <2>1, <2>2, BoxKeptBut DEF screen
  <1>9. ASSUME NEW r \in Slots, hearList(r) \/ hearRefusal(r) \/ connectionFails(r) \/ isLost(r)
        PROVE  BoxInv'
    <2>1. UNCHANGED <<selected, crossed>>
      BY <1>9 DEF hearList, hearRefusal, connectionFails, isLost, screen
    <2>2. cancelling' \in {cancelling, None} /\ failing' \in {failing, None}
      BY <1>9 DEF hearList, hearRefusal, connectionFails, isLost, screen, Ends
    <2>3. ~Idle.here /\ ~Forgotten(r).here
      BY ForgottenFits DEF Idle
    <2>4. PICK q \in {Idle, Forgotten(r)} : req' = [req EXCEPT ![r] = q]
      BY <1>9 DEF hearList, hearRefusal, connectionFails, isLost
    <2>5. ~req'[r].here /\ \A s \in Slots \ {r} : req'[s] = req[s]
      BY <2>3, <2>4 DEF TypeInv, RequestsInv
    <2>6. QED
      BY <2>1, <2>2, <2>5, BoxKeptBut
  <1>10. ASSUME NEW r \in Slots, hearOrder(r) \/ hearAction(r) PROVE BoxInv'
    BY <1>10, BoxHearOrder, BoxHearAction
  <1>11. ASSUME NEW r \in Slots, NEW o \in Orders, open(r, o) PROVE BoxInv'
    BY <1>11, BoxOpen
  <1>12. ASSUME NEW r \in Slots, NEW q \in Presses, act(r, q) PROVE BoxInv'
    BY <1>12, BoxAct
  <1>13. QED
    BY <1>2, <1>3, <1>4, <1>5, <1>6, <1>7, <1>8, <1>9, <1>10, <1>11, <1>12 DEF Next

-----------------------------------------------------------------------------
(* Theorems *)

\* The screen's copies, boxes and requests stay sound through every step of the screen, the server
\* and the customers.
THEOREM ShopInvariant == Spec => []ShopInv
  <1>1. Init => ShopInv
    <2>1. Init => BoxInv
      BY DEF Init, BoxInv, BoxKeepsItsOrder, InFlight, Idle
    <2>2. QED
      BY <2>1, TypeInit DEF ShopInv
  <1>2. ShopInv /\ [Next]_vars => ShopInv'
    BY TypeStep, BoxStep DEF ShopInv
  <1>3. QED
    BY <1>1, <1>2, PTL DEF Spec

\* OrdersScreen.tsx, the cancel and failed-delivery boxes: whatever is answered late, a box acts on
\* the order it was opened for, as long as rows are tapped one at a time.
THEOREM BoxKeepsItsOrderHolds == Spec => []BoxKeepsItsOrder
  <1>1. ShopInv => BoxKeepsItsOrder
    BY DEF ShopInv, BoxInv, BoxKeepsItsOrder
  <1>2. QED
    BY <1>1, ShopInvariant, PTL

\* OrdersScreen.tsx, nextSteps and the handlers' policies: no order that the server can come to
\* have, unless cancelled, is offered an action that it refuses.
THEOREM OfferedIsAcceptedHolds == Spec => []OfferedIsAccepted
  <1>1. ASSUME ShopInv, NEW o \in Placed, order[o].status # "CANCELLED"
        PROVE  /\ \A q \in Presses : Offers(order[o], q) => Accepts(order[o], q)
               /\ offersCancel(order[o]) => Accepts(order[o], Cancel)
               /\ offersFail(order[o]) => Accepts(order[o], Fail)
    <2> DEFINE x == order[o]
    <2>1. x \in Order
      BY <1>1 DEF ShopInv, TypeInv, OrdersInv, Placed
    <2> HIDE DEF x
    <2>2. offersCancel(x) => Accepts(x, Cancel)
      BY DEF offersCancel, Accepts, Cancel, Plain, Op, merchantCancelAllowed,
             MERCHANT_CANCEL_ALLOWED
    <2>3. ASSUME NEW d, x.delivery \in {"ASSIGNED", "PICKED_UP", "ON_WAY"},
                 d \in NEXT_DELIVERY_STEPS(x.delivery) \cup {"FAILED"}, x.status # "CANCELLED"
          PROVE  DeliveryMoves(x, d)
      BY <2>3 DEF DeliveryMoves, NEXT_DELIVERY_STEPS, canMoveDelivery, DELIVERY_TRANSITIONS,
                  DeliveryStatuses
    <2>4. x.status # "CANCELLED" /\ offersFail(x) => Accepts(x, Fail)
      BY <2>1, <2>3 DEF offersFail, Accepts, Fail, Op, Order, DeliveryStatuses
    <2>5. ASSUME NEW q \in Presses, itemToggle(x, q) PROVE Accepts(x, q)
      BY <2>5 DEF itemToggle, Accepts, ITEM_EDIT_ALLOWED
    <2>6. ASSUME NEW q \in Presses, orderButton(x, q) PROVE Accepts(x, q)
      BY <2>6 DEF orderButton, Accepts, canMoveTo, FORWARD_TRANSITIONS, canAssignDelivery,
                  OrderStatuses
    <2>7. ASSUME NEW q \in Presses, deliveryButton(x, q), x.status # "CANCELLED"
          PROVE  Accepts(x, q)
      <3>1. x.delivery \in {"ASSIGNED", "PICKED_UP", "ON_WAY"}
        BY <2>7 DEF deliveryButton, NEXT_DELIVERY_STEPS
      <3>2. QED
        BY <2>3, <2>7, <3>1 DEF deliveryButton, Accepts
    <2>8. QED
      BY <1>1, <2>2, <2>4, <2>5, <2>6, <2>7 DEF Offers, x
  <1>2. ShopInv => OfferedIsAccepted
    BY <1>1 DEF OfferedIsAccepted
  <1>3. QED
    BY <1>2, ShopInvariant, PTL
=============================================================================
