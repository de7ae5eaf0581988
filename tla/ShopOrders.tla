----------------------------- MODULE ShopOrders -----------------------------
(***************************************************************************)
(* The shopkeeper's order screen and the orders behind it.                 *)
(*                                                                         *)
(* The screen keeps two copies of what the server last said: the list,     *)
(* polled every ten seconds, and the detail of one order, replaced only by *)
(* the answer to a tap or to an action.  Requests are served one at a time *)
(* but answered in any order, or not at all; meanwhile customers place,    *)
(* cancel and trim orders, and the shopkeeper goes on tapping.  `busy`     *)
(* holds back a second action until the first is answered and the list     *)
(* read again.  What is typed into the boxes is left out.                  *)
(***************************************************************************)
EXTENDS OrderRequests, Integers

CONSTANTS Orders,
          MaxInFlight,  \* bound: requests on their way at once
          Days,         \* bound: how far each order is when first seen, and the operations tried on it
          None          \* null

Slots == 1..MaxInFlight

\* What the screen may send of the order it shows: a button, or a box's own button.
Presses == {Plain(op) : op \in {"confirm", "startPreparing", "merchantCancel", "assignDelivery"}}
    \cup {Op("setItemStatus", s, i) : s \in ItemStatuses, i \in Items}
    \cup {Op("updateDelivery", d, "none") : d \in DeliveryStatuses}

ASSUME NoneIsNothing == None \notin Orders \cup Order \cup Presses \cup {"new", "active", "done"}
\* An order that is first seen here has no driver yet.
ASSUME DaysAssumption ==
    \A d \in Days : /\ d = [o \in Orders |-> d[o]]
                   /\ \A o \in Orders : d[o].from \in {"PENDING", "CONFIRMED", "PREPARING"}

VARIABLES
    day,         \* which of the Days it is; an order nothing is tried on does not come in
    order,       \* the server's orders; None before it is placed
    list,        \* the screen's rows: the filter each order is under, None without a row
    selected,    \* the screen's detail: an order's id and what was last read of it
    busy,        \* an action is on its way
    cancelling,  \* the cancel box: the order it was opened on, None while it is closed
    failing,     \* the failed-delivery box, likewise
    req,         \* requests on their way
    crossed      \* history: the last row was tapped with a tap or an action unanswered

screen == <<list, selected, busy, cancelling, failing>>
vars == <<day, order, screen, req, crossed>>

inFilter(status) ==
    CASE status = "PENDING" -> "new" [] status \in {"DELIVERED", "CANCELLED"} -> "done"
      [] OTHER -> "active"

\* `here` while the screen that sent it waits; without one only an action not yet served matters.
\* A load that ends an action says which (`q`).
Idle == [kind |-> "idle", id |-> None, q |-> None, served |-> FALSE, answer |-> None,
         here |-> FALSE]

Forgotten(r) ==
    IF req[r].kind = "act" /\ ~req[r].served THEN [req[r] EXCEPT !.here = FALSE] ELSE Idle

\* A new request takes the first slot free.
Sends(r, q) ==
    /\ req[r] = Idle /\ \A s \in 1..(r - 1) : req[s] # Idle
    /\ req' = [req EXCEPT ![r] = q]

InFlight(kind) == {r \in Slots : req[r].here /\ req[r].kind = kind}
Acting == {r \in Slots : req[r].here /\ req[r].q # None}

Placed == {o \in Orders : order[o] # None}
listed == [o \in Orders |-> IF o \in Placed THEN inFilter(order[o].status) ELSE None]

Init ==
    /\ day \in Days
    /\ order = [o \in Orders |-> None]
    /\ list = [o \in Orders |-> None]
    /\ selected = None
    /\ busy = FALSE /\ cancelling = None /\ failing = None
    /\ req = [r \in Slots |-> Idle]
    /\ crossed = FALSE

-----------------------------------------------------------------------------
(* The server *)

\* A customer places an order; the dashboard may have taken it further when it is first seen here.
Place(o) ==
    /\ order[o] = None /\ day[o].tries # {}
    /\ order' = [order EXCEPT ![o] = [NewOrder EXCEPT !.status = day[o].from]]
    /\ UNCHANGED <<day, screen, req, crossed>>

CustomerActs(o) ==
    /\ o \in Placed
    /\ \E op \in {"cancel", "acceptChanges"} :
          /\ op \in day[o].tries /\ Accepts(order[o], Plain(op))
          /\ order' = [order EXCEPT ![o] = After(order[o], Plain(op))]
    /\ UNCHANGED <<day, screen, req, crossed>>

ServeList(r) ==
    /\ req[r].kind = "load" /\ ~req[r].served
    /\ req' = [req EXCEPT ![r].served = TRUE, ![r].answer = listed]
    /\ UNCHANGED <<day, order, screen, crossed>>

ServeOrder(r) ==
    /\ req[r].kind = "open" /\ ~req[r].served
    /\ req' = [req EXCEPT ![r].served = TRUE, ![r].answer = order[req[r].id]]
    /\ UNCHANGED <<day, order, screen, crossed>>

\* The handler's answer is the order it leaves, or an error.
ServeAction(r) ==
    /\ req[r].kind = "act" /\ ~req[r].served
    /\ LET o == req[r].id
           ok == Accepts(order[o], req[r].q)
       IN  /\ order' = [order EXCEPT ![o] = Attempt(@, req[r].q)]
           /\ req' = [req EXCEPT ![r] =
                  IF req[r].here
                  THEN [@ EXCEPT !.served = TRUE, !.answer = IF ok THEN order'[o] ELSE None]
                  ELSE Idle]
    /\ UNCHANGED <<day, screen, crossed>>

Serve(r) == ServeList(r) \/ ServeOrder(r) \/ ServeAction(r)

-----------------------------------------------------------------------------
(* The list *)

\* A screen that reads the list only when it is opened.
load_WhenOpened(r) ==
    /\ list = [o \in Orders |-> None] /\ InFlight("load") = {}
    /\ Sends(r, [Idle EXCEPT !.kind = "load", !.here = TRUE])
    /\ UNCHANGED <<day, order, screen, crossed>>
\* load: when the screen opens, every POLL_MS, and when the shopkeeper refreshes.
load(r) ==
    /\ Sends(r, [Idle EXCEPT !.kind = "load", !.here = TRUE])
    /\ UNCHANGED <<day, order, screen, crossed>>

Cancel == Plain("merchantCancel")
Fail == Op("updateDelivery", "FAILED", "none")

\* What the end of an action does: `finally`, and its box is closed.
Ends(q) ==
    /\ busy' = (busy /\ q = None)
    /\ cancelling' = IF q = Cancel THEN None ELSE cancelling
    /\ failing' = IF q = Fail THEN None ELSE failing

hearList(r) ==
    /\ req[r].here /\ req[r].kind = "load" /\ req[r].served
    /\ list' = req[r].answer
    /\ Ends(req[r].q)
    /\ req' = [req EXCEPT ![r] = Idle]
    /\ UNCHANGED <<day, order, selected, crossed>>

-----------------------------------------------------------------------------
(* The detail *)

visibleOrders(filter) == {o \in Orders : list[o] # None /\ filter \in {"all", list[o]}}

\* A row can be tapped while no detail covers the list, under whatever filter shows it.
Filters == {"all", "new", "active", "done"}
Tappable(o) == selected = None /\ \E filter \in Filters : o \in visibleOrders(filter)

\* A tap that leaves the boxes as they are.
open_BoxesStay(r, o) ==
    /\ Tappable(o)
    /\ Sends(r, [Idle EXCEPT !.kind = "open", !.id = o, !.here = TRUE])
    /\ crossed' = (InFlight("open") \cup Acting # {})
    /\ UNCHANGED <<day, order, list, selected, busy, cancelling, failing>>
open(r, o) ==
    /\ Tappable(o)
    /\ Sends(r, [Idle EXCEPT !.kind = "open", !.id = o, !.here = TRUE])
    /\ cancelling' = None /\ failing' = None
    /\ crossed' = (InFlight("open") \cup Acting # {})
    /\ UNCHANGED <<day, order, list, selected, busy>>

hearOrder(r) ==
    /\ req[r].here /\ req[r].kind = "open" /\ req[r].served
    /\ selected' = [id |-> req[r].id, o |-> req[r].answer]
    /\ req' = [req EXCEPT ![r] = Idle]
    /\ UNCHANGED <<day, order, list, busy, cancelling, failing, crossed>>

close ==
    /\ selected # None
    /\ selected' = None
    /\ UNCHANGED <<day, order, list, busy, cancelling, failing, req, crossed>>

\* A table that lets the pickup be left out.
NEXT_DELIVERY_STEPS_SkipPickup(d) ==
    CASE d = "ASSIGNED" -> {"PICKED_UP", "ON_WAY"} [] d = "PICKED_UP" -> {"ON_WAY", "DELIVERED"}
      [] d = "ON_WAY" -> {"DELIVERED"} [] OTHER -> {}
NEXT_DELIVERY_STEPS(d) ==
    CASE d = "ASSIGNED" -> {"PICKED_UP"} [] d = "PICKED_UP" -> {"ON_WAY", "DELIVERED"}
      [] d = "ON_WAY" -> {"DELIVERED"} [] OTHER -> {}

itemToggle(o, q) ==
    /\ q.op = "setItemStatus" /\ q.item \in o.lines
    /\ o.status \in {"PENDING", "CONFIRMED", "PREPARING"}
    /\ q.to = IF q.item \in o.out THEN "CONFIRMED" ELSE "UNAVAILABLE"
orderButton(o, q) ==
    \/ q.op = "confirm" /\ o.status = "PENDING"
    \/ q.op = "startPreparing" /\ o.status = "CONFIRMED"
    \/ q.op = "assignDelivery" /\ canAssignDelivery(o)
deliveryButton(o, q) == q.op = "updateDelivery" /\ q.to \in NEXT_DELIVERY_STEPS(o.delivery)

offersCancel(o) == o.status \in {"CONFIRMED", "PREPARING"}
offersFail(o) == o.delivery \notin {"NONE", "DELIVERED", "FAILED"}

Tried(q) == q.op \in day[selected.id].tries
Offers(o, q) == itemToggle(o, q) \/ orderButton(o, q) \/ deliveryButton(o, q)

openCancel ==
    /\ selected # None /\ ~busy /\ cancelling = None
    /\ offersCancel(selected.o) /\ Tried(Cancel)
    /\ cancelling' = selected.id
    /\ UNCHANGED <<day, order, list, selected, busy, failing, req, crossed>>

openFail ==
    /\ selected # None /\ ~busy /\ failing = None
    /\ offersFail(selected.o) /\ Tried(Fail)
    /\ failing' = selected.id
    /\ UNCHANGED <<day, order, list, selected, busy, cancelling, req, crossed>>

closeBox ==
    /\ selected # None
    /\ \/ cancelling # None /\ cancelling' = None /\ UNCHANGED failing
       \/ /\ failing # None /\ selected.o.delivery # "NONE"
          /\ failing' = None /\ UNCHANGED cancelling
    /\ UNCHANGED <<day, order, list, selected, busy, req, crossed>>

-----------------------------------------------------------------------------
(* Actions *)

\* A box stays open whatever becomes of the order; the delivery's needs a delivery.
Pressable(q) ==
    /\ Tried(q)
    /\ \/ Offers(selected.o, q)
       \/ q = Cancel /\ cancelling # None
       \/ q = Fail /\ failing # None /\ selected.o.delivery # "NONE"

act(r, q) ==
    /\ selected # None /\ ~busy /\ Pressable(q)
    /\ Sends(r, [Idle EXCEPT !.kind = "act", !.id = selected.id, !.q = q, !.here = TRUE])
    /\ busy' = TRUE
    /\ UNCHANGED <<day, order, list, selected, cancelling, failing, crossed>>

\* setSelected(await fn()), and the list again: the action ends with it.
hearAction(r) ==
    /\ req[r].here /\ req[r].kind = "act" /\ req[r].served /\ req[r].answer # None
    /\ selected' = [id |-> req[r].id, o |-> req[r].answer]
    /\ req' = [req EXCEPT ![r] =
                  [Idle EXCEPT !.kind = "load", !.q = req[r].q, !.here = TRUE]]
    /\ UNCHANGED <<day, order, list, busy, cancelling, failing, crossed>>

hearRefusal(r) ==
    /\ req[r].here /\ req[r].kind = "act" /\ req[r].served /\ req[r].answer = None
    /\ Ends(req[r].q)
    /\ req' = [req EXCEPT ![r] = Idle]
    /\ UNCHANGED <<day, order, list, selected, crossed>>

\* fetch rejects: an error is shown, what is on the screen stays, and the server may still act.
connectionFails(r) ==
    /\ req[r].here
    /\ Ends(req[r].q)
    /\ req' = [req EXCEPT ![r] = Forgotten(r)]
    /\ UNCHANGED <<day, order, list, selected, crossed>>

\* A request no one waits for that never arrives.
isLost(r) ==
    /\ req[r].kind # "idle" /\ ~req[r].here
    /\ req' = [req EXCEPT ![r] = Idle]
    /\ UNCHANGED <<day, order, screen, crossed>>

\* The shopkeeper goes to the products and comes back: a new screen, without the old one's answers.
leave ==
    /\ list' = [o \in Orders |-> None] /\ selected' = None
    /\ busy' = FALSE /\ cancelling' = None /\ failing' = None
    /\ req' = [r \in Slots |-> Forgotten(r)]
    /\ crossed' = FALSE
    /\ UNCHANGED <<day, order>>

Next ==
    \/ \E o \in Orders : Place(o) \/ CustomerActs(o)
    \/ close \/ openCancel \/ openFail \/ closeBox \/ leave
    \/ \E r \in Slots :
          \/ Serve(r) \/ load(r) \/ hearList(r) \/ hearOrder(r)
          \/ hearAction(r) \/ hearRefusal(r) \/ connectionFails(r) \/ isLost(r)
          \/ \E o \in Orders : open(r, o)
          \/ \E q \in Presses : act(r, q)

\* The interval goes on asking, and now and then it is answered.
Fairness ==
    /\ SF_vars(\E r \in Slots : load(r))
    /\ SF_vars(\E r \in Slots : ServeList(r))
    /\ SF_vars(\E r \in Slots : hearList(r))
    /\ WF_vars(\E r \in Slots :
          \/ ServeOrder(r) \/ ServeAction(r) \/ isLost(r)
          \/ hearOrder(r) \/ hearAction(r) \/ hearRefusal(r))

Spec == Init /\ [][Next]_vars /\ Fairness

-----------------------------------------------------------------------------
\* OrdersScreen.tsx: "this screen only ever offers actions the server will accept".  It is so of
\* the buttons of a detail that is up to date and not of a cancelled order.
OfferedIsAccepted ==
    \A o \in Placed : order[o].status # "CANCELLED" =>
        /\ \A q \in Presses : Offers(order[o], q) => Accepts(order[o], q)
        /\ offersCancel(order[o]) => Accepts(order[o], Cancel)
        /\ offersFail(order[o]) => Accepts(order[o], Fail)

\* A box acts on the order it was opened for, however the screen is used: only when a row was
\* tapped while an earlier tap or action was unanswered may an answer put another order under it.
BoxKeepsItsOrder ==
    selected # None /\ ~crossed =>
        cancelling \in {None, selected.id} /\ failing \in {None, selected.id}

\* "The poll makes an open app current": whatever answers were lost or overtook each other, every
\* order comes to be listed under the filter its status calls for, and in the end under no other.
ListCatchesUp ==
    \A o \in Orders : []<>(list[o] = listed[o]) /\ <>[](list[o] \in {listed[o], None})
=============================================================================
