--------------------------- MODULE CustomerOrders ---------------------------
(***************************************************************************)
(* The customer's order screen and the orders behind it.                   *)
(*                                                                         *)
(* The screen reads the list when it is opened and a detail when a row is  *)
(* tapped or the detail pulled down; nothing else brings it news.  What it *)
(* lets the customer do, whether it warns first and whose number it shows  *)
(* come with the detail, as they were when the server sent it, while the   *)
(* shop goes on working.  Requests are answered in any order or not at all.*)
(***************************************************************************)
EXTENDS OrderRequests, Integers

CONSTANTS Orders,
          MaxInFlight,  \* bound: requests on their way at once
          Days,         \* bound: how far the orders are when first seen, and what is tried on them
          None          \* null

ASSUME NoneIsNothing == None \notin Orders \cup Order \cup {Plain(op) : op \in Operations}
ASSUME DaysAssumption ==
    \A d \in Days : d.from \in Order /\ CarriedIsSent(d.from) /\ d.tries \subseteq Operations

Slots == 1..MaxInFlight

VARIABLES
    day,       \* which of the Days it is
    order,     \* the server's orders; None before it is placed
    visible,   \* the screen is open
    loading,   \* it waits for its first list, and shows nothing else
    rows,      \* the orders listed
    selected,  \* the detail: an order's id and what was last read of it
    asking,    \* the order whose cancellation the customer is asked to confirm
    busy,      \* an action is on its way
    req,       \* requests on their way
    seen,      \* history: what a detail showed of an order
    crossed    \* history: a detail was asked for with another unanswered

screen == <<visible, loading, rows, selected, asking, busy>>
vars == <<day, order, screen, req, seen, crossed>>

Detail == [id : Orders, o : Order]
Marks == {"started", "driver", "call"}

\* `id` is the order asked for, and of a load the one to read again after it.
Idle == [kind |-> "idle", id |-> None, q |-> None, warned |-> FALSE, served |-> FALSE,
         answer |-> None]
Request(kinds, answers) ==
    [kind : kinds, id : Orders \cup {None}, q : {Plain(op) : op \in Operations} \cup {None},
     warned : BOOLEAN, served : BOOLEAN, answer : answers \cup {None}]
Load(id, q) == [Idle EXCEPT !.kind = "load", !.id = id, !.q = q]
Read(id) == [Idle EXCEPT !.kind = "open", !.id = id]
Action(id, q, warned) == [Idle EXCEPT !.kind = "act", !.id = id, !.q = q, !.warned = warned]

Cancel == Plain("cancel")
Placed == {o \in Orders : order[o] # None}

Acting == {r \in Slots : req[r].q # None}
Awaiting == {r \in Slots : req[r].kind \in {"open", "act"}}

Init ==
    /\ day \in Days
    /\ order = [o \in Orders |-> None]
    /\ visible = FALSE /\ loading = TRUE /\ rows = {} /\ selected = None
    /\ asking = None /\ busy = FALSE
    /\ req = [r \in Slots |-> Idle]
    /\ seen = {} /\ crossed = FALSE

-----------------------------------------------------------------------------
(* The server and the shop *)

\* Placed, and taken so far by the shop, before it is first looked at.
Place(o) ==
    /\ order[o] = None
    /\ order' = [order EXCEPT ![o] = day.from]
    /\ UNCHANGED <<day, screen, req, seen, crossed>>

ShopActs(o) ==
    /\ o \in Placed
    /\ \E op \in day.tries \ {"cancel", "acceptChanges", "review"},
          to \in ItemStatuses \cup DeliveryStatuses \cup {"none"}, i \in Items \cup {"none"} :
          /\ op = "setItemStatus" <=> to \in ItemStatuses /\ i # "none"
          /\ op = "updateDelivery" <=> to \in DeliveryStatuses /\ i = "none"
          /\ Accepts(order[o], Op(op, to, i))
          /\ order' = [order EXCEPT ![o] = After(order[o], Op(op, to, i))]
    /\ UNCHANGED <<day, screen, req, seen, crossed>>

Serve(r) ==
    /\ req[r].kind # "idle" /\ ~req[r].served
    /\ LET o == req[r].id
           answers(a) == req' = [req EXCEPT ![r].served = TRUE, ![r].answer = a]
       IN  CASE req[r].kind = "load" -> answers(Placed) /\ UNCHANGED order
             [] req[r].kind = "open" -> answers(order[o]) /\ UNCHANGED order
             [] req[r].kind = "act"  ->
                  /\ order' = [order EXCEPT ![o] = Attempt(@, req[r].q)]
                  /\ answers(IF Accepts(order[o], req[r].q) THEN order'[o] ELSE None)
    /\ UNCHANGED <<day, screen, seen, crossed>>

-----------------------------------------------------------------------------
(* Opening, reading and closing *)

\* A new request takes the first slot free.
Sends(r, q) ==
    /\ req[r] = Idle /\ \A s \in 1..(r - 1) : req[s] # Idle
    /\ req' = [req EXCEPT ![r] = q]

\* The effect on `visible`: the list is read again, over whatever detail was left open.
show(r) ==
    /\ ~visible
    /\ visible' = TRUE /\ loading' = TRUE
    /\ Sends(r, Load(None, None))
    /\ UNCHANGED <<day, order, rows, selected, asking, busy, seen, crossed>>

\* What the customer can touch.
Touchable == visible /\ asking = None
ListShown == Touchable /\ ~loading /\ selected = None
DetailShown == Touchable /\ ~loading /\ selected # None

close ==
    /\ Touchable
    /\ IF selected = None THEN visible' = FALSE /\ UNCHANGED selected
       ELSE selected' = None /\ UNCHANGED visible
    /\ UNCHANGED <<day, order, loading, rows, asking, busy, req, seen, crossed>>

open(r, o) ==
    /\ ListShown /\ o \in rows
    /\ Sends(r, Read(o))
    /\ crossed' = (crossed \/ Awaiting # {})
    /\ UNCHANGED <<day, order, screen, seen>>

\* handleRefresh: the list, and then the detail that was on the screen when it was pulled.
handleRefresh(r) ==
    /\ ListShown \/ DetailShown
    /\ Sends(r, Load(IF selected = None THEN None ELSE selected.id, None))
    /\ UNCHANGED <<day, order, screen, seen, crossed>>

\* What follows a load, heard or failed: an action ends, or the detail is read again.
ThenRead(r) ==
    /\ busy' = (busy /\ req[r].q = None)
    /\ loading' = (loading /\ (req[r].id # None \/ req[r].q # None))
    /\ IF req[r].id # None /\ req[r].q = None
       THEN /\ req' = [req EXCEPT ![r] = Read(req[r].id)]
            /\ crossed' = (crossed \/ Awaiting # {})
       ELSE req' = [req EXCEPT ![r] = Idle] /\ UNCHANGED crossed

hearList(r) ==
    /\ req[r].kind = "load" /\ req[r].served
    /\ rows' = req[r].answer
    /\ ThenRead(r)
    /\ UNCHANGED <<day, order, visible, selected, asking, seen>>

\* The box with the driver's name and number.
driverBox(o) == captainPhone(o) /\ o.status # "CANCELLED"

\* What of an order the customer may rely on afterwards: that the shop works on it, that it has a
\* driver, that the driver may be called.
Tells(o, m) ==
    \/ m = "started" /\ o.status \in CUSTOMER_WARNED_CANCEL
    \/ m = "driver" /\ driverBox(o)
    \/ m = "call" /\ driverPhone(o)

Shows(r) ==
    /\ selected' = [id |-> req[r].id, o |-> req[r].answer]
    /\ seen' = seen \cup {<<req[r].id, m>> : m \in {n \in Marks : Tells(req[r].answer, n)}}

hearOrder(r) ==
    /\ req[r].kind = "open" /\ req[r].served
    /\ Shows(r)
    /\ req' = [req EXCEPT ![r] = Idle]
    /\ UNCHANGED <<day, order, visible, loading, rows, asking, busy, crossed>>

-----------------------------------------------------------------------------
(* Actions *)

offers(o, q) ==
    \/ q = Cancel /\ canCancel(o)
    \/ q = Plain("acceptChanges") /\ o.out # {} /\ o.status # "CANCELLED"
    \/ q = Plain("review") /\ canReview(o)

sendsAction(r, id, q, warned) ==
    /\ Sends(r, Action(id, q, warned))
    /\ busy' = TRUE
    /\ crossed' = (crossed \/ Awaiting # {})

\* handleAcceptChanges, handleReview, and a cancellation that needs no warning.
act(r, q) ==
    /\ DetailShown /\ ~busy /\ offers(selected.o, q) /\ q.op \in day.tries
    /\ q = Cancel => ~cancelRequiresWarning(selected.o)
    /\ sendsAction(r, selected.id, q, FALSE)
    /\ UNCHANGED <<day, order, visible, loading, rows, selected, asking, seen>>

\* handleCancel of an order the shop has started.
askFirst ==
    /\ DetailShown /\ ~busy /\ "cancel" \in day.tries
    /\ canCancel(selected.o) /\ cancelRequiresWarning(selected.o)
    /\ asking' = selected.id
    /\ UNCHANGED <<day, order, visible, loading, rows, selected, busy, req, seen, crossed>>

cancelAnyway(r) ==
    /\ asking # None
    /\ sendsAction(r, asking, Cancel, TRUE)
    /\ asking' = None
    /\ UNCHANGED <<day, order, visible, loading, rows, selected, seen>>

keepOrder ==
    /\ asking # None
    /\ asking' = None
    /\ UNCHANGED <<day, order, visible, loading, rows, selected, busy, req, seen, crossed>>

\* A review is the end of it; the others read the list again before they let go of the buttons.
hearAction(r) ==
    /\ req[r].kind = "act" /\ req[r].served /\ req[r].answer # None
    /\ Shows(r)
    /\ IF req[r].q = Plain("review")
       THEN busy' = FALSE /\ req' = [req EXCEPT ![r] = Idle]
       ELSE req' = [req EXCEPT ![r] = Load(req[r].id, req[r].q)] /\ UNCHANGED busy
    /\ UNCHANGED <<day, order, visible, loading, rows, asking, crossed>>

\* Without the `finally`.
hearRefusal_Stuck(r) ==
    /\ req[r].kind = "act" /\ req[r].served /\ req[r].answer = None
    /\ req' = [req EXCEPT ![r] = Idle]
    /\ UNCHANGED <<day, order, screen, seen, crossed>>
hearRefusal(r) ==
    /\ req[r].kind = "act" /\ req[r].served /\ req[r].answer = None
    /\ busy' = FALSE
    /\ req' = [req EXCEPT ![r] = Idle]
    /\ UNCHANGED <<day, order, visible, loading, rows, selected, asking, seen, crossed>>

\* fetch rejects: an error is shown, and the server has acted or has not.
connectionFails(r) ==
    /\ req[r].kind # "idle"
    /\ IF req[r].kind = "load" THEN ThenRead(r)
       ELSE /\ req' = [req EXCEPT ![r] = Idle]
            /\ busy' = (busy /\ req[r].kind # "act")
            /\ UNCHANGED <<loading, crossed>>
    /\ UNCHANGED <<day, order, visible, rows, selected, asking, seen>>

Settles(r) ==
    hearList(r) \/ hearOrder(r) \/ hearAction(r) \/ hearRefusal(r) \/ connectionFails(r)

Next ==
    \/ \E o \in Orders : Place(o) \/ ShopActs(o)
    \/ close \/ askFirst \/ keepOrder
    \/ \E r \in Slots :
          \/ Serve(r) \/ show(r) \/ handleRefresh(r) \/ cancelAnyway(r)
          \/ hearList(r) \/ hearOrder(r) \/ hearAction(r) \/ hearRefusal(r)
          \/ connectionFails(r)
          \/ \E o \in Orders : open(r, o)
          \/ \E op \in {"cancel", "acceptChanges", "review"} : act(r, Plain(op))

\* Every fetch resolves or rejects.
Spec == Init /\ [][Next]_vars /\ \A r \in Slots : WF_vars(Settles(r)) /\ WF_vars(Serve(r))

-----------------------------------------------------------------------------
\* Every variable has its type; the buttons are off exactly while one action is on its way.
TypeOK ==
    /\ day \in Days
    /\ order \in [Orders -> Order \cup {None}]
    /\ visible \in BOOLEAN /\ loading \in BOOLEAN /\ crossed \in BOOLEAN
    /\ rows \in SUBSET Orders /\ seen \in SUBSET (Orders \X Marks)
    /\ selected \in Detail \cup {None}
    /\ asking \in Orders \cup {None}
    /\ req = [r \in Slots |-> req[r]]
    /\ \A r \in Slots : req[r] \in IF req[r].kind = "load" THEN Request({"load"}, SUBSET Orders)
                                  ELSE Request({"idle", "open", "act"}, Order)
    /\ busy \in BOOLEAN /\ (busy <=> Acting # {})
    /\ \A r, s \in Acting : r = s

\* OrdersScreen.tsx: a warning once the shop is already working on it.  Unless details were asked
\* for over one another, no cancellation goes out unwarned of an order this screen once showed as
\* started: the warning is missing only where the news was.
WarnedOnceShown ==
    ~crossed => \A r \in Slots :
        req[r].kind = "act" /\ req[r].q = Cancel /\ ~req[r].warned => <<req[r].id, "started">> \notin seen

\* OrdersScreen.tsx: the call buttons, one at a time, and the driver's number.  Unless details were
\* asked for over one another, an answer that comes late takes nothing back: the shop is not offered
\* again once the driver was, and the driver's number stays until the order is cancelled.
NumbersGoForward ==
    selected # None =>
        /\ ~(shopPhone(selected.o) /\ driverPhone(selected.o))
        /\ ~crossed /\ <<selected.id, "call">> \in seen => ~shopPhone(selected.o)
        /\ ~crossed /\ <<selected.id, "driver">> \in seen =>
              driverBox(selected.o) \/ selected.o.status = "CANCELLED"

\* What the comment on the response asks for, that numbers are in it inside their contact window
\* only.  In no configuration: the delivery in it carries the driver's from the start.
NumbersInWindow ==
    \A o \in Placed : captainPhone(order[o]) => driverPhone(order[o])

\* The buttons come back after every action, however it ends.
ButtonsComeBack == busy ~> ~busy
=============================================================================
