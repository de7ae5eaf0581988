---------------------------- MODULE OrderProofs -----------------------------
(***************************************************************************)
(* What OrderLifecycle guarantees for every set of lines: first with any   *)
(* number of requests in flight, and then when requests on an order do not *)
(* overlap. A lone request keeps SerialInv, and under it every step is a   *)
(* step of OrderPromise or leaves its stage and basket alone, and is one   *)
(* whole request of OrderServer or leaves the order alone. The handlers    *)
(* never recheck at their write what they read, so that rests on           *)
(* GuardStillHolds, which a second request would break. The last part is   *)
(* about the alerts of OrderEscalation, which supposes of the order what   *)
(* PendingIsLeftOnce says.                                                 *)
(***************************************************************************)
EXTENDS OrderLifecycle, OrderEscalation, Integers, Sequences, TLAPS

\* One case per action: a step of Next is one of these.
LEMMA StepCases ==
    ASSUME [Next]_vars
    PROVE  \/ SetMerchantStatus
           \/ \E r \in Requests : CancelRead(r) \/ ReviewReadOrder(r) \/ AcceptReadOrder(r)
           \/ \E r \in Requests : MerchantBegin(r)
           \/ \E r \in Requests : Step(r)
           \/ UNCHANGED vars
  BY DEF Next, Arrives

LEMMA IdleIsRequest == Idle \in Request
  BY DEF Idle, Request, Points

LEMMA TypeInit == Init => TypeOK
  <1> SUFFICES ASSUME Init PROVE TypeOK
    OBVIOUS
  <1>1. req \in [Requests -> Request]
    BY IdleIsRequest DEF Init
  <1>2. \A r \in Requests : req[r].op = "none"
    BY DEF Init, Idle
  <1>3. line \in [Items -> ItemStatuses \cup {"DELETED"}]
    BY DEF Init, ItemStatuses
  <1>4. QED
    BY <1>1, <1>2, <1>3 DEF Init, TypeOK, OrderStatuses, Cancellers, DeliveryStatuses,
                            MerchantStatuses

LEMMA TypeStep == TypeOK /\ [Next]_vars => TypeOK'
  <1> SUFFICES ASSUME TypeOK, [Next]_vars PROVE TypeOK'
    OBVIOUS
  <1> USE DEF TypeOK, Request, OrderStatuses, Cancellers, ItemStatuses, DeliveryStatuses,
              MerchantStatuses, Points, CustomerOps, MerchantOps, DeliveryTargets, Idle
  <1>1. CASE SetMerchantStatus
    BY <1>1 DEF SetMerchantStatus
  <1>2. ASSUME NEW r \in Requests, CancelRead(r) PROVE TypeOK'
    BY <1>2 DEF CancelRead, Starts
  <1>3. ASSUME NEW r \in Requests, ReviewReadOrder(r) PROVE TypeOK'
    BY <1>3 DEF ReviewReadOrder, Starts
  <1>4. ASSUME NEW r \in Requests, AcceptReadOrder(r) PROVE TypeOK'
    BY <1>4 DEF AcceptReadOrder, Starts
  <1>5. ASSUME NEW r \in Requests, MerchantBegin(r) PROVE TypeOK'
    BY <1>5 DEF MerchantBegin, SetItemStatusBegin, ConfirmBegin, StartPreparingBegin,
                MerchantCancelBegin, AssignDeliveryBegin, UpdateDeliveryBegin, MerchantBegins
  <1>6. ASSUME NEW r \in Requests, CancelWrite(r) PROVE TypeOK'
    BY <1>6 DEF CancelWrite, CancelOrder, Ends
  <1>7. ASSUME NEW r \in Requests, ReviewReadReview(r) PROVE TypeOK'
    BY <1>7 DEF ReviewReadReview, Ends, Goes
  <1>8. ASSUME NEW r \in Requests, ReviewWrite(r) PROVE TypeOK'
    BY <1>8 DEF ReviewWrite, Ends
  <1>9. ASSUME NEW r \in Requests, AcceptReadLines(r) PROVE TypeOK'
    <2> DEFINE unavailable == {i \in Items : line[i] = "UNAVAILABLE"}
               remaining   == {i \in Items : line[i] = "CONFIRMED"}
    <2>1. CASE unavailable = {}
      BY <1>9, <2>1 DEF AcceptReadLines, Ends
    <2>2. CASE unavailable # {}
      <3>1. req' = [req EXCEPT ![r] =
                       [op |-> "acceptChanges", at |-> "write", to |-> "none",
                        lines |-> unavailable, kept |-> remaining]]
        BY <1>9, <2>2 DEF AcceptReadLines
      <3>2. unavailable \in SUBSET Items /\ remaining \in SUBSET Items
        OBVIOUS
      <3>3. UNCHANGED <<status, cancelledBy, charged, line, delivery, reviewed, shop>>
        BY <1>9 DEF AcceptReadLines
      <3> HIDE DEF unavailable, remaining
      <3>4. QED
        BY <3>1, <3>2, <3>3
    <2>3. QED
      BY <2>1, <2>2
  <1>10. ASSUME NEW r \in Requests, AcceptCancels(r) PROVE TypeOK'
    BY <1>10 DEF AcceptCancels, CancelOrder, Ends
  <1>11. ASSUME NEW r \in Requests, AcceptTrims(r) PROVE TypeOK'
    BY <1>11 DEF AcceptTrims, Ends
  <1>12. ASSUME NEW r \in Requests, MerchantReadOrder(r) PROVE TypeOK'
    BY <1>12 DEF MerchantReadOrder, AfterOrderRead, Ends, Goes
  <1>13. ASSUME NEW r \in Requests, SetItemStatusReadItem(r) PROVE TypeOK'
    BY <1>13 DEF SetItemStatusReadItem, Ends, Goes
  <1>14. ASSUME NEW r \in Requests, SetItemStatusWrite(r) PROVE TypeOK'
    BY <1>14 DEF SetItemStatusWrite, Ends, Awaits
  <1>15. ASSUME NEW r \in Requests, ConfirmWrite(r) PROVE TypeOK'
    BY <1>15 DEF ConfirmWrite, MoveOrder, CheckAccepts, Ends
  <1>16. ASSUME NEW r \in Requests, StartPreparingWrite(r) PROVE TypeOK'
    BY <1>16 DEF StartPreparingWrite, MoveOrder, CheckAccepts, Ends
  <1>17. ASSUME NEW r \in Requests, MerchantCancelWrite(r) PROVE TypeOK'
    BY <1>17 DEF MerchantCancelWrite, CancelOrder, Ends
  <1>18. ASSUME NEW r \in Requests, AssignDeliveryReadDelivery(r) PROVE TypeOK'
    BY <1>18 DEF AssignDeliveryReadDelivery, Ends, Goes
  <1>19. ASSUME NEW r \in Requests, AssignDeliveryWrite(r) PROVE TypeOK'
    BY <1>19 DEF AssignDeliveryWrite, Ends
  <1>20. ASSUME NEW r \in Requests, UpdateDeliveryReadDelivery(r) PROVE TypeOK'
    BY <1>20 DEF UpdateDeliveryReadDelivery, Ends, Goes
  <1>21. ASSUME NEW r \in Requests, UpdateDeliveryWrite(r) PROVE TypeOK'
    BY <1>21 DEF UpdateDeliveryWrite, CheckAccepts, orderStatusForDelivery, Ends, Awaits
  <1>22. CASE UNCHANGED vars
    BY <1>22 DEF vars
  <1>23. QED
    BY <1>1, <1>2, <1>3, <1>4, <1>5, <1>6, <1>7, <1>8, <1>9, <1>10, <1>11, <1>12,
       <1>13, <1>14, <1>15, <1>16, <1>17, <1>18, <1>19, <1>20, <1>21, <1>22, StepCases
       DEF Step

\* Every reachable state is well typed, and an order row names a canceller exactly
\* when it is cancelled: the CHECK the handlers lean on.
THEOREM TypeInvariant == Spec => []TypeOK
  BY TypeInit, TypeStep, PTL DEF Spec

-----------------------------------------------------------------------------
(***************************************************************************)
(* How a single step may change each row.  Only four kinds of statement    *)
(* write orders.status, and only two write deliveries.                     *)
(***************************************************************************)

\* A step that changes the order's status either moves it and passes the CHECK
\* with the canceller already stored, or cancels it.
LEMMA StatusStep ==
    ASSUME TypeOK, [Next]_vars
    PROVE  \/ status' = status
           \/ status' = "CANCELLED"
           \/ cancelledBy = "NONE" /\ status' \in {"CONFIRMED", "PREPARING"}
                                   /\ delivery' = delivery
           \/ cancelledBy = "NONE" /\ delivery' \in DeliveryTargets
                                   /\ status' = orderStatusForDelivery(delivery')
  <1>1. ASSUME NEW r \in Requests, Step(r)
        PROVE  \/ status' = status
               \/ status' = "CANCELLED"
               \/ cancelledBy = "NONE" /\ status' \in {"CONFIRMED", "PREPARING"}
                                       /\ delivery' = delivery
               \/ cancelledBy = "NONE" /\ delivery' \in DeliveryTargets
                                       /\ status' = orderStatusForDelivery(delivery')
    <2>1. CASE ConfirmWrite(r) \/ StartPreparingWrite(r)
      BY <2>1 DEF ConfirmWrite, StartPreparingWrite, MoveOrder, CheckAccepts
    <2>2. CASE CancelWrite(r) \/ MerchantCancelWrite(r) \/ AcceptCancels(r)
      BY <2>2 DEF CancelWrite, MerchantCancelWrite, AcceptCancels, CancelOrder
    <2>3. CASE UpdateDeliveryWrite(r)
      <3>1. req[r].to \in DeliveryTargets
        BY <2>3 DEF TypeOK, UpdateDeliveryWrite, Awaits
      <3>2. QED
        BY <2>3, <3>1 DEF UpdateDeliveryWrite, CheckAccepts, orderStatusForDelivery,
                          DeliveryTargets
    <2>4. CASE UNCHANGED status
      BY <2>4
    <2>5. QED
      BY <1>1, <2>1, <2>2, <2>3, <2>4
      DEF Step, ReviewReadReview, ReviewWrite, AcceptReadLines, AcceptTrims,
          MerchantReadOrder, SetItemStatusReadItem, SetItemStatusWrite,
          AssignDeliveryReadDelivery, AssignDeliveryWrite, UpdateDeliveryReadDelivery
  <1>2. ASSUME NEW r \in Requests, MerchantBegin(r) PROVE status' = status
    BY <1>2 DEF MerchantBegin, SetItemStatusBegin, ConfirmBegin, StartPreparingBegin,
                MerchantCancelBegin, AssignDeliveryBegin, UpdateDeliveryBegin, MerchantBegins
  <1>3. QED
    BY <1>1, <1>2, StepCases
       DEF SetMerchantStatus, CancelRead, ReviewReadOrder, AcceptReadOrder, vars

\* A step that changes the delivery either assigns the first driver or commits the
\* delivery's new status together with the order's.
LEMMA DeliveryStep ==
    ASSUME TypeOK, [Next]_vars
    PROVE  \/ delivery' = delivery
           \/ delivery = "NONE" /\ delivery' = "ASSIGNED" /\ status' = status
           \/ /\ delivery' \in DeliveryTargets
              /\ status' = orderStatusForDelivery(delivery')
              /\ status = "CANCELLED" => status' = "CANCELLED"
  <1>1. ASSUME NEW r \in Requests, Step(r)
        PROVE  \/ delivery' = delivery
               \/ delivery = "NONE" /\ delivery' = "ASSIGNED" /\ status' = status
               \/ /\ delivery' \in DeliveryTargets
                  /\ status' = orderStatusForDelivery(delivery')
                  /\ status = "CANCELLED" => status' = "CANCELLED"
    <2>1. CASE AssignDeliveryWrite(r)
      BY <2>1 DEF AssignDeliveryWrite
    <2>2. CASE UpdateDeliveryWrite(r)
      <3>1. req[r].to \in DeliveryTargets
        BY <2>2 DEF TypeOK, UpdateDeliveryWrite, Awaits
      <3>2. status = "CANCELLED" => cancelledBy # "NONE"
        BY DEF TypeOK
      <3>3. QED
        BY <2>2, <3>1, <3>2 DEF UpdateDeliveryWrite, CheckAccepts, orderStatusForDelivery,
                                DeliveryTargets
    <2>3. CASE UNCHANGED delivery
      BY <2>3
    <2>4. QED
      BY <1>1, <2>1, <2>2, <2>3
      DEF Step, CancelWrite, ConfirmWrite, StartPreparingWrite, MerchantCancelWrite,
          MoveOrder, CancelOrder, ReviewReadReview, ReviewWrite, AcceptReadLines,
          AcceptCancels, AcceptTrims, MerchantReadOrder, SetItemStatusReadItem,
          SetItemStatusWrite, AssignDeliveryReadDelivery, UpdateDeliveryReadDelivery
  <1>2. ASSUME NEW r \in Requests, MerchantBegin(r) PROVE delivery' = delivery
    BY <1>2 DEF MerchantBegin, SetItemStatusBegin, ConfirmBegin, StartPreparingBegin,
                MerchantCancelBegin, AssignDeliveryBegin, UpdateDeliveryBegin, MerchantBegins
  <1>3. QED
    BY <1>1, <1>2, StepCases
       DEF SetMerchantStatus, CancelRead, ReviewReadOrder, AcceptReadOrder, vars

-----------------------------------------------------------------------------
\* A cancelled order stays cancelled: every later write of another status meets a
\* stored canceller, and the CHECK refuses it.
THEOREM CancelledIsFinalHolds == Spec => CancelledIsFinal
  <1>1. TypeOK /\ [Next]_vars => [status = "CANCELLED" => status' = "CANCELLED"]_vars
    BY StatusStep DEF TypeOK
  <1>2. QED
    BY <1>1, TypeInvariant, PTL DEF Spec, CancelledIsFinal

LEMMA BackedStep ==
    ASSUME TypeOK, OrderBackedByDelivery, [Next]_vars
    PROVE  OrderBackedByDelivery'
  <1>1. status = "CANCELLED" => status' = "CANCELLED"
    BY StatusStep DEF TypeOK
  <1>2. CASE delivery' = delivery
    BY <1>1, <1>2, StatusStep DEF OrderBackedByDelivery, orderStatusForDelivery,
                                  DeliveryTargets
  <1>3. CASE delivery = "NONE" /\ delivery' = "ASSIGNED" /\ status' = status
    BY <1>3 DEF OrderBackedByDelivery
  <1>4. CASE delivery' \in DeliveryTargets /\ status' = orderStatusForDelivery(delivery')
    BY <1>4 DEF OrderBackedByDelivery, orderStatusForDelivery, DeliveryTargets
  <1>5. QED
    BY <1>2, <1>3, <1>4, DeliveryStep

\* The order is never ahead of its delivery, and a failed delivery never leaves a
\* live order behind.  Inductive together with TypeOK.
THEOREM OrderBackedByDeliveryHolds == Spec => []OrderBackedByDelivery
  <1>1. Init => OrderBackedByDelivery
    BY DEF Init, OrderBackedByDelivery
  <1>2. QED
    BY <1>1, BackedStep, TypeInvariant, PTL DEF Spec

\* A failed delivery stays failed: its order is cancelled, so the transaction of any
\* other move rolls back.
THEOREM FailedDeliveryIsFinalHolds == Spec => FailedDeliveryIsFinal
  <1>1. TypeOK /\ OrderBackedByDelivery /\ [Next]_vars
          => [delivery = "FAILED" => delivery' = "FAILED"]_vars
    BY DeliveryStep DEF OrderBackedByDelivery, orderStatusForDelivery, DeliveryTargets
  <1>2. QED
    BY <1>1, TypeInvariant, OrderBackedByDeliveryHolds, PTL DEF Spec, FailedDeliveryIsFinal

\* A second assignDelivery never restarts a delivery under way.
THEOREM DriverAssignedOnceHolds == Spec => DriverAssignedOnce
  <1>1. TypeOK /\ [Next]_vars
          => [delivery # "NONE" /\ delivery # "ASSIGNED" => delivery' # "ASSIGNED"]_vars
    BY DeliveryStep DEF DeliveryTargets
  <1>2. QED
    BY <1>1, TypeInvariant, PTL DEF Spec, DriverAssignedOnce

\* A dropped line never comes back, whatever edit of it is in flight.
THEOREM DroppedLineStaysDroppedHolds == Spec => DroppedLineStaysDropped
  <1>1. ASSUME TypeOK, [Next]_vars, NEW i \in Items, line[i] = "DELETED"
        PROVE  line'[i] = "DELETED"
    <2>1. ASSUME NEW r \in Requests, Step(r) PROVE line'[i] = "DELETED"
      <3>1. CASE AcceptTrims(r)
        BY <1>1, <3>1 DEF AcceptTrims
      <3>2. CASE SetItemStatusWrite(r)
        BY <1>1, <3>2 DEF SetItemStatusWrite, Lines
      <3>3. CASE UNCHANGED line
        BY <1>1, <3>3
      <3>4. QED
        BY <2>1, <3>1, <3>2, <3>3
        DEF Step, CancelWrite, ConfirmWrite, StartPreparingWrite, MerchantCancelWrite,
            MoveOrder, CancelOrder, ReviewReadReview, ReviewWrite, AcceptReadLines,
            AcceptCancels, MerchantReadOrder, SetItemStatusReadItem,
            AssignDeliveryReadDelivery, AssignDeliveryWrite, UpdateDeliveryReadDelivery,
            UpdateDeliveryWrite
    <2>2. ASSUME NEW r \in Requests, MerchantBegin(r) PROVE UNCHANGED line
      BY <2>2 DEF MerchantBegin, SetItemStatusBegin, ConfirmBegin, StartPreparingBegin,
                  MerchantCancelBegin, AssignDeliveryBegin, UpdateDeliveryBegin, MerchantBegins
    <2>3. QED
      BY <1>1, <2>1, <2>2, StepCases
         DEF SetMerchantStatus, CancelRead, ReviewReadOrder, AcceptReadOrder, vars
  <1>2. TypeOK /\ [Next]_vars
          => [\A i \in Items : line[i] = "DELETED" => line'[i] = "DELETED"]_vars
    BY <1>1
  <1>3. QED
    BY <1>2, TypeInvariant, PTL DEF Spec, DroppedLineStaysDropped

\* A pending order is moved by confirm, by its customer's cancel, or by acceptChanges.
LEMMA LeavesPending ==
    ASSUME TypeOK, NothingBegun, [Next]_vars, status = "PENDING", status' # "PENDING"
    PROVE  \/ status' = "CONFIRMED"
           \/ status' = "CANCELLED" /\ cancelledBy' \in {"CUSTOMER", "SYSTEM"}
  <1>1. ASSUME NEW r \in Requests, MerchantBegin(r) PROVE status' = status
    BY <1>1 DEF MerchantBegin, SetItemStatusBegin, ConfirmBegin, StartPreparingBegin,
                MerchantCancelBegin, AssignDeliveryBegin, UpdateDeliveryBegin, MerchantBegins
  <1>2. PICK r \in Requests : Step(r)
    BY <1>1, StepCases
    DEF SetMerchantStatus, CancelRead, ReviewReadOrder, AcceptReadOrder, vars
  <1>3. ~StartPreparingWrite(r) /\ ~MerchantCancelWrite(r) /\ ~UpdateDeliveryWrite(r)
    BY DEF NothingBegun, StartPreparingWrite, MerchantCancelWrite, UpdateDeliveryWrite, Awaits
  <1>4. CASE ConfirmWrite(r)
    BY <1>4 DEF ConfirmWrite, MoveOrder, CheckAccepts
  <1>5. CASE CancelWrite(r) \/ AcceptCancels(r)
    BY <1>5 DEF CancelWrite, AcceptCancels, CancelOrder
  <1>6. QED
    BY <1>2, <1>3, <1>4, <1>5
    DEF Step, ReviewReadReview, ReviewWrite, AcceptReadLines, AcceptTrims, MerchantReadOrder,
        SetItemStatusReadItem, SetItemStatusWrite, AssignDeliveryReadDelivery,
        AssignDeliveryWrite, UpdateDeliveryReadDelivery

\* No status comes back to PENDING.
LEMMA PendingIsNew ==
    ASSUME TypeOK, [Next]_vars, status # "PENDING"
    PROVE  status' # "PENDING"
  BY StatusStep DEF orderStatusForDelivery, DeliveryTargets

LEMMA NothingBegunStep ==
    ASSUME TypeOK, NothingBegun, [Next]_vars
    PROVE  NothingBegun'
  <1> SUFFICES ASSUME status = "PENDING", status' = "PENDING"
               PROVE  NothingBegun'
    BY PendingIsNew DEF NothingBegun
  <1> DEFINE Waits(q) ==
        /\ q.op \in {"startPreparing", "merchantCancel", "updateDelivery"} => q.at # "write"
        /\ q.op = "assignDelivery" => q.at \notin {"deliveryRow", "write"}
  <1>1. delivery = "NONE" /\ \A s \in Requests : Waits(req[s])
    BY DEF NothingBegun
  <1>2. SUFFICES delivery' = "NONE" /\ \A s \in Requests : Waits(req'[s])
    BY DEF NothingBegun
  <1>3. CASE UNCHANGED <<delivery, req>>
    BY <1>1, <1>3
  <1>4. ASSUME NEW r \in Requests, CancelRead(r) \/ ReviewReadOrder(r) \/ AcceptReadOrder(r)
        PROVE  delivery' = "NONE" /\ \A s \in Requests : Waits(req'[s])
    <2>1. /\ \A s \in Requests \ {r} : req'[s] = req[s]
          /\ req'[r].op \in CustomerOps /\ delivery' = delivery
      BY <1>4
      DEF CancelRead, ReviewReadOrder, AcceptReadOrder, Starts, Idle, TypeOK, CustomerOps
    <2>2. QED
      BY <1>1, <2>1 DEF CustomerOps
  <1>5. ASSUME NEW r \in Requests, MerchantBegin(r)
        PROVE  delivery' = "NONE" /\ \A s \in Requests : Waits(req'[s])
    BY <1>1, <1>5
    DEF MerchantBegin, SetItemStatusBegin, ConfirmBegin, StartPreparingBegin,
        MerchantCancelBegin, AssignDeliveryBegin, UpdateDeliveryBegin, MerchantBegins, TypeOK
  <1>6. ASSUME NEW r \in Requests, Step(r)
        PROVE  delivery' = "NONE" /\ \A s \in Requests : Waits(req'[s])
    <2>1. ~AssignDeliveryReadDelivery(r) /\ ~AssignDeliveryWrite(r) /\ ~UpdateDeliveryWrite(r)
      BY <1>1 DEF AssignDeliveryReadDelivery, AssignDeliveryWrite, UpdateDeliveryWrite, Awaits
    <2>2. CASE Ends(r) /\ delivery' = delivery
      BY <1>1, <2>2 DEF Ends, Idle, TypeOK
    <2>3. CASE ReviewReadReview(r) \/ SetItemStatusReadItem(r)
      <3>1. req[r].op \in {"review", "setItemStatus"} /\ delivery' = delivery
        BY <2>3 DEF ReviewReadReview, SetItemStatusReadItem, Awaits
      <3>2. Ends(r) \/ Goes(r, "write")
        BY <2>3 DEF ReviewReadReview, SetItemStatusReadItem
      <3>3. QED
        BY <1>1, <2>2, <3>1, <3>2 DEF Goes, TypeOK, Request
    <2>4. CASE AcceptReadLines(r)
      BY <1>1, <2>4 DEF AcceptReadLines, Ends, Idle, TypeOK
    <2>5. CASE MerchantReadOrder(r)
      <3>1. CASE AfterOrderRead(req[r].op).allowed /\ Goes(r, AfterOrderRead(req[r].op).next)
        <4>1. /\ req[r].op \in MerchantOps /\ delivery' = delivery
              /\ \A s \in Requests \ {r} : req'[s] = req[s]
              /\ req'[r].op = req[r].op /\ req'[r].at = AfterOrderRead(req[r].op).next
          BY <2>5, <3>1 DEF MerchantReadOrder, Goes, TypeOK, Request
        <4>2. Waits(req'[r])
          BY <3>1, <4>1
          DEF AfterOrderRead, MerchantOps, canMoveTo, FORWARD_TRANSITIONS, OrderStatuses,
              merchantCancelAllowed, MERCHANT_CANCEL_ALLOWED, DELIVERY_ASSIGNABLE_FROM
        <4>3. QED
          BY <1>1, <4>1, <4>2
      <3>2. CASE Ends(r)
        BY <2>2, <2>5, <3>2 DEF MerchantReadOrder
      <3>3. QED
        BY <2>5, <3>1, <3>2 DEF MerchantReadOrder
    <2>6. CASE UpdateDeliveryReadDelivery(r)
      BY <1>1, <2>2, <2>6 DEF UpdateDeliveryReadDelivery
    <2>7. QED
      BY <1>6, <2>1, <2>2, <2>3, <2>4, <2>5, <2>6
      DEF Step, CancelWrite, ReviewWrite, AcceptCancels, AcceptTrims, SetItemStatusWrite,
          ConfirmWrite, StartPreparingWrite, MerchantCancelWrite, MoveOrder, CancelOrder
  <1>7. QED
    BY <1>3, <1>4, <1>5, <1>6, StepCases DEF SetMerchantStatus, vars

THEOREM NothingBegunInvariant == Spec => []NothingBegun
  <1>1. Init => NothingBegun
    BY DEF Init, NothingBegun, Idle
  <1>2. QED
    BY <1>1, NothingBegunStep, TypeInvariant, PTL DEF Spec

\* An order leaves PENDING once, by confirm, its customer's cancel or acceptChanges, however late a
\* request that read it then writes.
THEOREM PendingIsLeftOnceHolds == Spec => PendingIsLeftOnce
  <1>1. TypeOK /\ NothingBegun /\ [Next]_vars =>
          [/\ status # "PENDING" => status' # "PENDING"
           /\ status = "PENDING" /\ status' # "PENDING" =>
                 \/ status' = "CONFIRMED"
                 \/ status' = "CANCELLED" /\ cancelledBy' \in {"CUSTOMER", "SYSTEM"}]_vars
    BY LeavesPending, PendingIsNew
  <1>2. QED
    BY <1>1, TypeInvariant, NothingBegunInvariant, PTL DEF Spec, PendingIsLeftOnce

\* So nothing of it comes back, whatever was in flight.
THEOREM NothingComesBackHolds == Spec => NothingComesBack
  BY CancelledIsFinalHolds, FailedDeliveryIsFinalHolds, DriverAssignedOnceHolds,
     DroppedLineStaysDroppedHolds, PendingIsLeftOnceHolds
  DEF NothingComesBack

-----------------------------------------------------------------------------
(* Requests that do not overlap *)

\* Requests never overlap: at most one is in flight at a time.
OneAtATime == \A r, s \in Requests : r = s

\* The parts of SerialInv that speak of the rows only.
Rows == ChargedMatchesLines /\ NeverEmptied /\ DeliveryDrivesOrder /\ ReviewedWasDelivered

LEMMA SerialInit == Init => SerialInv
  <1> SUFFICES ASSUME Init PROVE SerialInv
    OBVIOUS
  <1>1. TypeOK
    BY TypeInit
  <1>2. Lines = Items
    BY DEF Init, Lines
  <1>3. ASSUME NEW r \in Requests PROVE GuardStillHolds(r)
    BY DEF Init, Idle, GuardStillHolds
  <1>4. QED
    BY <1>1, <1>2, <1>3, ItemsAssumption
    DEF Init, SerialInv, OrderBackedByDelivery, ChargedMatchesLines, NeverEmptied,
        DeliveryDrivesOrder, ReviewedWasDelivered

\* A step that writes no row keeps the invariants on the rows.
LEMMA RowsKept ==
    ASSUME Rows, UNCHANGED <<status, charged, line, delivery, reviewed>>
    PROVE  Rows'
  BY DEF Rows, ChargedMatchesLines, NeverEmptied, DeliveryDrivesOrder, ReviewedWasDelivered,
         Lines, orderStatusForDelivery

\* A request that has ended has nothing to guard.
LEMMA EndedGuards ==
    ASSUME TypeOK, NEW r \in Requests, Ends(r)
    PROVE  GuardStillHolds(r)'
  BY DEF TypeOK, Ends, Idle, GuardStillHolds

-----------------------------------------------------------------------------
\* The lines are those order_items holds, and an edit of one does not add or drop it.
LEMMA EditKeepsLines ==
    ASSUME TypeOK, NEW r \in Requests, SetItemStatusWrite(r)
    PROVE  Lines' = Lines
  <1>1. req[r].to \in ItemStatuses
    BY DEF TypeOK, SetItemStatusWrite, Awaits
  <1>2. ASSUME NEW i \in Items PROVE line'[i] = "DELETED" <=> line[i] = "DELETED"
    BY <1>1 DEF SetItemStatusWrite, ItemStatuses, Lines, TypeOK
  <1>3. QED
    BY <1>2 DEF Lines

\* acceptChanges drops the unavailable lines, at least one of them, and charges for
\* the rest, at least one too.
LEMMA TrimDropsUnavailable ==
    ASSUME TypeOK, NEW r \in Requests, GuardStillHolds(r), AcceptTrims(r)
    PROVE  /\ charged' = Lines' /\ Lines' # {}
           /\ Lines' \subseteq Lines /\ Lines' # Lines
           /\ status \notin {"CANCELLED", "DELIVERED"}
  <1> DEFINE unavailable == {i \in Items : line[i] = "UNAVAILABLE"}
             confirmed   == {i \in Items : line[i] = "CONFIRMED"}
  <1>1. /\ req[r].op = "acceptChanges" /\ req[r].at = "write" /\ req[r].kept # {}
        /\ charged' = req[r].kept
        /\ line' = [i \in Items |-> IF i \in req[r].lines THEN "DELETED" ELSE line[i]]
    BY DEF AcceptTrims, Awaits
  <1>2. /\ req[r].lines = unavailable /\ unavailable # {} /\ req[r].kept = confirmed
        /\ status \notin {"CANCELLED", "DELIVERED"}
    BY <1>1 DEF GuardStillHolds
  <1>3. ASSUME NEW i \in Items
        PROVE  line'[i] # "DELETED" <=> i \in confirmed
    BY <1>1, <1>2 DEF TypeOK, ItemStatuses
  <1>4. Lines' = confirmed
    BY <1>3 DEF Lines
  <1>5. confirmed \subseteq Lines /\ unavailable \subseteq Lines
    BY DEF Lines
  <1>6. confirmed \cap unavailable = {}
    OBVIOUS
  <1>7. QED
    BY <1>1, <1>2, <1>4, <1>5, <1>6

\* A step of a lone request keeps the rows right and its own guard true.
LEMMA StepSerial ==
    ASSUME SerialInv, NEW r \in Requests, Step(r)
    PROVE  Rows' /\ GuardStillHolds(r)'
  <1> USE DEF SerialInv
  <1>1. Rows /\ GuardStillHolds(r) /\ TypeOK
    BY DEF Rows
  <1>2. CASE CancelWrite(r) \/ MerchantCancelWrite(r) \/ AcceptCancels(r)
    <2>1. CancelOrder(r, "CUSTOMER") \/ CancelOrder(r, "MERCHANT") \/ CancelOrder(r, "SYSTEM")
      BY <1>2 DEF CancelWrite, MerchantCancelWrite, AcceptCancels
    <2>2. status # "DELIVERED"
      BY <1>1, <1>2
      DEF CancelWrite, MerchantCancelWrite, AcceptCancels, Awaits, GuardStillHolds,
          customerCancelAllowed, merchantCancelAllowed, CUSTOMER_FREE_CANCEL,
          CUSTOMER_WARNED_CANCEL, MERCHANT_CANCEL_ALLOWED
    <2>3. QED
      BY <1>1, <2>1, <2>2, EndedGuards
      DEF CancelOrder, Rows, ChargedMatchesLines, NeverEmptied, DeliveryDrivesOrder,
          ReviewedWasDelivered, Lines
  <1>3. CASE ReviewReadReview(r)
    <2>1. Rows'
      BY <1>1, <1>3, RowsKept DEF ReviewReadReview
    <2>2. GuardStillHolds(r)'
      BY <1>1, <1>3, EndedGuards
      DEF ReviewReadReview, Goes, Awaits, GuardStillHolds, TypeOK, Request
    <2>3. QED
      BY <2>1, <2>2
  <1>4. CASE ReviewWrite(r)
    BY <1>1, <1>4, EndedGuards
    DEF ReviewWrite, Awaits, GuardStillHolds, REVIEWABLE_STATUSES, Rows, ChargedMatchesLines,
        NeverEmptied, DeliveryDrivesOrder, ReviewedWasDelivered, Lines
  <1>5. CASE AcceptReadLines(r)
    <2>1. Rows'
      BY <1>1, <1>5, RowsKept DEF AcceptReadLines
    <2> DEFINE unavailable == {i \in Items : line[i] = "UNAVAILABLE"}
               remaining   == {i \in Items : line[i] = "CONFIRMED"}
    <2>2. CASE unavailable = {}
      BY <1>1, <1>5, <2>1, <2>2, EndedGuards DEF AcceptReadLines
    <2>3. CASE unavailable # {}
      <3>1. req' = [req EXCEPT ![r] =
                       [op |-> "acceptChanges", at |-> "write", to |-> "none",
                        lines |-> unavailable, kept |-> remaining]]
        BY <1>5, <2>3 DEF AcceptReadLines
      <3>2. req'[r] = [op |-> "acceptChanges", at |-> "write", to |-> "none",
                       lines |-> unavailable, kept |-> remaining]
        BY <1>1, <3>1 DEF TypeOK
      <3>3. UNCHANGED <<status, line>> /\ status \notin {"CANCELLED", "DELIVERED"}
        BY <1>1, <1>5 DEF AcceptReadLines, Awaits, GuardStillHolds
      <3>4. unavailable' = unavailable /\ remaining' = remaining
        BY <3>3
      <3>5. req'[r].lines = unavailable' /\ req'[r].kept = remaining' /\ unavailable' # {}
        BY <3>2, <3>4, <2>3
      <3>6. req'[r].op = "acceptChanges" /\ req'[r].at = "write"
        BY <3>2
      <3>7. GuardStillHolds(r)'
        BY <3>3, <3>5, <3>6 DEF GuardStillHolds
      <3>8. QED
        BY <2>1, <3>7
    <2>4. QED
      BY <2>2, <2>3
  <1>6. CASE AcceptTrims(r)
    <2>1. ChargedMatchesLines' /\ NeverEmptied'
      BY <1>1, <1>6, TrimDropsUnavailable DEF ChargedMatchesLines, NeverEmptied
    <2>2. DeliveryDrivesOrder' /\ ReviewedWasDelivered'
      BY <1>1, <1>6 DEF AcceptTrims, Rows, DeliveryDrivesOrder, ReviewedWasDelivered
    <2>3. QED
      BY <1>1, <1>6, <2>1, <2>2, EndedGuards DEF Rows, AcceptTrims
  <1>7. CASE MerchantReadOrder(r)
    <2>1. Rows'
      BY <1>1, <1>7, RowsKept DEF MerchantReadOrder
    <2>2. CASE Ends(r)
      BY <1>1, <2>1, <2>2, EndedGuards
    <2>3. CASE AfterOrderRead(req[r].op).allowed /\ Goes(r, AfterOrderRead(req[r].op).next)
      <3>1. req'[r].op = req[r].op /\ req'[r].at = AfterOrderRead(req[r].op).next
        BY <1>1, <2>3 DEF Goes, TypeOK
      <3>2. UNCHANGED <<status, line, delivery>> /\ req[r].op \in MerchantOps
        BY <1>7 DEF MerchantReadOrder
      <3>3. GuardStillHolds(r)'
        BY <2>3, <3>1, <3>2
        DEF AfterOrderRead, GuardStillHolds, MerchantOps, canMoveTo, merchantCancelAllowed,
            canMoveDelivery
      <3>4. QED
        BY <2>1, <3>3
    <2>4. QED
      BY <1>7, <2>2, <2>3 DEF MerchantReadOrder
  <1>8. CASE SetItemStatusReadItem(r)
    <2>1. Rows'
      BY <1>1, <1>8, RowsKept DEF SetItemStatusReadItem
    <2>2. CASE req[r].lines \subseteq Lines
      <3>1. /\ req[r].op = "setItemStatus" /\ req'[r] = [req[r] EXCEPT !.at = "write"]
            /\ status \in ITEM_EDIT_ALLOWED /\ UNCHANGED <<status, Lines>>
        BY <1>1, <1>8, <2>2
        DEF SetItemStatusReadItem, Goes, Awaits, GuardStillHolds, TypeOK, Lines
      <3>2. /\ req'[r].op = "setItemStatus" /\ req'[r].at = "write"
            /\ req'[r].lines = req[r].lines
        BY <1>1, <3>1 DEF TypeOK, Request
      <3>3. GuardStillHolds(r)'
        BY <2>2, <3>1, <3>2 DEF GuardStillHolds
      <3>4. QED
        BY <2>1, <3>3
    <2>3. CASE ~(req[r].lines \subseteq Lines)
      BY <1>1, <1>8, <2>1, <2>3, EndedGuards DEF SetItemStatusReadItem
    <2>4. QED
      BY <2>2, <2>3
  <1>9. CASE SetItemStatusWrite(r)
    <2>1. Lines' = Lines
      BY <1>1, <1>9, EditKeepsLines
    <2>2. QED
      BY <1>1, <1>9, <2>1, EndedGuards
      DEF SetItemStatusWrite, Rows, ChargedMatchesLines, NeverEmptied, DeliveryDrivesOrder,
          ReviewedWasDelivered
  <1>10. CASE ConfirmWrite(r) \/ StartPreparingWrite(r)
    <2>1. \/ status = "PENDING" /\ MoveOrder(r, "CONFIRMED")
          \/ status = "CONFIRMED" /\ MoveOrder(r, "PREPARING")
      BY <1>1, <1>10
      DEF ConfirmWrite, StartPreparingWrite, Awaits, GuardStillHolds, canMoveTo,
          FORWARD_TRANSITIONS, TypeOK, OrderStatuses
    <2>2. status \in {"PENDING", "CONFIRMED"}
      BY <2>1
    <2>3. delivery = "NONE" /\ ~reviewed
      BY <1>1, <2>2
      DEF TypeOK, Rows, DeliveryDrivesOrder, ReviewedWasDelivered, orderStatusForDelivery,
          DeliveryStatuses
    <2>4. status' \in {"CONFIRMED", "PREPARING"}
      BY <1>1, <2>1, <2>2 DEF MoveOrder, CheckAccepts, TypeOK
    <2>5. UNCHANGED <<charged, line, delivery, reviewed>> /\ Ends(r)
      BY <2>1 DEF MoveOrder
    <2>6. QED
      BY <1>1, <2>3, <2>4, <2>5, EndedGuards
      DEF Rows, ChargedMatchesLines, NeverEmptied, DeliveryDrivesOrder,
          ReviewedWasDelivered, Lines
  <1>11. CASE AssignDeliveryReadDelivery(r)
    <2>1. Rows'
      BY <1>1, <1>11, RowsKept DEF AssignDeliveryReadDelivery
    <2>2. GuardStillHolds(r)'
      BY <1>1, <1>11, EndedGuards
      DEF AssignDeliveryReadDelivery, Goes, Awaits, GuardStillHolds, TypeOK, Request
    <2>3. QED
      BY <2>1, <2>2
  <1>12. CASE AssignDeliveryWrite(r)
    <2>1. status = "PREPARING"
      BY <1>1, <1>12
      DEF AssignDeliveryWrite, Awaits, GuardStillHolds, DELIVERY_ASSIGNABLE_FROM
    <2>2. QED
      BY <1>1, <1>12, <2>1, EndedGuards
      DEF AssignDeliveryWrite, Awaits, GuardStillHolds, Rows, ChargedMatchesLines,
          NeverEmptied, DeliveryDrivesOrder, ReviewedWasDelivered, Lines
  <1>13. CASE UpdateDeliveryReadDelivery(r)
    <2>1. Rows'
      BY <1>1, <1>13, RowsKept DEF UpdateDeliveryReadDelivery
    <2>2. GuardStillHolds(r)'
      BY <1>1, <1>13, EndedGuards
      DEF UpdateDeliveryReadDelivery, Goes, Awaits, GuardStillHolds, TypeOK, Request,
          canMoveDelivery
    <2>3. QED
      BY <2>1, <2>2
  <1>14. CASE UpdateDeliveryWrite(r)
    <2>1. req[r].to \in DeliveryTargets
      BY <1>1, <1>14 DEF TypeOK, UpdateDeliveryWrite, Awaits
    <2>2. \/ delivery' = delivery /\ status' = status
          \/ delivery' = req[r].to /\ status' = orderStatusForDelivery(req[r].to)
      BY <1>14, <2>1 DEF UpdateDeliveryWrite, orderStatusForDelivery, DeliveryTargets
    <2>3. canMoveDelivery(delivery, req[r].to) /\ delivery \in DeliveryStatuses
      BY <1>1, <1>14 DEF UpdateDeliveryWrite, Awaits, GuardStillHolds, TypeOK
    <2>4. delivery # "DELIVERED"
      BY <2>1, <2>3 DEF canMoveDelivery, DELIVERY_TRANSITIONS, DeliveryStatuses
    <2>5. ~reviewed
      BY <1>1, <2>3, <2>4 DEF Rows, ReviewedWasDelivered, OrderBackedByDelivery
    <2>6. QED
      BY <1>1, <1>14, <2>1, <2>2, <2>5, EndedGuards
      DEF UpdateDeliveryWrite, Rows, ChargedMatchesLines, NeverEmptied, DeliveryDrivesOrder,
          ReviewedWasDelivered, Lines, orderStatusForDelivery, DeliveryTargets
  <1>15. QED
    BY <1>2, <1>3, <1>4, <1>5, <1>6, <1>7, <1>8, <1>9, <1>10, <1>11, <1>12, <1>13, <1>14
       DEF Step

\* A request that arrives has just checked its first guard.
LEMMA ArrivalSerial ==
    ASSUME SerialInv, NEW r \in Requests, Arrives(r)
    PROVE  Rows' /\ GuardStillHolds(r)'
  <1>1. Rows /\ TypeOK
    BY DEF SerialInv, Rows
  <1>2. CASE CancelRead(r)
    BY <1>1, <1>2, RowsKept DEF CancelRead, Starts, Idle, TypeOK, GuardStillHolds
  <1>3. CASE ReviewReadOrder(r)
    BY <1>1, <1>3, RowsKept DEF ReviewReadOrder, Starts, Idle, TypeOK, GuardStillHolds
  <1>4. CASE AcceptReadOrder(r)
    BY <1>1, <1>4, RowsKept DEF AcceptReadOrder, Starts, Idle, TypeOK, GuardStillHolds
  <1>5. CASE MerchantBegin(r)
    <2>1. ASSUME NEW op, NEW to, NEW lines, MerchantBegins(r, op, to, lines)
          PROVE  Rows' /\ GuardStillHolds(r)'
      BY <1>1, <2>1, RowsKept DEF MerchantBegins, TypeOK, GuardStillHolds
    <2>2. QED
      BY <1>5, <2>1
      DEF MerchantBegin, SetItemStatusBegin, ConfirmBegin, StartPreparingBegin,
          MerchantCancelBegin, AssignDeliveryBegin, UpdateDeliveryBegin
  <1>6. QED
    BY <1>2, <1>3, <1>4, <1>5 DEF Arrives

LEMMA SerialStep ==
    ASSUME OneAtATime, SerialInv, [Next]_vars
    PROVE  SerialInv'
  <1>1. TypeOK' /\ OrderBackedByDelivery'
    BY TypeStep, BackedStep DEF SerialInv
  <1>2. ASSUME NEW r \in Requests, Arrives(r) \/ Step(r) PROVE SerialInv'
    <2>1. Rows' /\ GuardStillHolds(r)'
      BY <1>2, StepSerial, ArrivalSerial
    <2>2. \A s \in Requests : s = r
      BY DEF OneAtATime
    <2>3. QED
      BY <1>1, <2>1, <2>2 DEF SerialInv, Rows
  <1>3. CASE SetMerchantStatus \/ UNCHANGED vars
    <2>1. UNCHANGED <<status, cancelledBy, charged, line, delivery, reviewed, req>>
      BY <1>3 DEF SetMerchantStatus, vars
    <2>2. Rows'
      BY <2>1, RowsKept DEF SerialInv, Rows
    <2>3. ASSUME NEW r \in Requests PROVE GuardStillHolds(r)'
      BY <2>1 DEF SerialInv, GuardStillHolds, Lines
    <2>4. QED
      BY <1>1, <2>2, <2>3 DEF SerialInv, Rows
  <1>4. QED
    BY <1>2, <1>3 DEF Next

-----------------------------------------------------------------------------
\* A step of a lone request is a step of OrderPromise, or leaves it where it is.
LEMMA StepPromise ==
    ASSUME SerialInv, NEW r \in Requests, Step(r)
    PROVE  Promise!Next \/ UNCHANGED <<status, Lines, cancelledBy, reviewed>>
  <1> USE DEF SerialInv
  <1>1. GuardStillHolds(r) /\ TypeOK /\ DeliveryDrivesOrder /\ OrderBackedByDelivery
    OBVIOUS
  <1>2. CASE CancelWrite(r) \/ MerchantCancelWrite(r) \/ AcceptCancels(r)
    <2>1. status \notin {"DELIVERED", "CANCELLED"}
      BY <1>1, <1>2
      DEF CancelWrite, MerchantCancelWrite, AcceptCancels, Awaits, GuardStillHolds,
          customerCancelAllowed, merchantCancelAllowed, CUSTOMER_FREE_CANCEL,
          CUSTOMER_WARNED_CANCEL, MERCHANT_CANCEL_ALLOWED
    <2>2. /\ status' = "CANCELLED" /\ Lines' = Lines
          /\ cancelledBy' \in Cancellers /\ reviewed' = reviewed
      BY <1>2 DEF CancelWrite, MerchantCancelWrite, AcceptCancels, CancelOrder, Lines, Cancellers
    <2>3. QED
      BY <2>1, <2>2
      DEF Promise!Next, Promise!Cancel, Promise!Finished, Promise!Cancellers, Cancellers
  <1>3. CASE AcceptTrims(r)
    <2>1. /\ Lines' # {} /\ Lines' \subseteq Lines /\ Lines' # Lines
          /\ status \notin {"CANCELLED", "DELIVERED"}
      BY <1>1, <1>3, TrimDropsUnavailable
    <2>2. UNCHANGED <<status, cancelledBy, reviewed>>
      BY <1>3 DEF AcceptTrims
    <2>3. QED
      BY <2>1, <2>2 DEF Promise!Next, Promise!Trim, Promise!Finished
  <1>4. CASE SetItemStatusWrite(r)
    BY <1>1, <1>4, EditKeepsLines DEF SetItemStatusWrite
  <1>5. CASE ConfirmWrite(r) \/ StartPreparingWrite(r)
    <2>1. \/ status = "PENDING" /\ MoveOrder(r, "CONFIRMED")
          \/ status = "CONFIRMED" /\ MoveOrder(r, "PREPARING")
      BY <1>1, <1>5
      DEF ConfirmWrite, StartPreparingWrite, Awaits, GuardStillHolds, canMoveTo,
          FORWARD_TRANSITIONS, TypeOK, OrderStatuses
    <2>2. UNCHANGED <<Lines, cancelledBy, reviewed>>
      BY <2>1 DEF MoveOrder, Lines
    <2>3. QED
      BY <2>1, <2>2
      DEF MoveOrder, Promise!Next, Promise!Advance, Promise!FORWARD_TRANSITIONS,
          Promise!OrderStatuses
  <1>6. CASE UpdateDeliveryWrite(r)
    <2>1. Lines' = Lines /\ reviewed' = reviewed
      BY <1>6 DEF UpdateDeliveryWrite, Lines
    <2>2. req[r].to \in DeliveryTargets /\ delivery \in DeliveryStatuses
      BY <1>1, <1>6 DEF TypeOK, UpdateDeliveryWrite, Awaits, GuardStillHolds
    <2>3. canMoveDelivery(delivery, req[r].to)
      BY <1>1, <1>6 DEF UpdateDeliveryWrite, Awaits, GuardStillHolds
    <2>4. CASE status = "CANCELLED"
      <3>1. status' = status /\ cancelledBy' \in {cancelledBy, "SYSTEM"}
        BY <1>1, <1>6, <2>2, <2>4
        DEF UpdateDeliveryWrite, CheckAccepts, orderStatusForDelivery, DeliveryTargets, TypeOK
      <3>2. QED
        BY <2>1, <2>4, <3>1 DEF Promise!Next, Promise!FailLate
    <2>5. CASE status # "CANCELLED"
      <3>1. \/ delivery = "ASSIGNED" /\ status = "PREPARING"
               /\ req[r].to \in {"PICKED_UP", "FAILED"}
            \/ delivery \in {"PICKED_UP", "ON_WAY"} /\ status = "DELIVERING"
               /\ req[r].to \in {"ON_WAY", "DELIVERED", "FAILED"}
        BY <1>1, <2>2, <2>3, <2>5
        DEF canMoveDelivery, DELIVERY_TRANSITIONS, DeliveryDrivesOrder, DeliveryStatuses,
            orderStatusForDelivery
      <3>2. \/ status' = status /\ cancelledBy' = cancelledBy
            \/ /\ status' = orderStatusForDelivery(req[r].to)
               /\ cancelledBy' = IF status' = "CANCELLED" THEN "SYSTEM" ELSE cancelledBy
        BY <1>6, <3>1 DEF UpdateDeliveryWrite, orderStatusForDelivery
      <3>3. QED
        BY <2>1, <3>1, <3>2
        DEF orderStatusForDelivery, Promise!Next, Promise!Advance, Promise!Cancel,
            Promise!Finished, Promise!FORWARD_TRANSITIONS, Promise!OrderStatuses,
            Promise!Cancellers
    <2>6. QED
      BY <2>4, <2>5
  <1>7. CASE ReviewWrite(r)
    BY <1>1, <1>7
    DEF ReviewWrite, Awaits, GuardStillHolds, REVIEWABLE_STATUSES, TypeOK, Lines, Promise!Next,
        Promise!Review
  <1>8. CASE UNCHANGED <<status, line, cancelledBy, reviewed>>
    BY <1>8 DEF Lines
  <1>9. QED
    BY <1>2, <1>3, <1>4, <1>5, <1>6, <1>7, <1>8
    DEF Step, ReviewReadReview, AcceptReadLines, MerchantReadOrder,
        SetItemStatusReadItem, AssignDeliveryReadDelivery, AssignDeliveryWrite,
        UpdateDeliveryReadDelivery

\* Only a delivery that fails writes a canceller over another.
LEMMA StepCanceller ==
    ASSUME SerialInv, NEW r \in Requests, Step(r),
           cancelledBy # "NONE", cancelledBy' # cancelledBy
    PROVE  cancelledBy' = "SYSTEM" /\ delivery # "FAILED" /\ delivery' = "FAILED"
  <1> USE DEF SerialInv
  <1>1. GuardStillHolds(r) /\ status = "CANCELLED"
    BY DEF TypeOK
  <1>2. CASE CancelWrite(r) \/ MerchantCancelWrite(r) \/ AcceptCancels(r)
    BY <1>1, <1>2
    DEF CancelWrite, MerchantCancelWrite, AcceptCancels, Awaits, GuardStillHolds,
        customerCancelAllowed, merchantCancelAllowed, CUSTOMER_FREE_CANCEL,
        CUSTOMER_WARNED_CANCEL, MERCHANT_CANCEL_ALLOWED
  <1>3. CASE UpdateDeliveryWrite(r)
    <2>1. canMoveDelivery(delivery, req[r].to) /\ req[r].to \in DeliveryTargets
      BY <1>1, <1>3 DEF UpdateDeliveryWrite, Awaits, GuardStillHolds, TypeOK
    <2>2. req[r].to = "FAILED" /\ cancelledBy' = "SYSTEM" /\ delivery' = req[r].to
      BY <1>3, <2>1
      DEF UpdateDeliveryWrite, CheckAccepts, orderStatusForDelivery, DeliveryTargets
    <2>3. delivery # "FAILED"
      BY <2>1, <2>2
      DEF canMoveDelivery, DELIVERY_TRANSITIONS, DeliveryStatuses, TypeOK
    <2>4. QED
      BY <2>2, <2>3
  <1>4. QED
    BY <1>2, <1>3
    DEF Step, CancelWrite, MerchantCancelWrite, AcceptCancels, ConfirmWrite, StartPreparingWrite,
        MoveOrder, ReviewReadReview, ReviewWrite, AcceptReadLines, AcceptTrims,
        MerchantReadOrder, SetItemStatusReadItem, SetItemStatusWrite,
        AssignDeliveryReadDelivery, AssignDeliveryWrite, UpdateDeliveryReadDelivery

LEMMA PromiseStep ==
    ASSUME SerialInv, [Next]_vars
    PROVE  [Promise!Next]_<<status, Lines, cancelledBy, reviewed>>
  <1>1. ASSUME NEW r \in Requests, MerchantBegin(r) PROVE UNCHANGED <<status, line, cancelledBy, reviewed>>
    BY <1>1 DEF MerchantBegin, SetItemStatusBegin, ConfirmBegin, StartPreparingBegin,
                MerchantCancelBegin, AssignDeliveryBegin, UpdateDeliveryBegin, MerchantBegins
  <1>2. CASE UNCHANGED <<status, line, cancelledBy, reviewed>>
    BY <1>2 DEF Lines
  <1>3. QED
    BY <1>1, <1>2, StepPromise, StepCases
       DEF SetMerchantStatus, CancelRead, ReviewReadOrder, AcceptReadOrder, vars

-----------------------------------------------------------------------------
(* The same handlers served whole: OrderServer *)

\* A step that leaves the lines alone leaves those two sets.
LEMMA SameLines ==
    ASSUME line' = line
    PROVE  Lines' = Lines /\ OutOfStock' = OutOfStock
  BY DEF Lines, OutOfStock

\* The rows are such a record, before a step and after it.
LEMMA OrderTyped ==
    ASSUME TypeOK, TypeOK'
    PROVE  /\ TheOrder \in Served!Order /\ TheOrder' \in Served!Order
           /\ reviewed \in BOOLEAN /\ reviewed' \in BOOLEAN
  <1>1. Lines \subseteq Items /\ OutOfStock \subseteq Items
    BY DEF Lines, OutOfStock
  <1>2. Lines' \subseteq Items /\ OutOfStock' \subseteq Items
    BY DEF Lines, OutOfStock
  <1>3. TheOrder \in Served!Order
    BY <1>1
    DEF TypeOK, TheOrder, Served!Order, Served!OrderStatuses, Served!Cancellers,
        Served!DeliveryStatuses, OrderStatuses, Cancellers, DeliveryStatuses
  <1>4. TheOrder' \in Served!Order
    BY <1>2
    DEF TypeOK, TheOrder, Served!Order, Served!OrderStatuses, Served!Cancellers,
        Served!DeliveryStatuses, OrderStatuses, Cancellers, DeliveryStatuses
  <1>5. QED
    BY <1>3, <1>4 DEF TypeOK

\* Two orders are the same when their columns are.
LEMMA SameOrder ==
    ASSUME NEW a \in Served!Order, NEW b \in Served!Order,
           a.status = b.status, a.by = b.by, a.delivery = b.delivery,
           a.lines = b.lines, a.out = b.out, a.reviewed = b.reviewed
    PROVE  a = b
  BY DEF Served!Order

\* A cancellation changes two of them.
LEMMA CancelledOrder ==
    ASSUME NEW o \in Served!Order, NEW by \in Served!Cancellers
    PROVE  LET c == Served!Cancelled(o, by)
           IN  /\ c \in Served!Order /\ c.status = "CANCELLED" /\ c.by = by
               /\ c.delivery = o.delivery /\ c.lines = o.lines /\ c.out = o.out
               /\ c.reviewed = o.reviewed
  BY DEF Served!Cancelled, Served!Order, Served!OrderStatuses

\* A request that OrderServer accepts, with its effect, is a step of it.
LEMMA ServedStep ==
    ASSUME NEW q \in Served!Sent, Served!Accepts(TheOrder, q),
           TheOrder' = Served!After(TheOrder, q)
    PROVE  Served!Next
  BY DEF Served!Next, Served!Serves

\* The operations without an argument are requests that may be sent.
LEMMA PlainIsSent ==
    ASSUME NEW op \in {"cancel", "review", "acceptChanges", "confirm", "startPreparing",
                       "merchantCancel", "assignDelivery"}
    PROVE  Served!Plain(op) \in Served!Sent /\ Served!Plain(op).op = op
  BY DEF Served!Plain, Served!Op, Served!Sent, Served!Operations

\* The three cancellations.
LEMMA ServedCancel ==
    ASSUME SerialInv, TypeOK', NEW r \in Requests,
           CancelWrite(r) \/ MerchantCancelWrite(r) \/ AcceptCancels(r)
    PROVE  Served!Next
  <1>1. GuardStillHolds(r) /\ TypeOK /\ TypeOK' /\ NeverEmptied
    BY DEF SerialInv
  <1>2. ASSUME NEW by \in {"CUSTOMER", "MERCHANT", "SYSTEM"}, CancelOrder(r, by)
        PROVE  TheOrder' = Served!Cancelled(TheOrder, by)
    <2>1. /\ status' = "CANCELLED" /\ cancelledBy' = by /\ Lines' = Lines
          /\ OutOfStock' = OutOfStock /\ UNCHANGED <<delivery, reviewed>>
      BY <1>2, SameLines DEF CancelOrder
    <2>2. /\ TheOrder'.status = "CANCELLED" /\ TheOrder'.by = by
          /\ TheOrder'.delivery = TheOrder.delivery /\ TheOrder'.lines = TheOrder.lines
          /\ TheOrder'.out = TheOrder.out /\ TheOrder'.reviewed = TheOrder.reviewed
      BY <2>1 DEF TheOrder
    <2>3. by \in Served!Cancellers
      BY DEF Served!Cancellers
    <2>4. QED
      BY <1>1, <2>2, <2>3, OrderTyped, CancelledOrder, SameOrder
  <1>3. CASE CancelWrite(r)
    <2> DEFINE q == Served!Plain("cancel")
    <2>1. q \in Served!Sent /\ q.op = "cancel"
      BY PlainIsSent
    <2>2. customerCancelAllowed(status) /\ CancelOrder(r, "CUSTOMER")
      BY <1>1, <1>3 DEF CancelWrite, Awaits, GuardStillHolds
    <2> HIDE DEF q
    <2>3. Served!Accepts(TheOrder, q)
      BY <2>1, <2>2
      DEF Served!Accepts, TheOrder, customerCancelAllowed, Served!customerCancelAllowed,
          CUSTOMER_FREE_CANCEL, CUSTOMER_WARNED_CANCEL, Served!CUSTOMER_FREE_CANCEL,
          Served!CUSTOMER_WARNED_CANCEL
    <2>4. Served!After(TheOrder, q) = Served!Cancelled(TheOrder, "CUSTOMER")
      BY <2>1 DEF Served!After
    <2>5. QED
      BY <1>2, <2>1, <2>2, <2>3, <2>4, ServedStep
  <1>4. CASE MerchantCancelWrite(r)
    <2> DEFINE q == Served!Plain("merchantCancel")
    <2>1. q \in Served!Sent /\ q.op = "merchantCancel"
      BY PlainIsSent
    <2>2. merchantCancelAllowed(status) /\ CancelOrder(r, "MERCHANT")
      BY <1>1, <1>4 DEF MerchantCancelWrite, Awaits, GuardStillHolds
    <2> HIDE DEF q
    <2>3. Served!Accepts(TheOrder, q)
      BY <2>1, <2>2
      DEF Served!Accepts, TheOrder, merchantCancelAllowed, Served!merchantCancelAllowed,
          MERCHANT_CANCEL_ALLOWED, Served!MERCHANT_CANCEL_ALLOWED
    <2>4. Served!After(TheOrder, q) = Served!Cancelled(TheOrder, "MERCHANT")
      BY <2>1 DEF Served!After
    <2>5. QED
      BY <1>2, <2>1, <2>2, <2>3, <2>4, ServedStep
  <1>5. CASE AcceptCancels(r)
    <2> DEFINE q == Served!Plain("acceptChanges")
    <2>1. q \in Served!Sent /\ q.op = "acceptChanges"
      BY PlainIsSent
    <2>2. /\ status \notin {"CANCELLED", "DELIVERED"} /\ CancelOrder(r, "SYSTEM")
          /\ OutOfStock # {} /\ {i \in Items : line[i] = "CONFIRMED"} = {}
      BY <1>1, <1>5 DEF AcceptCancels, Awaits, GuardStillHolds, OutOfStock
    <2>3. OutOfStock = Lines
      BY <1>1, <2>2 DEF OutOfStock, Lines, TypeOK, ItemStatuses
    <2> HIDE DEF q
    <2>4. Served!Accepts(TheOrder, q)
      BY <2>1, <2>2 DEF Served!Accepts, TheOrder
    <2>5. Served!After(TheOrder, q) = Served!Trimmed(TheOrder)
      BY <2>1 DEF Served!After
    <2>6. Served!Trimmed(TheOrder) = Served!Cancelled(TheOrder, "SYSTEM")
      BY <2>3 DEF Served!Trimmed, TheOrder
    <2>7. QED
      BY <1>2, <2>1, <2>2, <2>4, <2>5, <2>6, ServedStep
  <1>6. QED
    BY <1>3, <1>4, <1>5

\* What the two apps do to an order's lines.
LEMMA ServedLines ==
    ASSUME SerialInv, NEW r \in Requests, AcceptTrims(r) \/ SetItemStatusWrite(r)
    PROVE  Served!Next
  <1>1. GuardStillHolds(r) /\ TypeOK
    BY DEF SerialInv
  <1>2. CASE AcceptTrims(r)
    <2> DEFINE q == Served!Plain("acceptChanges")
               confirmed == {i \in Items : line[i] = "CONFIRMED"}
    <2>1. q \in Served!Sent /\ q.op = "acceptChanges"
      BY PlainIsSent
    <2>2. /\ status \notin {"CANCELLED", "DELIVERED"} /\ OutOfStock # {} /\ confirmed # {}
          /\ line' = [i \in Items |-> IF i \in OutOfStock THEN "DELETED" ELSE line[i]]
          /\ UNCHANGED <<status, cancelledBy, delivery, reviewed>>
      BY <1>1, <1>2 DEF AcceptTrims, Awaits, GuardStillHolds, OutOfStock
    <2>3. OutOfStock # Lines
      BY <2>2 DEF OutOfStock, Lines
    <2>4. \A i \in Items : line'[i] = IF i \in OutOfStock THEN "DELETED" ELSE line[i]
      BY <2>2
    <2>5. Lines' = Lines \ OutOfStock
      BY <2>4 DEF Lines, OutOfStock
    <2>6. OutOfStock' = {}
      BY <2>4 DEF OutOfStock
    <2>7. TheOrder' = [status |-> status, by |-> cancelledBy, delivery |-> delivery,
                       lines |-> Lines \ OutOfStock, out |-> {}, reviewed |-> reviewed]
      BY <2>2, <2>5, <2>6 DEF TheOrder
    <2> HIDE DEF q
    <2>8. Served!Accepts(TheOrder, q)
      BY <2>1, <2>2 DEF Served!Accepts, TheOrder
    <2>9. Served!After(TheOrder, q) = Served!Trimmed(TheOrder)
      BY <2>1 DEF Served!After
    <2>10. Served!Trimmed(TheOrder)
             = [status |-> status, by |-> cancelledBy, delivery |-> delivery,
                lines |-> Lines \ OutOfStock, out |-> {}, reviewed |-> reviewed]
      BY <2>3 DEF Served!Trimmed, TheOrder
    <2>11. QED
      BY <2>1, <2>7, <2>8, <2>9, <2>10, ServedStep
  <1>3. CASE SetItemStatusWrite(r)
    <2>1. PICK i \in Items : req[r].lines = {i}
      BY <1>1, <1>3 DEF TypeOK, SetItemStatusWrite, Awaits
    <2> DEFINE to == req[r].to
               q == Served!Op("setItemStatus", to, i)
               out == IF to = "UNAVAILABLE" THEN OutOfStock \cup {i} ELSE OutOfStock \ {i}
    <2>2. to \in ItemStatuses /\ status \in ITEM_EDIT_ALLOWED /\ i \in Lines
      BY <1>1, <1>3, <2>1 DEF TypeOK, SetItemStatusWrite, Awaits, GuardStillHolds
    <2>3. /\ q \in Served!Sent
          /\ q.op = "setItemStatus" /\ q.to = to /\ q.item = i
      BY <2>2 DEF Served!Sent, Served!Op, Served!ItemStatuses, ItemStatuses
    <2>4. \A j \in Items : line'[j] = IF j = i THEN to ELSE line[j]
      BY <1>3, <2>1, <2>2 DEF SetItemStatusWrite
    <2>5. OutOfStock' = out
      <3>1. \A j \in Items : j \in OutOfStock' <=> j \in out
        BY <2>2, <2>4 DEF OutOfStock, ItemStatuses
      <3>2. OutOfStock' \subseteq Items /\ out \subseteq Items
        BY DEF OutOfStock
      <3>3. QED
        BY <3>1, <3>2
    <2>6. Lines' = Lines /\ UNCHANGED <<status, cancelledBy, delivery, reviewed>>
      BY <1>1, <1>3, EditKeepsLines DEF SetItemStatusWrite
    <2>7. TheOrder' = [TheOrder EXCEPT !.out = out]
      BY <2>5, <2>6 DEF TheOrder
    <2> HIDE DEF q
    <2>8. Served!Accepts(TheOrder, q)
      BY <2>2, <2>3
      DEF Served!Accepts, TheOrder, ITEM_EDIT_ALLOWED, Served!ITEM_EDIT_ALLOWED
    <2>9. Served!After(TheOrder, q) = [TheOrder EXCEPT !.out = out]
      BY <2>3 DEF Served!After, TheOrder
    <2>10. QED
      BY <2>3, <2>7, <2>8, <2>9, ServedStep
  <1>4. QED
    BY <1>2, <1>3

\* The handlers that move the order or its delivery one status on, and the review.
LEMMA ServedMoves ==
    ASSUME SerialInv, TypeOK', NEW r \in Requests,
           ConfirmWrite(r) \/ StartPreparingWrite(r) \/ AssignDeliveryWrite(r) \/ ReviewWrite(r)
    PROVE  Served!Next \/ UNCHANGED TheOrder
  <1>1. GuardStillHolds(r) /\ TypeOK /\ TypeOK'
    BY DEF SerialInv
  <1>2. ASSUME NEW op \in {"confirm", "startPreparing"}, NEW to \in {"CONFIRMED", "PREPARING"},
               op = "confirm" <=> to = "CONFIRMED", canMoveTo(status, to), MoveOrder(r, to)
        PROVE  Served!Next
    <2> DEFINE q == Served!Plain(op)
    <2>1. q \in Served!Sent /\ q.op = op
      BY PlainIsSent
    <2>2. status # "CANCELLED"
      BY <1>2 DEF canMoveTo, FORWARD_TRANSITIONS, OrderStatuses
    <2>3. TheOrder' = [TheOrder EXCEPT !.status = to]
      <3>1. /\ status' = to /\ Lines' = Lines /\ OutOfStock' = OutOfStock
            /\ UNCHANGED <<cancelledBy, delivery, reviewed>>
        BY <1>1, <1>2, <2>2, SameLines DEF MoveOrder, CheckAccepts, TypeOK
      <3>2. QED
        BY <3>1 DEF TheOrder
    <2> HIDE DEF q
    <2>4. Served!canMoveTo(status, to)
      BY <1>2
      DEF canMoveTo, FORWARD_TRANSITIONS, OrderStatuses, Served!canMoveTo,
          Served!FORWARD_TRANSITIONS, Served!OrderStatuses
    <2>5. Served!Accepts(TheOrder, q)
      BY <1>2, <2>1, <2>4 DEF Served!Accepts, TheOrder
    <2>6. Served!After(TheOrder, q) = [TheOrder EXCEPT !.status = to]
      BY <1>2, <2>1 DEF Served!After
    <2>7. QED
      BY <2>1, <2>3, <2>5, <2>6, ServedStep
  <1>3. CASE ConfirmWrite(r) \/ StartPreparingWrite(r)
    <2>1. \/ canMoveTo(status, "CONFIRMED") /\ MoveOrder(r, "CONFIRMED")
          \/ canMoveTo(status, "PREPARING") /\ MoveOrder(r, "PREPARING")
      BY <1>1, <1>3 DEF ConfirmWrite, StartPreparingWrite, Awaits, GuardStillHolds
    <2>2. QED
      BY <1>2, <2>1
  <1>4. CASE AssignDeliveryWrite(r)
    <2> DEFINE q == Served!Plain("assignDelivery")
    <2>1. q \in Served!Sent /\ q.op = "assignDelivery"
      BY PlainIsSent
    <2>2. status \in DELIVERY_ASSIGNABLE_FROM /\ delivery = "NONE"
      BY <1>1, <1>4 DEF AssignDeliveryWrite, Awaits, GuardStillHolds
    <2>3. TheOrder' = [TheOrder EXCEPT !.delivery = "ASSIGNED"]
      <3>1. /\ delivery' = "ASSIGNED" /\ Lines' = Lines /\ OutOfStock' = OutOfStock
            /\ UNCHANGED <<status, cancelledBy, reviewed>>
        BY <1>4, <2>2, SameLines DEF AssignDeliveryWrite
      <3>2. QED
        BY <3>1 DEF TheOrder
    <2> HIDE DEF q
    <2>4. Served!Accepts(TheOrder, q)
      BY <2>1, <2>2
      DEF Served!Accepts, TheOrder, DELIVERY_ASSIGNABLE_FROM, Served!DELIVERY_ASSIGNABLE_FROM
    <2>5. Served!After(TheOrder, q) = [TheOrder EXCEPT !.delivery = "ASSIGNED"]
      BY <2>1 DEF Served!After
    <2>6. QED
      BY <2>1, <2>3, <2>4, <2>5, ServedStep
  <1>5. CASE ReviewWrite(r)
    <2> DEFINE q == Served!Plain("review")
    <2>1. q \in Served!Sent /\ q.op = "review"
      BY PlainIsSent
    <2>2. status \in REVIEWABLE_STATUSES /\ reviewed \in BOOLEAN
      BY <1>1, <1>5 DEF ReviewWrite, Awaits, GuardStillHolds, TypeOK
    <2> DEFINE after == [TheOrder EXCEPT !.reviewed = TRUE]
    <2>3. TheOrder' = after
      <3>1. /\ reviewed' = TRUE /\ Lines' = Lines /\ OutOfStock' = OutOfStock
            /\ UNCHANGED <<status, cancelledBy, delivery>>
        BY <1>5, SameLines DEF ReviewWrite
      <3>2. /\ TheOrder'.status = TheOrder.status /\ TheOrder'.by = TheOrder.by
            /\ TheOrder'.delivery = TheOrder.delivery /\ TheOrder'.lines = TheOrder.lines
            /\ TheOrder'.out = TheOrder.out /\ TheOrder'.reviewed = TRUE
        BY <3>1 DEF TheOrder
      <3>3. /\ after \in Served!Order /\ after.status = TheOrder.status /\ after.by = TheOrder.by
            /\ after.delivery = TheOrder.delivery /\ after.lines = TheOrder.lines
            /\ after.out = TheOrder.out /\ after.reviewed = TRUE
        BY <1>1, OrderTyped DEF Served!Order
      <3> HIDE DEF after
      <3>4. QED
        BY <1>1, <3>2, <3>3, OrderTyped, SameOrder
    <2> HIDE DEF q
    <2>4. CASE reviewed = TRUE
      <3>1. UNCHANGED <<status, cancelledBy, delivery, Lines, OutOfStock, reviewed>>
        BY <1>5, <2>4, SameLines DEF ReviewWrite
      <3>2. QED
        BY <3>1 DEF TheOrder
    <2>5. CASE reviewed = FALSE
      <3>1. Served!Accepts(TheOrder, q)
        BY <2>1, <2>2, <2>5
        DEF Served!Accepts, TheOrder, REVIEWABLE_STATUSES, Served!REVIEWABLE_STATUSES
      <3>2. Served!After(TheOrder, q) = after
        BY <2>1 DEF Served!After
      <3>3. QED
        BY <2>1, <2>3, <3>1, <3>2, ServedStep
    <2>6. QED
      BY <2>2, <2>4, <2>5
  <1>6. QED
    BY <1>3, <1>4, <1>5

\* The driver's steps: served, or rolled back by the CHECK and so without effect.
LEMMA ServedDelivery ==
    ASSUME SerialInv, TypeOK', NEW r \in Requests, UpdateDeliveryWrite(r)
    PROVE  Served!Next \/ UNCHANGED TheOrder
  <1> DEFINE to == req[r].to
             q == Served!Op("updateDelivery", to, "none")
             derived == orderStatusForDelivery(to)
             moved == [TheOrder EXCEPT !.delivery = to]
  <1>1. GuardStillHolds(r) /\ TypeOK /\ TypeOK'
    BY DEF SerialInv
  <1>2. /\ to \in DeliveryTargets /\ delivery # "NONE" /\ delivery \in DeliveryStatuses
        /\ canMoveDelivery(delivery, to)
    BY <1>1 DEF UpdateDeliveryWrite, Awaits, GuardStillHolds, TypeOK
  <1>3. q \in Served!Sent /\ q.op = "updateDelivery" /\ q.to = to
    <2>1. to \in Served!DeliveryStatuses \ {"ASSIGNED"}
      BY <1>2 DEF Served!DeliveryStatuses, DeliveryTargets
    <2>2. QED
      BY <2>1 DEF Served!Sent, Served!Op
  <1>4. /\ derived \in {"DELIVERING", "DELIVERED", "CANCELLED"}
        /\ derived = "CANCELLED" <=> to = "FAILED"
        /\ Served!orderStatusForDelivery(to) = derived
    BY <1>2 DEF orderStatusForDelivery, Served!orderStatusForDelivery, DeliveryTargets
  <1>5. Served!canMoveDelivery(delivery, to)
    BY <1>2
    DEF canMoveDelivery, DELIVERY_TRANSITIONS, DeliveryStatuses, Served!canMoveDelivery,
        Served!DELIVERY_TRANSITIONS, Served!DeliveryStatuses
  <1>6. Lines' = Lines /\ OutOfStock' = OutOfStock /\ reviewed' = reviewed
    BY DEF UpdateDeliveryWrite, Lines, OutOfStock
  <1>7. Served!After(TheOrder, q) = Served!Delivered(TheOrder, to)
    BY <1>3 DEF Served!After
  <1> HIDE DEF q, to
  <1>8. /\ moved \in Served!Order /\ moved.status = TheOrder.status /\ moved.by = TheOrder.by
         /\ moved.delivery = to /\ moved.lines = TheOrder.lines /\ moved.out = TheOrder.out
         /\ moved.reviewed = TheOrder.reviewed
    BY <1>1, <1>2, OrderTyped DEF Served!Order, Served!DeliveryStatuses, DeliveryTargets
  <1> HIDE DEF moved
  <1>9. CASE derived = "CANCELLED"
    <2>1. delivery' = to /\ status' = "CANCELLED" /\ cancelledBy' = "SYSTEM"
      BY <1>9 DEF UpdateDeliveryWrite, CheckAccepts, to
    <2>2. /\ TheOrder'.status = "CANCELLED" /\ TheOrder'.by = "SYSTEM" /\ TheOrder'.delivery = to
          /\ TheOrder'.lines = TheOrder.lines /\ TheOrder'.out = TheOrder.out
          /\ TheOrder'.reviewed = TheOrder.reviewed
      BY <1>6, <2>1 DEF TheOrder
    <2>3. Served!Delivered(TheOrder, to) = Served!Cancelled(moved, "SYSTEM")
      BY <1>4, <1>9 DEF Served!Delivered, moved
    <2> DEFINE after == Served!Cancelled(moved, "SYSTEM")
    <2>4. after = TheOrder'
      <3>1. /\ after \in Served!Order /\ after.status = "CANCELLED" /\ after.by = "SYSTEM"
            /\ after.delivery = to /\ after.lines = TheOrder.lines /\ after.out = TheOrder.out
            /\ after.reviewed = TheOrder.reviewed
        BY <1>8, CancelledOrder DEF Served!Cancellers
      <3> HIDE DEF after
      <3>2. QED
        BY <1>1, <2>2, <3>1, OrderTyped, SameOrder
    <2>5. Served!Accepts(TheOrder, q)
      BY <1>2, <1>3, <1>4, <1>5, <1>9 DEF Served!Accepts, Served!DeliveryMoves, TheOrder
    <2>6. QED
      BY <1>3, <1>7, <2>3, <2>4, <2>5, ServedStep
  <1>10. CASE derived # "CANCELLED" /\ status # "CANCELLED"
    <2>1. delivery' = to /\ status' = derived /\ cancelledBy' = cancelledBy
      BY <1>1, <1>4, <1>10 DEF UpdateDeliveryWrite, CheckAccepts, TypeOK, to
    <2>2. /\ TheOrder'.status = derived /\ TheOrder'.by = TheOrder.by /\ TheOrder'.delivery = to
          /\ TheOrder'.lines = TheOrder.lines /\ TheOrder'.out = TheOrder.out
          /\ TheOrder'.reviewed = TheOrder.reviewed
      BY <1>6, <2>1 DEF TheOrder
    <2> DEFINE after == [moved EXCEPT !.status = derived]
    <2>3. Served!Delivered(TheOrder, to) = after
      BY <1>4, <1>10 DEF Served!Delivered, moved
    <2>4. after = TheOrder'
      <3>1. /\ after \in Served!Order /\ after.status = derived /\ after.by = TheOrder.by
            /\ after.delivery = to /\ after.lines = TheOrder.lines /\ after.out = TheOrder.out
            /\ after.reviewed = TheOrder.reviewed
        BY <1>4, <1>8 DEF Served!Order, Served!OrderStatuses
      <3> HIDE DEF after
      <3>2. QED
        BY <1>1, <2>2, <3>1, OrderTyped, SameOrder
    <2>5. Served!Accepts(TheOrder, q)
      BY <1>2, <1>3, <1>4, <1>5, <1>10 DEF Served!Accepts, Served!DeliveryMoves, TheOrder
    <2>6. QED
      BY <1>3, <1>7, <2>3, <2>4, <2>5, ServedStep
  <1>11. CASE derived # "CANCELLED" /\ status = "CANCELLED"
    <2>1. UNCHANGED <<delivery, status, cancelledBy>>
      BY <1>1, <1>4, <1>11 DEF UpdateDeliveryWrite, CheckAccepts, TypeOK, to
    <2>2. QED
      BY <1>6, <2>1 DEF TheOrder
  <1>12. QED
    BY <1>9, <1>10, <1>11

\* Every step of a lone request is one of OrderServer's, or reads only.
LEMMA ServedNext ==
    ASSUME SerialInv, [Next]_vars
    PROVE  [Served!Next]_TheOrder
  <1>1. CASE UNCHANGED <<status, line, cancelledBy, delivery, reviewed>>
    BY <1>1 DEF TheOrder, Lines, OutOfStock
  <1>2. ASSUME NEW r \in Requests, MerchantBegin(r)
        PROVE  UNCHANGED <<status, line, cancelledBy, delivery, reviewed>>
    BY <1>2 DEF MerchantBegin, SetItemStatusBegin, ConfirmBegin, StartPreparingBegin,
                MerchantCancelBegin, AssignDeliveryBegin, UpdateDeliveryBegin, MerchantBegins
  <1>3. ASSUME NEW r \in Requests, Step(r) PROVE [Served!Next]_TheOrder
    <2>1. \/ CancelWrite(r) \/ MerchantCancelWrite(r) \/ AcceptCancels(r)
          \/ AcceptTrims(r) \/ SetItemStatusWrite(r)
          \/ ConfirmWrite(r) \/ StartPreparingWrite(r) \/ AssignDeliveryWrite(r) \/ ReviewWrite(r)
          \/ UpdateDeliveryWrite(r)
          \/ UNCHANGED <<status, line, cancelledBy, delivery, reviewed>>
      BY <1>3
      DEF Step, ReviewReadReview, AcceptReadLines, MerchantReadOrder, SetItemStatusReadItem,
          AssignDeliveryReadDelivery, UpdateDeliveryReadDelivery
    <2>2. TypeOK'
      BY TypeStep DEF SerialInv
    <2>3. QED
      BY <1>1, <2>1, <2>2, ServedCancel, ServedLines, ServedMoves, ServedDelivery
  <1>4. QED
    BY <1>1, <1>2, <1>3, StepCases
    DEF SetMerchantStatus, CancelRead, ReviewReadOrder, AcceptReadOrder, vars

-----------------------------------------------------------------------------
\* When requests do not overlap, what each one checked still holds at its write.
THEOREM SerialInvariant == ASSUME OneAtATime PROVE Spec => []SerialInv
  <1>1. SerialInv /\ [Next]_vars => SerialInv'
    BY SerialStep
  <1>2. QED
    BY <1>1, SerialInit, PTL DEF Spec

\* Then the customer pays for exactly the lines the order still has,
THEOREM ChargedMatchesLinesHolds == ASSUME OneAtATime PROVE Spec => []ChargedMatchesLines
  BY SerialInvariant, PTL DEF SerialInv

\* it never loses its last line,
THEOREM NeverEmptiedHolds == ASSUME OneAtATime PROVE Spec => []NeverEmptied
  BY SerialInvariant, PTL DEF SerialInv

\* its status is the one its delivery implies until it is cancelled,
THEOREM DeliveryDrivesOrderHolds == ASSUME OneAtATime PROVE Spec => []DeliveryDrivesOrder
  BY SerialInvariant, PTL DEF SerialInv

\* only a delivered order is reviewed, and it is never cancelled afterwards,
THEOREM ReviewedWasDeliveredHolds == ASSUME OneAtATime PROVE Spec => []ReviewedWasDelivered
  BY SerialInvariant, PTL DEF SerialInv

\* and the handlers implement the promise of OrderPromise: stages in order, a
\* cancellation only before the end and by someone who stays named, a basket that
\* shrinks and never empties, a review once it has arrived.
THEOREM KeepsPromiseHolds == ASSUME OneAtATime PROVE Spec => KeepsPromise
  <1>1. Init => Promise!Init
    BY DEF Init, Promise!Init, Lines
  <1>2. QED
    BY <1>1, SerialInvariant, PromiseStep, PTL DEF Spec, KeepsPromise, Promise!Spec

\* And nothing is lost by modelling each handler as a single step: every behaviour of the
\* interrupted handlers is one of an order served whole, request by request, as the screens meet it.
THEOREM ServedAsOneHolds == ASSUME OneAtATime PROVE Spec => ServedAsOne
  <1>1. Init => Served!Init
    <2> SUFFICES ASSUME Init PROVE Served!Init
      OBVIOUS
    <2>1. Lines = Items /\ OutOfStock = {}
      BY DEF Init, Lines, OutOfStock
    <2>2. QED
      BY <2>1 DEF Init, Served!Init, Served!NewOrder, TheOrder
  <1>2. SerialInv /\ [Next]_vars => [Served!Next]_TheOrder
    BY ServedNext
  <1>3. QED
    BY <1>1, <1>2, SerialInvariant, PTL DEF Spec, ServedAsOne, Served!Spec

\* Whatever interleaved, an order that is not over can still be taken on by its shop: confirmed,
\* started, cancelled while it is picked, or handed over once it is on its way.
THEOREM NeverStrandedHolds == Spec => []NeverStranded
  <1>1. ASSUME TypeOK, OrderBackedByDelivery, status \notin {"DELIVERED", "CANCELLED"}
        PROVE  \E q \in Served!Sent : /\ q.op \in MerchantOps /\ Served!Accepts(TheOrder, q)
                                      /\ Served!After(TheOrder, q).status # status
    <2>1. ASSUME NEW op \in {"confirm", "startPreparing", "merchantCancel"},
                 /\ op = "confirm" => status = "PENDING"
                 /\ op = "startPreparing" => status = "CONFIRMED"
                 /\ op = "merchantCancel" => status = "PREPARING"
          PROVE  /\ Served!Accepts(TheOrder, Served!Plain(op))
                 /\ Served!After(TheOrder, Served!Plain(op)).status # status
      <3> DEFINE q == Served!Plain(op)
      <3>1. q.op = op
        BY PlainIsSent
      <3> HIDE DEF q
      <3>2. Served!Accepts(TheOrder, q)
        BY <2>1, <3>1
        DEF Served!Accepts, TheOrder, Served!canMoveTo, Served!FORWARD_TRANSITIONS,
            Served!OrderStatuses, Served!merchantCancelAllowed, Served!MERCHANT_CANCEL_ALLOWED
      <3>3. Served!After(TheOrder, q).status # status
        BY <2>1, <3>1 DEF Served!After, Served!Cancelled, TheOrder
      <3>4. QED
        BY <3>2, <3>3 DEF q
    <2>2. CASE status \in {"PENDING", "CONFIRMED", "PREPARING"}
      <3>1. PICK op \in {"confirm", "startPreparing", "merchantCancel"} :
                   /\ op = "confirm" => status = "PENDING"
                   /\ op = "startPreparing" => status = "CONFIRMED"
                   /\ op = "merchantCancel" => status = "PREPARING"
        BY <2>2
      <3>2. Served!Plain(op) \in Served!Sent /\ Served!Plain(op).op \in MerchantOps
        BY PlainIsSent DEF MerchantOps
      <3>3. QED
        BY <2>1, <3>1, <3>2
    <2>3. CASE status = "DELIVERING"
      <3> DEFINE q == Served!Op("updateDelivery", "DELIVERED", "none")
      <3>1. q \in Served!Sent /\ q.op = "updateDelivery" /\ q.to = "DELIVERED"
        <4>1. "DELIVERED" \in Served!DeliveryStatuses \ {"ASSIGNED"}
          BY DEF Served!DeliveryStatuses
        <4>2. QED
          BY <4>1 DEF Served!Sent, Served!Op
      <3>2. delivery \in {"PICKED_UP", "ON_WAY"}
        BY <1>1, <2>3 DEF OrderBackedByDelivery
      <3>3. Served!orderStatusForDelivery("DELIVERED") = "DELIVERED"
        BY DEF Served!orderStatusForDelivery
      <3> HIDE DEF q
      <3>4. Served!Accepts(TheOrder, q)
        BY <2>3, <3>1, <3>2, <3>3
        DEF Served!Accepts, Served!DeliveryMoves, TheOrder, Served!canMoveDelivery,
            Served!DELIVERY_TRANSITIONS, Served!DeliveryStatuses
      <3>5. Served!After(TheOrder, q).status = "DELIVERED"
        BY <3>1, <3>3 DEF Served!After, Served!Delivered, TheOrder
      <3>6. QED
        BY <2>3, <3>1, <3>4, <3>5 DEF MerchantOps
    <2>4. QED
      BY <1>1, <2>2, <2>3 DEF TypeOK, OrderStatuses
  <1>2. TypeOK /\ OrderBackedByDelivery => NeverStranded
    BY <1>1 DEF NeverStranded
  <1>3. QED
    BY <1>2, TypeInvariant, OrderBackedByDeliveryHolds, PTL

\* Who cancelled the order stands until a delivery of it fails.
THEOREM CancellerStandsHolds == ASSUME OneAtATime PROVE Spec => CancellerStands
  <1>1. ASSUME SerialInv, [Next]_vars, cancelledBy # "NONE", cancelledBy' # cancelledBy
        PROVE  cancelledBy' = "SYSTEM" /\ delivery # "FAILED" /\ delivery' = "FAILED"
    <2>1. ASSUME NEW r \in Requests, MerchantBegin(r) PROVE UNCHANGED cancelledBy
      BY <2>1 DEF MerchantBegin, SetItemStatusBegin, ConfirmBegin, StartPreparingBegin,
                  MerchantCancelBegin, AssignDeliveryBegin, UpdateDeliveryBegin, MerchantBegins
    <2>2. QED
      BY <1>1, <2>1, StepCanceller, StepCases
         DEF SetMerchantStatus, CancelRead, ReviewReadOrder, AcceptReadOrder, vars
  <1>2. SerialInv /\ [Next]_vars
          => [cancelledBy # "NONE" /\ cancelledBy' # cancelledBy =>
                cancelledBy' = "SYSTEM" /\ delivery # "FAILED" /\ delivery' = "FAILED"]_vars
    BY <1>1
  <1>3. QED
    BY <1>2, SerialInvariant, PTL DEF Spec, CancellerStands

-----------------------------------------------------------------------------
(* The alerts of OrderEscalation, for every pair of thresholds, every    *)
(* lag of the wall clock and any number of timers, sweeps and restarts.  *)
(* The map `announced` is what keeps them apart: while the order is      *)
(* pending it remembers exactly the last alert, because the only `clear` *)
(* that could forget it needs a level of 0, and the level of a pending   *)
(* order never falls.                                                    *)

\* What `announced` says of the alerts already sent.
RemembersLastAlert ==
    orderStatus = "PENDING" =>
        /\ announced = 0 => alerts = <<>>
        /\ announced = 1 => alerts = <<1>>
        /\ announced = 2 => alerts = <<2>> \/ alerts = <<1, 2>>

\* An answer that is not PENDING is not out of date: nothing becomes pending again.
AnswersStand ==
    \A c \in Calls : orderStatus = "PENDING" => call[c].seen = "PENDING"

EscalationInv ==
    /\ EscalationTypeOK /\ AnnouncedIsDue
    /\ RemembersLastAlert /\ AnswersStand
    /\ confirming = "clear" => orderStatus # "PENDING"

Statuses == {"PENDING", "CONFIRMED", "CANCELLED"}

LEMMA LevelRange ==
    \A s, now : escalationLevel(s, now) \in 0..2
  BY DEF escalationLevel

\* The level of a pending order never falls as it ages.
LEMMA LevelGrows ==
    ASSUME NEW now \in Nat, NEW later \in Nat, now <= later
    PROVE  escalationLevel("PENDING", now) <= escalationLevel("PENDING", later)
  BY ThresholdsAssumption, BoundsAssumption DEF escalationLevel, ESCALATABLE_STATUSES

\* An alert that goes out passes the level remembered before it.
LEMMA LevelDerived ==
    ASSUME NEW s \in Statuses, NEW now \in Nat, escalationLevel(s, now) # 0
    PROVE  s = "PENDING"
  BY DEF escalationLevel, ESCALATABLE_STATUSES, Statuses

LEMMA Append12 == Append(<<1>>, 2) = <<1, 2>>
  <1>1. Append(<<1>>, 2) = [i \in 1..2 |-> IF i = 2 THEN 2 ELSE 1]
    OBVIOUS
  <1>2. <<1, 2>> = [i \in 1..2 |-> IF i = 2 THEN 2 ELSE 1]
    OBVIOUS
  <1>3. QED
    BY <1>1, <1>2

LEMMA InitEscalation == EscalationInit => EscalationInv
  <1> SUFFICES ASSUME EscalationInit PROVE EscalationInv
    OBVIOUS
  <1>1. Unarmed \in Nat /\ Unarmed >= 1
    BY ThresholdsAssumption, BoundsAssumption DEF Unarmed
  <1>2. timers \in [Levels -> 1..Unarmed] /\ age \in 0..MaxAge /\ restarts \in 0..MaxRestarts
    BY <1>1, BoundsAssumption DEF EscalationInit, Levels
  <1>3. \A c \in Calls : call[c] = NoCall
    BY DEF EscalationInit
  <1>4. NoCall \in [at : {"idle", "list", "read", "judge"}, now : 0..MaxAge, level : 0..2,
                    seen : Statuses]
    BY BoundsAssumption DEF NoCall, Look, Statuses
  <1>5. EscalationTypeOK
    <2>1. alerts \in Seq(Levels) /\ call \in [Calls -> [at : {"idle", "list", "read", "judge"},
                                 now : 0..MaxAge, level : 0..2, seen : Statuses]]
      BY <1>4 DEF EscalationInit
    <2>2. ignored \in BOOLEAN /\ check \in {"none", "empty", "listed"}
      BY DEF EscalationInit
    <2>3. QED
      BY <1>2, <2>1, <2>2 DEF EscalationInit, EscalationTypeOK, Statuses
  <1>6. AnnouncedIsDue
    BY LevelRange DEF EscalationInit, AnnouncedIsDue
  <1>7. QED
    BY <1>3, <1>5, <1>6 DEF EscalationInit, EscalationInv, RemembersLastAlert, AnswersStand, NoCall,
                            Look

LEMMA StepEscalation ==
    EscalationInv /\ [EscalationNext]_escalationVars => EscalationInv'
  <1> SUFFICES ASSUME EscalationInv, [EscalationNext]_escalationVars PROVE EscalationInv'
    OBVIOUS
  <1> USE DEF screen
  <1> DEFINE Call == [at : {"idle", "list", "read", "judge"}, now : 0..MaxAge,
                      level : 0..2, seen : Statuses]
  <1>1. /\ age \in Nat /\ MaxAge \in Nat /\ age <= MaxAge /\ announced \in 0..2
        /\ Unarmed \in Nat /\ Unarmed > MaxAge + First /\ Unarmed > MaxAge + Admin
        /\ call \in [Calls -> Call] /\ NoCall \in Call /\ Unarmed \in 1..Unarmed
    BY ThresholdsAssumption, BoundsAssumption
       DEF EscalationInv, EscalationTypeOK, Unarmed, Statuses, NoCall, Look
  <1>2. CASE Tick
    <2>1. age' \in 0..MaxAge /\ age' \in Nat /\ age <= age'
      BY <1>1, <1>2 DEF Tick
    <2>2. EscalationTypeOK'
      BY <1>2, <2>1 DEF Tick, EscalationInv, EscalationTypeOK
    <2>3. escalationLevel("PENDING", age) <= escalationLevel("PENDING", age')
      BY <1>1, <2>1, LevelGrows
    <2>4. AnnouncedIsDue'
      BY <1>1, <1>2, <2>3, LevelRange DEF Tick, EscalationInv, AnnouncedIsDue
    <2>5. QED
      BY <1>2, <2>2, <2>4 DEF Tick, EscalationInv, RemembersLastAlert, AnswersStand
  <1>3. CASE watchNewOrder
    <2>1. timers' \in [Levels -> 1..Unarmed]
      BY <1>1, <1>3, ThresholdsAssumption DEF watchNewOrder
    <2>2. QED
      BY <1>3, <2>1
      DEF watchNewOrder, EscalationInv, EscalationTypeOK, AnnouncedIsDue, RemembersLastAlert,
          AnswersStand
  <1>4. CASE Cancelled \/ ConfirmRead \/ ConfirmCommit
    BY <1>4
    DEF Cancelled, ConfirmRead, ConfirmCommit, EscalationInv, EscalationTypeOK, AnnouncedIsDue,
        RemembersLastAlert, AnswersStand
  <1>5. CASE ConfirmClear
    <2>1. timers' \in [Levels -> 1..Unarmed] /\ announced' = 0 /\ orderStatus # "PENDING"
      BY <1>1, <1>5 DEF ConfirmClear, clear, EscalationInv
    <2>2. AnnouncedIsDue'
      BY <2>1, LevelRange DEF AnnouncedIsDue
    <2>3. QED
      BY <1>5, <2>1, <2>2
      DEF ConfirmClear, EscalationInv, EscalationTypeOK, RemembersLastAlert, AnswersStand
  <1>6. ASSUME NEW c \in Calls, NEW l \in Levels, TimerFires(c, l) PROVE EscalationInv'
    <2>1. timers' \in [Levels -> 1..Unarmed]
      BY <1>1, <1>6 DEF TimerFires, EscalationInv, EscalationTypeOK
    <2>2. call' \in [Calls -> Call] /\ call'[c].seen = "PENDING"
      <3>1. Look("read", 0, l) \in Call /\ Look("read", 0, l).seen = "PENDING"
        BY <1>1 DEF Levels, Statuses, Look
      <3>2. call' = [call EXCEPT ![c] = Look("read", 0, l)]
        BY <1>6 DEF TimerFires
      <3>3. QED
        BY <1>1, <3>1, <3>2
    <2>3. \A d \in Calls : d # c => call'[d] = call[d]
      BY <1>1, <1>6 DEF TimerFires
    <2>4. QED
      BY <1>6, <2>1, <2>2, <2>3
      DEF TimerFires, EscalationInv, EscalationTypeOK, AnnouncedIsDue, RemembersLastAlert,
          AnswersStand,
          Statuses
  <1>7. ASSUME NEW c \in Calls, SweepStarts(c) \/ SweepLists(c) PROVE EscalationInv'
    <2>1. UNCHANGED <<orderStatus, age, placing, confirming, timers, announced, alerts, restarts,
                      ignored, check>>
      BY <1>7 DEF SweepStarts, SweepLists
    <2>2. call' \in [Calls -> Call] /\ call'[c].seen = "PENDING"
      <3>1. CASE SweepStarts(c)
        <4>1. Look("list", age, 0) \in Call /\ Look("list", age, 0).seen = "PENDING"
          BY <1>1 DEF Statuses, Look
        <4>2. call' = [call EXCEPT ![c] = Look("list", age, 0)]
          BY <3>1 DEF SweepStarts
        <4>3. QED
          BY <1>1, <4>1, <4>2
      <3>2. CASE SweepLists(c)
        <4> DEFINE level == escalationLevel(orderStatus, call[c].now)
                   next == IF level = 0 THEN NoCall
                           ELSE Look("read", 0, level)
        <4>1. level \in 0..2
          BY LevelRange
        <4> HIDE DEF level
        <4>2. next \in Call /\ next.seen = "PENDING"
          BY <1>1, <4>1 DEF NoCall, Look, Statuses
        <4>3. call' = [call EXCEPT ![c] = next]
          BY <3>2 DEF SweepLists, level
        <4>4. QED
          BY <1>1, <4>2, <4>3
      <3>3. QED
        BY <1>7, <3>1, <3>2
    <2>3. \A d \in Calls : d # c => call'[d] = call[d]
      BY <1>1, <1>7 DEF SweepStarts, SweepLists
    <2>4. QED
      BY <2>1, <2>2, <2>3
      DEF EscalationInv, EscalationTypeOK, AnnouncedIsDue, RemembersLastAlert, AnswersStand,
          Statuses
  <1>8. ASSUME NEW c \in Calls, EscalateReads(c) PROVE EscalationInv'
    <2>1. call' \in [Calls -> Call] /\ call'[c].seen = orderStatus
      BY <1>1, <1>8 DEF EscalateReads, EscalationInv, EscalationTypeOK, Statuses
    <2>2. \A d \in Calls : d # c => call'[d] = call[d]
      BY <1>1, <1>8 DEF EscalateReads
    <2>3. QED
      BY <1>8, <2>1, <2>2
      DEF EscalateReads, EscalationInv, EscalationTypeOK, AnnouncedIsDue, RemembersLastAlert,
          AnswersStand, Statuses
  <1>9. ASSUME NEW c \in Calls, EscalateClears(c) PROVE EscalationInv'
    <2>1. timers' \in [Levels -> 1..Unarmed] /\ announced' = 0
      BY <1>1, <1>9 DEF EscalateClears, clear
    <2>2. call' \in [Calls -> Call] /\ \A d \in Calls : call'[d].seen \in {call[d].seen, "PENDING"}
      BY <1>1, <1>9 DEF EscalateClears, NoCall, Look
    <2>3. orderStatus = "PENDING" => announced = 0
      BY <1>1, <1>9, LevelRange
      DEF EscalateClears, EscalationInv, AnswersStand, AnnouncedIsDue
    <2>4. AnnouncedIsDue'
      BY <2>1, LevelRange DEF AnnouncedIsDue
    <2>5. QED
      BY <1>9, <2>1, <2>2, <2>3, <2>4
      DEF EscalateClears, EscalationInv, EscalationTypeOK, RemembersLastAlert, AnswersStand,
          Statuses
  <1>10. ASSUME NEW c \in Calls, EscalateAnnounces(c) PROVE EscalationInv'
    <2> DEFINE level == escalationLevel(call[c].seen, age)
    <2>1. level # 0 /\ Announce(c, level)
      BY <1>10 DEF EscalateAnnounces
    <2>2. call[c].seen = "PENDING" /\ level = escalationLevel("PENDING", age)
      BY <1>1, <2>1, LevelDerived
    <2>3. level \in 1..2
      BY <2>1, LevelRange
    <2>4. call' \in [Calls -> Call] /\ \A d \in Calls : call'[d].seen \in {call[d].seen, "PENDING"}
      BY <1>1, <2>1 DEF Announce, NoCall, Look
    <2> HIDE DEF level
    <2>5. UNCHANGED <<orderStatus, age, placing, confirming, timers, restarts, ignored, check>>
      BY <2>1 DEF Announce
    <2>6. CASE level <= announced
      BY <2>1, <2>4, <2>5, <2>6
      DEF Announce, EscalationInv, EscalationTypeOK, AnnouncedIsDue, RemembersLastAlert,
          AnswersStand,
          Statuses
    <2>7. CASE ~(level <= announced)
      <3>1. announced' = level /\ alerts' = Append(alerts, level)
        BY <2>1, <2>7 DEF Announce
      <3>2. alerts' \in Seq(Levels) /\ announced' \in 0..2
        BY <2>3, <3>1 DEF EscalationInv, EscalationTypeOK, Levels
      <3>3. AnnouncedIsDue'
        BY <2>2, <2>3, <2>5, <3>1 DEF AnnouncedIsDue
      <3>4. RemembersLastAlert'
        <4> SUFFICES ASSUME orderStatus = "PENDING"
                     PROVE  /\ announced' = 1 => alerts' = <<1>>
                            /\ announced' = 2 => alerts' = <<2>> \/ alerts' = <<1, 2>>
          BY <2>3, <2>5, <3>1 DEF RemembersLastAlert
        <4>1. CASE announced = 0
          <5>1. alerts = <<>>
            BY <4>1 DEF EscalationInv, RemembersLastAlert
          <5>2. alerts' = <<level>>
            BY <3>1, <5>1
          <5>3. QED
            BY <3>1, <5>2
        <4>2. CASE announced = 1
          <5>1. alerts = <<1>> /\ level = 2
            BY <2>3, <2>7, <4>2 DEF EscalationInv, RemembersLastAlert
          <5>2. alerts' = <<1, 2>>
            BY <3>1, <5>1, Append12
          <5>3. announced' = 2
            BY <3>1, <5>1
          <5>4. QED
            BY <5>2, <5>3
        <4>3. QED
          BY <1>1, <2>3, <2>7, <4>1, <4>2
      <3>5. QED
        BY <2>4, <2>5, <3>2, <3>3, <3>4 DEF EscalationInv, EscalationTypeOK, AnswersStand, Statuses
    <2>8. QED
      BY <2>6, <2>7
  <1>11. CASE Restart
    <2>1. timers' \in [Levels -> 1..Unarmed] /\ announced' = 0 /\ alerts' = <<>>
      BY <1>1, <1>11 DEF Restart, clear
    <2>2. call' \in [Calls -> Call] /\ \A d \in Calls : call'[d].seen = "PENDING"
      BY <1>1, <1>11 DEF Restart, NoCall, Look
    <2>3. restarts' \in 0..MaxRestarts
      BY <1>11, BoundsAssumption DEF Restart, EscalationInv, EscalationTypeOK
    <2>4. AnnouncedIsDue'
      BY <2>1, LevelRange DEF AnnouncedIsDue
    <2>5. UNCHANGED <<orderStatus, age, ignored, check>> /\ placing' = FALSE /\ confirming' = "idle"
      BY <1>11 DEF Restart
    <2>6. EscalationTypeOK'
      <3>1. alerts' \in Seq(Levels) /\ announced' \in 0..2
        BY <2>1
      <3>2. QED
        BY <2>1, <2>2, <2>3, <2>5, <3>1 DEF EscalationInv, EscalationTypeOK, Statuses
    <2>7. RemembersLastAlert' /\ AnswersStand'
      BY <2>1, <2>2 DEF RemembersLastAlert, AnswersStand
    <2>8. QED
      BY <2>4, <2>5, <2>6, <2>7 DEF EscalationInv
  <1>12. CASE UNCHANGED escalationVars
    BY <1>12
    DEF escalationVars, EscalationInv, EscalationTypeOK, AnnouncedIsDue, RemembersLastAlert,
        AnswersStand
  <1>13. CASE Checks \/ Hears \/ CheckFails
    BY <1>13
    DEF Checks, Hears, CheckFails, findIgnoredOrders, EscalationInv, EscalationTypeOK,
        AnnouncedIsDue,
        RemembersLastAlert, AnswersStand
  <1>14. QED
    BY <1>2, <1>3, <1>4, <1>5, <1>6, <1>7, <1>8, <1>9, <1>10, <1>11, <1>12, <1>13
    DEF EscalationNext, CallStep

THEOREM EscalationInvariant == EscalationSpec => []EscalationInv
  <1>1. EscalationInit => EscalationInv
    BY InitEscalation
  <1>2. EscalationInv /\ [EscalationNext]_escalationVars => EscalationInv'
    BY StepEscalation
  <1>3. QED
    BY <1>1, <1>2, PTL DEF EscalationSpec

\* No level is announced before the order is old enough for it.
THEOREM AnnouncedIsDueHolds == EscalationSpec => []AnnouncedIsDue
  <1>1. EscalationInv => AnnouncedIsDue
    BY DEF EscalationInv
  <1>2. EscalationSpec => []EscalationInv
    BY EscalationInvariant
  <1>3. QED
    BY <1>1, <1>2, PTL

\* A pending order rings at most once at each level in a boot, never 1 after 2.
THEOREM RingsOncePerLevelHolds ==
    EscalationSpec => []RingsOncePerLevel
  <1>1. EscalationInv => RingsOncePerLevel
    BY DEF EscalationInv, EscalationTypeOK, RemembersLastAlert, RingsOncePerLevel
  <1>2. EscalationSpec => []EscalationInv
    BY EscalationInvariant
  <1>3. QED
    BY <1>1, <1>2, PTL
=============================================================================
