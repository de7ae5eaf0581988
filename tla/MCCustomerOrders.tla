-------------------------- MODULE MCCustomerOrders --------------------------
(* One order of one line, and room for two requests on their way at once.  *)
EXTENDS CustomerOrders

CONSTANTS o1, i1
OrdersDef == {o1}
ItemsDef == {i1}
From(status, delivery, tries) ==
    [from |-> [NewOrder EXCEPT !.status = status, !.delivery = delivery], tries |-> tries]
DaysDef ==
    {From("PENDING", "NONE", {"confirm", "startPreparing", "cancel"}),
     From("PREPARING", "NONE", {"setItemStatus", "assignDelivery", "updateDelivery", "acceptChanges"}),
     From("DELIVERING", "ON_WAY", {"updateDelivery", "review"})}
=============================================================================
