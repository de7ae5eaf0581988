------------------------------ MODULE Checkout ------------------------------
(***************************************************************************)
(* A shop's shelf and the orders placed from it.                           *)
(*                                                                         *)
(* OrdersService.create reads the shop, reads the products in a statement  *)
(* of its own and inserts the order with its lines, in one $transaction.   *)
(* PostgreSQL runs at READ COMMITTED: each statement sees what is committed*)
(* when it starts, so the shelf and the shop may change between the two    *)
(* reads, the insert and the commit.  What stands against that is the      *)
(* foreign key order_items.product_id: inserting a line locks the product's*)
(* row against deletion (not against UPDATE) until the commit, and a delete*)
(* is refused where a line points.                                         *)
(*                                                                         *)
(* ProductsService's handlers run statement by statement outside any       *)
(* transaction.  Categories are the module Catalogue's, and what becomes of*)
(* an order, lines dropped from it included, is OrderLifecycle's: here an  *)
(* order is what it charges for each product when placed.                  *)
(***************************************************************************)
EXTENDS Integers, FiniteSets

CONSTANTS Products,   \* identities for products, listed or not
          Prices,     \* amounts
          Requests,   \* slots for requests in flight
          MaxEdits,   \* bound: requests that change the shelf
          MaxOrders   \* bound: requests that place an order

ASSUME ShelfAssumption == Prices # {} /\ Prices \subseteq Nat /\ IsFiniteSet(Requests)
ASSUME BoundsAssumption == MaxEdits \in Nat /\ MaxOrders \in Nat

VARIABLES
    shelf,    \* products: the row of each
    shop,     \* merchants.status
    orders,   \* what the orders committed charge for each product in them: of those that
              \* charge the same, one
    req,      \* the requests in flight
    edits,    \* requests so far to change the shelf
    tries,    \* requests so far to place an order
    standing, \* history: what the shelf has been since a request that places an order began
    late      \* history: orders committed since the shop was last approved

vars == <<shelf, shop, orders, req, edits, tries, standing, late>>

Same == -1    \* a field an UpdateProductDto leaves out

Row == [row : {"unused", "listed", "deleted"}, price : Prices, stock : {"in", "out"}]
Shelf == [Products -> Row]

\* UpdateProductDto: any of the fields.
Edits == [price : Prices \cup {Same}, stock : {"same", "in", "out"}]

\* An order's lines, as a price for each product in it (CreateOrderDto: at least one,
\* and none twice).
Charges == UNION {[ps -> Prices] : ps \in (SUBSET Products) \ {{}}}

Request == [at    : {"idle", "products", "insert", "commit",
                     "product", "update", "count", "delete", "create"},
            items : SUBSET Products,           \* ordered, or edited
            seen  : Charges \cup {<<>>},       \* the prices read
            edit  : Edits]

NoEdit == [price |-> Same, stock |-> "same"]
Idle == [at |-> "idle", items |-> {}, seen |-> <<>>, edit |-> NoEdit]

Listed(p) == shelf[p].row = "listed"
Named(p) == \E o \in orders : p \in DOMAIN o

-----------------------------------------------------------------------------
Init ==
    /\ shelf \in [Products -> [row : {"unused", "listed"}, price : Prices, stock : {"in"}]]
    /\ shop = "APPROVED"
    /\ orders = {}
    /\ req = [r \in Requests |-> Idle]
    /\ edits = 0 /\ tries = 0
    /\ standing = [r \in Requests |-> {}]
    /\ late = 0

Starts(r, point, items) ==
    /\ req[r] = Idle
    /\ req' = [req EXCEPT ![r] = [Idle EXCEPT !.at = point, !.items = items]]
Goes(r, point) == req' = [req EXCEPT ![r] = [@ EXCEPT !.at = point]]
Ends(r) == req' = [req EXCEPT ![r] = Idle]

\* The requests that are placing an order.
Placing == {r \in Requests : req[r].at \in {"products", "insert", "commit"}}

\* A row is written, under the eyes of whoever is placing an order.
Puts(p, row) ==
    /\ shelf' = [shelf EXCEPT ![p] = row]
    /\ standing' = [r \in Requests |-> IF r \in Placing THEN standing[r] \cup {shelf'} ELSE {}]

-----------------------------------------------------------------------------
(* OrdersService.create *)

\* The shop is read, and must be approved.
PlaceReadShop_AnyShop(r, items) ==
    /\ tries < MaxOrders /\ tries' = tries + 1
    /\ Starts(r, "products", items)
    /\ standing' = [standing EXCEPT ![r] = {shelf}]
    /\ UNCHANGED <<shelf, shop, orders, edits, late>>
PlaceReadShop(r, items) ==
    /\ tries < MaxOrders /\ tries' = tries + 1
    /\ shop = "APPROVED"
    /\ Starts(r, "products", items)
    /\ standing' = [standing EXCEPT ![r] = {shelf}]
    /\ UNCHANGED <<shelf, shop, orders, edits, late>>

\* A loop that reads the products one by one.
PlaceReadProducts_OneByOne(r) ==
    /\ req[r].at = "products"
    /\ \E p \in req[r].items \ DOMAIN req[r].seen :
          LET seen == [q \in DOMAIN req[r].seen \cup {p} |->
                          IF q = p THEN shelf[p].price ELSE req[r].seen[q]]
          IN  IF Listed(p) /\ shelf[p].stock = "in"
              THEN req' = [req EXCEPT ![r] = [@ EXCEPT !.seen = seen,
                              !.at = IF DOMAIN seen = req[r].items THEN "insert" ELSE "products"]]
              ELSE Ends(r)
    /\ UNCHANGED <<shelf, shop, orders, edits, tries, standing, late>>

\* All products are read in one statement; each must be there and in stock.
PlaceReadProducts(r) ==
    LET items == req[r].items
    IN  /\ req[r].at = "products"
        /\ IF \A p \in items : Listed(p) /\ shelf[p].stock = "in"
           THEN req' = [req EXCEPT ![r] = [@ EXCEPT !.at = "insert",
                                              !.seen = [p \in items |-> shelf[p].price]]]
           ELSE Ends(r)
        /\ UNCHANGED <<shelf, shop, orders, edits, tries, standing, late>>

\* The order and its lines; a line for a product deleted meanwhile is refused, and the
\* transaction with it.
PlaceInsert(r) ==
    /\ req[r].at = "insert"
    /\ IF \A p \in req[r].items : Listed(p) THEN Goes(r, "commit") ELSE Ends(r)
    /\ UNCHANGED <<shelf, shop, orders, edits, tries, standing, late>>

PlaceCommit(r) ==
    /\ req[r].at = "commit"
    /\ orders' = orders \cup {req[r].seen}
    /\ late' = IF shop = "APPROVED" THEN 0 ELSE late + 1
    /\ Ends(r)
    /\ UNCHANGED <<shelf, shop, edits, tries, standing>>

-----------------------------------------------------------------------------
(* ProductsService *)

\* requireOwnMerchant(userId, true), the first read of each handler that writes.
EditsShelf(r, point, items) ==
    /\ edits < MaxEdits
    /\ shop # "SUSPENDED"
    /\ Starts(r, point, items)
    /\ edits' = edits + 1
    /\ UNCHANGED <<shelf, shop, orders, tries, standing, late>>

CreateReadShop(r) == EditsShelf(r, "create", {})

CreateWrite(r) ==
    /\ req[r].at = "create"
    /\ \E p \in Products, q \in Prices, s \in {"in", "out"} :
          /\ shelf[p].row = "unused"
          /\ Puts(p, [row |-> "listed", price |-> q, stock |-> s])
    /\ Ends(r)
    /\ UNCHANGED <<shop, orders, edits, tries, late>>

UpdateReadShop(r, p) == EditsShelf(r, "product", {p})

\* The product is confirmed to be there; what is asked for is written next.
UpdateReadProduct(r, edit) ==
    /\ req[r].at = "product"
    /\ IF \A p \in req[r].items : Listed(p)
       THEN req' = [req EXCEPT ![r] = [@ EXCEPT !.at = "update", !.edit = edit]]
       ELSE Ends(r)
    /\ UNCHANGED <<shelf, shop, orders, edits, tries, standing, late>>

\* The fields given, and no other; a row deleted meanwhile is not found.
UpdateWrite(r) ==
    LET e == req[r].edit
    IN  /\ req[r].at = "update"
        /\ \E p \in req[r].items :
              IF Listed(p)
              THEN Puts(p, [row   |-> "listed",
                            price |-> IF e.price = Same THEN shelf[p].price ELSE e.price,
                            stock |-> IF e.stock = "same" THEN shelf[p].stock ELSE e.stock])
              ELSE UNCHANGED <<shelf, standing>>
        /\ Ends(r)
        /\ UNCHANGED <<shop, orders, edits, tries, late>>

RemoveReadShop(r, p) == EditsShelf(r, "count", {p})

\* The product is read with the number of lines that name it.
RemoveReadProduct(r) ==
    /\ req[r].at = "count"
    /\ IF \A p \in req[r].items : Listed(p) /\ ~Named(p) THEN Goes(r, "delete") ELSE Ends(r)
    /\ UNCHANGED <<shelf, shop, orders, edits, tries, standing, late>>

\* An insert that is not committed holds the row.
Held(p) == \E r \in Requests : req[r].at = "commit" /\ p \in req[r].items

\* The delete, without the foreign key's ON DELETE RESTRICT.
RemoveDelete_Unrestricted(r) ==
    /\ req[r].at = "delete"
    /\ \E p \in req[r].items :
          /\ ~Held(p)
          /\ IF Listed(p) THEN Puts(p, [shelf[p] EXCEPT !.row = "deleted"])
                          ELSE UNCHANGED <<shelf, standing>>
    /\ Ends(r)
    /\ UNCHANGED <<shop, orders, edits, tries, late>>
\* It waits for a lock and is refused where a line has come to point.
RemoveDelete(r) ==
    /\ req[r].at = "delete"
    /\ \E p \in req[r].items :
          /\ ~Held(p)
          /\ IF Listed(p) /\ ~Named(p) THEN Puts(p, [shelf[p] EXCEPT !.row = "deleted"])
                                       ELSE UNCHANGED <<shelf, standing>>
    /\ Ends(r)
    /\ UNCHANGED <<shop, orders, edits, tries, late>>

-----------------------------------------------------------------------------
\* AdminService.setMerchantStatus, to another status.
SetMerchantStatus ==
    /\ \E status \in {"PENDING", "APPROVED", "SUSPENDED"} \ {shop} : shop' = status
    /\ late' = IF shop' = "APPROVED" THEN 0 ELSE late
    /\ UNCHANGED <<shelf, orders, req, edits, tries, standing>>

Places(r) ==
    \/ \E items \in (SUBSET Products) \ {{}} : PlaceReadShop(r, items)
    \/ PlaceReadProducts(r) \/ PlaceInsert(r) \/ PlaceCommit(r)

ChangesShelf(r) ==
    \/ CreateReadShop(r) \/ CreateWrite(r)
    \/ \E p \in Products : UpdateReadShop(r, p) \/ RemoveReadShop(r, p)
    \/ \E edit \in Edits \ {NoEdit} : UpdateReadProduct(r, edit)
    \/ UpdateWrite(r) \/ RemoveReadProduct(r) \/ RemoveDelete(r)

Next ==
    \/ SetMerchantStatus
    \/ \E r \in Requests : Places(r) \/ ChangesShelf(r)

Spec == Init /\ [][Next]_vars

-----------------------------------------------------------------------------
\* Every variable has its type.
TypeOK ==
    /\ shelf \in Shelf
    /\ shop \in {"PENDING", "APPROVED", "SUSPENDED"}
    /\ orders \in SUBSET Charges
    /\ req \in [Requests -> Request]
    /\ edits \in 0..MaxEdits /\ tries \in 0..MaxOrders
    /\ standing \in [Requests -> SUBSET Shelf]
    /\ late \in Nat

\* On this shelf all of an order's products are for sale at what it charges.
Sells(s, o) == \A p \in DOMAIN o : s[p].row = "listed" /\ s[p].stock = "in" /\ s[p].price = o[p]

\* An order that is committed charges what its products cost, all of them in stock, at one
\* moment since its request began: never prices of two moments, nor of before it was sent.
OneShelf ==
    [][\A r \in Requests : req[r].at = "commit" /\ req'[r] # req[r] =>
          req[r].seen \in orders' /\ \E s \in standing[r] : Sells(s, req[r].seen)]_vars

\* What the comment on create asks for, that no change of price falls between the read and
\* the commit.  In no configuration: at READ COMMITTED it does.
NotStraddled ==
    [][\A r \in Requests : req[r].at = "commit" /\ req'[r] # req[r] =>
          Sells(shelf, req[r].seen)]_vars

\* Order history keeps pointing at its products: one that an order names is never deleted,
\* even when the order came after remove() counted none.
HistoryKept == \A p \in Products : Named(p) => Listed(p)

\* A shop no longer approved still gets the orders that had read it before, and no more.
LateOrdersBounded == late <= Cardinality(Requests)
=============================================================================
