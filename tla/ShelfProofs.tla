---------------------------- MODULE ShelfProofs -----------------------------
(***************************************************************************)
(* What an order keeps of the shelf it was placed from, for any products,  *)
(* prices and number of requests.                                          *)
(***************************************************************************)
EXTENDS Checkout, Catalogue, FiniteSetTheorems, TLAPS

\* What a request that is about to insert or commit has read was the shelf at one moment since
\* it began, and one that has inserted still finds its products.
PlacingInv ==
    /\ \A r \in Placing : req[r].items # {} /\ shelf \in standing[r]
    /\ \A r \in Requests : req[r].at \in {"insert", "commit"} =>
          /\ req[r].seen \in [req[r].items -> Prices]
          /\ \E s \in standing[r] : Sells(s, req[r].seen)
    /\ \A r \in Requests : req[r].at = "commit" => \A p \in req[r].items : Listed(p)

\* A request that read the shop as approved is as good as one more late order.
LateInv ==
    /\ shop = "APPROVED" => late = 0
    /\ late + Cardinality(Placing) <= Cardinality(Requests)

CheckoutInv == TypeOK /\ PlacingInv /\ HistoryKept /\ LateInv

-----------------------------------------------------------------------------
\* The sets of requests counted are finite.
LEMMA FiniteRequests ==
    ASSUME NEW S \in SUBSET Requests
    PROVE  /\ IsFiniteSet(S) /\ Cardinality(S) \in Nat
           /\ Cardinality(Requests) \in Nat /\ Cardinality(S) <= Cardinality(Requests)
BY FS_Subset, FS_CardinalityType, ShelfAssumption DEF ShelfAssumption

\* A smaller set of requests counts for no more, and for one less without one.
LEMMA Fewer ==
    ASSUME NEW S \in SUBSET Requests, NEW T \in SUBSET S
    PROVE  /\ Cardinality(T) <= Cardinality(S)
           /\ \A r \in S : T = S \ {r} => Cardinality(T) = Cardinality(S) - 1
BY FS_Subset, FS_RemoveElement, FiniteRequests

LEMMA IdleType == Idle \in Request /\ Idle.at = "idle" /\ NoEdit \in Edits
BY DEF Idle, Request, Edits, NoEdit

\* What starting, moving and ending a request do to the table of requests.
LEMMA StartsType ==
    ASSUME TypeOK, NEW r \in Requests, NEW ps \in SUBSET Products, NEW p, Starts(r, p, ps),
           p \in {"products", "product", "count", "create"}
    PROVE  /\ req' \in [Requests -> Request]
           /\ req'[r].at = p /\ req'[r].items = ps /\ req[r].at = "idle"
           /\ \A s \in Requests \ {r} : req'[s] = req[s]
<1>. DEFINE q == [Idle EXCEPT !.at = p, !.items = ps]
<1>1. q \in Request /\ q.at = p /\ q.items = ps
  BY IdleType DEF Request
<1>. HIDE DEF q
<1>. QED  BY <1>1, IdleType DEF Starts, TypeOK, q

LEMMA GoesType ==
    ASSUME TypeOK, NEW r \in Requests, NEW p, Goes(r, p), p \in {"commit", "delete"}
    PROVE  /\ req' \in [Requests -> Request]
           /\ req'[r].at = p /\ req'[r].items = req[r].items /\ req'[r].seen = req[r].seen
           /\ \A s \in Requests \ {r} : req'[s] = req[s]
<1>1. req[r] \in Request
  BY DEF TypeOK
<1>. DEFINE q == [req[r] EXCEPT !.at = p]
<1>2. q \in Request /\ q.at = p /\ q.items = req[r].items /\ q.seen = req[r].seen
  BY <1>1 DEF Request
<1>3. req' = [req EXCEPT ![r] = q]
  BY DEF Goes
<1>. HIDE DEF q
<1>. QED  BY <1>2, <1>3 DEF TypeOK

LEMMA EndsType ==
    ASSUME TypeOK, NEW r \in Requests, Ends(r)
    PROVE  /\ req' \in [Requests -> Request] /\ req'[r].at = "idle"
           /\ \A s \in Requests \ {r} : req'[s] = req[s]
BY IdleType DEF TypeOK, Ends

\* Writing one row.
LEMMA PutsType ==
    ASSUME TypeOK, NEW p \in Products, NEW row \in Row, Puts(p, row)
    PROVE  /\ shelf' \in Shelf /\ standing' \in [Requests -> SUBSET Shelf]
           /\ \A r \in Placing : standing[r] \subseteq standing'[r] /\ shelf' \in standing'[r]
           /\ shelf'[p] = row /\ \A q \in Products \ {p} : shelf'[q] = shelf[q]
<1>1. shelf' \in Shelf /\ shelf'[p] = row /\ \A q \in Products \ {p} : shelf'[q] = shelf[q]
  BY DEF TypeOK, Puts, Shelf
<1>2. standing' = [r \in Requests |-> IF r \in Placing THEN standing[r] \cup {shelf'} ELSE {}]
  BY DEF Puts
<1>3. standing' \in [Requests -> SUBSET Shelf]
  BY <1>1, <1>2 DEF TypeOK
<1>4. \A r \in Placing : standing[r] \subseteq standing'[r] /\ shelf' \in standing'[r]
  BY <1>2 DEF Placing
<1>. QED  BY <1>1, <1>3, <1>4

-----------------------------------------------------------------------------
\* The invariant but for its types, kept by a step that neither reads nor commits an order:
\* a new shelf is noted for those placing one, no product that is named or held goes, and the
\* requests placing an order are the same or fewer.
LEMMA Keeps ==
    ASSUME CheckoutInv, TypeOK',
           \A r \in Placing : standing[r] \subseteq standing'[r] /\ shelf' \in {shelf} \cup standing'[r],
           orders' = orders,
           \A p \in Products : Listed(p) /\ ~Listed(p)' => ~Named(p) /\ ~Held(p),
           \A r \in Requests : req'[r].at \in {"products", "insert", "commit"} => req'[r] = req[r],
           late' = late \/ late' = 0,
           shop' = "APPROVED" => late' = 0
    PROVE  CheckoutInv'
<1>. USE DEF CheckoutInv
<1>1. PlacingInv'
  <2>1. \A r \in Placing' : r \in Placing /\ req'[r] = req[r]
    BY DEF Placing
  <2>2. \A r \in Placing' : req'[r].items # {} /\ shelf' \in standing'[r]
    BY <2>1 DEF PlacingInv
  <2>3. \A r \in Requests : req'[r].at \in {"insert", "commit"} =>
          /\ req'[r].seen \in [req'[r].items -> Prices]
          /\ \E s \in standing'[r] : Sells(s, req'[r].seen)
    BY <2>1 DEF PlacingInv, Placing
  <2>4. \A r \in Requests : req'[r].at = "commit" => \A p \in req'[r].items : Listed(p)'
    BY DEF PlacingInv, Held, TypeOK, Request
  <2>. QED  BY <2>2, <2>3, <2>4 DEF PlacingInv, Sells
<1>2. HistoryKept'
  BY DEF HistoryKept, Named
<1>3. LateInv'
  <2>1. Placing' \in SUBSET Placing /\ Placing \in SUBSET Requests
    BY DEF Placing
  <2>. QED  BY <2>1, Fewer, FiniteRequests DEF LateInv, TypeOK
<1>. QED  BY <1>1, <1>2, <1>3

-----------------------------------------------------------------------------
LEMMA InitCheckout == Init => CheckoutInv
<1>. SUFFICES ASSUME Init PROVE CheckoutInv
  OBVIOUS
<1>1. shelf \in Shelf /\ req \in [Requests -> Request] /\ \A r \in Requests : req[r].at = "idle"
  BY IdleType DEF Init, Shelf, Row
<1>2. Placing = {}
  BY <1>1 DEF Placing
<1>3. TypeOK
  BY <1>1, BoundsAssumption DEF Init, TypeOK, BoundsAssumption
<1>4. PlacingInv
  BY <1>1 DEF Init, PlacingInv, Placing
<1>5. HistoryKept
  BY DEF Init, HistoryKept, Named
<1>6. LateInv
  BY <1>2, FS_EmptySet, FiniteRequests DEF Init, LateInv
<1>. QED  BY <1>3, <1>4, <1>5, <1>6 DEF CheckoutInv

\* OrdersService.create.
LEMMA PlaceStep ==
    ASSUME CheckoutInv, NEW r \in Requests, Places(r)
    PROVE  CheckoutInv'
<1>. USE DEF CheckoutInv
<1>1. ASSUME NEW items \in (SUBSET Products) \ {{}}, PlaceReadShop(r, items)
      PROVE  CheckoutInv'
  <2>1. /\ req' \in [Requests -> Request] /\ req[r].at = "idle"
        /\ req'[r].at = "products" /\ req'[r].items = items
        /\ \A s \in Requests \ {r} : req'[s] = req[s]
    BY <1>1, StartsType DEF PlaceReadShop
  <2>2. /\ UNCHANGED <<shelf, shop, orders, edits, late>>
        /\ standing' = [standing EXCEPT ![r] = {shelf}]
        /\ shop = "APPROVED" /\ tries' \in 0..MaxOrders
    BY <1>1, BoundsAssumption DEF PlaceReadShop, TypeOK, BoundsAssumption
  <2>3. TypeOK'
    BY <2>1, <2>2 DEF TypeOK
  <2>4. PlacingInv'
    <3>1. \A s \in Requests : req'[s].at \in {"insert", "commit"} => req'[s] = req[s]
      BY <2>1
    <3>2. /\ standing'[r] = {shelf}
          /\ \A s \in Requests \ {r} : standing'[s] = standing[s]
      BY <2>2 DEF TypeOK
    <3>3. \A s \in Placing' : req'[s].items # {} /\ shelf \in standing'[s]
      BY <2>1, <3>2 DEF PlacingInv, Placing
    <3>4. \A s \in Requests : req'[s].at \in {"insert", "commit"} => s # r
      BY <2>1
    <3>. QED  BY <2>2, <3>1, <3>2, <3>3, <3>4 DEF PlacingInv, Listed
  <2>5. HistoryKept'
    BY <2>2 DEF HistoryKept, Named, Listed
  <2>6. LateInv'
    <3>1. Placing' \in SUBSET Requests /\ late' = 0
      BY <2>2 DEF Placing, LateInv
    <3>. QED  BY <3>1, FiniteRequests DEF LateInv
  <2>. QED  BY <2>3, <2>4, <2>5, <2>6
<1>2. CASE PlaceReadProducts(r)
  <2>. DEFINE items == req[r].items
              seen == [p \in items |-> shelf[p].price]
              q == [req[r] EXCEPT !.at = "insert", !.seen = seen]
  <2>1. /\ UNCHANGED <<shelf, shop, orders, edits, tries, standing, late>>
        /\ req[r].at = "products"
    BY <1>2 DEF PlaceReadProducts
  <2>2. CASE \A p \in items : Listed(p) /\ shelf[p].stock = "in"
    <3>1. req' = [req EXCEPT ![r] = q]
      BY <1>2, <2>2 DEF PlaceReadProducts
    <3>2. req[r] \in Request /\ items \in (SUBSET Products) \ {{}}
      <4>1. req[r] \in Request
        BY DEF TypeOK
      <4>2. items # {}
        BY <2>1 DEF PlacingInv, Placing
      <4>. QED  BY <4>1, <4>2 DEF Request
    <3>3. seen \in [items -> Prices] /\ seen \in Charges
      BY <3>2 DEF TypeOK, Shelf, Row, Charges
    <3>4. q \in Request /\ q.at = "insert" /\ q.items = items /\ q.seen = seen
      BY <3>2, <3>3 DEF Request
    <3>5. Sells(shelf, seen)
      BY <2>2, <3>3 DEF Sells, Listed
    <3>. HIDE DEF q, seen, items
    <3>6. /\ req' \in [Requests -> Request] /\ req'[r] = q
          /\ \A s \in Requests \ {r} : req'[s] = req[s]
      BY <3>1, <3>4 DEF TypeOK
    <3>7. TypeOK'
      BY <2>1, <3>6 DEF TypeOK
    <3>8. PlacingInv'
      <4>1. \A s \in Placing' : req'[s].items # {} /\ shelf \in standing[s]
        BY <2>1, <3>2, <3>4, <3>6 DEF PlacingInv, Placing
      <4>2. \A s \in Requests : req'[s].at \in {"insert", "commit"} =>
               /\ req'[s].seen \in [req'[s].items -> Prices]
               /\ \E t \in standing[s] : Sells(t, req'[s].seen)
        BY <2>1, <3>3, <3>4, <3>5, <3>6 DEF PlacingInv, Placing
      <4>3. \A s \in Requests : req'[s].at = "commit" => \A p \in req'[s].items : Listed(p)
        BY <3>4, <3>6 DEF PlacingInv
      <4>. QED  BY <2>1, <4>1, <4>2, <4>3 DEF PlacingInv, Listed
    <3>9. HistoryKept'
      BY <2>1 DEF HistoryKept, Named, Listed
    <3>10. LateInv'
      <4>1. Placing' = Placing
        BY <2>1, <3>4, <3>6 DEF Placing
      <4>. QED  BY <2>1, <4>1 DEF LateInv
    <3>. QED  BY <3>7, <3>8, <3>9, <3>10
  <2>3. CASE ~\A p \in items : Listed(p) /\ shelf[p].stock = "in"
    <3>1. Ends(r)
      BY <1>2, <2>3 DEF PlaceReadProducts
    <3>2. TypeOK'
      BY <2>1, <3>1, EndsType DEF TypeOK
    <3>. QED  BY <2>1, <3>1, <3>2, EndsType, Keeps DEF PlacingInv, LateInv, Listed
  <2>. QED  BY <2>2, <2>3
<1>3. CASE PlaceInsert(r)
  <2>1. /\ UNCHANGED <<shelf, shop, orders, edits, tries, standing, late>>
        /\ req[r].at = "insert"
    BY <1>3 DEF PlaceInsert
  <2>2. CASE \A p \in req[r].items : Listed(p)
    <3>1. Goes(r, "commit")
      BY <1>3, <2>2 DEF PlaceInsert
    <3>2. /\ req' \in [Requests -> Request]
          /\ req'[r].at = "commit" /\ req'[r].items = req[r].items /\ req'[r].seen = req[r].seen
          /\ \A s \in Requests \ {r} : req'[s] = req[s]
      BY <3>1, GoesType
    <3>3. TypeOK'
      BY <2>1, <3>2 DEF TypeOK
    <3>4. PlacingInv'
      BY <2>1, <2>2, <3>2 DEF PlacingInv, Placing, Sells, Listed
    <3>5. HistoryKept'
      BY <2>1 DEF HistoryKept, Named, Listed
    <3>6. Placing' = Placing
      BY <2>1, <3>2 DEF Placing
    <3>. QED  BY <2>1, <3>3, <3>4, <3>5, <3>6 DEF LateInv
  <2>3. CASE ~\A p \in req[r].items : Listed(p)
    <3>1. Ends(r)
      BY <1>3, <2>3 DEF PlaceInsert
    <3>2. TypeOK'
      BY <2>1, <3>1, EndsType DEF TypeOK
    <3>. QED  BY <2>1, <3>1, <3>2, EndsType, Keeps DEF PlacingInv, LateInv, Listed
  <2>. QED  BY <2>2, <2>3
<1>4. CASE PlaceCommit(r)
  <2>. DEFINE o == req[r].seen
  <2>1. /\ orders' = orders \cup {o} /\ req[r].at = "commit"
        /\ late' = (IF shop = "APPROVED" THEN 0 ELSE late + 1)
        /\ UNCHANGED <<shelf, shop, edits, tries, standing>>
    BY <1>4 DEF PlaceCommit
  <2>2. /\ req' \in [Requests -> Request] /\ req'[r].at = "idle"
        /\ \A s \in Requests \ {r} : req'[s] = req[s]
    BY <1>4, EndsType DEF PlaceCommit
  <2>3. /\ req[r].items \in (SUBSET Products) \ {{}} /\ o \in [req[r].items -> Prices]
        /\ \A p \in req[r].items : Listed(p)
    <3>1. req[r].items # {}
      BY <2>1 DEF PlacingInv, Placing
    <3>2. req[r].items \in SUBSET Products
      BY DEF TypeOK, Request
    <3>. QED  BY <2>1, <3>1, <3>2 DEF PlacingInv
  <2>. HIDE DEF o
  <2>4. o \in Charges /\ DOMAIN o = req[r].items
    BY <2>3 DEF Charges
  <2>5. TypeOK'
    BY <2>1, <2>2, <2>4 DEF TypeOK
  <2>6. PlacingInv'
    BY <2>1, <2>2 DEF PlacingInv, Placing, Listed
  <2>8. HistoryKept'
    BY <2>1, <2>3, <2>4 DEF HistoryKept, Named, Listed
  <2>9. LateInv'
    <3>1. Placing' = Placing \ {r} /\ r \in Placing /\ Placing \in SUBSET Requests
      BY <2>1, <2>2 DEF Placing
    <3>2. /\ Cardinality(Placing') = Cardinality(Placing) - 1
          /\ Cardinality(Placing') \in Nat /\ Cardinality(Placing) \in Nat
          /\ Cardinality(Requests) \in Nat
      BY <3>1, Fewer, FiniteRequests
    <3>. QED  BY <2>1, <3>2 DEF LateInv, TypeOK
  <2>. QED  BY <2>5, <2>6, <2>8, <2>9
<1>. QED  BY <1>1, <1>2, <1>3, <1>4 DEF Places

\* ProductsService, and the admin.
LEMMA ShelfStep ==
    ASSUME CheckoutInv, SetMerchantStatus \/ \E r \in Requests : ChangesShelf(r)
    PROVE  CheckoutInv'
<1>. USE DEF CheckoutInv
<1>1. CASE SetMerchantStatus
  <2>1. TypeOK'
    BY <1>1 DEF SetMerchantStatus, TypeOK
  <2>. QED  BY <1>1, <2>1, Keeps DEF SetMerchantStatus, PlacingInv, Listed
<1>2. ASSUME NEW r \in Requests, NEW ps \in SUBSET Products, NEW p \in {"create", "product", "count"},
             EditsShelf(r, p, ps)
      PROVE  CheckoutInv'
  <2>1. /\ UNCHANGED <<shelf, shop, orders, tries, standing, late>>
        /\ edits' \in 0..MaxEdits
    BY <1>2, BoundsAssumption DEF EditsShelf, TypeOK, BoundsAssumption
  <2>2. /\ req' \in [Requests -> Request] /\ req'[r].at = p
        /\ \A s \in Requests \ {r} : req'[s] = req[s]
    BY <1>2, StartsType DEF EditsShelf
  <2>3. TypeOK'
    BY <2>1, <2>2 DEF TypeOK
  <2>. QED  BY <2>1, <2>2, <2>3, Keeps DEF PlacingInv, LateInv, Listed
<1>3. ASSUME NEW r \in Requests, CreateWrite(r)
      PROVE  CheckoutInv'
  <2>1. PICK p \in Products, row \in Row :
           shelf[p].row = "unused" /\ row.row = "listed" /\ Puts(p, row)
    BY <1>3 DEF CreateWrite, Row
  <2>2. Ends(r) /\ UNCHANGED <<shop, orders, edits, tries, late>>
    BY <1>3 DEF CreateWrite
  <2>3. TypeOK'
    BY <2>1, <2>2, PutsType, EndsType DEF TypeOK
  <2>. QED  BY <2>1, <2>2, <2>3, PutsType, EndsType, Keeps DEF LateInv, Listed
<1>4. ASSUME NEW r \in Requests, NEW edit \in Edits, UpdateReadProduct(r, edit)
      PROVE  CheckoutInv'
  <2>1. UNCHANGED <<shelf, shop, orders, edits, tries, standing, late>>
    BY <1>4 DEF UpdateReadProduct
  <2>2. /\ req' \in [Requests -> Request] /\ req'[r].at \in {"idle", "update"}
        /\ \A s \in Requests \ {r} : req'[s] = req[s]
    <3>. DEFINE q == [req[r] EXCEPT !.at = "update", !.edit = edit]
    <3>1. q \in Request /\ q.at = "update"
      BY DEF TypeOK, Request
    <3>2. req' = [req EXCEPT ![r] = q] \/ Ends(r)
      BY <1>4 DEF UpdateReadProduct
    <3>. HIDE DEF q
    <3>. QED  BY <3>1, <3>2, EndsType DEF TypeOK
  <2>3. TypeOK'
    BY <2>1, <2>2 DEF TypeOK
  <2>. QED  BY <2>1, <2>2, <2>3, Keeps DEF PlacingInv, LateInv, Listed
<1>5. ASSUME NEW r \in Requests, UpdateWrite(r)
      PROVE  CheckoutInv'
  <2>. DEFINE e == req[r].edit
  <2>1. Ends(r) /\ UNCHANGED <<shop, orders, edits, tries, late>>
    BY <1>5 DEF UpdateWrite
  <2>2. \/ UNCHANGED <<shelf, standing>>
        \/ \E p \in Products, row \in Row : row.row = "listed" /\ Puts(p, row)
    <3>1. req[r] \in Request /\ e \in Edits
      BY DEF TypeOK, Request
    <3>2. PICK p \in req[r].items :
             IF Listed(p)
             THEN Puts(p, [row   |-> "listed",
                           price |-> IF e.price = Same THEN shelf[p].price ELSE e.price,
                           stock |-> IF e.stock = "same" THEN shelf[p].stock ELSE e.stock])
             ELSE UNCHANGED <<shelf, standing>>
      BY <1>5 DEF UpdateWrite
    <3>3. p \in Products /\ shelf[p] \in Row
      BY <3>1 DEF Request, TypeOK, Shelf
    <3>4. [row   |-> "listed",
           price |-> IF e.price = Same THEN shelf[p].price ELSE e.price,
           stock |-> IF e.stock = "same" THEN shelf[p].stock ELSE e.stock] \in Row
      BY <3>1, <3>3 DEF Edits, Row
    <3>. QED  BY <3>2, <3>3, <3>4
  <2>3. CASE UNCHANGED <<shelf, standing>>
    <3>1. TypeOK'
      BY <2>1, <2>3, EndsType DEF TypeOK
    <3>. QED  BY <2>1, <2>3, <3>1, EndsType, Keeps DEF PlacingInv, LateInv, Listed
  <2>4. ASSUME NEW p \in Products, NEW row \in Row, row.row = "listed", Puts(p, row)
        PROVE  CheckoutInv'
    <3>1. TypeOK'
      BY <2>1, <2>4, PutsType, EndsType DEF TypeOK
    <3>. QED  BY <2>1, <2>4, <3>1, PutsType, EndsType, Keeps DEF LateInv, Listed
  <2>. QED  BY <2>2, <2>3, <2>4
<1>6. ASSUME NEW r \in Requests, RemoveReadProduct(r)
      PROVE  CheckoutInv'
  <2>1. /\ UNCHANGED <<shelf, shop, orders, edits, tries, standing, late>>
        /\ Goes(r, "delete") \/ Ends(r)
    BY <1>6 DEF RemoveReadProduct
  <2>2. /\ req' \in [Requests -> Request] /\ req'[r].at \in {"idle", "delete"}
        /\ \A s \in Requests \ {r} : req'[s] = req[s]
    BY <2>1, GoesType, EndsType
  <2>3. TypeOK'
    BY <2>1, <2>2 DEF TypeOK
  <2>. QED  BY <2>1, <2>2, <2>3, Keeps DEF PlacingInv, LateInv, Listed
<1>7. ASSUME NEW r \in Requests, RemoveDelete(r)
      PROVE  CheckoutInv'
  <2>1. Ends(r) /\ UNCHANGED <<shop, orders, edits, tries, late>>
    BY <1>7 DEF RemoveDelete
  <2>2. PICK p \in Products :
           /\ ~Held(p)
           /\ IF Listed(p) /\ ~Named(p) THEN Puts(p, [shelf[p] EXCEPT !.row = "deleted"])
                                        ELSE UNCHANGED <<shelf, standing>>
    BY <1>7 DEF RemoveDelete, TypeOK, Request
  <2>3. CASE UNCHANGED <<shelf, standing>>
    <3>1. TypeOK'
      BY <2>1, <2>3, EndsType DEF TypeOK
    <3>. QED  BY <2>1, <2>3, <3>1, EndsType, Keeps DEF PlacingInv, LateInv, Listed
  <2>4. CASE ~Named(p) /\ Puts(p, [shelf[p] EXCEPT !.row = "deleted"])
    <3>1. [shelf[p] EXCEPT !.row = "deleted"] \in Row
      BY DEF TypeOK, Shelf, Row
    <3>2. TypeOK'
      BY <2>1, <2>4, <3>1, PutsType, EndsType DEF TypeOK
    <3>. QED  BY <2>1, <2>2, <2>4, <3>1, <3>2, PutsType, EndsType, Keeps DEF LateInv, Listed
  <2>. QED  BY <2>2, <2>3, <2>4
<1>. QED  BY <1>1, <1>2, <1>3, <1>4, <1>5, <1>6, <1>7
          DEF ChangesShelf, CreateReadShop, UpdateReadShop, RemoveReadShop

LEMMA CheckoutStep == CheckoutInv /\ [Next]_vars => CheckoutInv'
<1>1. ASSUME CheckoutInv, UNCHANGED vars PROVE CheckoutInv'
  BY <1>1 DEF CheckoutInv, TypeOK, PlacingInv, HistoryKept, LateInv, Placing, Sells,
              Listed, Named, vars
<1>. QED  BY <1>1, PlaceStep, ShelfStep DEF Next

\* A request about to commit does so next.
LEMMA OnlyCommits ==
    ASSUME TypeOK, [Next]_vars, NEW r \in Requests, req[r].at = "commit", req'[r] # req[r]
    PROVE  PlaceCommit(r)
<1>1. ASSUME NEW t \in Requests, Places(t) \/ ChangesShelf(t)
      PROVE  /\ \A s \in Requests \ {t} : req'[s] = req[s]
             /\ req[t].at = "commit" => PlaceCommit(t)
  <2>1. \A s \in Requests \ {t} : req'[s] = req[s]
    BY <1>1 DEF Places, ChangesShelf, PlaceReadShop, PlaceReadProducts, PlaceInsert, PlaceCommit,
                EditsShelf, CreateReadShop, CreateWrite, UpdateReadShop, UpdateReadProduct, UpdateWrite,
                RemoveReadShop, RemoveReadProduct, RemoveDelete, Starts, Goes, Ends, TypeOK
  <2>2. req[t].at = "commit" => PlaceCommit(t)
    BY <1>1, IdleType DEF Places, ChangesShelf, PlaceReadShop, PlaceReadProducts, PlaceInsert,
                EditsShelf, CreateReadShop, CreateWrite, UpdateReadShop, UpdateReadProduct, UpdateWrite,
                RemoveReadShop, RemoveReadProduct, RemoveDelete, Starts
  <2>. QED  BY <2>1, <2>2
<1>2. SetMerchantStatus \/ UNCHANGED vars => req' = req
  BY DEF SetMerchantStatus, vars
<1>. QED  BY <1>1, <1>2 DEF Next

-----------------------------------------------------------------------------
\* The inductive invariant: with the properties, what requests in flight rely on.
THEOREM CheckoutInvariant == Spec => []CheckoutInv
<1>. QED  BY InitCheckout, CheckoutStep, PTL DEF Spec

\* Any number of edits may fall between create's statements: what it charges was for sale
\* together at one moment since the request began.
THEOREM OneShelfHolds == Spec => OneShelf
<1>. DEFINE Charged == \A r \in Requests : req[r].at = "commit" /\ req'[r] # req[r] =>
                          req[r].seen \in orders' /\ \E s \in standing[r] : Sells(s, req[r].seen)
<1>1. ASSUME CheckoutInv, [Next]_vars
      PROVE  [Charged]_vars
  <2>. SUFFICES ASSUME NEW r \in Requests, req[r].at = "commit", req'[r] # req[r]
                PROVE  req[r].seen \in orders' /\ \E s \in standing[r] : Sells(s, req[r].seen)
    OBVIOUS
  <2>1. \E s \in standing[r] : Sells(s, req[r].seen)
    BY <1>1 DEF CheckoutInv, PlacingInv
  <2>2. PlaceCommit(r)
    BY <1>1, OnlyCommits DEF CheckoutInv
  <2>. QED  BY <2>1, <2>2 DEF PlaceCommit
<1>2. Spec => []CheckoutInv
  BY CheckoutInvariant
<1>. QED  BY <1>1, <1>2, PTL DEF Spec, OneShelf

\* No interleaving of placing and removing deletes a product that an order names.
THEOREM HistoryKeptHolds == Spec => []HistoryKept
<1>1. CheckoutInv => HistoryKept
  BY DEF CheckoutInv
<1>. QED  BY <1>1, CheckoutInvariant, PTL

\* A shop that is suspended gets no more orders than there were requests that had read it.
THEOREM LateOrdersBoundedHolds == Spec => []LateOrdersBounded
<1>1. CheckoutInv => LateOrdersBounded
  <2>. SUFFICES ASSUME CheckoutInv PROVE late <= Cardinality(Requests)
    BY DEF LateOrdersBounded
  <2>1. Placing \in SUBSET Requests /\ late \in Nat
    BY DEF Placing, CheckoutInv, TypeOK
  <2>. QED  BY <2>1, FiniteRequests DEF CheckoutInv, LateInv
<1>. QED  BY <1>1, CheckoutInvariant, PTL

-----------------------------------------------------------------------------
(* The category tree of Catalogue keeps its shape, for any categories,   *)
(* names and number of overlapping requests.                             *)

\* A row that was ever inserted at the top.
WasTop(c) == category[c].row # "unused" /\ category[c].parent = Root

\* What a creation may take for a parent, at the time it checks.
ParentOnce(p) == p = Root \/ (p \in Categories /\ WasTop(p))

\* A subcategory's parent exists and is at the top; so was the parent a creation goes for,
\* though it may be deleted by now.
ParentsInv ==
    /\ \A c \in Existing : category[c].parent \in Under(Root) \cup {Root}
    /\ \A r \in Slots : inFlight[r].at \in {"clash", "insert"} =>
          ParentOnce(inFlight[r].parent)

CatalogueInv == CatalogueTypeOK /\ ParentsInv /\ SubcategoryNamesDiffer /\ ProductsKeepCategory

-----------------------------------------------------------------------------
LEMMA CatIdle == NoRequest \in CategoryRequest /\ NoRequest.at = "idle"
BY RootAssumption DEF NoRequest, CategoryRequest

\* A request starts, moves or ends.
LEMMA RequestType ==
    ASSUME CatalogueTypeOK, NEW r \in Slots, NEW q \in CategoryRequest,
           inFlight' = [inFlight EXCEPT ![r] = q]
    PROVE  /\ inFlight' \in [Slots -> CategoryRequest] /\ inFlight'[r] = q
           /\ \A s \in Slots \ {r} : inFlight'[s] = inFlight[s]
BY DEF CatalogueTypeOK

LEMMA CatGoes ==
    ASSUME CatalogueTypeOK, NEW r \in Slots, NEW p \in {"insert", "rename"}
    PROVE  LET q == [inFlight[r] EXCEPT !.at = p]
           IN  q \in CategoryRequest /\ q.at = p /\ q.id = inFlight[r].id /\ q.parent = inFlight[r].parent
BY DEF CatalogueTypeOK, CategoryRequest

\* A step that leaves the tables alone keeps the invariant when the one request it moves names a
\* category where it must, and a parent that was at the top where it creates.
LEMMA ReadKeeps ==
    ASSUME CatalogueInv, NEW r \in Slots, NEW q \in CategoryRequest,
           inFlight' = [inFlight EXCEPT ![r] = q], UNCHANGED <<category, filed>>,
           q.at \in {"others", "rename", "delete", "file"} => q.id \in Categories,
           q.at \in {"clash", "insert"} =>
               ParentOnce(q.parent)
    PROVE  CatalogueInv'
<1>. USE DEF CatalogueInv
<1>1. /\ inFlight' \in [Slots -> CategoryRequest] /\ inFlight'[r] = q
      /\ \A s \in Slots \ {r} : inFlight'[s] = inFlight[s]
  BY RequestType
<1>2. CatalogueTypeOK'
  BY <1>1 DEF CatalogueTypeOK
<1>3. ParentsInv'
  BY <1>1 DEF ParentsInv, ParentOnce, WasTop, Under, Existing
<1>4. SubcategoryNamesDiffer' /\ ProductsKeepCategory'
  BY DEF SubcategoryNamesDiffer, ProductsKeepCategory, Under, Existing
<1>. QED  BY <1>2, <1>3, <1>4

\* A request ends.
LEMMA CatEnds ==
    ASSUME CatalogueTypeOK, NEW r \in Slots, Finishes(r)
    PROVE  /\ inFlight' \in [Slots -> CategoryRequest] /\ inFlight'[r].at = "idle"
           /\ \A s \in Slots \ {r} : inFlight'[s] = inFlight[s]
BY CatIdle, RequestType DEF Finishes

\* A request ends and no row changes.
LEMMA EndKeeps ==
    ASSUME CatalogueInv, NEW r \in Slots, Finishes(r), UNCHANGED <<category, filed>>
    PROVE  CatalogueInv'
BY CatIdle, ReadKeeps DEF Finishes, CatalogueInv

LEMMA InitCatalogue == CatalogueInit => CatalogueInv
<1>. SUFFICES ASSUME CatalogueInit PROVE CatalogueInv
  OBVIOUS
<1>1. category \in [Categories -> CategoryRow] /\ \A c \in Categories : category[c].parent = Root
  BY DEF CatalogueInit, CategoryRow
<1>2. inFlight \in [Slots -> CategoryRequest] /\ \A r \in Slots : inFlight[r].at = "idle"
  BY CatIdle DEF CatalogueInit
<1>3. CatalogueTypeOK
  BY <1>1, <1>2 DEF CatalogueInit, CatalogueTypeOK
<1>4. ParentsInv
  BY <1>1, <1>2 DEF ParentsInv, Existing
<1>5. SubcategoryNamesDiffer
  BY <1>1 DEF SubcategoryNamesDiffer, Under, Existing
<1>6. ProductsKeepCategory
  BY DEF CatalogueInit, ProductsKeepCategory
<1>. QED  BY <1>3, <1>4, <1>5, <1>6 DEF CatalogueInv

-----------------------------------------------------------------------------
(* One lemma for what a handler reads and one for each of its writes. *)

LEMMA ReadStep ==
    ASSUME CatalogueInv, NEW r \in Slots,
           \/ \E parent \in Categories \cup {Root}, name \in Names : CreateReadParent(r, parent, name)
           \/ CreateReadClash(r)
           \/ \E c \in Categories, name \in Names : RenameRead(r, c, name)
           \/ RenameReadClash(r)
           \/ \E c \in Categories : DeleteRead(r, c) \/ FileRead(r, c)
    PROVE  CatalogueInv'
<1>. USE DEF CatalogueInv
<1>1. ASSUME NEW parent \in Categories \cup {Root}, NEW name \in Names,
             CreateReadParent(r, parent, name)
      PROVE  CatalogueInv'
  <2>. DEFINE q == [NoRequest EXCEPT !.at = "clash", !.parent = parent, !.name = name]
  <2>1. q \in CategoryRequest /\ q.at = "clash" /\ q.parent = parent
    BY CatIdle DEF CategoryRequest
  <2>2. ParentOnce(parent)
    BY <1>1 DEF CreateReadParent, Under, Existing, WasTop, ParentOnce
  <2>3. inFlight' = [inFlight EXCEPT ![r] = q] /\ UNCHANGED <<category, filed>>
    BY <1>1 DEF CreateReadParent
  <2>. HIDE DEF q
  <2>. QED  BY <2>1, <2>2, <2>3, ReadKeeps
<1>2. CASE CreateReadClash(r)
  <2>. DEFINE q == [inFlight[r] EXCEPT !.at = "insert"]
  <2>1. q \in CategoryRequest /\ q.at = "insert" /\ q.parent = inFlight[r].parent
    BY CatGoes
  <2>2. ParentOnce(inFlight[r].parent)
    BY <1>2 DEF CreateReadClash, ParentsInv
  <2>3. Finishes(r) \/ inFlight' = [inFlight EXCEPT ![r] = q]
    BY <1>2 DEF CreateReadClash, Proceeds
  <2>4. UNCHANGED <<category, filed>>
    BY <1>2 DEF CreateReadClash
  <2>. HIDE DEF q
  <2>. QED  BY <2>1, <2>2, <2>3, <2>4, ReadKeeps, EndKeeps
<1>3. ASSUME NEW c \in Categories, NEW name \in Names, RenameRead(r, c, name)
      PROVE  CatalogueInv'
  <2>. DEFINE q == [at |-> "others", id |-> c, parent |-> category[c].parent, name |-> name]
  <2>1. q \in CategoryRequest /\ q.at = "others" /\ q.id = c
    BY DEF CatalogueTypeOK, CategoryRow, CategoryRequest
  <2>2. inFlight' = [inFlight EXCEPT ![r] = q] /\ UNCHANGED <<category, filed>>
    BY <1>3 DEF RenameRead
  <2>. HIDE DEF q
  <2>. QED  BY <2>1, <2>2, ReadKeeps
<1>4. CASE RenameReadClash(r)
  <2>. DEFINE q == [inFlight[r] EXCEPT !.at = "rename"]
  <2>1. q \in CategoryRequest /\ q.at = "rename" /\ q.id = inFlight[r].id
    BY CatGoes
  <2>2. inFlight[r].id \in Categories
    BY <1>4 DEF RenameReadClash, CatalogueTypeOK
  <2>3. Finishes(r) \/ inFlight' = [inFlight EXCEPT ![r] = q]
    BY <1>4 DEF RenameReadClash, Proceeds
  <2>4. UNCHANGED <<category, filed>>
    BY <1>4 DEF RenameReadClash
  <2>. HIDE DEF q
  <2>. QED  BY <2>1, <2>2, <2>3, <2>4, ReadKeeps, EndKeeps
<1>5. ASSUME NEW c \in Categories, DeleteRead(r, c) \/ FileRead(r, c)
      PROVE  CatalogueInv'
  <2>1. PICK p \in {"delete", "file"} : inFlight' = [inFlight EXCEPT ![r] = [NoRequest EXCEPT !.at = p, !.id = c]]
    BY <1>5 DEF DeleteRead, FileRead
  <2>. DEFINE q == [NoRequest EXCEPT !.at = p, !.id = c]
  <2>2. q \in CategoryRequest /\ q.at = p /\ q.id = c
    BY CatIdle DEF CategoryRequest
  <2>3. UNCHANGED <<category, filed>>
    BY <1>5 DEF DeleteRead, FileRead
  <2>. HIDE DEF q
  <2>. QED  BY <2>1, <2>2, <2>3, ReadKeeps DEF q
<1>. QED  BY <1>1, <1>2, <1>3, <1>4, <1>5

LEMMA InsertStep ==
    ASSUME CatalogueInv, NEW r \in Slots, CreateInsert(r)
    PROVE  CatalogueInv'
<1>. USE DEF CatalogueInv
<1>. DEFINE parent == inFlight[r].parent
            name   == inFlight[r].name
            row    == [row |-> "listed", name |-> name, parent |-> parent]
<1>1. Finishes(r) /\ UNCHANGED filed
  BY DEF CreateInsert
<1>2. CASE category' = category
  BY <1>1, <1>2, EndKeeps
<1>3. ASSUME NEW c \in Unused, category' = [category EXCEPT ![c] = row],
             ~Duplicate(c, parent, name), parent \in Existing \cup {Root}
      PROVE  CatalogueInv'
  <2>1. row \in CategoryRow /\ row.row = "listed" /\ row.name = name /\ row.parent = parent
    BY DEF CatalogueTypeOK, CategoryRequest, CategoryRow
  <2>2. parent = Root \/ parent \in Under(Root)
    BY <1>3 DEF CreateInsert, ParentsInv, ParentOnce, WasTop, Under, Existing
  <2>. HIDE DEF row, parent, name
  <2>3. /\ category' \in [Categories -> CategoryRow] /\ category'[c] = row
        /\ \A d \in Categories \ {c} : category'[d] = category[d]
        /\ c \in Categories /\ c \notin Existing
    BY <1>3, <2>1 DEF CatalogueTypeOK, Unused, Existing
  <2>4. Existing' = Existing \cup {c}
    BY <2>1, <2>3 DEF Existing
  <2>5. /\ inFlight' \in [Slots -> CategoryRequest] /\ inFlight'[r].at = "idle"
        /\ \A s \in Slots \ {r} : inFlight'[s] = inFlight[s]
    BY <1>1, CatEnds
  <2>6. CatalogueTypeOK'
    BY <1>1, <2>3, <2>5 DEF CatalogueTypeOK
  <2>7. ParentsInv'
    <3>1. Under(Root) \subseteq Under(Root)'
      BY <2>3, <2>4 DEF Under, Existing
    <3>2. \A d \in Existing' : category'[d].parent \in Under(Root)' \cup {Root}
      BY <2>1, <2>2, <2>3, <2>4, <3>1 DEF ParentsInv, Existing
    <3>3. \A d \in Categories : WasTop(d) => d # c /\ WasTop(d)'
      BY <1>3, <2>3 DEF WasTop, Unused
    <3>4. (\A s \in Slots : inFlight[s].at \in {"clash", "insert"} => ParentOnce(inFlight[s].parent))'
      BY <2>5, <3>3 DEF ParentsInv, ParentOnce, WasTop
    <3>. QED  BY <3>2, <3>4 DEF ParentsInv
  <2>8. SubcategoryNamesDiffer'
    <3>. SUFFICES ASSUME NEW d \in Existing', NEW e \in Existing', d # e,
                         category'[d].parent # Root, category'[d].parent = category'[e].parent
                  PROVE  category'[d].name # category'[e].name
      BY DEF SubcategoryNamesDiffer, Under
    <3>1. CASE d # c /\ e # c
      BY <2>3, <2>4, <3>1 DEF SubcategoryNamesDiffer, Under, Existing
    <3>2. ASSUME NEW x \in Existing, category[x].parent = parent, parent # Root
          PROVE  category[x].name # name
      BY <1>3, <2>3, <3>2 DEF Duplicate, Under
    <3>3. CASE d = c \/ e = c
      BY <2>1, <2>3, <2>4, <3>2, <3>3 DEF Existing
    <3>. QED  BY <3>1, <3>3
  <2>9. ProductsKeepCategory'
    BY <1>1, <2>4 DEF ProductsKeepCategory
  <2>. QED  BY <2>6, <2>7, <2>8, <2>9
<1>. QED  BY <1>2, <1>3 DEF CreateInsert

LEMMA RenameStep ==
    ASSUME CatalogueInv, NEW r \in Slots, RenameWrite(r)
    PROVE  CatalogueInv'
<1>. USE DEF CatalogueInv
<1>. DEFINE c    == inFlight[r].id
            name == inFlight[r].name
            row  == [category[c] EXCEPT !.name = name]
<1>1. Finishes(r) /\ UNCHANGED filed
  BY DEF RenameWrite
<1>2. CASE category' = category
  BY <1>1, <1>2, EndKeeps
<1>3. CASE /\ category' = [category EXCEPT ![c] = row]
           /\ c \in Existing /\ ~Duplicate(c, category[c].parent, name)
  <2>1. /\ c \in Categories /\ row \in CategoryRow /\ row.name = name
        /\ row.row = category[c].row /\ row.parent = category[c].parent
    BY <1>3 DEF CatalogueTypeOK, CategoryRequest, CategoryRow, Existing
  <2>. HIDE DEF row, c, name
  <2>2. /\ category' \in [Categories -> CategoryRow] /\ category'[c] = row
        /\ \A d \in Categories \ {c} : category'[d] = category[d]
    BY <1>3, <2>1 DEF CatalogueTypeOK
  <2>3. /\ \A d \in Categories : category'[d].row = category[d].row /\ category'[d].parent = category[d].parent
        /\ Existing' = Existing /\ Under(Root)' = Under(Root)
    BY <2>1, <2>2 DEF Existing, Under
  <2>4. /\ inFlight' \in [Slots -> CategoryRequest] /\ inFlight'[r].at = "idle"
        /\ \A s \in Slots \ {r} : inFlight'[s] = inFlight[s]
    BY <1>1, CatEnds
  <2>5. CatalogueTypeOK'
    BY <1>1, <2>2, <2>4 DEF CatalogueTypeOK
  <2>6. ParentsInv'
    BY <2>3, <2>4 DEF ParentsInv, ParentOnce, WasTop, Existing
  <2>7. SubcategoryNamesDiffer'
    <3>. SUFFICES ASSUME NEW d \in Existing, NEW e \in Existing, d # e,
                         category[d].parent # Root, category[d].parent = category[e].parent
                  PROVE  category'[d].name # category'[e].name
      BY <2>3 DEF SubcategoryNamesDiffer, Under, Existing
    <3>1. CASE d # c /\ e # c
      BY <2>2, <3>1 DEF SubcategoryNamesDiffer, Under, Existing
    <3>2. ASSUME NEW x \in Existing, x # c, category[x].parent = category[c].parent,
                 category[c].parent # Root
          PROVE  category[x].name # name
      BY <1>3, <3>2 DEF Duplicate, Under
    <3>3. CASE d = c \/ e = c
      BY <2>1, <2>2, <3>2, <3>3 DEF Existing
    <3>. QED  BY <3>1, <3>3
  <2>8. ProductsKeepCategory'
    BY <1>1, <2>3 DEF ProductsKeepCategory
  <2>. QED  BY <2>5, <2>6, <2>7, <2>8
<1>. QED  BY <1>2, <1>3 DEF RenameWrite

LEMMA DeleteStep ==
    ASSUME CatalogueInv, NEW r \in Slots, DeleteWrite(r)
    PROVE  CatalogueInv'
<1>. USE DEF CatalogueInv
<1>. DEFINE c   == inFlight[r].id
            row == [category[c] EXCEPT !.row = "deleted"]
<1>1. Finishes(r) /\ UNCHANGED filed
  BY DEF DeleteWrite
<1>2. CASE category' = category
  BY <1>1, <1>2, EndKeeps
<1>3. CASE /\ category' = [category EXCEPT ![c] = row]
           /\ c \in Existing /\ Under(c) = {} /\ Filed(c) = {}
  <2>1. /\ c \in Categories /\ row \in CategoryRow
        /\ row.row = "deleted" /\ row.parent = category[c].parent
    BY <1>3 DEF CatalogueTypeOK, CategoryRow, Existing
  <2>. HIDE DEF row, c
  <2>2. /\ category' \in [Categories -> CategoryRow] /\ category'[c] = row
        /\ \A d \in Categories \ {c} : category'[d] = category[d]
    BY <1>3, <2>1 DEF CatalogueTypeOK
  <2>3. Existing' = Existing \ {c} /\ Under(Root)' = Under(Root) \ {c}
    BY <2>1, <2>2 DEF Existing, Under
  <2>4. /\ inFlight' \in [Slots -> CategoryRequest] /\ inFlight'[r].at = "idle"
        /\ \A s \in Slots \ {r} : inFlight'[s] = inFlight[s]
    BY <1>1, CatEnds
  <2>5. CatalogueTypeOK'
    BY <1>1, <2>2, <2>4 DEF CatalogueTypeOK
  <2>6. ParentsInv'
    <3>1. \A d \in Existing : category[d].parent # c
      BY <1>3 DEF Under
    <3>2. \A d \in Existing' : category'[d].parent \in Under(Root)' \cup {Root}
      BY <2>2, <2>3, <3>1 DEF ParentsInv, Existing
    <3>3. \A d \in Categories : WasTop(d) => WasTop(d)'
      BY <2>1, <2>2 DEF WasTop
    <3>4. (\A s \in Slots : inFlight[s].at \in {"clash", "insert"} => ParentOnce(inFlight[s].parent))'
      BY <2>4, <3>3 DEF ParentsInv, ParentOnce, WasTop
    <3>. QED  BY <3>2, <3>4 DEF ParentsInv
  <2>7. SubcategoryNamesDiffer'
    BY <2>2, <2>3 DEF SubcategoryNamesDiffer, Existing
  <2>8. ProductsKeepCategory'
    BY <1>1, <1>3, <2>3 DEF ProductsKeepCategory, Filed
  <2>. QED  BY <2>5, <2>6, <2>7, <2>8
<1>. QED  BY <1>2, <1>3 DEF DeleteWrite

LEMMA FileStep ==
    ASSUME CatalogueInv, RemoveProduct \/ \E r \in Slots : FileWrite(r)
    PROVE  CatalogueInv'
<1>. USE DEF CatalogueInv
<1>1. filed' \in [Goods -> Categories \cup {Root}] /\ \A p \in Goods : filed'[p] \in Existing \cup {Root}
  BY DEF RemoveProduct, FileWrite, CatalogueTypeOK, ProductsKeepCategory, Existing
<1>2. /\ category' = category /\ inFlight' \in [Slots -> CategoryRequest]
      /\ \A s \in Slots : inFlight'[s] = inFlight[s] \/ inFlight'[s].at = "idle"
  BY CatEnds DEF RemoveProduct, FileWrite, CatalogueTypeOK
<1>3. CatalogueTypeOK'
  BY <1>1, <1>2 DEF CatalogueTypeOK
<1>4. ParentsInv' /\ SubcategoryNamesDiffer'
  BY <1>2 DEF ParentsInv, ParentOnce, SubcategoryNamesDiffer, WasTop, Under, Existing
<1>5. ProductsKeepCategory'
  BY <1>1, <1>2 DEF ProductsKeepCategory, Existing
<1>. QED  BY <1>3, <1>4, <1>5

LEMMA CatalogueStep == CatalogueInv /\ [CatalogueNext]_catalogueVars => CatalogueInv'
<1>1. ASSUME CatalogueInv, UNCHANGED catalogueVars PROVE CatalogueInv'
  BY <1>1 DEF CatalogueInv, CatalogueTypeOK, ParentsInv, ParentOnce, WasTop, SubcategoryNamesDiffer,
              ProductsKeepCategory,
              Under, Existing, catalogueVars
<1>. QED  BY <1>1, ReadStep, InsertStep, RenameStep, DeleteStep, FileStep DEF CatalogueNext

-----------------------------------------------------------------------------
\* The inductive invariant: what a check has seen may be gone, but never what makes a tree.
THEOREM CatalogueInvariant == CatalogueSpec => []CatalogueInv
<1>1. CatalogueInit => CatalogueInv
  BY InitCatalogue
<1>2. CatalogueInv /\ [CatalogueNext]_catalogueVars => CatalogueInv'
  BY CatalogueStep
<1>. QED  BY <1>1, <1>2, PTL DEF CatalogueSpec

\* findTree shows every category, whatever overlaps: no third level, no orphan.
THEOREM TreeShowsAllHolds == CatalogueSpec => []TreeShowsAll
<1>1. CatalogueInv => TreeShowsAll
  <2>. SUFFICES ASSUME CatalogueInv
                PROVE  Existing = Under(Root) \cup UNION {Under(t) : t \in Under(Root)}
    BY DEF TreeShowsAll, findTree
  <2>1. \A c \in Existing : c \in Under(Root) \/ \E t \in Under(Root) : c \in Under(t)
    BY DEF CatalogueInv, ParentsInv, Under
  <2>2. \A t : Under(t) \subseteq Existing
    BY DEF Under
  <2>. QED  BY <2>1, <2>2
<1>2. CatalogueSpec => []CatalogueInv
  BY CatalogueInvariant
<1>. QED  BY <1>1, <1>2, PTL

\* The unique index keeps subcategories apart though the handlers' checks do not.
THEOREM SubcategoryNamesDifferHolds == CatalogueSpec => []SubcategoryNamesDiffer
<1>1. CatalogueInv => SubcategoryNamesDiffer
  BY DEF CatalogueInv
<1>2. CatalogueSpec => []CatalogueInv
  BY CatalogueInvariant
<1>. QED  BY <1>1, <1>2, PTL

\* The foreign key keeps every product in a category that exists.
THEOREM ProductsKeepCategoryHolds == CatalogueSpec => []ProductsKeepCategory
<1>1. CatalogueInv => ProductsKeepCategory
  BY DEF CatalogueInv
<1>2. CatalogueSpec => []CatalogueInv
  BY CatalogueInvariant
<1>. QED  BY <1>1, <1>2, PTL

\* Whatever overlaps, deletions leave no category out of the tree and no product without one.
THEOREM NothingOrphanedHolds == CatalogueSpec => []NothingOrphaned
<1>1. (CatalogueSpec => []TreeShowsAll) /\ (CatalogueSpec => []ProductsKeepCategory)
  BY TreeShowsAllHolds, ProductsKeepCategoryHolds
<1>. QED  BY <1>1, PTL DEF NothingOrphaned
=============================================================================
