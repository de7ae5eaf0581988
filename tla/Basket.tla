------------------------------- MODULE Basket -------------------------------
(***************************************************************************)
(* The customer app's basket and the orders placed from it.                *)
(*                                                                         *)
(* useCart keeps the basket in the state of the shop screen, restores it   *)
(* from AsyncStorage when the screen opens and stores every later change.  *)
(* Reads and writes of the storage are asynchronous, writes in order; the  *)
(* screen may be left, or the app killed, at any time.  CartScreen sends   *)
(* the basket shown as an order and empties it on the answer, which may be *)
(* lost whether the server took the order or not.                          *)
(*                                                                         *)
(* A unit is one press of "add", and a quantity the number of its line's   *)
(* units: what matters is whether what a customer asked for once is ordered*)
(* once.  Prices are for display only.                                     *)
(***************************************************************************)
EXTENDS Integers

CONSTANTS Shops,
          Units,     \* identities for presses of "add"
          ShopOf,    \* the shop whose product a unit is of
          Requests,  \* slots for orders on their way
          NoShop     \* null

ASSUME UnitsAssumption == NoShop \notin Shops /\ ShopOf \in [Units -> Shops]

VARIABLES
    opened,    \* the shop whose screen is open
    cart,      \* useCart's lines and shopId
    loaded,    \* useCart's loaded
    placing,   \* CartScreen's placing
    handed,    \* the basket last handed to the storage, which a read would return
    disk,      \* the basket an app that is killed will find
    sent,      \* orders on their way
    used,      \* history: units there have been
    ordered,   \* history: units in the orders the server took
    heard,     \* history: units in the orders the app knows of, emptied from what it handed over
    settled,   \* history: those emptied from the disk
    dropped    \* history: units with a reason to have left the basket

history == <<used, ordered, heard, settled, dropped>>
basketVars == <<opened, cart, loaded, placing, handed, disk, sent, history>>

Basket == [shop : Shops \cup {NoShop}, units : SUBSET Units]
Empty == [shop |-> NoShop, units |-> {}]

\* `here` while the screen that sent it waits for the answer.
OrderSent == [at : {"idle", "sent", "accepted", "refused"}, units : SUBSET Units,
              shop : Shops \cup {NoShop}, here : BOOLEAN]
NoOrder == [at |-> "idle", units |-> {}, shop |-> NoShop, here |-> FALSE]

Sold(b, s) == \A u \in b.units : ShopOf[u] = s

\* A basket stored by a version of the app that did not keep its shop has none.
BasketInit ==
    /\ opened = NoShop /\ cart = Empty /\ loaded = FALSE /\ placing = FALSE
    /\ disk \in {b \in Basket : \E s \in Shops : Sold(b, s) /\ b.shop \in {s, NoShop}}
    /\ handed = disk
    /\ sent = [r \in Requests |-> NoOrder]
    /\ used = disk.units
    /\ ordered = {} /\ heard = {} /\ settled = {} /\ dropped = {}

-----------------------------------------------------------------------------
\* Every change is stored, but not before the stored basket has been read.
ShowsBasket_Unguarded(b) == cart' = b /\ handed' = b
ShowsBasket(b) == cart' = b /\ handed' = IF loaded THEN b ELSE handed

Open(s) ==
    /\ opened = NoShop
    /\ opened' = s
    /\ ShowsBasket(Empty)
    /\ UNCHANGED <<loaded, placing, disk, sent, history>>

\* The stored basket replaces what was added meanwhile.
Restore ==
    /\ opened # NoShop /\ ~loaded
    /\ cart' = handed
    /\ loaded' = TRUE
    /\ UNCHANGED <<opened, placing, handed, disk, sent, history>>

\* A basket that cannot be read is given up for what was added meanwhile.
RestoreFails ==
    /\ opened # NoShop /\ ~loaded
    /\ handed' = cart
    /\ loaded' = TRUE
    /\ dropped' = dropped \cup handed.units \cup disk.units
    /\ UNCHANGED <<opened, cart, placing, disk, sent, used, ordered, heard, settled>>

\* The screen goes; no one waits for its orders any more.
Closes ==
    /\ opened' = NoShop /\ cart' = Empty /\ loaded' = FALSE /\ placing' = FALSE
    /\ sent' = [r \in Requests |-> [sent[r] EXCEPT !.here = FALSE]]

\* Back to the shops, or the session ends.
Leave ==
    /\ opened # NoShop
    /\ Closes
    /\ UNCHANGED <<handed, disk, history>>

-----------------------------------------------------------------------------
(* useCart *)

\* The card of a product adds, and takes away what the basket holds of it.
OnCard(u) == opened = ShopOf[u] /\ (u \in cart.units \/ u \notin used)

\* A line of the basket shown takes away as well.
OnLine(u) == opened # NoShop /\ cart.shop = opened /\ u \in cart.units

Add(u) ==
    /\ OnCard(u) /\ u \notin used
    /\ used' = used \cup {u}
    /\ IF cart.shop = opened
       THEN ShowsBasket([cart EXCEPT !.units = @ \cup {u}]) /\ UNCHANGED dropped
       ELSE ShowsBasket([shop |-> opened, units |-> {u}]) /\ dropped' = dropped \cup cart.units
    /\ UNCHANGED <<opened, loaded, placing, disk, sent, ordered, heard, settled>>

Remove(u) ==
    /\ OnCard(u) \/ OnLine(u)
    /\ u \in cart.units
    /\ ShowsBasket([cart EXCEPT !.units = @ \ {u}])
    /\ dropped' = dropped \cup {u}
    /\ UNCHANGED <<opened, loaded, placing, disk, sent, used, ordered, heard, settled>>

Flush ==
    /\ handed # disk
    /\ disk' = handed
    /\ settled' = heard
    /\ UNCHANGED <<opened, cart, loaded, placing, handed, sent, used, ordered, heard, dropped>>

\* A write that fails is not tried again.
WriteFails ==
    /\ handed # disk
    /\ handed' = disk
    /\ heard' = settled
    /\ UNCHANGED <<opened, cart, loaded, placing, disk, sent, used, ordered, settled, dropped>>

\* The app is killed, and with it what was not written.
Kill ==
    /\ Closes
    /\ handed' = disk
    /\ heard' = settled
    /\ UNCHANGED <<disk, used, ordered, settled, dropped>>

-----------------------------------------------------------------------------
(* CartScreen.handlePlaceOrder *)

Shown_OfAnyShop == cart.units
\* The basket is shown on its own shop's screen only.
Shown == IF cart.shop = opened THEN cart.units ELSE {}

\* Nothing is placed from an empty basket, or twice at a time.
PlaceOffered == opened # NoShop /\ Shown # {} /\ ~placing

PlaceOrder(r) ==
    /\ PlaceOffered
    /\ sent[r] = NoOrder
    /\ sent' = [sent EXCEPT ![r] = [at |-> "sent", units |-> Shown, shop |-> opened, here |-> TRUE]]
    /\ placing' = TRUE
    /\ UNCHANGED <<opened, cart, loaded, handed, disk, history>>

\* The server takes the order or refuses it, whoever waits for it.
ServeOrder(r) ==
    /\ sent[r].at = "sent"
    /\ \/ /\ sent' = [sent EXCEPT ![r].at = "accepted"]
          /\ ordered' = ordered \cup sent[r].units
       \/ /\ sent' = [sent EXCEPT ![r].at = "refused"]
          /\ UNCHANGED ordered
    /\ UNCHANGED <<opened, cart, loaded, placing, handed, disk, used, heard, settled, dropped>>

\* An app that leaves its basket as it is.
Hears_KeepsBasket(r) ==
    /\ sent[r].here /\ sent[r].at = "accepted"
    /\ heard' = heard \cup sent[r].units
    /\ sent' = [sent EXCEPT ![r] = NoOrder]
    /\ placing' = FALSE
    /\ UNCHANGED <<opened, cart, loaded, handed, disk, used, ordered, settled, dropped>>
\* onOrderPlaced empties the basket, with what was added since.
Hears(r) ==
    /\ sent[r].here /\ sent[r].at = "accepted"
    /\ ShowsBasket(Empty)
    /\ dropped' = dropped \cup cart.units
    /\ heard' = heard \cup sent[r].units
    /\ sent' = [sent EXCEPT ![r] = NoOrder]
    /\ placing' = FALSE
    /\ UNCHANGED <<opened, loaded, disk, used, ordered, settled>>

HearsRefusal(r) ==
    /\ sent[r].here /\ sent[r].at = "refused"
    /\ sent' = [sent EXCEPT ![r] = NoOrder]
    /\ placing' = FALSE
    /\ UNCHANGED <<opened, cart, loaded, handed, disk, history>>

\* fetch rejects: the app sees a failure, and the order may or may not be taken, or be already.
ConnectionFails(r) ==
    /\ sent[r].here
    /\ sent' = [sent EXCEPT ![r].here = FALSE]
    /\ placing' = FALSE
    /\ UNCHANGED <<opened, cart, loaded, handed, disk, history>>

\* A request no one waits for never arrives, or its answer goes nowhere.
GoesUnheard(r) ==
    /\ sent[r].at # "idle" /\ ~sent[r].here
    /\ sent' = [sent EXCEPT ![r] = NoOrder]
    /\ UNCHANGED <<opened, cart, loaded, placing, handed, disk, history>>

BasketNext ==
    \/ \E s \in Shops : Open(s)
    \/ Restore \/ RestoreFails \/ Leave
    \/ \E u \in Units : Add(u) \/ Remove(u)
    \/ Flush \/ WriteFails \/ Kill
    \/ \E r \in Requests :
          \/ PlaceOrder(r) \/ ServeOrder(r) \/ Hears(r) \/ HearsRefusal(r)
          \/ ConnectionFails(r) \/ GoesUnheard(r)

BasketSpec == BasketInit /\ [][BasketNext]_basketVars

-----------------------------------------------------------------------------
\* Every variable has its type, and the button is off exactly while this screen's one order
\* is on its way.
BasketTypeOK ==
    /\ opened \in Shops \cup {NoShop} /\ loaded \in BOOLEAN /\ placing \in BOOLEAN
    /\ cart \in Basket /\ handed \in Basket /\ disk \in Basket
    /\ sent \in [Requests -> OrderSent]
    /\ used \in SUBSET Units /\ ordered \in SUBSET Units
    /\ heard \in SUBSET Units /\ settled \in SUBSET Units /\ dropped \in SUBSET Units
    /\ placing <=> \E r \in Requests : sent[r].here

\* An order names products of the shop it is placed with, whatever basket was restored, replaced
\* or left behind in another shop.
OneShopPerOrder ==
    \A r \in Requests : \A u \in sent[r].units : ShopOf[u] = sent[r].shop

\* What an order contained that the app knows to be placed, and has stored as gone, is never sent
\* again: no restore, restart or answer to another order brings it back.
SettledNotRepeated ==
    [][\A r \in Requests : sent[r].at = "idle" => sent'[r].units \cap settled = {}]_basketVars

\* cart.ts: the empty starting state must not wipe the saved cart.  A unit leaves the disk only
\* when it was taken out, ordered, replaced by another shop's, or could not be read; or was in the
\* basket when an order of other units, sent before it was added, was answered and emptied it.
SavedIsKept == [][disk.units \ disk'.units \subseteq dropped]_basketVars

-----------------------------------------------------------------------------
(* What the documentation says and the code does not keep. *)

\* PHASE_REPORTS.md: the basket is cleared the moment an order is placed, so the same order cannot
\* be sent twice.  No unit is in two orders the server took.
OrderedOnce ==
    [][\A r \in Requests :
          sent[r].at = "sent" /\ sent'[r].at = "accepted" => sent[r].units \cap ordered = {}]_basketVars
=============================================================================
