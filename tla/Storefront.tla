----------------------------- MODULE Storefront -----------------------------
(***************************************************************************)
(* How a shop comes to be, and to be seen.  Its keeper registers it, the   *)
(* administrator approves and suspends it from a table that may be out of  *)
(* date, and a customer finds it in the list, opens it and searches its    *)
(* shelf, while it may be suspended at any point.  The customer also says  *)
(* where they are, by the phone's location or by picking an area.          *)
(*                                                                         *)
(* A shop has the name of its keeper's account.                            *)
(***************************************************************************)
EXTENDS Naturals, FiniteSetsExt

CONSTANTS Keepers,
          Filters,      \* searches and categories a shelf may be narrowed by; "all" is none
          Attempts,     \* how often a first load is tried
          MaxInFlight,  \* bound: requests on their way at once
          Days,         \* bound: what is tried, and the shops there are at first
          None          \* null

ASSUME AttemptsIsPositive == Attempts \in Nat \ {0}
ASSUME AllIsAFilter == "all" \in Filters

Slots == 1..MaxInFlight
Statuses == {"PENDING", "APPROVED", "SUSPENDED"}
Roles == {"CUSTOMER", "MERCHANT"}
Shown == [filter : Filters, products : {"found", "none"}]

ASSUME NoneIsNothing == None \notin Keepers \cup Filters \cup Statuses \cup Roles \cup Shown \cup {"found"}
ASSUME DaysAssumption == \A d \in Days : d.status \in [Keepers -> Statuses \cup {None}]

VARIABLES
    day,
    role,       \* the account's role; None where there is no account
    status,     \* the shop's; None where there is no shop
    rows, busy, \* the administrator's table, and an action of theirs is on its way
    opened,     \* the shop the customer has opened; None on the list of shops
    shops, loading, error,          \* the list of shops
    shown, filter, due, unread,     \* the shelf: what it shows, the filter, its timer, a first read
    place, saved, locating, picker, \* where the customer is
    req,        \* requests on their way
    crossed     \* history: a shelf was asked for over another answer, or one was not heard

accounts == <<role, status>>
admin == <<rows, busy>>
list == <<opened, shops, loading, error>>
shelf == <<shown, filter, due, unread, crossed>>
where == <<place, saved, locating, picker>>
vars == <<day, accounts, admin, list, shelf, where, req>>

\* `id` the shop or account it is about, `what` an argument, `n` the attempt; `mine` while the screen
\* waits that registers a shop, or asked for a location; `old` when an area was picked since.
Idle == [kind |-> "idle", id |-> None, what |-> None, n |-> 0, mine |-> FALSE, old |-> FALSE,
         answer |-> None]
Request(kind, id, what) == [Idle EXCEPT !.kind = kind, !.id = id, !.what = what, !.n = 1]

Sends(r, q) ==
    /\ req[r] = Idle /\ \A s \in 1..(r - 1) : req[s] # Idle
    /\ req' = [req EXCEPT ![r] = q]
Ends(r) == req' = [req EXCEPT ![r] = Idle]
Answers(r, a) == req' = [req EXCEPT ![r].answer = a]

Approved == {k \in Keepers : status[k] = "APPROVED"}

Init ==
    /\ day \in Days
    /\ status = day.status
    /\ role = [k \in Keepers |-> IF day.status[k] = None THEN None ELSE "MERCHANT"]
    /\ rows = {} /\ busy = FALSE
    /\ opened = None /\ shops = {} /\ loading = TRUE /\ error = FALSE
    /\ shown = None /\ filter = "all" /\ due = FALSE /\ unread = FALSE /\ crossed = FALSE
    /\ saved \in {FALSE, "area" \in day.tries}
    /\ place = (IF saved THEN "area" ELSE "unset")
    /\ locating = FALSE /\ picker = FALSE
    /\ req = [r \in Slots |-> IF r = 1 /\ "list" \in day.tries THEN Request("shops", None, None)
                              ELSE Idle]

-----------------------------------------------------------------------------
(* Registering a shop *)

\* The first code asked for with a phone number makes it a customer's.
requestOtp(k) ==
    /\ "register" \in day.tries
    /\ role[k] = None /\ role' = [role EXCEPT ![k] = "CUSTOMER"]
    /\ UNCHANGED <<day, status, admin, list, shelf, where, req>>

\* The screen to register on, off while it waits for an answer.
RegisterOffered(k) == ~ \E s \in Slots : req[s].kind = "register" /\ req[s].id = k /\ req[s].mine

handleRegister(r, k) ==
    /\ "register" \in day.tries
    /\ RegisterOffered(k)
    /\ Sends(r, [Request("register", k, None) EXCEPT !.mine = TRUE])
    /\ UNCHANGED <<day, accounts, admin, list, shelf, where>>

\* register, up to its transaction: what it read of the account is kept, and a shop is refused.
registerReads(r) ==
    /\ req[r].kind = "register" /\ req[r].answer = None
    /\ req' = [req EXCEPT ![r].what = role[req[r].id],
                          ![r].answer = IF status[req[r].id] = None THEN "read" ELSE "Conflict"]
    /\ UNCHANGED <<day, accounts, admin, list, shelf, where>>

\* An account made since, or a shop made since, is a row that cannot be inserted again.
Insertable(q) == role[q.id] = q.what \/ (q.what # None /\ role[q.id] # None)
ShopInsertable(q) == status[q.id] = None

\* Outside a transaction the account is promoted, and then the shop is made or is not.
register_NotInOne(r) ==
    LET k == req[r].id
    IN  /\ Insertable(req[r]) /\ role' = [role EXCEPT ![k] = "MERCHANT"]
        /\ \/ ShopInsertable(req[r]) /\ status' = [status EXCEPT ![k] = "PENDING"]
           \/ UNCHANGED status
\* Both or neither; the database may fail at any statement of it.
register(r) ==
    LET k == req[r].id
    IN  \/ /\ Insertable(req[r]) /\ ShopInsertable(req[r])
           /\ role' = [role EXCEPT ![k] = "MERCHANT"] /\ status' = [status EXCEPT ![k] = "PENDING"]
        \/ UNCHANGED accounts

registerWrites(r) ==
    /\ req[r].kind = "register" /\ req[r].answer = "read"
    /\ register(r) /\ Answers(r, "done")
    /\ UNCHANGED <<day, admin, list, shelf, where>>

\* Heard, or not waited for any more.
hearRegister(r) ==
    /\ req[r].kind = "register" /\ req[r].answer \in {"done", "Conflict"}
    /\ Ends(r)
    /\ UNCHANGED <<day, accounts, admin, list, shelf, where>>

\* fetch rejects: the button is back, and the server may register the shop still.
registerFails(r) ==
    /\ req[r].kind = "register" /\ req[r].mine
    /\ req' = [req EXCEPT ![r].mine = FALSE]
    /\ UNCHANGED <<day, accounts, admin, list, shelf, where>>

-----------------------------------------------------------------------------
(* The administrator *)

Merchants == {[id |-> k, status |-> status[k]] : k \in {x \in Keepers : status[x] # None}}

\* Opening the section, or coming back to it; an action under way does not prevent it.
loadMerchants(r) ==
    /\ "admin" \in day.tries
    /\ Sends(r, Request("merchants", None, None))
    /\ UNCHANGED <<day, accounts, admin, list, shelf, where>>

\* Approve, reject or suspend: the table is read again before the buttons come back.
act(r, row, to) ==
    /\ ~busy /\ row \in rows
    /\ to \in {"APPROVED", "SUSPENDED"} \ {row.status}
    /\ busy' = TRUE
    /\ Sends(r, Request("setStatus", row.id, to))
    /\ UNCHANGED <<day, accounts, rows, list, shelf, where>>

\* A status the shop has already is refused.
setMerchantStatus(r) ==
    /\ req[r].kind = "setStatus" /\ req[r].answer = None
    /\ status' = [status EXCEPT ![req[r].id] = req[r].what]
    /\ Answers(r, IF status[req[r].id] = req[r].what THEN "Conflict" ELSE "set")
    /\ UNCHANGED <<day, role, admin, list, shelf, where>>

findMerchants(r) ==
    /\ req[r].kind = "merchants" /\ req[r].answer = None
    /\ Answers(r, Merchants)
    /\ UNCHANGED <<day, accounts, admin, list, shelf, where>>

hearSet(r) ==
    /\ req[r].kind = "setStatus" /\ req[r].answer = "set"
    /\ req' = [req EXCEPT ![r] = Request("merchants", None, "act")]
    /\ UNCHANGED <<day, accounts, admin, list, shelf, where>>

hearMerchants(r) ==
    /\ req[r].kind = "merchants" /\ req[r].answer # None
    /\ rows' = req[r].answer /\ busy' = (busy /\ req[r].what # "act")
    /\ Ends(r)
    /\ UNCHANGED <<day, accounts, list, shelf, where>>

\* Refused, or the connection fails: a table that could not be read again stays as it was.
adminFails(r) ==
    /\ \/ req[r].kind = "setStatus"
       \/ req[r].kind = "merchants"
    /\ busy' = (busy /\ req[r].kind = "merchants" /\ req[r].what # "act")
    /\ Ends(r)
    /\ UNCHANGED <<day, accounts, rows, list, shelf, where>>

-----------------------------------------------------------------------------
(* The list of shops *)

findAll(r) ==
    /\ req[r].kind = "shops" /\ req[r].answer = None
    /\ Answers(r, Approved)
    /\ UNCHANGED <<day, accounts, admin, list, shelf, where>>

hearShops(r) ==
    /\ req[r].kind = "shops" /\ req[r].answer # None
    /\ shops' = req[r].answer /\ loading' = FALSE
    /\ Ends(r)
    /\ UNCHANGED <<day, accounts, admin, opened, error, shelf, where>>

\* However often, after the last attempt too.
TriesAgain_Forever(r) == req' = [req EXCEPT ![r].kind = "wait"]
\* withConnectRetry: the same request after a while, but for the last attempt.
TriesAgain(r) == req[r].n < Attempts /\ req' = [req EXCEPT ![r].kind = "wait"]

connectionFails(r) ==
    /\ req[r].kind = "shops" /\ TriesAgain(r)
    /\ UNCHANGED <<day, accounts, admin, list, shelf, where>>

\* The last attempt has failed, or the backend was reached and refuses.
shopsFail(r) ==
    /\ req[r].kind = "shops"
    /\ loading' = FALSE /\ error' = TRUE /\ Ends(r)
    /\ UNCHANGED <<day, accounts, admin, opened, shops, shelf, where>>

triesAgain(r) ==
    /\ req[r].kind = "wait"
    /\ req' = [req EXCEPT ![r] = [Request("shops", None, None) EXCEPT
                                      !.n = Min({req[r].n + 1, Attempts})]]
    /\ UNCHANGED <<day, accounts, admin, list, shelf, where>>

Refreshing == \E s \in Slots : req[s].kind \in {"shops", "wait"}

\* Pulled down, or retried after an error; where there are no shops there is neither.
handleRefresh(r) ==
    /\ opened = None /\ ~loading /\ ~picker /\ ~Refreshing
    /\ error \/ shops # {}
    /\ error' = FALSE
    /\ Sends(r, Request("shops", None, None))
    /\ UNCHANGED <<day, accounts, admin, opened, shops, loading, shelf, where>>

\* What a screen asked for is not heard once it has gone, but for a location.
Unmounted == [s \in Slots |-> IF req[s].kind \in {"shops", "wait", "categories", "products"}
                              THEN Idle ELSE [req[s] EXCEPT !.mine = (@ /\ req[s].kind = "register")]]
AsksFirst(r, q) == Unmounted[r] = Idle /\ req' = [Unmounted EXCEPT ![r] = q]

onSelectShop(r, k) ==
    /\ "browse" \in day.tries
    /\ opened = None /\ ~loading /\ ~error /\ ~picker /\ k \in shops
    /\ opened' = k
    /\ shown' = None /\ filter' = "all" /\ due' = FALSE /\ unread' = TRUE /\ crossed' = FALSE
    /\ locating' = FALSE /\ error' = FALSE
    /\ AsksFirst(r, Request("categories", k, None))
    /\ UNCHANGED <<day, accounts, admin, shops, loading, place, saved, picker>>

\* The list of shops is read afresh; an area saved earlier is taken where no place is set.
onBack(r) ==
    /\ opened # None
    /\ opened' = None /\ shops' = {} /\ loading' = TRUE /\ error' = FALSE
    /\ shown' = None /\ filter' = "all" /\ due' = FALSE /\ unread' = FALSE /\ crossed' = FALSE
    /\ place' = IF place = "unset" /\ saved THEN "area" ELSE place
    /\ AsksFirst(r, Request("shops", None, None))
    /\ UNCHANGED <<day, accounts, admin, saved, locating, picker>>

-----------------------------------------------------------------------------
(* A shop's shelf *)

\* findOne: a shop that is not approved is not found.
Resolves(q) == q.id \in Approved

findCategories(r) ==
    /\ req[r].kind = "categories" /\ req[r].answer = None
    /\ Answers(r, IF Resolves(req[r]) THEN "found" ELSE "NotFound")
    /\ UNCHANGED <<day, accounts, admin, list, shelf, where>>

\* findProducts resolves the shop, and then reads its shelf.
findProducts(r) ==
    /\ req[r].kind = "products" /\ req[r].answer = None
    /\ Answers(r, IF Resolves(req[r]) THEN "resolved" ELSE "NotFound")
    /\ UNCHANGED <<day, accounts, admin, list, shelf, where>>

\* The products of the shop that was resolved, whatever has become of it.
Found_Unpinned(q) == "found"
\* Only those of a shop that is approved still; of another there are none.
Found(q) == IF Resolves(q) THEN "found" ELSE "none"

readsProducts(r) ==
    /\ req[r].kind = "products" /\ req[r].answer = "resolved"
    /\ Answers(r, Found(req[r]))
    /\ UNCHANGED <<day, accounts, admin, list, shelf, where>>

\* The first read of the shelf follows the categories, read or not.
hearCategories(r) ==
    /\ req[r].kind = "categories"
    /\ error' = (error \/ req[r].answer # "found")
    /\ req' = [req EXCEPT ![r] = Request("products", opened, "all")]
    /\ UNCHANGED <<day, accounts, admin, opened, shops, loading, shelf, where>>

\* After the first read the timer runs as it does after a change of the filter.
Reads == unread' = FALSE /\ due' = (due \/ unread)

hearProducts(r) ==
    /\ req[r].kind = "products" /\ req[r].answer \in {"found", "none"}
    /\ shown' = [filter |-> req[r].what, products |-> req[r].answer]
    /\ Reads /\ Ends(r)
    /\ UNCHANGED <<day, accounts, admin, list, filter, crossed, where>>

\* Not found, or the connection fails: the shelf stays as it was.
productsFail(r) ==
    /\ req[r].kind = "products" /\ req[r].answer \notin {"found", "none"}
    /\ error' = TRUE /\ crossed' = TRUE
    /\ Reads /\ Ends(r)
    /\ UNCHANGED <<day, accounts, admin, opened, shops, loading, shown, filter, where>>

\* Typing in the search box, or a category's chip.
setFilter(f) ==
    /\ opened # None /\ ~unread
    /\ f # filter /\ filter' = f /\ due' = TRUE
    /\ UNCHANGED <<day, accounts, admin, list, shown, unread, crossed, where, req>>

Overlaps == crossed' = (crossed \/ \E s \in Slots : req[s].kind = "products")

\* The timer without the filter it was set for: the whole shelf.
asked_All == "all"
\* What the timer asks for.
asked == filter

\* 250 ms after the last change.
loadProducts(r) ==
    /\ due /\ ~unread /\ due' = FALSE
    /\ Sends(r, Request("products", opened, asked))
    /\ Overlaps
    /\ UNCHANGED <<day, accounts, admin, list, shown, filter, unread, where>>

\* handleRefresh, at once and whatever is on its way.
Rereads(r) ==
    /\ opened # None /\ ~unread
    /\ Sends(r, Request("products", opened, filter))
    /\ Overlaps
    /\ UNCHANGED <<day, accounts, admin, list, shown, filter, due, unread, where>>

\* The banner stays once there was an error, and with it its retry.
retryShelf(r) == error /\ Rereads(r)

\* What an order showed as placed may have sold out: the shelf is read when it is put away.
onDone(r) == "order" \in day.tries /\ Rereads(r)

-----------------------------------------------------------------------------
(* Where the customer is *)

\* The row above the list, off while the phone is being located.
LocateOffered == opened = None /\ ~picker /\ ~locating

\* The row, were it not disabled while the phone is being located.
handleUseLocation_NotDisabled(r) ==
    /\ "area" \in day.tries
    /\ opened = None /\ ~picker
    /\ locating' = TRUE
    /\ Sends(r, [Request("locate", None, None) EXCEPT !.mine = TRUE])
    /\ UNCHANGED <<day, accounts, admin, list, shelf, place, saved, picker>>
handleUseLocation(r) ==
    /\ "area" \in day.tries /\ LocateOffered
    /\ locating' = TRUE
    /\ Sends(r, [Request("locate", None, None) EXCEPT !.mine = TRUE])
    /\ UNCHANGED <<day, accounts, admin, list, shelf, place, saved, picker>>

\* requestLocation never throws; the place is the app's, and is set whatever is on the screen.
locatedAt(r) ==
    /\ req[r].kind = "locate"
    /\ place' = "gps" /\ locating' = (locating /\ ~req[r].mine)
    /\ Ends(r)
    /\ UNCHANGED <<day, accounts, admin, list, shelf, saved, picker>>

\* Denied or unavailable: the areas are offered, on the screen that asked.
notLocated(r) ==
    /\ req[r].kind = "locate"
    /\ locating' = (locating /\ ~req[r].mine) /\ picker' = (picker \/ req[r].mine)
    /\ Ends(r)
    /\ UNCHANGED <<day, accounts, admin, list, shelf, place, saved>>

chooseArea ==
    /\ picker /\ picker' = FALSE
    /\ place' = "area" /\ saved' = TRUE
    /\ req' = [r \in Slots |-> [req[r] EXCEPT !.old = (req[r].kind = "locate")]]
    /\ UNCHANGED <<day, accounts, admin, list, shelf, locating>>

notNow ==
    /\ picker /\ picker' = FALSE
    /\ UNCHANGED <<day, accounts, admin, list, shelf, place, saved, locating, req>>

Next ==
    \/ chooseArea \/ notNow
    \/ \E k \in Keepers : requestOtp(k)
    \/ \E f \in Filters : setFilter(f)
    \/ \E r \in Slots :
          \/ registerReads(r) \/ registerWrites(r) \/ hearRegister(r) \/ registerFails(r)
          \/ loadMerchants(r) \/ setMerchantStatus(r) \/ findMerchants(r)
          \/ hearSet(r) \/ hearMerchants(r) \/ adminFails(r) \/ findAll(r) \/ hearShops(r)
          \/ connectionFails(r) \/ shopsFail(r)
          \/ triesAgain(r) \/ handleRefresh(r) \/ onBack(r) \/ findCategories(r) \/ findProducts(r)
          \/ readsProducts(r) \/ hearCategories(r) \/ hearProducts(r) \/ productsFail(r)
          \/ loadProducts(r) \/ retryShelf(r) \/ onDone(r) \/ handleUseLocation(r) \/ locatedAt(r) \/ notLocated(r)
          \/ \E k \in Keepers : handleRegister(r, k) \/ onSelectShop(r, k)
          \/ \E row \in rows, to \in Statuses : act(r, row, to)

\* A request for the list is answered or fails, and the wait before the next one ends.
Spec ==
    /\ Init /\ [][Next]_vars
    /\ \A r \in Slots : WF_vars(hearShops(r) \/ connectionFails(r) \/ shopsFail(r)) /\ WF_vars(triesAgain(r))

-----------------------------------------------------------------------------
\* merchants.service.ts: a user promoted to MERCHANT without a shop profile would be a broken
\* account.  Whoever registers at once, signs in meanwhile or fails half-way, an account is a
\* merchant's exactly when it has a shop.
KeeperHasShop == \A k \in Keepers : role[k] = "MERCHANT" <=> status[k] # None

\* shops.service.ts: nothing of a shop that is not approved is given to a customer, though the shelf
\* is read some time after the shop was resolved and may be suspended in between.
NothingOfAClosedShop ==
    [][\A r \in Slots :
        req'[r].kind = "products" /\ req'[r].answer = "found" /\ req[r].answer # "found" =>
            req[r].id \in Approved]_vars

\* BrowseScreen.tsx: re-query on filter change.  When nothing is on its way the shelf is the one of
\* the filter on the screen, unless it was asked for over another answer or an answer failed.
ShelfIsOfFilter ==
    opened # None /\ ~unread /\ ~due /\ ~crossed /\ (\A r \in Slots : req[r].kind # "products") =>
        shown # None /\ shown.filter = filter

\* An area picked by hand gives way to the phone's location only when that was asked for later, or by
\* a visit to the list that has ended.
AreaIsKept ==
    [][place = "area" /\ place' = "gps" =>
        \E r \in Slots : /\ req[r].kind = "locate" /\ req'[r] = Idle
                         /\ ~req[r].old \/ ~req[r].mine]_vars

\* api.ts: a backend that is still starting heals itself.  The list of shops does not wait for ever:
\* it is shown, or an error with a retry is.
FirstLoadEnds == "list" \in day.tries /\ loading ~> ~loading
=============================================================================
