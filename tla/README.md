# Half-Dinar Shops: a verification development

TLA+ models of the Half-Dinar Shops system (the NestJS API under `src/backend`, the customer app
under `src/mobile`, the shops' app under `src/merchant-app`, the admin's dashboard), checked with TLC and
proved with TLAPS. Paths below are relative to `src/`.

## 1. The system

One Node process serves the API over PostgreSQL (Prisma, READ COMMITTED) and Redis. Clients are a
customer app, a merchant app and a web dashboard for merchants and the admin. A handler runs until its
next `await`; there every other request in flight, timer and interval may run. Handlers read, check and
write in separate statements, mostly without a recheck, so what protects a row at its write is a
constraint of the schema or nothing. The apps keep copies of what the server last said and go on working
with them; requests are answered late, out of order or not at all, and whatever is answered is put into the screen
that is there by then. That is where the difficult behaviour of this code is.

| Component | State | Operations | Talks to | What makes it correct | Module |
|---|---|---|---|---|---|
| Order policy (`order-policy.ts`, `delivery-policy.ts`) | none: tables | which status admits what; how a delivery drives its order | the order handlers, the apps' buttons | the derived order status agrees with the delivery in both directions; no status strands an order | OrderPolicy, OrderRequests |
| Order lifecycle (`orders.service.ts`, `merchant-orders.service.ts`) | `orders`, `order_items`, `deliveries`, `reviews` | cancel, review, acceptChanges; setItemStatus, confirm, startPreparing, cancel, assignDelivery, updateDelivery | escalation, notifications, events; the shop's status | what is over stays over; the order is backed by its delivery; the total is that of the lines; no order is stranded | OrderLifecycle, OrderPromise, OrderServer |
| Order placement (`OrdersService.create`) | the same, read against `products`, `merchants` | create | catalogue, escalation | an order is charged what its products cost together at one moment since it was sent; a suspended shop gets no order but those under way | Checkout |
| Escalation (`order-escalation.service.ts`, `escalation-policy.ts`, the admin's queue) | timers and `announced` in memory; status and age in the database; the screen's list | watchNewOrder, timer, sweep, escalateTo, clear; the admin's check | order events, notifications | never early, never twice per level and boot, never forgotten after a restart | OrderEscalation |
| Events and notifications | SSE subscribers, none persisted | emit, notify | push devices | best effort; what a crash loses is recovered by polling | in part |
| Login codes (`auth.service.ts`) | `otp_codes`, `users` | requestOtp, verifyOtp | limiter, SMS gateway, the app's retry | one newest code works; attempts are limited; the limit is not for ever | OtpLogin |
| Per-phone limit (`counter-store.ts`, `phone-rate-limiter.ts`) | a Redis key with a lifetime | increment, expire | login codes | the counter's window ends whatever command is lost | OtpLogin |
| Push devices (`push.service.ts`) | `device_tokens` | register, unregister, notify, drop a dead token | Expo, the apps' sessions | one owner per device; its owner is reached; a signed-out phone goes quiet | PhoneSession |
| Shops and registration | `merchants`, `users.role` | register, list, set status | login, order handlers, the browsing screens | role and shop in step; nothing of a closed shop is shown | Storefront |
| Catalogue | `categories`, `products` | create, rename, delete, price, stock | orders, browsing | two levels, no name twice, nothing deleted that an order names | Catalogue, Checkout |
| Images, vision | stored files | upload, suggest | the product form | what a product refers to is stored | ShopProducts |
| Customer app: basket | basket, its storage, orders sent | add, remove, restore, place | API | a basket of one shop, not ordered again once known to be ordered | Basket |
| Customer app: orders | list, one detail | read, cancel, accept, review | API | a warning before giving up work begun; numbers shown are not taken back by a late answer | CustomerOrders |
| Customer app: session | a token in three places | launch, sign in, sign out, a refusal, a kill | API, push devices | a session is not lost to a bad connection | PhoneSession |
| Customer app: shops and shelf | lists, filter, place | list, open, search, locate | API, the phone | the shelf shown is of the filter; the first load ends | Storefront |
| Merchant app: orders | polled list, one detail, two boxes | read, all the shop's operations | API | a button is one the server accepts; a box acts on its order; the list catches up | ShopOrders |
| Merchant app: products | list, search, one form, photo | add, edit, toggle, undo, delete, photograph | API, images | one form makes one product; the list agrees with the shelf | ShopProducts |
| Dashboard | the admin's table and queue | approve, suspend | API | a stale row is refused by the server | Storefront, OrderEscalation |
| SMS senders, configuration, scripts | none of their own | calls to services | | | not modelled |

The behaviours that are hard to test, with the line where each bites and the property that covers it, are the
`hazards` of `PROJECT.json`. In short: check-then-act across an `await` (every handler), two writes
that must stay one transaction, timers and sweeps looking at the same order, state lost at a restart or a kill, a
lost Redis command or answer, a retry of something already done, answers that overtake one another, and
copies on a screen that are acted on after they went stale.

## 2. The modules

### OrderPolicy
The tables of `order-policy.ts` and `delivery-policy.ts` as constants and functions. `"NONE"` stands for SQL's
NULL and for "leave the order alone".

### OrderLifecycle
One order and the requests that act on it. Variables are the columns a handler reads or writes
(`status`, `cancelledBy`, `line`, `delivery`, `reviewed`, the shop's status `shop`); `charged` is the set of lines summed
into `total_price`, which is all that can go wrong with it here, since unit prices are snapshots; `req` holds
the requests in flight. Each request is a small process: `at` names the statement it awaits, `lines`,
`kept` and `to` what it carries across the `await`. Every action is one statement (or one `$transaction`'s
commit) with the guards evaluated on what the previous one read:

| Code | Actions |
|---|---|
| `OrdersService.cancel` | `CancelRead`, `CancelWrite` |
| `review` | `ReviewReadOrder`, `ReviewReadReview`, `ReviewWrite` |
| `acceptChanges` | `AcceptReadOrder`, `AcceptReadLines`, `AcceptCancels` or `AcceptTrims` |
| `setItemStatus` | `SetItemStatusBegin`, `MerchantReadOrder`, `SetItemStatusReadItem`, `SetItemStatusWrite` |
| `confirm`, `startPreparing`, shop's `cancel` | `...Begin`, `MerchantReadOrder`, `...Write` |
| `assignDelivery` | `AssignDeliveryBegin`, `MerchantReadOrder`, `AssignDeliveryReadDelivery`, `AssignDeliveryWrite` |
| `updateDelivery` | `UpdateDeliveryBegin`, `MerchantReadOrder`, `UpdateDeliveryReadDelivery`, `UpdateDeliveryWrite` |
| `AdminService.setMerchantStatus` | `SetMerchantStatus` |

The schema takes part: `CheckAccepts` is the CHECK that ties `cancelled_by` to the status, and the unique
`order_id` of `deliveries` and `reviews` refuses a second row. A rejected statement ends its request and rolls its
transaction back. A request turned away by its first read changes nothing and is not a step.

Left out: what only shapes a response (contact windows, warnings: OrderRequests has them), notifications and events, and
handlers' checks on whose order it is; orders share no rows, so one order is the whole state of an
operation.

### OrderPromise
The abstract specification: a stage that follows the table one step at a time or is cancelled before
it is finished, by a canceller that is named once (only a driver who reports a failed delivery later signs over to
`SYSTEM`), a basket that only loses lines, never the last one, and a review of an order that arrived. `OrderLifecycle`
implements it with `stage <- status, basket <- Lines, canceller <- cancelledBy` and `reviewed`, provided requests on the order
do not overlap. `NeverStranded`, `CancellerStands` and `NothingBegun` are invariants and an action property of `OrderLifecycle` that are
proved (section 4) and no configuration lists.

### OrderRequests
The same handlers as OrderLifecycle's, each as one step on an order that is a record (`Accepts`, `After`), and what the
server's answers tell the apps: whether to warn, whose number to show, which buttons (`cancelRequiresWarning`, `shopPhone`, `driverPhone`, `captainPhone`,
`canReview`). It has no state; the two order screens are built on it, each with an order that a whole request changes in one step.

### OrderServer
That assumption of the screens as a specification: the variable `order` is such a record, and a step is one accepted request, of those the routes and their
DTOs let in (`Sent`), with all of its effect. `OrderLifecycle` implements it with its five columns put into the record (`TheOrder`, a line
without stock being one the shop has marked `UNAVAILABLE`), again provided requests on the order do not overlap: `ServedAsOne`.

### OrderEscalation
`OrderEscalationService` over one order. `timers`, `announced` and `call` are its memory; `age` and `orderStatus` are what
it reads; `alerts` is a history of the `order.escalation` events of this boot. A look (`escalateTo`) is two
actions, the query and the uninterrupted code that follows; a sweep has its list query before that. `Skew` says
how far the wall clock, which ages orders, may lag the clock that fires timers. `Restart` keeps the database
and loses the rest. `confirm` appears with its read, its write and the `clear` after it, since that is all this service
hears of an order; every later stage is `CONFIRMED`. The
handlers themselves are `OrderLifecycle`'s, where `PendingIsLeftOnce` says that an order leaves PENDING as it does here. `ignored` and `check` are the admin's screen, which asks for overdue orders every 20 seconds
whichever section is open (`Checks`, `Hears`, `CheckFails`) and is answered from status and age alone (`findIgnoredOrders`).

### OtpLogin
One phone number: the login button and `withConnectRetry`, the Redis counter and its fail-open limiter, and
`requestOtp` and `verifyOtp` over `otp_codes`. A request carries whose it is: the app's that is still waited for, one the
app gave up on (its answer was lost), or another device's. `count` and `ttl` are the Redis key; `Counts` is the
`MULTI INCR TTL`, `Expires` the `EXPIRE` after it. Redis may fail before or after taking a command
(`RedisFails`), its client may send one again on reconnecting (`RedisResends`), and the process may die (`Restart`).
Redis itself and the SMS gateway are modelled from how this code uses them. Left out: the user's upsert, which
merely has to precede the code (Storefront has it); the role and the token (PhoneSession); the per-IP throttler, without which the model has
more behaviours, not fewer; the counter kept in memory, for development.

### Checkout
One shop's shelf (`shelf`, a row per product with price and stock), its status `shop`, and the requests that read or write them.
`OrdersService.create` is one transaction at READ COMMITTED, which is not one step: the read of the shop, the read of
all products, the insert and the commit are actions (`PlaceReadShop`, `PlaceReadProducts`, `PlaceInsert`, `PlaceCommit`), and between them the shelf may change. The
foreign key `order_items.product_id` appears as the code meets it: an uncommitted line holds its product's row against a
delete (`Held`), and a delete is refused where a committed line points. `ProductsService.create`, `update` (and `setAvailability`) and `remove` are a
read of the shop, a read of the product and a write. `standing` is a history, for each order being placed the shelves there have been since its request began, and `late`
counts the orders committed since the shop was last approved. Left out: quantities and the sum (exact decimals over the
prices modelled), names and images, other shops, and what becomes of an order afterwards.

### Catalogue
The rows of `categories` and the category of each product. `AdminService.createCategory`, `updateCategory` and
`deleteCategory` are their reads and their write as separate actions, `requireCategory` and the write it precedes likewise
(`FileRead`, `FileWrite`). The write is judged by the schema: two foreign keys with ON DELETE RESTRICT, and the unique index
on (parent, name) (`Duplicate`), which lets equal names through at the top. `findTree` is what the apps show. Identities of deleted rows are not used again, as uuids are
not.

### Basket
The customer app's basket: `useCart`'s state (`cart`, `loaded`), the storage behind it, and the orders sent from
`CartScreen`. A unit is one press of "add"; a line's quantity is the number of its units, so that ordering something
twice shows. The storage is asynchronous and in order: `handed` is the last basket handed to `setItem`, which a later
`getItem` returns, and `disk` what has been written, which an app that was killed finds. A screen that is left stops
waiting (`here`) and loses its state, since `useCart` lives in `BrowseScreen`; the order it sent goes on. The server may take an order or
refuse it whether or not anyone waits; why is Checkout's. Taps are handled one at a time, each with the state of the
last, which is how React renders presses, and only where the screen has a button for them (`OnCard`, `OnLine`, `PlaceOffered`). Left out: prices, which are for display; the filter that makes "+" in the cart do
nothing for a product that the current search hides; the fee that `quote` reads before an order may be placed; who is signed in, which the stored basket does not depend on.

### ShopOrders
`merchant-app/src/OrdersScreen.tsx` and the orders behind it. `list`, `selected`, `busy`, `cancelling`, `failing` are the
screen's state (a list keeps of each order the filter it is under); `order` is the server's; `req` the requests on their way, each served at some point and heard at another, or lost.
Customers place, cancel and trim orders meanwhile. `load` runs when the screen opens, every ten seconds and on refresh; `open`, `hearOrder` and
`close` are the detail's; `act`, `hearAction`, `hearRefusal` an action and the list read after it, under `busy`. Which buttons a detail has is `Offers`, which orders can be tapped `visibleOrders`
and `Tappable`. `leave` is the other tab and back: a new screen that the old one's answers do not reach. A request the screen gave up may still be served. The text typed into the boxes is
left out, and so is a suspended shop, whose refusals look like a failed connection.

### CustomerOrders
`mobile/src/OrdersScreen.tsx` and the orders behind it. The list is read when the screen opens (`show`) and after actions, a detail when
a row is tapped; nothing is polled, while the shop goes on (`ShopActs`). `askFirst`, `cancelAnyway` and `keepOrder` are the
warning, decided on the detail as it was read. A detail gives numbers in two ways: the call buttons, each in its window (`shopPhone`, `driverPhone`), and the driver's box, from the assignment until
the order is cancelled (`driverBox`, the delivery's own `captainPhone`). `seen` is a history of what a detail showed of an order (`Marks`: that the shop works on it, that it
has a driver, that the driver may be called), `crossed` that one detail was asked for over another.

### ShopProducts
`merchant-app/src/ProductsScreen.tsx`, the shelf behind it, uploads and the reading of a photo. The screen has one form, used
to add and to edit; a *draft* is one use of it, and every value in it carries the draft it was meant for and whether it was typed, loaded
or read from a photo. `takePhoto`, `handleCapture`, `hearUpload`, `hearSuggestion` fill the form that is open by then, which may be another draft's. `handleSubmit`,
`handleToggle`, `handleUndo`, `handleDelete` write, and each is followed by a list (`ThenLists`) for the search term it was started with; `setSearch` starts a
timer, after which the list is read for what the box says by then (`debounce`). Opening the screen starts that timer too, and asks for the categories, after which comes a list of everything,
whatever was typed meanwhile (`hearCategories`). The days with `open` begin there; the others begin when the first list has been read, a bound that is named as such. `older` and `crossed` are
histories of the lists: which were asked for before which, and that the last one asked for was not for the term in the box, or that since then one was overtaken or lost. The storage answers an upload after it stored it, under a key not used before, or fails at any point (`storeImage`); a reading has a name or nothing (`Readings`).

### PhoneSession
The token of a customer's phone, in the three places `App.tsx`, `api.ts` and `storage.ts` keep it (`token`, `authToken`, `disk`), and the row
of `device_tokens` by which the server finds the phone. Launch (`restore`, `hearMe`, `meFails`; the safe storage may fail to read, and an older build's copy is
migrated), sign-in (`handleVerify`, `saved`), registering for push, sign-out (`handleSignOut` takes the tap and waits for the push token, `unregisterFromPush` makes the call with the session token there is by
then, `SignedOut` follows however it went), a refused session (`CallRefused`), the server's
`registerDevice`, `unregisterOwnDevice` and the loop of `notifyUser` (`notifyUser`, `send`, `drop`), and the phone being killed, wiped and installed again. A request
carries the token it was made with (`as`) and the session shown then (`of`).

### Storefront
How a shop comes to be and to be seen. An account's `role` and its shop's `status`; registering, as a read and a transaction that may fail (`registerReads`, `registerWrites`), with the button
that sent it; the admin's table, which may be out of date (`rows`, `act`, `hearSet`). The customer's side is `ShopsScreen` (the list with its retries, `TriesAgain`), `BrowseScreen` (categories, then the shelf, the debounced search, the retry) and
the place (`handleUseLocation`, `chooseArea`), where a location may arrive seconds after it was asked for. The server's `findProducts` is two statements: the shop is resolved, then its shelf is read.
Left out: the refusal of an admin who registers a shop, and what else the server reads of a shop in two statements (its categories).

### Which module uses which
`OrderLifecycle`, `OrderEscalation`, `OrderPromise` and `OrderRequests` extend `OrderPolicy`; `OrderServer` extends `OrderRequests`; `OrderLifecycle` instantiates `OrderPromise`
and `OrderServer`; `ShopOrders` and `CustomerOrders` extend `OrderRequests`, which composes
each app with the order handlers it talks to. The `MC...` modules give TLC its constants.

The theorems are in eight modules. `OtpLoginProofs`, `ShopOrdersProofs`, `ShopProductsProofs`, `PhoneSessionProofs` and `StorefrontProofs` each extend
their component. The other three extend two components each: `OrderProofs` extends `OrderLifecycle` and `OrderEscalation`, `ShelfProofs` extends `Checkout`
and `Catalogue`, `CustomerAppProofs` extends `CustomerOrders` and `Basket`. So that this is possible the definitions of the second of each pair carry its
name (`EscalationSpec`, `CatalogueSpec`, `BasketSpec`).

Operators named `X_Y` next to an `X` are slips a
programmer could have made there; no specification uses them, and replacing `X` by one breaks the
property it is paired with under `mutants`.

In the five modules of the apps a behaviour has a `day`: the initial state says what is going to be tried, so
that each combination of things that meet is explored without all of them at once. Slots are filled first to last, a symmetry that costs no behaviour.

## 3. What TLC checks

| Run | Instance | Shows |
|---|---|---|
| `order_concurrent` | two lines, two requests in flight, symmetry on both (331,251 states) | `OrderBackedByDelivery`, `NothingComesBack` (a cancellation, a failed delivery, the assigned driver and a dropped line stand, and PENDING is left once) however any two handlers interleave |
| `order_serial` | two lines, one request at a time (7,509) | `ChargedMatchesLines`, `DeliveryDrivesOrder`; `KeepsPromise` and `ServedAsOne` (refinements of OrderPromise and of OrderServer); `OrderSettles` |
| `escalation` | two looks in flight, thresholds 1 and 2, a clock lagging one tick, one restart (375,992) | `AnnouncedIsDue`, `RingsOncePerLevel`, and, under fairness, `IgnoredIsEscalated`: an ignored order is announced and comes to the admin's screen |
| `otp_login` | two requests, three code identities, a limit of two, one attempt, two sends, one failure (262,388) | `OneCodePerOverlap`, `AttemptsBounded`, `NotThrottledForever` |
| `checkout` | two products, two prices, two requests in flight, two edits, three orders, symmetry on products and slots (2,411,758) | an order is charged what its products cost, all in stock, on one shelf since its request began (`OneShelf`), keeps its products (`HistoryKept`), and reaches a shop no longer approved only if it was under way (`LateOrdersBounded`) |
| `catalogue` | three categories, two names, one product, two requests in flight, symmetry on categories and slots (42,072) | every category is in the tree and every product in a category (`NothingOrphaned`); `SubcategoryNamesDiffer` |
| `basket` | two shops, three units, two orders on their way, symmetry on the units of one shop and on slots (1,373,625) | an order never mixes shops (`OneShopPerOrder`), one the app knows of and has stored as gone is not sent again (`SettledNotRepeated`), what is stored leaves only for a reason (`SavedIsKept`) |
| `shop_orders` | two orders of one line, two requests on their way, four days (120,542) | `OfferedIsAccepted`: buttons of a detail that is up to date are accepted; `BoxKeepsItsOrder`: a box to cancel or report acts on the order it was opened for; `ListCatchesUp`, under fairness |
| `customer_orders` | one order of one line, two requests, three days (245,849) | `WarnedOnceShown`, `NumbersGoForward`, and `ButtonsComeBack` under fairness |
| `shop_products` | three products, two photos, one field, a search term, two requests, five days, three of which open the screen, symmetry on the photos (1,433,680) | `OneProductPerForm`, `AddedOnce`, `PhotoIsStored`, `ListTellsShelf`, `TypedIsKept` |
| `phone_session` | two customers and a shopkeeper on one phone, two sessions, two requests, one restart, three days (1,358,748) | `RegisteredIsReached`, `QuietAfterSignOut`, `SavedSessionIsKept` |
| `storefront` | two keepers, two filters, four attempts, two requests, three days (137,836) | `KeeperHasShop`, `NothingOfAClosedShop`, `ShelfIsOfFilter`, `AreaIsKept`, and `FirstLoadEnds` under fairness |

Many properties of the screens end in "unless": `crossed`, `straddled`, `unheard`, `late`, `unread`, `strayed`. Each of these is a history that
records that one particular thing has happened (one answer asked for over another, an answer applied to a session it was not for), and the
property says that nothing else leads there. So `ShelfIsOfFilter`, `ListTellsShelf`, `BoxKeepsItsOrder`, `OneProductPerForm` and `AreaIsKept` do not show that answers out of order are
harmless: in this code they are not, and section 5 lists what happens then. They show that there is no other way to the same harm.

**Bounds.** Two lines: dropping one and dropping the last are different cases, and a third adds
nothing any guard tells apart. Two requests in flight: every race here is a read and a write of one handler around a
statement of another, and the other can run to its end and start again in the same slot, so any
number of complete requests may fall between the two halves of one. The proofs
of section 4 do not depend on either bound. Two looks and one restart: a look stale across another; a
memory that is lost once must be rebuilt, and a second loss starts from the same state. `MaxAge` lets the clock pass both
thresholds and the skew. For the login: two requests overlap, one can be abandoned by the app while its retry runs,
a third code cannot be in use; one failure is enough to lose an `EXPIRE`. For the checkout: two products, so that
one may change between reads of the two; two edits, so that the shelf can change and change back around one read; three
orders, one more than the late ones two slots can hold. For the catalogue: a parent, a child and a third level that must not be; two names, to
clash or not; one product, since products meet only through their category. For the basket: two units of
one shop, to order one and add another; one of another shop; two orders, one unheard and one that is. Of each unit only
one life is followed (identities are not used again), which bounds the run without a counter.

For the apps (`MaxInFlight` = 2): two answers that overtake each other, or an answer and an action, which is what every race of a
screen consists of; the slot is free again once it was heard, so any number may pass. Two orders on the shop's screen, so that one can be put under
the other's box; one on the customer's, whose detail has no box that outlives it. Three products: one on the shelf and two uses of
the form; two photos, to replace one by another while the first is read; one field, since fields do not influence each other.
Two sessions (`MaxSessions`), an old one and a new one. Two keepers, one who registers while the other is listed. Four attempts are what `connectRetry.ts` makes. A
day bounds what is tried in one behaviour, and each day is there for its own meeting: an order read, changed and read again; a photo and a save; a sign-out
and an answer that is late.

Deadlock is not checked in the runs of Basket, Catalogue, Checkout and PhoneSession: there the system may really stop,
when identities, orders or sessions are used up and nobody does anything more.

**Fairness.** `OrderLifecycle`: weak fairness on the next statement of a request in flight, which the event loop gives, and
`DiligentShop`, an assumption about people that is named as such: whenever the shop's screen keeps offering the next
step, the shop takes it. `OrderSettles` assumes besides that the shop is not suspended for ever: an order already on its
way at a suspended shop waits for the admin. `OrderEscalation`: time passes, the interval
keeps firing and queries are answered, and not every check of the admin's fails (strong fairness on `Hears`, as a check may fail at any time); nothing is
assumed of timers, shop or customer. `OtpLogin`: time passes, requests are resumed,
and somebody keeps asking for codes (strong fairness, as other requests occupy the slots), which is the
situation the comment in `counter-store.ts` is about; a key nobody asks about harms nobody. `ShopOrders`: the ten-second interval goes on asking and is
now and then answered (strong fairness on `load`, `ServeList`, `hearList`: slots are taken and answers lost in between); any other request ends. `CustomerOrders`: every request
is served and settles, as `fetch` does. `Storefront`: a request for the list settles and the wait before the next one ends; nothing about its success.

## 4. What TLAPS proves

Every invariant and every action property of the runs of section 3 is proved, for all values of the constants. The inductive invariants were
model-checked on the runs' instances before they were proved.

For every set of lines and every set of requests in flight (assumption `ItemsAssumption`: an order has a line), in
`OrderProofs`:

- `TypeInvariant`. Its last conjunct, a canceller exactly when cancelled, is what the rest needs.
- `OrderBackedByDeliveryHolds`. `OrderBackedByDelivery` is inductive given `TypeOK` and holds without any guard rechecked: only
  `updateDelivery` writes DELIVERING, DELIVERED or FAILED, and it writes both rows or neither.
- `CancelledIsFinalHolds`, `FailedDeliveryIsFinalHolds`, `DriverAssignedOnceHolds`, `DroppedLineStaysDroppedHolds`, the action properties, and
  `NothingComesBackHolds`, their conjunction with `PendingIsLeftOnce`. A live status can
  only be written over CANCELLED by a statement the CHECK refuses; a delivery leaves FAILED only with its order,
  which is cancelled by then.
- `NothingBegunInvariant`. While the order is PENDING nothing of it has been begun, and no request in flight is past the guard of what may only come later. With
  the CHECK it gives `PendingIsLeftOnceHolds`, step by step over what writes a status: what OrderEscalation supposes of an order.
- `NeverStrandedHolds`, the part of `OrderSettles` that needs no fairness: by cases on status and delivery, which `TypeOK` and `OrderBackedByDelivery` leave few of, a
  request the shop may send is accepted and moves the order on, unless it is over.

In `OrderProofs` too, under `OneAtATime` (there is one slot), for every set of lines:

- `SerialInvariant`. The properties of a lone request are not inductive by themselves: a write is right only
  because what its guard saw is still so. `GuardStillHolds` says that for each statement awaited, and `SerialInv` is its conjunction with
  the properties. It is what two overlapping requests lose.
- `ChargedMatchesLinesHolds`, `NeverEmptiedHolds`, `DeliveryDrivesOrderHolds`, `ReviewedWasDeliveredHolds`, `CancellerStandsHolds` follow from it, and `KeepsPromiseHolds`
  that every step is one of OrderPromise or leaves what it speaks of alone.
- `ServedAsOneHolds`: every step is a whole request of OrderServer or leaves the order alone. Under `GuardStillHolds` the write of a handler finds what its reads
  found, so `Accepts` holds of the order at that moment and the write is `After` of it; reads, and the updates of a delivery that are rolled back, leave the
  record alone. So the two translations of the handlers, statement by statement and whole, agree.

In `OrderProofs`, of `EscalationSpec`, for all thresholds, skews, bounds and numbers of looks (`ThresholdsAssumption`, `BoundsAssumption`; the admin's threshold may even be
the smaller one):

- `EscalationInvariant`: while the order is pending, `announced` is exactly the last alert of this boot
  (`RemembersLastAlert`), and no answer in flight says more than a status the order had (`AnswersStand`). `RingsOncePerLevel` alone is not
  inductive: it needs the memory and the history tied together.
- `AnnouncedIsDueHolds`, `RingsOncePerLevelHolds`.

In `OtpLoginProofs`, for any number of requests, codes, limits, sends and failures (`PolicyAssumption`, `BoundsAssumption`, and
`CodesAssumption`: the sets are finite and there is always an identity for another code):

- `LoginInvariant`. Neither bound is inductive. A request between its invalidation and its insert is one code to come, so `CodesInv`
  counts it with the codes; an attempt compared and not yet counted is one to come, so `AttemptsInv` counts it with
  the attempts of its code. Invalidating empties the first sum, inserting and counting move a request from one
  side to the other, and a read adds an attempt only to a code below its limit.
- `OneCodePerOverlapHolds` and `AttemptsBoundedHolds` follow.

In `ShelfProofs`, for any products, prices, bounds and number of requests (`ShelfAssumption`: there is a price and slots are finitely many; `BoundsAssumption`):

- `CheckoutInvariant`. `OneShelf` speaks of the commit and `HistoryKept` of committed orders; `PlacingInv` says of one under
  way what both need: the prices it has seen are those of one shelf that stood since its request began, and once its lines are inserted its products are listed, which the row lock
  keeps true until the commit. `LateInv` adds to the late orders those that may still be: the slots past the read of the shop.
- `OneShelfHolds`, `HistoryKeptHolds`, `LateOrdersBoundedHolds` follow.

In `ShelfProofs`, of `CatalogueSpec`, for any categories, names, products and number of requests (`RootAssumption`):

- `CatalogueInvariant`. That the tree shows every category is not inductive, since a creation trusts a parent it read earlier. What stays true of
  that parent is that it was at the top (`WasTop`): rows never change their parent and identities are not used again, so if it is still
  there at the insert it is at the top, and if it is not the foreign key refuses.
- `TreeShowsAllHolds`, `ProductsKeepCategoryHolds`, their conjunction `NothingOrphanedHolds`, and `SubcategoryNamesDifferHolds` follow.

In `CustomerAppProofs`, of `BasketSpec`, for any shops, units and number of orders on their way (`UnitsAssumption`):

- `BasketInvariant`. `SettledNotRepeated` needs to know of every place a unit may come back from: `SettledInv` says that
  what an order is known to hold is neither in the basket nor handed over, and once settled not on the disk. Before the stored basket has been
  read that rests on `FreshInv`: what was added so far is new, and not in what is about to be restored. `DroppedInv` does the same for
  `SavedIsKept`.
- `OneShopPerOrderHolds`, `SettledNotRepeatedHolds`, `SavedIsKeptHolds` follow.

In `CustomerAppProofs`, for any orders, lines, days and number of requests (the assumptions of `CustomerOrders`):

- `CustomerInvariant`. `WarnedOnceShown` speaks of a request under way and of what the screen showed at some time before, and is far from
  inductive. `ScreensInv` gives each part its shape: every order on the server is one the policy can produce (`OrdersInv`), a detail on the screen or in an
  answer is an earlier state of that order, and the buttons are off while one action is on its way (`BusyInv`). `WarnInv` then says
  for each mark (started, has a driver, the driver may be called) that an order shown to have passed it, or about to be, never goes back behind it (`Past`), and that, as long as details were
  not asked for over one another, the one being asked for is no older than the one shown. So the warning and the numbers, decided on the detail that is shown, are right about all that was shown before.
- `CustomerTyped`, `WarnedOnceShownHolds`, `NumbersGoForwardHolds` follow.

In `ShopOrdersProofs`, for any orders, lines, days and number of requests (`NoneIsNothing`; `DaysAssumption`: an order first seen has no driver yet):

- `ShopInvariant`. A box is put up for the detail on the screen, and the harm is done when another detail or another action's answer arrives under it. `BoxInv` says why
  none does: as long as rows were tapped one at a time, a tap under way finds no detail, no box and no action, and an action under way finds
  only boxes and a detail of its own order. `BoxKeepsItsOrder` alone is lost by the first answer.
- `BoxKeepsItsOrderHolds` follows. `OfferedIsAcceptedHolds` comes from the two tables, compared state by state: what `Offers` shows for an order in a given
  state `Accepts` takes.

In `StorefrontProofs`, for any keepers, filters, days, attempts and number of requests (`AttemptsIsPositive`, `AllIsAFilter`, `NoneIsNothing`, `DaysAssumption`):

- `StorefrontInvariant`. `KeeperHasShop` needs the registrations under way to be typed by who asked: the role is written with the shop or not at all. `ShelfInv`
  is what `ShelfIsOfFilter` needs of the requests on their way: the first read of a shop is one request after another, and from there on, with no timer
  running and nothing asked for over another answer, all that is on its way is for the filter on the screen. `LocateInv`: a visit waits for one
  location, and its picker is closed meanwhile.
- `KeeperHasShopHolds` and `ShelfIsOfFilterHolds` follow, and the action properties `NothingOfAClosedShopHolds` (only `readsProducts` brings a shelf into an answer,
  and it resolves the shop) and `AreaIsKeptHolds` (the answer that overwrites an area is one `LocateInv` excludes).

In `PhoneSessionProofs`, for any users, days, sessions, restarts and number of requests (`CustomersAreUsers`, `BoundsAssumption`, `NoneIsNothing`):

- `PhoneInvariant`. The three places a token is kept in are written at different times, so the invariant first says how far they may differ: `PlacesInv`, that the token put on requests is
  the one shown or being saved unless it was dead or taken away by another's answer, and none of them older than the disk's; `LaunchInv`, that nothing is asked at launch but
  whose the saved session is; `LeavingInv`, what a sign-out still waited for may meet. On that rest two statements about
  everything that is on its way. `Silent(u)`: no token of u's on the phone and no registration to be served that could make it ring for u again. `Reached(s)`: the row is that
  customer's, and no unserved registration of another or sign-out of theirs is left, nor one that has yet to make its call.
- `RegisteredIsReachedHolds`, `QuietAfterSignOutHolds` and the action property `SavedSessionIsKeptHolds` follow; the last goes through every answer that can clear
  the disk, and finds the token it cleared spent, left or not its own.

In `ShopProductsProofs`, for any products, shelf, fields, photos, terms, days and number of requests (the assumptions of `ShopProducts`):

- `ProductsInvariant`, four parts besides the types. `DraftInv`: a photo under way is for this draft, unless the draft began with one under way.
  `PhotoInv`: what a save carries, a list tells or an upload was answered is in the storage, as what the shelf and the form refer to is. `AddInv`: saves are one at a time; what was added is of
  an earlier draft, or of this one when its save is about to be heard or was lost; and a save the server has not seen has added nothing. `AddedOnce` says nothing of saves under
  way, and they are all it can be broken by. `ListInv`: the lists on their way are in the order they were asked for (`Ordered`: of any two, one was
  asked for before the other), and, unless `crossed`, the newest of them (`Newest`) is for the term in the box, or the timer runs, and its answer, or the rows once none is on its way, are
  the shelf's as long as no write was made that the phone has not heard of (`Current`). The list after the categories is one more list to this, and sets `crossed` when the box says something else by then.
- `OneProductPerFormHolds`, `AddedOnceHolds`, `PhotoIsStoredHolds`, `ListTellsShelfHolds` follow, and the action property `TypedIsKeptHolds`.

`TypeOK` is proved wherever a module has one (as a theorem, or as the first part of the module's invariant). Only model-checked are the six liveness properties: `OrderSettles`, `IgnoredIsEscalated`, `NotThrottledForever`, `ListCatchesUp`, `ButtonsComeBack` and `FirstLoadEnds`, since liveness under
fairness (and ENABLED) is beyond this prover. Nothing here rests on what a recursive definition computes, whose induction the installed
provers cannot do.

## 5. Where the code and its documents differ

Each of these formulas is in its module; added to the configuration named, TLC refutes it.

| Sentence | Formula, configuration | What happens |
|---|---|---|
| `order-policy.ts:8`, cancellation is blocked once DELIVERING | `NoCancelWhileDelivering`, `OrderConcurrent.cfg` | the customer accepts the removal of every line while the driver is on the way, and acceptChanges cancels (`orders.service.ts:424`) |
| `merchant-orders.service.ts:371-372`, the two statuses can never contradict each other | `DeliveredIsNotCancelled`, `OrderConcurrent.cfg` | a cancel that read PREPARING writes after the bag was delivered (`orders.service.ts:338`) |
| `orders.service.ts:57-58`, reading the prices and writing the order must not straddle a concurrent price change | `NotStraddled`, `Checkout.cfg` | the transaction is at READ COMMITTED and locks no product row before its lines are inserted: a price changed between the read (`orders.service.ts:81`) and the commit is not seen, and the order is charged the old one |
| `orders.service.ts:214-215`, numbers are included only inside their contact window, outside it absent from the response entirely | `NumbersInWindow`, `CustomerOrders.cfg` | `delivery.captainPhone` (`orders.service.ts:265`, deliberately so by the comment above it) carries the driver's number from the assignment on, and the screen shows it (`mobile/src/OrdersScreen.tsx:212-225`), beside the shop's while it is preparing and after the order has arrived |
| `PHASE_REPORTS.md:1735-1736`, the money path is transactional | `ChargedMatchesLines`, `OrderConcurrent.cfg` | two overlapping acceptChanges with an edit between: the total names a line the order no longer has (`orders.service.ts:447`) |
| `LoginScreen.tsx:56-57`, re-sending cannot duplicate anything | `OneSmsPerTap`, `OtpLogin.cfg` | the answer, not the request, was lost: two messages for one tap |
| `PHASE_REPORTS.md:227-228`, the same order cannot be sent twice by accident | `OrderedOnce`, `Basket.cfg` | the server takes the order and its answer is lost, or the screen is left before it comes: the basket is still there and is ordered again |

What the screens do besides, each found while stating the property named and let through by it:

- *Shop's orders.* A cancelled order with a driver assigned still offers delivery steps, which the server refuses (`OfferedIsAccepted` leaves cancelled orders
  out); an open detail is not polled and its boxes stay open when the status changes. Two rows tapped before either is answered may put another order under an open box (`BoxKeepsItsOrder`), and an
  answer may open again a detail just closed.
- *Customer's orders.* The "live status" is not polled. The total accepted may differ from the one shown. Details asked for over one another may put an older state over a newer one
  (`NumbersGoForward`, `WarnedOnceShown`). The button to accept changes is there on a delivered order and is refused.
- *Shop's products.* A photo, or the name read from it, that arrives after its form was closed lands on the form that is open by then, which may be for another product
  (`OneProductPerForm`). The answer to an addition empties a form opened meanwhile for an edit. An addition whose answer was lost is made twice when saved again (`AddedOnce`). A
  list asked for by a toggle or an undo is for the search term of then; categories that come late bring the whole shelf under a term typed meanwhile (`ProductsScreen.tsx:89-90`); of two
  lists the one answered last stays, whichever was asked for last; a list that was lost leaves the older rows (`ListTellsShelf` for all four).
- *Session.* A refusal of an old session that is late ends the newer one (`api.ts:231`; `SavedSessionIsKept`); one that comes while a token is being saved leaves a screen without it. A second sign-out
  still under way signs out the next customer, and one that still waits for its push token makes its call with their token (`push.ts:121-122`; `RegisteredIsReached`). A registration served after the call that unregisters brings the phone back (`QuietAfterSignOut` asks that none was under way). `push.service.ts:83` drops a token
  by its value, the row of a new owner included (`RegisteredIsReached`). A session ended by a refusal is never unregistered. A token kept by an older build that cannot be
  migrated is lost at the next start.
- *Browsing.* The banner of a failed read is not cleared by a later success; a location that arrives from an earlier visit overwrites an area chosen since (`AreaIsKept`); a shop suspended between the two reads of
  `findProducts` is shown with an empty shelf. A failed creation of a category still empties the name typed; a stale row of the admin's table gets a 409, as it should.

## 6. Not modelled, and what is left to do

Not modelled: the merchant app's own session (`merchant-app/src/App.tsx`, sign-in) and the polling of its notifications; the events over SSE other than escalation, and
what becomes of a notification after `notifyUser`; the dashboard's statistics, list of all orders, sign-in and category form; the counter kept in memory and
the per-IP throttler; the fee that must be quoted before an order may be placed; deletes that fail while a session's token is cleared; a suspended shop's refusals in ShopOrders; the apps' translations, layout and wording. SMS gateways,
configuration, seed and verification scripts have no state of their own that a property could be about.

To do, most important first:

1. `MerchantSession`: the merchant app's session, which also checks a role that may be late, from what PhoneSession says of the customer's.
2. `OrderNotices`: what is announced of an order after its commit, what a crash loses, and how a screen that polls recovers it.
3. What several modules assume of each other, as theorems: that Basket's orders are Checkout's, and that the suspension Checkout counts late orders from is
   Storefront's. (That the orders of ShopOrders and CustomerOrders are OrderLifecycle's is `ServedAsOne`, and that OrderEscalation's are, `PendingIsLeftOnce`.)
4. The dashboard's form for categories over Catalogue.
