-------------------------- MODULE StorefrontProofs --------------------------
(***************************************************************************)
(* What registering, approving and finding a shop guarantee for any        *)
(* keepers, filters and attempts and any number of requests on their way.  *)
(***************************************************************************)
EXTENDS Storefront, TLAPS

Kinds == {"idle", "register", "setStatus", "merchants", "shops", "wait", "categories", "products",
          "locate"}

Row(P) == [id : P, status : Statuses]

\* What a request may have been answered.
Told == {"read", "Conflict", "done", "set", "found", "none", "resolved", "NotFound", None}
            \cup (SUBSET Keepers) \cup (SUBSET Row(Keepers))

Requests == [kind : Kinds, id : Keepers \cup {None},
             what : Roles \cup Statuses \cup Filters \cup {"act", None},
             n : Nat, mine : BOOLEAN, old : BOOLEAN,
             answer : Told]

\* The accounts that have a shop: no shop ever goes.
Kept == {k \in Keepers : status[k] # None}

\* A request as it may be on its way, where P are the shops there are.
Fit(q, P) ==
    /\ q \in Requests
    /\ q.kind = "register" => q.id \in Keepers
    /\ q.kind = "setStatus" => q.id \in P /\ q.what \in {"APPROVED", "SUSPENDED"}
    /\ q.kind = "merchants" => q.answer \in {None} \cup SUBSET Row(P)
    /\ q.kind = "shops" => q.answer \in {None} \cup SUBSET Keepers
    /\ q.kind = "products" => q.what \in Filters

AccountsInv ==
    /\ day \in Days
    /\ role \in [Keepers -> Roles \cup {None}]
    /\ status \in [Keepers -> Statuses \cup {None}]
    /\ KeeperHasShop

\* The table speaks of shops that are there.
AdminInv == rows \subseteq Row(Kept) /\ busy \in BOOLEAN

ListTyped ==
    /\ opened \in Keepers \cup {None} /\ shops \subseteq Keepers
    /\ loading \in BOOLEAN /\ error \in BOOLEAN

ShelfTyped ==
    /\ shown \in Shown \cup {None} /\ filter \in Filters
    /\ due \in BOOLEAN /\ unread \in BOOLEAN /\ crossed \in BOOLEAN

WhereTyped ==
    /\ place \in {"unset", "area", "gps"}
    /\ saved \in BOOLEAN /\ locating \in BOOLEAN /\ picker \in BOOLEAN

RequestsInv ==
    /\ req = [r \in Slots |-> req[r]]
    /\ \A r \in Slots : Fit(req[r], Kept)

TypeInv == AccountsInv /\ AdminInv /\ ListTyped /\ ShelfTyped /\ WhereTyped /\ RequestsInv

\* What the shelf's screen has on its way.
Reading == {r \in Slots : req[r].kind \in {"categories", "products"}}

\* The first read of a shop is one request after another, and only then does the timer run.  From
\* there on, with no timer running and nothing crossed, all that is on its way is for the filter
\* there is, and what was heard last was.
ShelfInv ==
    /\ \A r \in Slots : req[r].kind = "categories" => unread
    /\ unread => \A r, s \in Reading : r = s
    /\ opened # None /\ ~unread /\ ~due /\ ~crossed =>
          /\ \A r \in Slots : req[r].kind = "products" => req[r].what = filter
          /\ ShelfIsOfFilter

\* The screen that asked for a location waits for that one only, and offers no area meanwhile.
Locating == {r \in Slots : req[r].kind = "locate" /\ req[r].mine}
LocateInv ==
    /\ \A r \in Locating : locating /\ ~picker /\ ~req[r].old
    /\ \A r, s \in Locating : r = s

FrontInv == TypeInv /\ ShelfInv /\ LocateInv

-----------------------------------------------------------------------------
(* Requests *)

LEMMA FitNew ==
    ASSUME NEW P \in SUBSET Keepers
    PROVE  /\ Fit(Idle, P)
           /\ \A k \in Keepers : Fit([Request("register", k, None) EXCEPT !.mine = TRUE], P)
           /\ \A w \in {None, "act"} : Fit(Request("merchants", None, w), P)
           /\ \A k \in P, to \in {"APPROVED", "SUSPENDED"} : Fit(Request("setStatus", k, to), P)
           /\ \A n \in Nat : Fit([Request("shops", None, None) EXCEPT !.n = n], P)
           /\ Fit(Request("shops", None, None), P)
           /\ \A k \in Keepers : Fit(Request("categories", k, None), P)
           /\ \A k \in Keepers \cup {None}, f \in Filters : Fit(Request("products", k, f), P)
           /\ Fit([Request("locate", None, None) EXCEPT !.mine = TRUE], P)
  <1> USE DEF Fit, Requests, Request, Idle, Kinds, Statuses, Told
  <1>1. Fit(Idle, P)
    OBVIOUS
  <1>2. \A k \in Keepers : Fit([Request("register", k, None) EXCEPT !.mine = TRUE], P)
    OBVIOUS
  <1>3. \A w \in {None, "act"} : Fit(Request("merchants", None, w), P)
    OBVIOUS
  <1>4. ASSUME NEW k \in P, NEW to \in {"APPROVED", "SUSPENDED"}
        PROVE  Fit(Request("setStatus", k, to), P)
    <2>1. k \in Keepers
      OBVIOUS
    <2>2. Request("setStatus", k, to) \in Requests
      BY <2>1
    <2>3. QED
      BY <2>2
  <1>5. \A n \in Nat : Fit([Request("shops", None, None) EXCEPT !.n = n], P)
    OBVIOUS
  <1>6. Fit(Request("shops", None, None), P)
    OBVIOUS
  <1>7. \A k \in Keepers : Fit(Request("categories", k, None), P)
    OBVIOUS
  <1>8. ASSUME NEW k \in Keepers \cup {None}, NEW f \in Filters
        PROVE  Fit(Request("products", k, f), P)
    <2>1. Request("products", k, f) \in Requests
      OBVIOUS
    <2>2. QED
      BY <2>1
  <1>9. Fit([Request("locate", None, None) EXCEPT !.mine = TRUE], P)
    OBVIOUS
  <1>10. QED
    BY ONLY <1>1, <1>2, <1>3, <1>4, <1>5, <1>6, <1>7, <1>8, <1>9

LEMMA KindNew ==
    /\ Idle.kind = "idle"
    /\ \A kind, id, what : Request(kind, id, what).kind = kind /\ Request(kind, id, what).what = what
    /\ \A kind, id, what :
          LET q == [Request(kind, id, what) EXCEPT !.mine = TRUE]
          IN  q.kind = kind /\ q.mine /\ ~q.old
  BY DEF Request, Idle

LEMMA FitMore ==
    ASSUME NEW q, NEW P, NEW Q, Fit(q, P), P \subseteq Q
    PROVE  Fit(q, Q)
  BY DEF Fit, Row

LEMMA KeptAreKeepers == Kept \in SUBSET Keepers /\ Kept' \in SUBSET Keepers
  BY DEF Kept

\* One request is replaced by another that fits.
LEMMA ReplaceRequest ==
    ASSUME RequestsInv, Kept \subseteq Kept', NEW r \in Slots, NEW q, Fit(q, Kept'),
           req' = [req EXCEPT ![r] = q]
    PROVE  RequestsInv' /\ req'[r] = q /\ \A s \in Slots \ {r} : req'[s] = req[s]
  BY FitMore DEF RequestsInv

LEMMA SameRequests ==
    ASSUME RequestsInv, Kept \subseteq Kept', UNCHANGED req
    PROVE  RequestsInv'
  BY FitMore DEF RequestsInv

\* Attempts are counted up to the last.
LEMMA NextAttempt == ASSUME NEW n \in Nat PROVE Min({n + 1, Attempts}) \in Nat
  <1>1. Attempts \in Nat
    BY AttemptsIsPositive
  <1>2. \E x \in {n + 1, Attempts} : \A y \in {n + 1, Attempts} : x <= y
    <2>1. CASE n + 1 <= Attempts
      BY <1>1, <2>1
    <2>2. CASE Attempts <= n + 1
      BY <1>1, <2>2
    <2>3. QED
      BY <1>1, <2>1, <2>2
  <1>3. Min({n + 1, Attempts}) \in {n + 1, Attempts}
    BY <1>2 DEF Min
  <1>4. QED
    BY <1>1, <1>3

\* An answer of the server's, of the kind asked for.
LEMMA FitAnswer ==
    ASSUME NEW q, NEW P \in SUBSET Keepers, Fit(q, P),
           NEW a \in Told,
           q.kind = "merchants" => a \in SUBSET Row(P),
           q.kind = "shops" => a \in SUBSET Keepers
    PROVE  Fit([q EXCEPT !.answer = a], P)
  BY DEF Fit, Requests, Told

\* What is left of a request when the screen goes.
Left(q) ==
    IF q.kind \in {"shops", "wait", "categories", "products"} THEN Idle
    ELSE [q EXCEPT !.mine = (@ /\ q.kind = "register")]

LEMMA FitLeft ==
    ASSUME NEW q, NEW P \in SUBSET Keepers, Fit(q, P)
    PROVE  /\ Fit(Left(q), P)
           /\ Left(q).kind \notin {"shops", "wait", "categories", "products"}
           /\ Left(q).kind = "locate" => ~Left(q).mine
  <1>1. Fit(Idle, P)
    BY FitNew
  <1>2. CASE q.kind \in {"shops", "wait", "categories", "products"}
    BY <1>1, <1>2 DEF Left, Idle
  <1>3. CASE q.kind \notin {"shops", "wait", "categories", "products"}
    BY <1>3 DEF Left, Fit, Requests
  <1>4. QED
    BY <1>2, <1>3

\* The first request of a new screen.
LEMMA FirstRequest ==
    ASSUME RequestsInv, Kept' = Kept, NEW r \in Slots, NEW q, Fit(q, Kept), AsksFirst(r, q)
    PROVE  /\ RequestsInv' /\ req'[r] = q
           /\ \A s \in Slots \ {r} : req'[s] = Left(req[s])
  <1>1. /\ req' = [s \in Slots |-> IF s = r THEN q ELSE Left(req[s])]
    BY DEF AsksFirst, Unmounted, Left
  <1>2. \A s \in Slots : Fit(Left(req[s]), Kept)
    BY FitLeft, KeptAreKeepers DEF RequestsInv
  <1>3. QED
    BY <1>1, <1>2 DEF RequestsInv

-----------------------------------------------------------------------------
(* What most steps leave as it is *)

LEMMA SameAccounts ==
    ASSUME AccountsInv, UNCHANGED <<day, accounts>>
    PROVE  AccountsInv' /\ Kept' = Kept
  BY DEF AccountsInv, accounts, Kept, KeeperHasShop

LEMMA AdminKept ==
    ASSUME AdminInv, UNCHANGED admin, Kept \subseteq Kept'
    PROVE  AdminInv'
  BY DEF AdminInv, admin, Row

LEMMA ScreensKept ==
    /\ ListTyped /\ UNCHANGED list => ListTyped'
    /\ ShelfTyped /\ UNCHANGED shelf => ShelfTyped'
    /\ WhereTyped /\ UNCHANGED where => WhereTyped'
  BY DEF ListTyped, list, ShelfTyped, shelf, WhereTyped, where

\* Where what the shelf has on its way is the same.
LEMMA ShelfKept ==
    ASSUME ShelfInv, UNCHANGED <<opened, shelf>>,
           \A s \in Slots :
              IF req[s].kind \in {"categories", "products"}
              THEN req'[s].kind = req[s].kind /\ req'[s].what = req[s].what
              ELSE req'[s].kind \notin {"categories", "products"}
    PROVE  ShelfInv'
  <1>1. Reading' = Reading
    BY DEF Reading
  <1>2. UNCHANGED <<opened, shown, filter, due, unread, crossed>>
    BY DEF shelf
  <1>3. ShelfIsOfFilter => ShelfIsOfFilter'
    BY <1>2 DEF ShelfIsOfFilter
  <1>4. QED
    BY <1>1, <1>2, <1>3 DEF ShelfInv

\* Where no location is asked for on this screen.
LEMMA LocateKept ==
    ASSUME LocateInv, UNCHANGED <<locating, picker>>,
           \A s \in Slots : req'[s].kind = "locate" /\ req'[s].mine =>
              req[s].kind = "locate" /\ req[s].mine /\ req'[s].old = req[s].old
    PROVE  LocateInv'
  BY DEF LocateInv, Locating

\* A request of another screen comes, goes on or ends.
LEMMA ElsewhereStep ==
    ASSUME TypeInv, ShelfInv, LocateInv, Kept \subseteq Kept',
           UNCHANGED <<opened, shelf, locating, picker>>,
           NEW r \in Slots, NEW q, Fit(q, Kept'), req' = [req EXCEPT ![r] = q],
           {req[r].kind, q.kind} \cap {"categories", "products", "locate"} = {}
    PROVE  RequestsInv' /\ ShelfInv' /\ LocateInv'
  <1>1. RequestsInv' /\ req'[r] = q /\ \A s \in Slots \ {r} : req'[s] = req[s]
    BY ReplaceRequest DEF TypeInv
  <1>2. ShelfInv'
    BY <1>1, ShelfKept
  <1>3. LocateInv'
    BY <1>1, LocateKept
  <1>4. QED
    BY <1>1, <1>2, <1>3

-----------------------------------------------------------------------------
(* Registering a shop *)

\* Accounts are made and promoted, and a shop is made with the promotion.
LEMMA RequestOtpStep ==
    ASSUME FrontInv, NEW k \in Keepers, requestOtp(k)
    PROVE  FrontInv'
  <1>1. /\ role[k] = None /\ role' = [role EXCEPT ![k] = "CUSTOMER"]
        /\ UNCHANGED <<day, status, admin, list, shelf, where, req>>
    BY DEF requestOtp
  <1>2. AccountsInv' /\ Kept' = Kept
    BY <1>1, NoneIsNothing DEF FrontInv, TypeInv, AccountsInv, KeeperHasShop, Roles, Kept
  <1>3. AdminInv' /\ ListTyped' /\ ShelfTyped' /\ WhereTyped' /\ RequestsInv'
    BY <1>1, <1>2, AdminKept, ScreensKept, SameRequests DEF FrontInv, TypeInv
  <1>4. ShelfInv' /\ LocateInv'
    BY <1>1, ShelfKept, LocateKept DEF FrontInv, list, where
  <1>5. QED
    BY <1>2, <1>3, <1>4 DEF FrontInv, TypeInv

LEMMA RegisterMakesBoth ==
    ASSUME AccountsInv, NEW r \in Slots, Fit(req[r], Kept), registerWrites(r)
    PROVE  AccountsInv' /\ Kept \subseteq Kept'
  <1>1. CASE UNCHANGED accounts
    BY <1>1, SameAccounts DEF registerWrites
  <1>2. CASE ~UNCHANGED accounts
    <2> DEFINE k == req[r].id
    <2>1. /\ role' = [role EXCEPT ![k] = "MERCHANT"] /\ status' = [status EXCEPT ![k] = "PENDING"]
          /\ day' = day
      BY <1>2 DEF registerWrites, register
    <2>2. k \in Keepers
      BY DEF registerWrites, Fit
    <2>3. QED
      BY <2>1, <2>2, NoneIsNothing DEF AccountsInv, KeeperHasShop, Kept, Roles, Statuses
  <1>3. QED
    BY <1>1, <1>2

LEMMA RegisterStep ==
    ASSUME FrontInv, NEW r \in Slots,
           \/ \E k \in Keepers : handleRegister(r, k)
           \/ registerReads(r) \/ registerWrites(r) \/ hearRegister(r) \/ registerFails(r)
    PROVE  FrontInv'
  <1> DEFINE K == Kept'
  <1>1. Fit(req[r], Kept) /\ AccountsInv
    BY DEF FrontInv, TypeInv, RequestsInv
  <1>2. /\ AccountsInv' /\ Kept \subseteq Kept'
        /\ UNCHANGED <<admin, list, shelf, where>>
    <2>1. CASE registerWrites(r)
      BY <1>1, <2>1, RegisterMakesBoth DEF registerWrites
    <2>2. CASE ~registerWrites(r)
      <3>1. UNCHANGED <<day, accounts, admin, list, shelf, where>>
        BY <2>2 DEF handleRegister, registerReads, hearRegister, registerFails
      <3>2. QED
        BY <1>1, <3>1, SameAccounts
    <2>3. QED
      BY <2>1, <2>2
  <1>3. Fit(req[r], K) /\ K \in SUBSET Keepers
    BY <1>1, <1>2, FitMore, KeptAreKeepers
  <1>4. \E q : /\ Fit(q, K) /\ req' = [req EXCEPT ![r] = q]
               /\ {req[r].kind, q.kind} \subseteq {"idle", "register"}
    <2> HIDE DEF K
    <2>1. ASSUME NEW k \in Keepers, handleRegister(r, k)
          PROVE  /\ Fit([Request("register", k, None) EXCEPT !.mine = TRUE], K)
                 /\ req' = [req EXCEPT ![r] = [Request("register", k, None) EXCEPT !.mine = TRUE]]
                 /\ req[r].kind = "idle"
                 /\ [Request("register", k, None) EXCEPT !.mine = TRUE].kind = "register"
      <3>1. req' = [req EXCEPT ![r] = [Request("register", k, None) EXCEPT !.mine = TRUE]]
            /\ req[r] = Idle
        BY <2>1 DEF handleRegister, Sends
      <3>2. Fit([Request("register", k, None) EXCEPT !.mine = TRUE], K)
        BY <1>3, FitNew
      <3>3. QED
        BY ONLY <3>1, <3>2, KindNew
    <2>2. CASE registerReads(r)
      <3> DEFINE a == IF status[req[r].id] = None THEN "read" ELSE "Conflict"
                 q == [req[r] EXCEPT !.what = role[req[r].id], !.answer = a]
      <3>1. req[r].kind = "register" /\ req' = [req EXCEPT ![r] = q]
        BY <2>2 DEF registerReads
      <3>2. role[req[r].id] \in Roles \cup {None}
        BY <1>1, <3>1 DEF AccountsInv, Fit
      <3>3. Fit(q, K) /\ q.kind = "register"
        BY <1>3, <3>1, <3>2 DEF Fit, Requests, Told
      <3>4. QED
        BY <3>1, <3>3
    <2>3. CASE registerWrites(r)
      <3> DEFINE q == [req[r] EXCEPT !.answer = "done"]
      <3>1. req[r].kind = "register" /\ req' = [req EXCEPT ![r] = q]
        BY <2>3 DEF registerWrites, Answers
      <3>2. Fit(q, K) /\ q.kind = "register"
        BY <1>3, <3>1 DEF Fit, Requests, Told
      <3>3. QED
        BY <3>1, <3>2
    <2>4. CASE hearRegister(r)
      <3>1. req' = [req EXCEPT ![r] = Idle] /\ req[r].kind = "register"
        BY <2>4 DEF hearRegister, Ends
      <3>2. Fit(Idle, K) /\ Idle.kind = "idle"
        BY <1>3, FitNew, KindNew
      <3>3. QED
        BY <3>1, <3>2
    <2>5. CASE registerFails(r)
      <3> DEFINE q == [req[r] EXCEPT !.mine = FALSE]
      <3>1. req[r].kind = "register" /\ req' = [req EXCEPT ![r] = q]
        BY <2>5 DEF registerFails
      <3>2. Fit(q, K) /\ q.kind = "register"
        BY <1>3, <3>1 DEF Fit, Requests, Told
      <3>3. QED
        BY <3>1, <3>2
    <2>6. CASE \E k \in Keepers : handleRegister(r, k)
      BY <2>1, <2>6
    <2>7. QED
      BY <2>2, <2>3, <2>4, <2>5, <2>6
  <1>5. RequestsInv' /\ ShelfInv' /\ LocateInv'
    BY <1>2, <1>4, ElsewhereStep DEF FrontInv, list, where
  <1>6. AdminInv' /\ ListTyped' /\ ShelfTyped' /\ WhereTyped'
    BY <1>2, AdminKept, ScreensKept DEF FrontInv, TypeInv
  <1>7. QED
    BY <1>2, <1>5, <1>6 DEF FrontInv, TypeInv

-----------------------------------------------------------------------------
(* The administrator *)

\* A status is only ever set of a shop that is there, to one a shop can have.
LEMMA StatusIsSet ==
    ASSUME AccountsInv, NEW r \in Slots, Fit(req[r], Kept), setMerchantStatus(r)
    PROVE  AccountsInv' /\ Kept' = Kept
  <1> DEFINE k == req[r].id
             to == req[r].what
  <1>1. k \in Kept /\ to \in {"APPROVED", "SUSPENDED"}
    BY DEF setMerchantStatus, Fit
  <1>2. status' = [status EXCEPT ![k] = to] /\ UNCHANGED <<day, role>>
    BY DEF setMerchantStatus
  <1>3. to \in Statuses /\ to # None
    BY <1>1, NoneIsNothing DEF Statuses
  <1>4. k \in Keepers /\ status[k] # None
    BY <1>1 DEF Kept
  <1> HIDE DEF k, to
  <1>5. \A x \in Keepers : status'[x] = None <=> status[x] = None
    BY <1>2, <1>3, <1>4 DEF AccountsInv
  <1>6. QED
    BY <1>2, <1>3, <1>4, <1>5 DEF AccountsInv, KeeperHasShop, Kept

LEMMA AdminStep ==
    ASSUME FrontInv, NEW r \in Slots,
           \/ loadMerchants(r) \/ setMerchantStatus(r) \/ findMerchants(r)
           \/ hearSet(r) \/ hearMerchants(r) \/ adminFails(r)
           \/ \E row \in rows, to \in Statuses : act(r, row, to)
    PROVE  FrontInv'
  <1>1. Fit(req[r], Kept) /\ AccountsInv /\ AdminInv /\ Kept \in SUBSET Keepers
    BY KeptAreKeepers DEF FrontInv, TypeInv, RequestsInv
  <1>2. AccountsInv' /\ Kept' = Kept /\ UNCHANGED <<list, shelf, where>>
    <2>1. CASE setMerchantStatus(r)
      BY <1>1, <2>1, StatusIsSet DEF setMerchantStatus
    <2>2. CASE ~setMerchantStatus(r)
      <3>1. UNCHANGED <<day, accounts, list, shelf, where>>
        BY <2>2 DEF loadMerchants, findMerchants, hearSet, hearMerchants, adminFails, act
      <3>2. QED
        BY <1>1, <3>1, SameAccounts
    <2>3. QED
      BY <2>1, <2>2
  <1>3. AdminInv'
    <2>1. CASE hearMerchants(r)
      <3>1. req[r].answer \in SUBSET Row(Kept)
        BY <1>1, <2>1 DEF hearMerchants, Fit
      <3>2. QED
        BY <1>1, <1>2, <2>1, <3>1 DEF hearMerchants, AdminInv
    <2>2. CASE ~hearMerchants(r)
      <3>1. rows' = rows /\ busy' \in BOOLEAN
        BY <1>1, <2>2 DEF loadMerchants, setMerchantStatus, findMerchants, hearSet, adminFails, act,
                          admin, AdminInv
      <3>2. QED
        BY <1>1, <1>2, <3>1 DEF AdminInv
    <2>3. QED
      BY <2>1, <2>2
  <1>4. \E q : /\ Fit(q, Kept) /\ req' = [req EXCEPT ![r] = q]
               /\ {req[r].kind, q.kind} \subseteq {"idle", "setStatus", "merchants"}
    <2>1. Fit(Idle, Kept) /\ Idle.kind = "idle"
      BY <1>1, FitNew, KindNew
    <2>2. ASSUME NEW w \in {None, "act"}
          PROVE  Fit(Request("merchants", None, w), Kept)
                 /\ Request("merchants", None, w).kind = "merchants"
      BY <1>1, FitNew, KindNew
    <2>3. CASE loadMerchants(r)
      <3>1. req' = [req EXCEPT ![r] = Request("merchants", None, None)] /\ req[r] = Idle
        BY <2>3 DEF loadMerchants, Sends
      <3>2. QED
        BY <2>1, <2>2, <3>1
    <2>4. ASSUME NEW row \in rows, NEW to \in Statuses, act(r, row, to)
          PROVE  \E q : /\ Fit(q, Kept) /\ req' = [req EXCEPT ![r] = q]
                       /\ {req[r].kind, q.kind} \subseteq {"idle", "setStatus", "merchants"}
      <3>1. req' = [req EXCEPT ![r] = Request("setStatus", row.id, to)] /\ req[r] = Idle
        BY <2>4 DEF act, Sends
      <3>2. row.id \in Kept /\ to \in {"APPROVED", "SUSPENDED"}
        BY <1>1, <2>4 DEF act, AdminInv, Row
      <3>3. Fit(Request("setStatus", row.id, to), Kept)
        BY <1>1, <3>2, FitNew
      <3>4. Request("setStatus", row.id, to).kind = "setStatus"
        BY KindNew
      <3>5. QED
        BY ONLY <2>1, <3>1, <3>3, <3>4
    <2>5. CASE setMerchantStatus(r)
      <3> DEFINE a == IF status[req[r].id] = req[r].what THEN "Conflict" ELSE "set"
                 q == [req[r] EXCEPT !.answer = a]
      <3>1. req[r].kind = "setStatus" /\ req' = [req EXCEPT ![r] = q]
        BY <2>5 DEF setMerchantStatus, Answers
      <3>2. Fit(q, Kept)
        BY <1>1, <3>1, FitAnswer DEF Told
      <3>3. q.kind = "setStatus"
        BY <1>1, <3>1 DEF Fit, Requests, Told
      <3>4. QED
        BY <3>1, <3>2, <3>3
    <2>6. CASE findMerchants(r)
      <3> DEFINE q == [req[r] EXCEPT !.answer = Merchants]
      <3>1. req[r].kind = "merchants" /\ req' = [req EXCEPT ![r] = q]
        BY <2>6 DEF findMerchants, Answers
      <3>2. Merchants \in SUBSET Row(Kept)
        BY <1>1 DEF Merchants, Row, Kept, AccountsInv
      <3>3. Merchants \in SUBSET Row(Keepers)
        BY <1>1, <3>2 DEF Row
      <3>4. Fit(q, Kept)
        BY <1>1, <3>1, <3>2, <3>3, FitAnswer DEF Told
      <3>5. q.kind = "merchants"
        BY <1>1, <3>1 DEF Fit, Requests, Told
      <3>6. QED
        BY <3>1, <3>4, <3>5
    <2>7. CASE hearSet(r)
      <3>1. req' = [req EXCEPT ![r] = Request("merchants", None, "act")] /\ req[r].kind = "setStatus"
        BY <2>7 DEF hearSet
      <3>2. QED
        BY <2>2, <3>1
    <2>8. CASE hearMerchants(r) \/ adminFails(r)
      <3>1. req' = [req EXCEPT ![r] = Idle] /\ req[r].kind \in {"merchants", "setStatus"}
        BY <2>8 DEF hearMerchants, adminFails, Ends
      <3>2. QED
        BY <2>1, <3>1
    <2>9. QED
      BY <2>3, <2>4, <2>5, <2>6, <2>7, <2>8
  <1>5. RequestsInv' /\ ShelfInv' /\ LocateInv'
    BY <1>2, <1>4, ElsewhereStep DEF FrontInv, list, where
  <1>6. ListTyped' /\ ShelfTyped' /\ WhereTyped'
    BY <1>2, ScreensKept DEF FrontInv, TypeInv
  <1>7. QED
    BY <1>2, <1>3, <1>5, <1>6 DEF FrontInv, TypeInv

-----------------------------------------------------------------------------
(* The list of shops *)

LEMMA ListStep ==
    ASSUME FrontInv, NEW r \in Slots,
           \/ findAll(r) \/ hearShops(r) \/ connectionFails(r) \/ shopsFail(r)
           \/ triesAgain(r) \/ handleRefresh(r)
    PROVE  FrontInv'
  <1>1. Fit(req[r], Kept) /\ AccountsInv /\ Kept \in SUBSET Keepers /\ ListTyped
    BY KeptAreKeepers DEF FrontInv, TypeInv, RequestsInv
  <1>2. UNCHANGED <<day, accounts, admin, opened, shelf, where>>
    BY DEF findAll, hearShops, connectionFails, shopsFail, triesAgain, handleRefresh, list
  <1>3. AccountsInv' /\ Kept' = Kept
    BY <1>1, <1>2, SameAccounts
  <1>4. ListTyped'
    <2>1. CASE hearShops(r)
      BY <1>1, <2>1 DEF hearShops, ListTyped, Fit
    <2>2. CASE ~hearShops(r)
      BY <1>1, <2>2 DEF ListTyped, findAll, connectionFails, shopsFail, triesAgain, handleRefresh, list
    <2>3. QED
      BY <2>1, <2>2
  <1>5. \E q : /\ Fit(q, Kept) /\ req' = [req EXCEPT ![r] = q]
               /\ {req[r].kind, q.kind} \subseteq {"idle", "shops", "wait"}
    <2>1. Fit(Idle, Kept) /\ Idle.kind = "idle"
      BY <1>1, FitNew, KindNew
    <2>2. CASE findAll(r)
      <3> DEFINE q == [req[r] EXCEPT !.answer = Approved]
      <3>1. req[r].kind = "shops" /\ req' = [req EXCEPT ![r] = q]
        BY <2>2 DEF findAll, Answers
      <3>2. Approved \in SUBSET Keepers
        BY DEF Approved
      <3>3. Fit(q, Kept)
        BY <1>1, <3>1, <3>2, FitAnswer DEF Told
      <3>4. q.kind = "shops"
        BY <1>1, <3>1 DEF Fit, Requests, Told
      <3>5. QED
        BY <3>1, <3>3, <3>4
    <2>3. CASE hearShops(r) \/ shopsFail(r)
      <3>1. req' = [req EXCEPT ![r] = Idle] /\ req[r].kind = "shops"
        BY <2>3 DEF hearShops, shopsFail, Ends
      <3>2. QED
        BY <2>1, <3>1
    <2>4. CASE connectionFails(r)
      <3> DEFINE q == [req[r] EXCEPT !.kind = "wait"]
      <3>1. req[r].kind = "shops" /\ req' = [req EXCEPT ![r] = q]
        BY <2>4 DEF connectionFails, TriesAgain
      <3>2. Fit(q, Kept) /\ q.kind = "wait"
        BY <1>1, <3>1 DEF Fit, Requests, Kinds
      <3>3. QED
        BY <3>1, <3>2
    <2>5. CASE triesAgain(r)
      <3> DEFINE n == Min({req[r].n + 1, Attempts})
                 q == [Request("shops", None, None) EXCEPT !.n = n]
      <3>1. req[r].kind = "wait" /\ req' = [req EXCEPT ![r] = q]
        BY <2>5 DEF triesAgain
      <3>2. req[r].n \in Nat
        BY <1>1 DEF Fit, Requests, Told
      <3>3. n \in Nat
        BY <3>2, NextAttempt
      <3> HIDE DEF n
      <3>4. Fit(q, Kept)
        BY <1>1, <3>3, FitNew
      <3>5. q.kind = "shops"
        BY DEF Request, Idle
      <3>6. QED
        BY <3>1, <3>4, <3>5
    <2>6. CASE handleRefresh(r)
      <3>1. req' = [req EXCEPT ![r] = Request("shops", None, None)] /\ req[r] = Idle
        BY <2>6 DEF handleRefresh, Sends
      <3>2. Fit(Request("shops", None, None), Kept)
        BY <1>1, FitNew
      <3>3. Request("shops", None, None).kind = "shops"
        BY KindNew
      <3>4. QED
        BY ONLY <2>1, <3>1, <3>2, <3>3
    <2>7. QED
      BY <2>2, <2>3, <2>4, <2>5, <2>6
  <1>6. RequestsInv' /\ ShelfInv' /\ LocateInv'
    BY <1>2, <1>3, <1>5, ElsewhereStep DEF FrontInv, where
  <1>7. AdminInv' /\ ShelfTyped' /\ WhereTyped'
    BY <1>2, <1>3, AdminKept, ScreensKept DEF FrontInv, TypeInv
  <1>8. QED
    BY <1>3, <1>4, <1>6, <1>7 DEF FrontInv, TypeInv

\* A screen goes and another comes: nothing is on its way that the new one did not ask for, and no
\* location that it waits for.
LEMMA SelectStep ==
    ASSUME FrontInv, NEW r \in Slots, NEW k \in Keepers, onSelectShop(r, k)
    PROVE  FrontInv'
  <1> DEFINE q == Request("categories", k, None)
  <1>1. /\ opened' = k /\ UNCHANGED <<day, accounts, admin, shops, loading, place, saved, picker>>
        /\ shown' = None /\ filter' = "all" /\ due' = FALSE /\ unread' = TRUE /\ crossed' = FALSE
        /\ locating' = FALSE /\ error' = FALSE /\ AsksFirst(r, q)
    BY DEF onSelectShop
  <1>2. AccountsInv' /\ Kept' = Kept
    BY <1>1, SameAccounts DEF FrontInv, TypeInv
  <1>3. Fit(q, Kept) /\ q.kind = "categories"
    <2>1. Fit(q, Kept)
      BY KeptAreKeepers, FitNew
    <2>2. QED
      BY <2>1, KindNew
  <1>4. RequestsInv' /\ req'[r] = q /\ \A s \in Slots \ {r} : req'[s] = Left(req[s])
    BY <1>1, <1>2, <1>3, FirstRequest DEF FrontInv, TypeInv
  <1> HIDE DEF q
  <1>5. \A s \in Slots \ {r} : /\ req'[s].kind \notin {"categories", "products"}
                               /\ req'[s].kind = "locate" => ~req'[s].mine
    <2>1. ASSUME NEW s \in Slots
          PROVE  /\ Left(req[s]).kind \notin {"categories", "products"}
                 /\ Left(req[s]).kind = "locate" => ~Left(req[s]).mine
      <3>1. Fit(req[s], Kept)
        BY DEF FrontInv, TypeInv, RequestsInv
      <3>2. QED
        BY <3>1, FitLeft, KeptAreKeepers
    <2>2. QED
      BY <1>4, <2>1
  <1>6. Reading' = {r} /\ Locating' = {}
    BY <1>3, <1>4, <1>5 DEF Reading, Locating
  <1>7. ShelfInv' /\ LocateInv'
    BY <1>1, <1>6 DEF ShelfInv, LocateInv
  <1>8. AdminInv' /\ ListTyped' /\ ShelfTyped' /\ WhereTyped'
    BY <1>1, <1>2, AdminKept, AllIsAFilter DEF FrontInv, TypeInv, ListTyped, ShelfTyped, WhereTyped
  <1>9. QED
    BY <1>2, <1>4, <1>7, <1>8 DEF FrontInv, TypeInv

LEMMA BackStep ==
    ASSUME FrontInv, NEW r \in Slots, onBack(r)
    PROVE  FrontInv'
  <1> DEFINE q == Request("shops", None, None)
  <1>1. /\ opened' = None /\ shops' = {} /\ loading' = TRUE /\ error' = FALSE
        /\ shown' = None /\ filter' = "all" /\ due' = FALSE /\ unread' = FALSE /\ crossed' = FALSE
        /\ place' \in {place, "area"} /\ UNCHANGED <<day, accounts, admin, saved, locating, picker>>
        /\ AsksFirst(r, q)
    BY DEF onBack
  <1>2. AccountsInv' /\ Kept' = Kept
    BY <1>1, SameAccounts DEF FrontInv, TypeInv
  <1>3. Fit(q, Kept) /\ q.kind = "shops"
    BY FitNew, KindNew, KeptAreKeepers
  <1>4. RequestsInv' /\ req'[r] = q /\ \A s \in Slots \ {r} : req'[s] = Left(req[s])
    BY <1>1, <1>2, <1>3, FirstRequest DEF FrontInv, TypeInv
  <1> HIDE DEF q
  <1>5. \A s \in Slots \ {r} : /\ req'[s].kind \notin {"categories", "products"}
                               /\ req'[s].kind = "locate" => ~req'[s].mine
    <2>1. ASSUME NEW s \in Slots
          PROVE  /\ Left(req[s]).kind \notin {"categories", "products"}
                 /\ Left(req[s]).kind = "locate" => ~Left(req[s]).mine
      <3>1. Fit(req[s], Kept)
        BY DEF FrontInv, TypeInv, RequestsInv
      <3>2. QED
        BY <3>1, FitLeft, KeptAreKeepers
    <2>2. QED
      BY <1>4, <2>1
  <1>6. Reading' = {} /\ Locating' = {}
    BY <1>3, <1>4, <1>5 DEF Reading, Locating
  <1>7. ShelfInv' /\ LocateInv'
    BY <1>1, <1>6 DEF ShelfInv, LocateInv, Reading
  <1>8. AdminInv' /\ ListTyped' /\ ShelfTyped' /\ WhereTyped'
    BY <1>1, <1>2, AdminKept, AllIsAFilter DEF FrontInv, TypeInv, ListTyped, ShelfTyped, WhereTyped
  <1>9. QED
    BY <1>2, <1>4, <1>7, <1>8 DEF FrontInv, TypeInv

-----------------------------------------------------------------------------
(* A shop's shelf *)

\* The shelf's request is answered, not yet heard.
LEMMA ShelfAnswered ==
    ASSUME FrontInv, NEW r \in Slots, findCategories(r) \/ findProducts(r) \/ readsProducts(r)
    PROVE  FrontInv'
  <1>1. Fit(req[r], Kept) /\ RequestsInv /\ Kept \in SUBSET Keepers
    BY KeptAreKeepers DEF FrontInv, TypeInv, RequestsInv
  <1>2. UNCHANGED <<day, accounts, admin, list, shelf, where>>
    BY DEF findCategories, findProducts, readsProducts
  <1>3. AccountsInv' /\ Kept' = Kept
    BY <1>2, SameAccounts DEF FrontInv, TypeInv
  <1>4. PICK a \in {"found", "none", "resolved", "NotFound"} : req' = [req EXCEPT ![r].answer = a]
    BY DEF findCategories, findProducts, readsProducts, Answers, Found
  <1> DEFINE q == [req[r] EXCEPT !.answer = a]
  <1>5. req' = [req EXCEPT ![r] = q] /\ req[r].kind \in {"categories", "products"}
    BY <1>4 DEF findCategories, findProducts, readsProducts
  <1>6. Fit(q, Kept)
    BY <1>1, <1>5, FitAnswer DEF Told
  <1>7. q.kind = req[r].kind /\ q.what = req[r].what
    BY <1>1 DEF Fit, Requests
  <1> HIDE DEF q
  <1>8. RequestsInv' /\ req'[r] = q /\ \A s \in Slots \ {r} : req'[s] = req[s]
    BY <1>1, <1>3, <1>5, <1>6, ReplaceRequest
  <1>9. ShelfInv' /\ LocateInv'
    BY <1>2, <1>5, <1>7, <1>8, ShelfKept, LocateKept DEF FrontInv, list, where
  <1>10. AdminInv' /\ ListTyped' /\ ShelfTyped' /\ WhereTyped'
    BY <1>2, <1>3, AdminKept, ScreensKept DEF FrontInv, TypeInv
  <1>11. QED
    BY <1>3, <1>8, <1>9, <1>10 DEF FrontInv, TypeInv

LEMMA HearCategoriesStep ==
    ASSUME FrontInv, NEW r \in Slots, hearCategories(r)
    PROVE  FrontInv'
  <1> DEFINE q == Request("products", opened, "all")
  <1>1. /\ req[r].kind = "categories" /\ error' \in BOOLEAN /\ req' = [req EXCEPT ![r] = q]
        /\ UNCHANGED <<day, accounts, admin, opened, shops, loading, shelf, where>>
    BY DEF hearCategories, FrontInv, TypeInv, ListTyped
  <1>2. AccountsInv' /\ Kept' = Kept
    BY <1>1, SameAccounts DEF FrontInv, TypeInv
  <1>3. Fit(q, Kept) /\ q.kind = "products"
    <2>1. opened \in Keepers \cup {None} /\ Kept \in SUBSET Keepers
      BY KeptAreKeepers DEF FrontInv, TypeInv, ListTyped
    <2>2. Fit(q, Kept)
      BY <2>1, AllIsAFilter, FitNew
    <2>3. QED
      BY <2>2, KindNew
  <1> HIDE DEF q
  <1>4. RequestsInv' /\ req'[r] = q /\ \A s \in Slots \ {r} : req'[s] = req[s]
    BY <1>1, <1>2, <1>3, ReplaceRequest DEF FrontInv, TypeInv
  <1>5. unread /\ unread' = unread
    BY <1>1 DEF FrontInv, ShelfInv, shelf
  <1>6. Reading' = Reading
    BY <1>1, <1>3, <1>4 DEF Reading
  <1>7. ShelfInv'
    BY <1>5, <1>6 DEF FrontInv, ShelfInv
  <1>8. LocateInv'
    BY <1>1, <1>3, <1>4, LocateKept DEF FrontInv, where
  <1>9. AdminInv' /\ ListTyped' /\ ShelfTyped' /\ WhereTyped'
    BY <1>1, <1>2, AdminKept, ScreensKept DEF FrontInv, TypeInv, ListTyped
  <1>10. QED
    BY <1>2, <1>4, <1>7, <1>8, <1>9 DEF FrontInv, TypeInv

\* An answer that is heard is for the filter there is, or the timer runs, or something has crossed.
LEMMA HearProductsStep ==
    ASSUME FrontInv, NEW r \in Slots, hearProducts(r) \/ productsFail(r)
    PROVE  FrontInv'
  <1>1. /\ req[r].kind = "products" /\ unread' = FALSE /\ due' = (due \/ unread)
        /\ req' = [req EXCEPT ![r] = Idle]
        /\ UNCHANGED <<day, accounts, admin, opened, shops, loading, filter, where>>
    BY DEF hearProducts, productsFail, Reads, Ends, list
  <1>2. AccountsInv' /\ Kept' = Kept
    BY <1>1, SameAccounts DEF FrontInv, TypeInv
  <1>3. Fit(Idle, Kept) /\ Idle.kind = "idle"
    BY FitNew, KindNew, KeptAreKeepers
  <1>4. RequestsInv' /\ req'[r] = Idle /\ \A s \in Slots \ {r} : req'[s] = req[s]
    BY <1>1, <1>2, <1>3, ReplaceRequest DEF FrontInv, TypeInv
  <1>5. Fit(req[r], Kept) /\ ListTyped /\ ShelfTyped /\ ShelfInv
    BY DEF FrontInv, TypeInv, RequestsInv
  <1>6. ListTyped' /\ ShelfTyped'
    <2>1. CASE hearProducts(r)
      BY <1>1, <1>5, <2>1 DEF hearProducts, Fit, ListTyped, ShelfTyped, Shown, list
    <2>2. CASE productsFail(r)
      BY <1>1, <1>5, <2>2 DEF productsFail, ListTyped, ShelfTyped
    <2>3. QED
      BY <2>1, <2>2
  <1>7. \A s \in Slots : req'[s].kind # "categories"
    <2>1. ASSUME NEW s \in Slots \ {r}, req[s].kind = "categories" PROVE FALSE
      BY <1>1, <1>5, <2>1 DEF ShelfInv, Reading
    <2>2. QED
      BY <1>3, <1>4, <2>1
  <1>8. ASSUME opened' # None, ~due', ~crossed'
        PROVE  /\ \A s \in Slots : req'[s].kind = "products" => req'[s].what = filter'
               /\ ShelfIsOfFilter'
    <2>1. hearProducts(r) /\ ~unread /\ ~due /\ ~crossed /\ opened # None
      BY <1>1, <1>5, <1>8 DEF hearProducts, productsFail, ShelfTyped
    <2>2. \A s \in Slots : req[s].kind = "products" => req[s].what = filter
      BY <1>5, <2>1 DEF ShelfInv
    <2>3. shown' # None /\ shown'.filter = filter'
      BY <1>1, <1>5, <2>1, <2>2, NoneIsNothing DEF hearProducts, Fit, Shown
    <2>4. QED
      BY <1>1, <1>3, <1>4, <2>2, <2>3 DEF ShelfIsOfFilter
  <1>9. ShelfInv'
    BY <1>1, <1>7, <1>8 DEF ShelfInv
  <1>10. LocateInv'
    BY <1>1, <1>3, <1>4, LocateKept DEF FrontInv, where
  <1>11. AdminInv' /\ WhereTyped'
    BY <1>1, <1>2, AdminKept, ScreensKept DEF FrontInv, TypeInv
  <1>12. QED
    BY <1>2, <1>4, <1>6, <1>9, <1>10, <1>11 DEF FrontInv, TypeInv

LEMMA SetFilterStep ==
    ASSUME FrontInv, NEW f \in Filters, setFilter(f)
    PROVE  FrontInv'
  <1>1. /\ ~unread /\ filter' = f /\ due' = TRUE
        /\ UNCHANGED <<day, accounts, admin, list, shown, unread, crossed, where, req>>
    BY DEF setFilter
  <1>2. AccountsInv' /\ Kept' = Kept
    BY <1>1, SameAccounts DEF FrontInv, TypeInv
  <1>3. ShelfInv'
    BY <1>1 DEF FrontInv, ShelfInv
  <1>4. LocateInv'
    BY <1>1, LocateKept DEF FrontInv, where
  <1>5. AdminInv' /\ ListTyped' /\ WhereTyped' /\ RequestsInv'
    BY <1>1, <1>2, AdminKept, ScreensKept, SameRequests DEF FrontInv, TypeInv
  <1>6. ShelfTyped'
    BY <1>1 DEF FrontInv, TypeInv, ShelfTyped
  <1>7. QED
    BY <1>2, <1>3, <1>4, <1>5, <1>6 DEF FrontInv, TypeInv

\* A read that finds another under way has crossed it; otherwise it is the only one.
LEMMA RereadStep ==
    ASSUME FrontInv, NEW r \in Slots, loadProducts(r) \/ Rereads(r)
    PROVE  FrontInv'
  <1> DEFINE q == Request("products", opened, filter)
  <1>1. /\ ~unread /\ due' \in {due, FALSE} /\ req' = [req EXCEPT ![r] = q] /\ req[r] = Idle
        /\ crossed' = (crossed \/ \E s \in Slots : req[s].kind = "products")
        /\ UNCHANGED <<day, accounts, admin, list, shown, filter, unread, where>>
    BY DEF loadProducts, Rereads, Sends, Overlaps, asked
  <1>2. AccountsInv' /\ Kept' = Kept
    BY <1>1, SameAccounts DEF FrontInv, TypeInv
  <1>3. Fit(q, Kept) /\ q.kind = "products" /\ q.what = filter
    <2>1. opened \in Keepers \cup {None} /\ filter \in Filters /\ Kept \in SUBSET Keepers
      BY KeptAreKeepers DEF FrontInv, TypeInv, ListTyped, ShelfTyped
    <2>2. Fit(q, Kept)
      BY <2>1, FitNew
    <2>3. QED
      BY <2>2, KindNew
  <1> HIDE DEF q
  <1>4. RequestsInv' /\ req'[r] = q /\ \A s \in Slots \ {r} : req'[s] = req[s]
    BY <1>1, <1>2, <1>3, ReplaceRequest DEF FrontInv, TypeInv
  <1>5. \A s \in Slots : req'[s].kind # "categories"
    BY <1>1, <1>3, <1>4 DEF FrontInv, ShelfInv
  <1>6. ASSUME ~crossed'
        PROVE  \A s \in Slots : req'[s].kind = "products" => s = r
    BY <1>1, <1>4, <1>6
  <1>7. ShelfInv'
    BY <1>1, <1>3, <1>4, <1>5, <1>6 DEF ShelfInv, ShelfIsOfFilter
  <1>8. LocateInv'
    BY <1>1, <1>3, <1>4, LocateKept DEF FrontInv, where
  <1>9. AdminInv' /\ ListTyped' /\ ShelfTyped' /\ WhereTyped'
    BY <1>1, <1>2, AdminKept, ScreensKept DEF FrontInv, TypeInv, ShelfTyped
  <1>10. QED
    BY <1>2, <1>4, <1>7, <1>8, <1>9 DEF FrontInv, TypeInv

-----------------------------------------------------------------------------
(* Where the customer is *)

LEMMA LocationStep ==
    ASSUME FrontInv, NEW r \in Slots, handleUseLocation(r) \/ locatedAt(r) \/ notLocated(r)
    PROVE  FrontInv'
  <1>1. UNCHANGED <<day, accounts, admin, list, shelf, saved>>
    BY DEF handleUseLocation, locatedAt, notLocated
  <1>2. AccountsInv' /\ Kept' = Kept
    BY <1>1, SameAccounts DEF FrontInv, TypeInv
  <1>3. AdminInv' /\ ListTyped' /\ ShelfTyped'
    BY <1>1, <1>2, AdminKept, ScreensKept DEF FrontInv, TypeInv
  <1>4. Fit(req[r], Kept) /\ WhereTyped /\ LocateInv /\ Kept \in SUBSET Keepers
    BY KeptAreKeepers DEF FrontInv, TypeInv, RequestsInv
  <1>5. req[r].mine \in BOOLEAN
    BY <1>4 DEF Fit, Requests
  <1>6. WhereTyped'
    BY <1>1, <1>4, <1>5 DEF WhereTyped, handleUseLocation, locatedAt, notLocated
  <1> DEFINE ask == [Request("locate", None, None) EXCEPT !.mine = TRUE]
  <1>7. PICK q : /\ req' = [req EXCEPT ![r] = q] /\ Fit(q, Kept)
                 /\ {req[r].kind, q.kind} \subseteq {"idle", "locate"}
                 /\ IF handleUseLocation(r) THEN q.kind = "locate" /\ q.mine /\ ~q.old
                    ELSE q.kind = "idle"
    <2>1. Fit(Idle, Kept) /\ Idle.kind = "idle"
      BY <1>4, FitNew, KindNew
    <2>2. CASE handleUseLocation(r)
      <3>1. req' = [req EXCEPT ![r] = ask] /\ req[r] = Idle
        BY <2>2 DEF handleUseLocation, Sends
      <3>2. Fit(ask, Kept)
        BY <1>4, FitNew
      <3>3. ask.kind = "locate" /\ ask.mine /\ ~ask.old
        BY KindNew
      <3>4. QED
        BY <2>1, <2>2, <3>1, <3>2, <3>3
    <2>3. CASE ~handleUseLocation(r)
      <3>1. req' = [req EXCEPT ![r] = Idle] /\ req[r].kind = "locate"
        BY <2>3 DEF locatedAt, notLocated, Ends
      <3>2. QED
        BY <2>1, <2>3, <3>1
    <2>4. QED
      BY <2>2, <2>3
  <1>8. RequestsInv' /\ req'[r] = q /\ \A s \in Slots \ {r} : req'[s] = req[s]
    BY <1>2, <1>7, ReplaceRequest DEF FrontInv, TypeInv
  <1>9. ShelfInv'
    BY <1>1, <1>7, <1>8, ShelfKept DEF FrontInv, list
  <1>10. LocateInv'
    <2>1. CASE handleUseLocation(r)
      <3>1. ~picker /\ ~locating /\ locating' = TRUE /\ picker' = picker
        BY <2>1 DEF handleUseLocation, LocateOffered
      <3>2. Locating = {}
        BY <1>4, <3>1 DEF LocateInv
      <3>3. Locating' = {r} /\ ~req'[r].old
        BY <1>7, <1>8, <2>1, <3>2 DEF Locating
      <3>4. QED
        BY <3>1, <3>3 DEF LocateInv
    <2>2. CASE ~handleUseLocation(r)
      <3>1. /\ req[r].kind = "locate" /\ locating' = (locating /\ ~req[r].mine)
            /\ picker' = picker \/ picker' = (picker \/ req[r].mine)
        BY <2>2 DEF locatedAt, notLocated
      <3>2. Locating' = Locating \ {r}
        BY <1>7, <1>8, <2>2 DEF Locating
      <3>3. CASE req[r].mine
        <4>1. r \in Locating
          BY <3>1, <3>3 DEF Locating
        <4>2. Locating' = {}
          BY <1>4, <3>2, <4>1 DEF LocateInv
        <4>3. QED
          BY <4>2 DEF LocateInv
      <3>4. CASE ~req[r].mine
        <4>1. (locating' <=> locating) /\ (picker' <=> picker)
          BY <1>4, <1>6, <3>1, <3>4 DEF WhereTyped
        <4>2. \A s \in Locating' : s \in Locating /\ req'[s] = req[s]
          BY <1>8, <3>2 DEF Locating
        <4>3. QED
          BY <1>4, <4>1, <4>2 DEF LocateInv
      <3>5. QED
        BY <3>3, <3>4
    <2>3. QED
      BY <2>1, <2>2
  <1>11. QED
    BY <1>2, <1>3, <1>6, <1>8, <1>9, <1>10 DEF FrontInv, TypeInv

LEMMA AreaStep ==
    ASSUME FrontInv, chooseArea \/ notNow
    PROVE  FrontInv'
  <1>1. /\ picker /\ picker' = FALSE /\ UNCHANGED <<day, accounts, admin, list, shelf, locating>>
        /\ saved' \in {saved, TRUE} /\ place' \in {place, "area"}
    BY DEF chooseArea, notNow
  <1>2. AccountsInv' /\ Kept' = Kept
    BY <1>1, SameAccounts DEF FrontInv, TypeInv
  <1>3. AdminInv' /\ ListTyped' /\ ShelfTyped' /\ WhereTyped'
    BY <1>1, <1>2, AdminKept, ScreensKept DEF FrontInv, TypeInv, WhereTyped
  <1>4. /\ RequestsInv'
        /\ \A s \in Slots : /\ req'[s].kind = req[s].kind /\ req'[s].what = req[s].what
                            /\ req'[s].mine = req[s].mine
    <2>1. CASE notNow
      <3>1. req' = req
        BY <2>1 DEF notNow
      <3>2. QED
        BY <1>2, <3>1, SameRequests DEF FrontInv, TypeInv
    <2>2. CASE chooseArea
      <3>1. req' = [s \in Slots |-> [req[s] EXCEPT !.old = (req[s].kind = "locate")]]
        BY <2>2 DEF chooseArea
      <3>2. ASSUME NEW s \in Slots
            PROVE  /\ Fit(req'[s], Kept) /\ req'[s].kind = req[s].kind
                   /\ req'[s].what = req[s].what /\ req'[s].mine = req[s].mine
        <4>1. Fit(req[s], Kept)
          BY DEF FrontInv, TypeInv, RequestsInv
        <4>2. PICK b \in BOOLEAN : req'[s] = [req[s] EXCEPT !.old = b]
          BY <3>1
        <4>3. QED
          BY <4>1, <4>2 DEF Fit, Requests
      <3>3. QED
        BY <1>2, <3>1, <3>2 DEF RequestsInv
    <2>3. QED
      BY <1>1, <2>1, <2>2 DEF chooseArea, notNow
  <1>5. Locating = {}
    BY <1>1 DEF FrontInv, LocateInv
  <1>6. ShelfInv'
    BY <1>1, <1>4, ShelfKept DEF FrontInv, list
  <1>7. LocateInv'
    BY <1>4, <1>5 DEF LocateInv, Locating
  <1>8. QED
    BY <1>2, <1>3, <1>4, <1>6, <1>7 DEF FrontInv, TypeInv

-----------------------------------------------------------------------------
(* Theorems *)

LEMMA FrontInit == Init => FrontInv
  <1> SUFFICES ASSUME Init PROVE FrontInv
    OBVIOUS
  <1>1. AccountsInv
    BY DaysAssumption, NoneIsNothing DEF Init, AccountsInv, KeeperHasShop, Roles
  <1>2. /\ req = [r \in Slots |-> req[r]]
        /\ \A r \in Slots : Fit(req[r], Kept) /\ req[r].kind \in {"idle", "shops"}
    <2>1. \A r \in Slots : req[r] \in {Idle, Request("shops", None, None)}
      BY DEF Init
    <2>2. Fit(Idle, Kept) /\ Fit(Request("shops", None, None), Kept)
      BY FitNew, KeptAreKeepers
    <2>3. Idle.kind = "idle" /\ Request("shops", None, None).kind = "shops"
      BY KindNew
    <2>4. \A r \in Slots : Fit(req[r], Kept) /\ req[r].kind \in {"idle", "shops"}
      BY <2>1, <2>2, <2>3
    <2>5. QED
      BY <2>4 DEF Init
  <1>3. Reading = {} /\ Locating = {}
    BY <1>2 DEF Reading, Locating
  <1>4. ShelfInv /\ LocateInv
    BY <1>3 DEF Init, ShelfInv, LocateInv, Reading
  <1>5. AdminInv /\ ListTyped /\ ShelfTyped /\ WhereTyped
    <2>1. AdminInv /\ ListTyped /\ ShelfTyped
      BY AllIsAFilter DEF Init, AdminInv, ListTyped, ShelfTyped
    <2>2. saved \in BOOLEAN
      <3>1. PICK tried : tried = ("area" \in day.tries)
        OBVIOUS
      <3>2. tried \in BOOLEAN
        BY <3>1
      <3>3. saved \in {FALSE, tried}
        BY <3>1, Zenon DEF Init
      <3>4. QED
        BY <3>2, <3>3
    <2>3. WhereTyped
      BY <2>2 DEF Init, WhereTyped
    <2>4. QED
      BY <2>1, <2>3
  <1>6. QED
    BY <1>1, <1>2, <1>4, <1>5 DEF FrontInv, TypeInv, RequestsInv

LEMMA StutterStep ==
    ASSUME FrontInv, UNCHANGED vars
    PROVE  FrontInv'
  <1>1. UNCHANGED <<day, accounts, admin, list, shelf, where, req>>
    BY DEF vars
  <1>2. AccountsInv' /\ Kept' = Kept
    BY <1>1, SameAccounts DEF FrontInv, TypeInv
  <1>3. AdminInv' /\ ListTyped' /\ ShelfTyped' /\ WhereTyped' /\ RequestsInv'
    BY <1>1, <1>2, AdminKept, ScreensKept, SameRequests DEF FrontInv, TypeInv
  <1>4. ShelfInv' /\ LocateInv'
    BY <1>1, ShelfKept, LocateKept DEF FrontInv, list, where
  <1>5. QED
    BY <1>2, <1>3, <1>4 DEF FrontInv, TypeInv

\* Accounts, the table, the list, the shelf and the place stay sound through every step of keepers,
\* administrator, customer and server.
THEOREM StorefrontInvariant == Spec => []FrontInv
  <1>1. FrontInv /\ [Next]_vars => FrontInv'
    <2> SUFFICES ASSUME FrontInv, [Next]_vars PROVE FrontInv'
      OBVIOUS
    <2>1. ASSUME NEW r \in Slots,
                 \/ registerReads(r) \/ registerWrites(r) \/ hearRegister(r) \/ registerFails(r)
                 \/ \E k \in Keepers : handleRegister(r, k)
          PROVE  FrontInv'
      BY <2>1, RegisterStep
    <2>2. ASSUME NEW r \in Slots,
                 \/ loadMerchants(r) \/ setMerchantStatus(r) \/ findMerchants(r)
                 \/ hearSet(r) \/ hearMerchants(r) \/ adminFails(r)
                 \/ \E row \in rows, to \in Statuses : act(r, row, to)
          PROVE  FrontInv'
      BY <2>2, AdminStep
    <2>3. ASSUME NEW r \in Slots,
                 \/ findAll(r) \/ hearShops(r) \/ connectionFails(r) \/ shopsFail(r)
                 \/ triesAgain(r) \/ handleRefresh(r)
          PROVE  FrontInv'
      BY <2>3, ListStep
    <2>4. ASSUME NEW r \in Slots, onBack(r) \/ \E k \in Keepers : onSelectShop(r, k)
          PROVE  FrontInv'
      BY <2>4, BackStep, SelectStep
    <2>5. ASSUME NEW r \in Slots,
                 \/ findCategories(r) \/ findProducts(r) \/ readsProducts(r) \/ hearCategories(r)
                 \/ hearProducts(r) \/ productsFail(r)
          PROVE  FrontInv'
      BY <2>5, ShelfAnswered, HearCategoriesStep, HearProductsStep
    <2>6. ASSUME NEW r \in Slots, loadProducts(r) \/ retryShelf(r) \/ onDone(r)
          PROVE  FrontInv'
      BY <2>6, RereadStep DEF retryShelf, onDone
    <2>7. ASSUME NEW r \in Slots, handleUseLocation(r) \/ locatedAt(r) \/ notLocated(r)
          PROVE  FrontInv'
      BY <2>7, LocationStep
    <2>8. CASE chooseArea \/ notNow
      BY <2>8, AreaStep
    <2>9. CASE \E k \in Keepers : requestOtp(k)
      BY <2>9, RequestOtpStep
    <2>10. CASE \E f \in Filters : setFilter(f)
      BY <2>10, SetFilterStep
    <2>11. CASE UNCHANGED vars
      BY <2>11, StutterStep
    <2>12. QED
      BY <2>1, <2>2, <2>3, <2>4, <2>5, <2>6, <2>7, <2>8, <2>9, <2>10, <2>11 DEF Next
  <1>2. QED
    BY <1>1, FrontInit, PTL DEF Spec

\* merchants.service.ts: whoever registers at once, signs in meanwhile or fails half-way, an account
\* is a merchant's exactly when it has a shop.
THEOREM KeeperHasShopHolds == Spec => []KeeperHasShop
  <1>1. FrontInv => KeeperHasShop
    BY DEF FrontInv, TypeInv, AccountsInv
  <1>2. QED
    BY <1>1, StorefrontInvariant, PTL

\* BrowseScreen.tsx: with nothing on its way the shelf is the one of the filter on the screen, unless
\* it was asked for over another answer or an answer failed.
THEOREM ShelfIsOfFilterHolds == Spec => []ShelfIsOfFilter
  <1>1. FrontInv => ShelfIsOfFilter
    BY DEF FrontInv, ShelfInv, ShelfIsOfFilter
  <1>2. QED
    BY <1>1, StorefrontInvariant, PTL

-----------------------------------------------------------------------------
(* What a step may not do *)

\* A shelf comes into an answer.
ShelfFound(r) ==
    req'[r].kind = "products" /\ req'[r].answer = "found" /\ req[r].answer # "found"

\* A request that has just been made, or has ended, has no answer.
LEMMA NothingAnswered ==
    /\ Idle.answer = None
    /\ \A kind, id, what :
          /\ Request(kind, id, what).answer = None
          /\ [Request(kind, id, what) EXCEPT !.mine = TRUE].answer = None
          /\ \A n : [Request(kind, id, what) EXCEPT !.n = n].answer = None
  BY DEF Idle, Request

LEMMA NotInOtherSlots ==
    ASSUME RequestsInv, NEW s \in Slots, NEW q, req' = [req EXCEPT ![s] = q],
           q.kind # "products" \/ q.answer # "found",
           NEW r \in Slots
    PROVE  ~ShelfFound(r)
  BY DEF ShelfFound, RequestsInv

\* Only the read of the shelf brings one.
LEMMA OnlyReadsBringOne ==
    ASSUME FrontInv, [Next]_vars, NEW r \in Slots, ShelfFound(r)
    PROVE  readsProducts(r)
  <1>1. RequestsInv /\ "found" # None
    BY NoneIsNothing DEF FrontInv, TypeInv
  <1>2. ASSUME NEW s \in Slots,
               \/ hearRegister(s) \/ hearMerchants(s) \/ adminFails(s) \/ hearShops(s) \/ shopsFail(s)
               \/ hearProducts(s) \/ productsFail(s) \/ locatedAt(s) \/ notLocated(s)
        PROVE  FALSE
    <2>1. req' = [req EXCEPT ![s] = Idle]
      BY <1>2 DEF hearRegister, hearMerchants, adminFails, hearShops, shopsFail, hearProducts,
                  productsFail, locatedAt, notLocated, Ends
    <2>2. QED
      BY <1>1, <2>1, NothingAnswered, NotInOtherSlots
  <1>3. ASSUME NEW s \in Slots,
               \/ \E k \in Keepers : handleRegister(s, k)
               \/ \E row \in rows, to \in Statuses : act(s, row, to)
               \/ loadMerchants(s) \/ hearSet(s) \/ triesAgain(s) \/ handleRefresh(s)
               \/ hearCategories(s) \/ loadProducts(s) \/ retryShelf(s) \/ onDone(s)
               \/ handleUseLocation(s)
        PROVE  FALSE
    <2>1. ASSUME NEW k \in Keepers, handleRegister(s, k) PROVE FALSE
      <3> DEFINE q == [Request("register", k, None) EXCEPT !.mine = TRUE]
      <3>1. req' = [req EXCEPT ![s] = q]
        BY <2>1 DEF handleRegister, Sends
      <3>2. q.answer = None
        BY NothingAnswered
      <3> HIDE DEF q
      <3>3. QED
        BY <1>1, <3>1, <3>2, NotInOtherSlots
    <2>2. ASSUME NEW row \in rows, NEW to \in Statuses, act(s, row, to) PROVE FALSE
      <3> DEFINE q == Request("setStatus", row.id, to)
      <3>1. req' = [req EXCEPT ![s] = q]
        BY <2>2 DEF act, Sends
      <3>2. q.answer = None
        BY NothingAnswered
      <3> HIDE DEF q
      <3>3. QED
        BY <1>1, <3>1, <3>2, NotInOtherSlots
    <2>3. CASE loadMerchants(s)
      <3> DEFINE q == Request("merchants", None, None)
      <3>1. req' = [req EXCEPT ![s] = q]
        BY <2>3 DEF loadMerchants, Sends
      <3>2. q.answer = None
        BY NothingAnswered
      <3> HIDE DEF q
      <3>3. QED
        BY <1>1, <3>1, <3>2, NotInOtherSlots
    <2>4. CASE hearSet(s)
      <3> DEFINE q == Request("merchants", None, "act")
      <3>1. req' = [req EXCEPT ![s] = q]
        BY <2>4 DEF hearSet
      <3>2. q.answer = None
        BY NothingAnswered
      <3> HIDE DEF q
      <3>3. QED
        BY <1>1, <3>1, <3>2, NotInOtherSlots
    <2>5. CASE triesAgain(s)
      <3> DEFINE q == [Request("shops", None, None) EXCEPT !.n = Min({req[s].n + 1, Attempts})]
      <3>1. req' = [req EXCEPT ![s] = q]
        BY <2>5 DEF triesAgain
      <3>2. q.answer = None
        BY NothingAnswered
      <3> HIDE DEF q
      <3>3. QED
        BY <1>1, <3>1, <3>2, NotInOtherSlots
    <2>6. CASE handleRefresh(s)
      <3> DEFINE q == Request("shops", None, None)
      <3>1. req' = [req EXCEPT ![s] = q]
        BY <2>6 DEF handleRefresh, Sends
      <3>2. q.answer = None
        BY NothingAnswered
      <3> HIDE DEF q
      <3>3. QED
        BY <1>1, <3>1, <3>2, NotInOtherSlots
    <2>7. CASE hearCategories(s)
      <3> DEFINE q == Request("products", opened, "all")
      <3>1. req' = [req EXCEPT ![s] = q]
        BY <2>7 DEF hearCategories
      <3>2. q.answer = None
        BY NothingAnswered
      <3> HIDE DEF q
      <3>3. QED
        BY <1>1, <3>1, <3>2, NotInOtherSlots
    <2>8. CASE loadProducts(s) \/ retryShelf(s) \/ onDone(s)
      <3> DEFINE q == Request("products", opened, filter)
      <3>1. req' = [req EXCEPT ![s] = q]
        BY <2>8 DEF loadProducts, retryShelf, onDone, Rereads, Sends, asked
      <3>2. q.answer = None
        BY NothingAnswered
      <3> HIDE DEF q
      <3>3. QED
        BY <1>1, <3>1, <3>2, NotInOtherSlots
    <2>9. CASE handleUseLocation(s)
      <3> DEFINE q == [Request("locate", None, None) EXCEPT !.mine = TRUE]
      <3>1. req' = [req EXCEPT ![s] = q]
        BY <2>9 DEF handleUseLocation, Sends
      <3>2. q.answer = None
        BY NothingAnswered
      <3> HIDE DEF q
      <3>3. QED
        BY <1>1, <3>1, <3>2, NotInOtherSlots
    <2>10. QED
      BY <1>3, <2>1, <2>2, <2>3, <2>4, <2>5, <2>6, <2>7, <2>8, <2>9
  <1>4. ASSUME NEW s \in Slots,
               \/ registerReads(s) \/ registerWrites(s) \/ registerFails(s) \/ setMerchantStatus(s)
               \/ findMerchants(s) \/ findAll(s) \/ connectionFails(s) \/ findCategories(s)
               \/ findProducts(s)
        PROVE  FALSE
    <2>1. Fit(req[s], Kept)
      BY <1>1 DEF RequestsInv
    <2>2. CASE registerReads(s) \/ registerWrites(s) \/ registerFails(s)
      <3>1. req'[s].kind = "register" /\ \A x \in Slots \ {s} : req'[x] = req[x]
        BY <1>1, <2>1, <2>2 DEF registerReads, registerWrites, registerFails, Answers, Fit, Requests,
                                RequestsInv
      <3>2. QED
        BY <3>1 DEF ShelfFound
    <2>3. CASE setMerchantStatus(s) \/ findMerchants(s) \/ findAll(s) \/ findCategories(s)
      <3>1. /\ req'[s].kind \in {"setStatus", "merchants", "shops", "categories"}
            /\ \A x \in Slots \ {s} : req'[x] = req[x]
        BY <1>1, <2>1, <2>3 DEF setMerchantStatus, findMerchants, findAll, findCategories, Answers,
                                Fit, Requests, RequestsInv
      <3>2. QED
        BY <3>1 DEF ShelfFound
    <2>4. CASE connectionFails(s)
      <3>1. req'[s].kind = "wait" /\ \A x \in Slots \ {s} : req'[x] = req[x]
        BY <1>1, <2>1, <2>4 DEF connectionFails, TriesAgain, Fit, Requests, RequestsInv
      <3>2. QED
        BY <3>1 DEF ShelfFound
    <2>5. CASE findProducts(s)
      <3>1. /\ req'[s].answer \in {"resolved", "NotFound"}
            /\ \A x \in Slots \ {s} : req'[x] = req[x]
        BY <1>1, <2>1, <2>5 DEF findProducts, Answers, Fit, Requests, RequestsInv
      <3>2. QED
        BY <3>1 DEF ShelfFound
    <2>6. QED
      BY <1>4, <2>2, <2>3, <2>4, <2>5
  <1>5. ASSUME NEW s \in Slots, onBack(s) \/ \E k \in Keepers : onSelectShop(s, k)
        PROVE  FALSE
    <2>1. PICK kind, id : AsksFirst(s, Request(kind, id, None))
      BY <1>5 DEF onBack, onSelectShop
    <2>2. req' = [x \in Slots |-> IF x = s THEN Request(kind, id, None) ELSE Left(req[x])]
      BY <2>1 DEF AsksFirst, Unmounted, Left
    <2>3. CASE r = s
      BY <1>1, <2>2, <2>3, NothingAnswered DEF ShelfFound
    <2>4. CASE r # s
      <3>1. Left(req[r]).kind # "products"
        BY <1>1, FitLeft, KeptAreKeepers DEF RequestsInv
      <3>2. QED
        BY <2>2, <2>4, <3>1 DEF ShelfFound
    <2>5. QED
      BY <2>3, <2>4
  <1>6. ASSUME NEW s \in Slots, readsProducts(s)
        PROVE  s = r
    BY <1>1, <1>6 DEF readsProducts, Answers, ShelfFound, RequestsInv
  <1>7. CASE chooseArea
    <2>1. req'[r] = [req[r] EXCEPT !.old = (req[r].kind = "locate")]
      BY <1>7 DEF chooseArea
    <2>2. Fit(req[r], Kept)
      BY <1>1 DEF RequestsInv
    <2>3. req'[r].answer = req[r].answer
      BY <2>1, <2>2 DEF Fit, Requests
    <2>4. QED
      BY <2>3 DEF ShelfFound
  <1>8. CASE \/ notNow \/ UNCHANGED vars
             \/ \E k \in Keepers : requestOtp(k)
             \/ \E f \in Filters : setFilter(f)
    <2>1. req' = req
      BY <1>8 DEF notNow, vars, requestOtp, setFilter
    <2>2. QED
      BY <2>1 DEF ShelfFound
  <1>9. QED
    BY <1>2, <1>3, <1>4, <1>5, <1>6, <1>7, <1>8 DEF Next

\* shops.service.ts: nothing of a shop that is not approved is given to a customer, though the shelf
\* is read some time after the shop was resolved.
THEOREM NothingOfAClosedShopHolds == Spec => NothingOfAClosedShop
  <1>1. ASSUME FrontInv, [Next]_vars, NEW r \in Slots, ShelfFound(r)
        PROVE  req[r].id \in Approved
    <2>1. readsProducts(r)
      BY <1>1, OnlyReadsBringOne
    <2>2. req'[r].answer = Found(req[r])
      BY <1>1, <2>1 DEF readsProducts, Answers, FrontInv, TypeInv, RequestsInv, Fit, Requests
    <2>3. QED
      BY <1>1, <2>2 DEF ShelfFound, Found, Resolves
  <1>2. FrontInv /\ [Next]_vars
          => [\A r \in Slots :
                 req'[r].kind = "products" /\ req'[r].answer = "found" /\ req[r].answer # "found" =>
                     req[r].id \in Approved]_vars
    BY <1>1 DEF ShelfFound
  <1>3. QED
    BY <1>2, StorefrontInvariant, PTL DEF Spec, NothingOfAClosedShop

\* BrowseScreen.tsx: an area picked by hand gives way to the phone's location only when that was asked
\* for later, or by a visit to the list that has ended.
THEOREM AreaIsKeptHolds == Spec => AreaIsKept
  <1>1. ASSUME FrontInv, [Next]_vars, place = "area", place' = "gps"
        PROVE  \E r \in Slots : /\ req[r].kind = "locate" /\ req'[r] = Idle
                                /\ ~req[r].old \/ ~req[r].mine
    <2>1. ASSUME NEW r \in Slots, locatedAt(r)
          PROVE  /\ req[r].kind = "locate" /\ req'[r] = Idle
                 /\ ~req[r].old \/ ~req[r].mine
      BY <1>1, <2>1 DEF locatedAt, Ends, FrontInv, TypeInv, RequestsInv, LocateInv, Locating
    <2>2. \/ \E r \in Slots : locatedAt(r)
          \/ place' \in {place, "area"}
      <3>1. CASE chooseArea \/ notNow \/ UNCHANGED vars
        BY <3>1 DEF chooseArea, notNow, vars, where
      <3>2. CASE \/ \E k \in Keepers : requestOtp(k)
                 \/ \E f \in Filters : setFilter(f)
        BY <3>2 DEF requestOtp, setFilter, where
      <3>3. ASSUME NEW r \in Slots,
                   \/ registerReads(r) \/ registerWrites(r) \/ hearRegister(r) \/ registerFails(r)
                   \/ \E k \in Keepers : handleRegister(r, k)
                   \/ loadMerchants(r) \/ setMerchantStatus(r) \/ findMerchants(r)
                   \/ hearSet(r) \/ hearMerchants(r) \/ adminFails(r)
                   \/ \E row \in rows, to \in Statuses : act(r, row, to)
            PROVE  place' = place
        BY <3>3 DEF registerReads, registerWrites, hearRegister, registerFails, handleRegister,
                    loadMerchants, setMerchantStatus, findMerchants, hearSet, hearMerchants,
                    adminFails, act, where
      <3>4. ASSUME NEW r \in Slots,
                   \/ findAll(r) \/ hearShops(r) \/ connectionFails(r) \/ shopsFail(r)
                   \/ triesAgain(r) \/ handleRefresh(r)
                   \/ onBack(r) \/ \E k \in Keepers : onSelectShop(r, k)
            PROVE  place' \in {place, "area"}
        BY <3>4 DEF findAll, hearShops, connectionFails, shopsFail, triesAgain, handleRefresh, onBack,
                    onSelectShop, where
      <3>5. ASSUME NEW r \in Slots,
                   \/ findCategories(r) \/ findProducts(r) \/ readsProducts(r) \/ hearCategories(r)
                   \/ hearProducts(r) \/ productsFail(r) \/ loadProducts(r) \/ retryShelf(r)
                   \/ onDone(r) \/ handleUseLocation(r) \/ notLocated(r)
            PROVE  place' = place
        BY <3>5 DEF findCategories, findProducts, readsProducts, hearCategories, hearProducts,
                    productsFail, loadProducts, retryShelf, onDone, Rereads, handleUseLocation,
                    notLocated, where
      <3>6. QED
        BY <1>1, <3>1, <3>2, <3>3, <3>4, <3>5 DEF Next
    <2>3. QED
      BY <1>1, <2>1, <2>2
  <1>2. FrontInv /\ [Next]_vars
          => [place = "area" /\ place' = "gps" =>
                 \E r \in Slots : /\ req[r].kind = "locate" /\ req'[r] = Idle
                                  /\ ~req[r].old \/ ~req[r].mine]_vars
    BY <1>1
  <1>3. QED
    BY <1>2, StorefrontInvariant, PTL DEF Spec, AreaIsKept
=============================================================================
