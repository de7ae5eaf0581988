------------------------- MODULE ShopProductsProofs -------------------------
(***************************************************************************)
(* What the product screen guarantees for any products, fields and photos, *)
(* any days and any number of requests on their way.                       *)
(***************************************************************************)
EXTENDS ShopProducts, TLAPS

Value == [by : {"typed", "read", "saved"}, draft : Nat]
Taken == [id : Photos, draft : Nat]
Form == [given : [Fields -> Value \cup {None}], photo : Taken \cup {None}]
Product == [isAvailable : BOOLEAN, photo : Photos \cup {None}, from : Nat]
Row == [id : Products, isAvailable : BOOLEAN, photo : Photos \cup {None}]
Undo == [id : Products, was : BOOLEAN, term : Terms]

WriteKinds == {"save", "toggle", "undo", "delete"}
Kinds == {"idle", "categories", "pick", "upload", "suggest", "list"} \cup WriteKinds
Parts == {"kind", "id", "what", "term", "draft", "after", "served", "answer"}

\* A request as it may be on its way: what it is about, what it carries and what it may be answered.
Fit(q) ==
    /\ DOMAIN q = Parts
    /\ q.kind \in Kinds /\ q.term \in Terms /\ q.draft \in Nat /\ q.served \in BOOLEAN
    /\ q.kind \in {"toggle", "undo", "delete"} => q.id \in Products
    /\ q.kind \in {"toggle", "undo"} => q.what \in BOOLEAN
    /\ q.kind = "save" => q.id \in Products \cup {None} /\ q.what \in Form
    /\ q.kind \in {"upload", "suggest"} => q.what \in Photos
    /\ q.kind = "list" /\ q.after = "toggle" => q.id \in Products /\ q.what \in BOOLEAN
    /\ q.kind = "pick" => ~q.served
    /\ q.served /\ q.kind = "list" => q.answer \subseteq Row
    /\ q.served /\ q.kind \in WriteKinds \cup {"upload"} => q.answer \in BOOLEAN

ServerTyped ==
    /\ product \in [Products -> Product \cup {None}]
    /\ stored \subseteq Photos

ListTyped ==
    /\ rows \subseteq Row /\ search \in Terms /\ due \in BOOLEAN /\ loadFailed \in BOOLEAN
    /\ confirming \in Products \cup {None} /\ undo \in Undo \cup {None}
    /\ older \in [Slots -> SUBSET Slots] /\ crossed \in BOOLEAN

SheetTyped ==
    /\ form \in Form /\ draft \in Nat /\ editing \in Products \cup {None}
    /\ showForm \in BOOLEAN /\ straddled \in BOOLEAN

FlagsTyped == busy \in BOOLEAN /\ uploading \in BOOLEAN /\ suggesting \in BOOLEAN

RequestsInv ==
    /\ req = [r \in Slots |-> req[r]]
    /\ \A r \in Slots : Fit(req[r]) /\ req[r].draft <= draft

TypeInv ==
    /\ day \in Days /\ unheard \subseteq Nat
    /\ ServerTyped /\ ListTyped /\ SheetTyped /\ FlagsTyped /\ RequestsInv

\* A photo under way is for this draft, or the draft began with it under way.
DraftInv ==
    /\ OneProductPerForm
    /\ \A r \in Captures : req[r].draft = draft \/ straddled

\* What a save carries, a list tells or an upload was answered is in the storage too.
PhotoInv ==
    /\ PhotoIsStored
    /\ \A r \in Slots :
          /\ req[r].kind = "save" /\ req[r].what.photo # None => req[r].what.photo.id \in stored \cup {None}
          /\ req[r].kind = "list" /\ req[r].served =>
                \A row \in req[r].answer : row.photo \in stored \cup {None}
          /\ req[r].kind = "upload" /\ req[r].served /\ req[r].answer => req[r].what \in stored

\* A save, until the list that follows it was heard.
Saving == {r \in Slots : req[r].kind = "save" \/ (req[r].kind = "list" /\ req[r].after = "save")}

Added == {p \in Products \ Shelf : product[p] # None}

\* One save is on its way at a time.
OneSave == (\A r, s \in Saving : r = s) /\ (Saving # {} => busy)

\* A product was added, and the phone is about to hear of it.
Pends(r) == req[r].kind = "save" /\ req[r].id = None /\ req[r].served /\ req[r].answer

\* A save the server has not seen.
Unmade(r) == req[r].kind = "save" /\ ~req[r].served

\* What was added is of an earlier draft, or of this one when its save is about to be heard or never
\* will be; and a save the server has not seen has added nothing yet.
AddInv ==
    /\ AddedOnce /\ OneSave
    /\ \A p \in Added :
          /\ product[p].from <= draft
          /\ product[p].from = draft /\ draft \notin unheard =>
                \E r \in Slots : Pends(r) /\ req[r].draft = draft
          /\ product[p].from \notin unheard => \A r \in Slots : Unmade(r) => req[r].draft # product[p].from

\* Writes the server has made and the phone has not heard of.
Done == {r \in Writes : req[r].served /\ req[r].answer}

\* Of two lists on their way, one was asked for first.
Ordered ==
    /\ \A s \in Slots : older[s] \subseteq Lists
    /\ \A r, s \in Lists : r # s => r \in older[s] \/ s \in older[r]

\* The list that was asked for after all others on their way.
Newest(r) == r \in Lists /\ Lists \ {r} \subseteq older[r]

\* The newest list is for the term that is searched, or one is about to be asked for; and but for the
\* writes about to be heard, its answer is the shelf's, and so are the rows when none is on its way.
Current ==
    /\ ~due => \A r \in Slots : Newest(r) => req[r].term = search
    /\ Done = {} =>
          /\ \A r \in Slots : Newest(r) /\ req[r].served => req[r].answer = Listed(req[r].term)
          /\ Lists = {} /\ ~due => rows = Listed(search)

ListInv == Ordered /\ (~crossed => Current)

ProductsInv == TypeInv /\ DraftInv /\ PhotoInv /\ AddInv /\ ListInv
-----------------------------------------------------------------------------
(* Requests *)

LEMMA IdleFits == ASSUME SheetTyped PROVE Fit(Idle) /\ Idle.draft <= draft /\ Idle.kind = "idle"
  BY DEF SheetTyped, Parts, Fit, Idle, Kinds, WriteKinds, Terms

\* A slot that another action fills or empties leaves the others as they are.
LEMMA OthersKept ==
    ASSUME TypeInv, NEW r \in Slots, NEW q, req' = [req EXCEPT ![r] = q]
    PROVE  req'[r] = q /\ \A s \in Slots \ {r} : req'[s] = req[s]
  BY DEF TypeInv, RequestsInv

LEMMA RequestsKept ==
    ASSUME TypeInv, NEW r \in Slots, NEW q, req' = [req EXCEPT ![r] = q], Fit(q),
           draft' \in Nat, draft <= draft', q.draft <= draft'
    PROVE  RequestsInv'
<1>1. req' = [s \in Slots |-> req'[s]]
  BY DEF TypeInv, RequestsInv
<1>2. ASSUME NEW s \in Slots PROVE Fit(req'[s]) /\ req'[s].draft <= draft'
  <2>1. CASE s = r BY <2>1, OthersKept
  <2>2. CASE s # r
    <3>1. req'[s] = req[s] /\ Fit(req[s]) /\ req[s].draft <= draft
      BY <2>2, OthersKept DEF TypeInv, RequestsInv
    <3>2. req[s].draft \in Nat
      BY <3>1 DEF Fit
    <3>3. QED
      BY <3>1, <3>2 DEF TypeInv, SheetTyped
  <2>3. QED
    BY <2>1, <2>2
<1>3. QED
  BY <1>1, <1>2 DEF RequestsInv

\* What is answered is asked no more, and is about what it was about.
Answered(r, a) ==
    /\ req' = [req EXCEPT ![r] = req'[r]] /\ DOMAIN req'[r] = Parts
    /\ req'[r].kind = req[r].kind /\ req'[r].id = req[r].id /\ req'[r].what = req[r].what
    /\ req'[r].term = req[r].term /\ req'[r].draft = req[r].draft /\ req'[r].after = req[r].after
    /\ req'[r].served = TRUE /\ req'[r].answer = a

\* What the server did, when it answers a.
Outcome(r, a) ==
    \/ req[r].kind = "list" /\ a = Listed(req[r].term) /\ UNCHANGED server
    \/ req[r].kind \in {"categories", "suggest"} /\ UNCHANGED server
    \/ req[r].kind = "upload" /\ a = TRUE /\ stored' = stored \cup {req[r].what} /\ UNCHANGED product
    \/ req[r].kind \in WriteKinds \cup {"upload"} /\ a = FALSE /\ UNCHANGED server
    \/ /\ req[r].kind = "save" /\ req[r].id = None /\ a = TRUE /\ UNCHANGED stored
       /\ \E p \in Products \ Shelf :
             product[p] = None /\ product' = Written(p, req[r].what, req[r].draft)
    \/ /\ req[r].kind \in WriteKinds /\ a = TRUE /\ UNCHANGED stored
       /\ req[r].id \in Products /\ product[req[r].id] # None
       /\ \/ /\ req[r].kind = "save"
             /\ product' = Written(req[r].id, req[r].what, product[req[r].id].from)
          \/ /\ req[r].kind \in {"toggle", "undo"}
             /\ product' = [product EXCEPT ![req[r].id].isAvailable = req[r].what]
          \/ req[r].kind = "delete" /\ product' = [product EXCEPT ![req[r].id] = None]

LEMMA ServeShape ==
    ASSUME TypeInv, NEW r \in Slots, Serve(r)
    PROVE  /\ req[r].kind \notin {"idle", "pick"} /\ ~req[r].served /\ Fit(req[r])
           /\ UNCHANGED <<day, list, sheet, flags, unheard>>
           /\ \E a : Answered(r, a) /\ Outcome(r, a)
<1>0. /\ req[r].kind \notin {"idle", "pick"} /\ ~req[r].served /\ Fit(req[r]) /\ req[r].kind \in Kinds
      /\ UNCHANGED <<day, list, sheet, flags, unheard>>
  BY DEF Serve, TypeInv, RequestsInv, Fit
<1>1. ASSUME NEW a, Answers(r, a) PROVE Answered(r, a)
  <2>1. req' = [req EXCEPT ![r] = [req[r] EXCEPT !.served = TRUE, !.answer = a]]
    BY <1>1 DEF Answers, TypeInv, RequestsInv
  <2>2. req'[r] = [req[r] EXCEPT !.served = TRUE, !.answer = a]
    BY <2>1 DEF TypeInv, RequestsInv
  <2>3. req' = [req EXCEPT ![r] = req'[r]]
    BY <2>1, <2>2
  <2>4. /\ DOMAIN req'[r] = Parts
        /\ req'[r].kind = req[r].kind /\ req'[r].id = req[r].id /\ req'[r].what = req[r].what
        /\ req'[r].term = req[r].term /\ req'[r].draft = req[r].draft /\ req'[r].after = req[r].after
        /\ req'[r].served = TRUE /\ req'[r].answer = a
    BY <1>0, <2>2 DEF Fit, Parts
  <2>5. QED
    BY <2>3, <2>4 DEF Answered
<1>2. CASE req[r].kind = "list"
  <2>1. Answers(r, Listed(req[r].term)) /\ UNCHANGED server
    BY <1>2 DEF Serve
  <2>2. QED
    BY <1>0, <1>1, <1>2, <2>1 DEF Outcome
<1>3. CASE req[r].kind = "upload"
  <2>1. storeImage(r) /\ UNCHANGED product
    BY <1>3 DEF Serve
  <2>2. CASE store(r) /\ Answers(r, TRUE)
    BY <1>0, <1>1, <1>3, <2>1, <2>2 DEF store, Outcome
  <2>3. CASE UNCHANGED stored /\ Answers(r, FALSE)
    BY <1>0, <1>1, <1>3, <2>1, <2>3 DEF server, Outcome
  <2>4. QED
    BY <2>1, <2>2, <2>3 DEF storeImage
<1>4. CASE req[r].kind = "suggest"
  <2>1. suggestFromPhoto(r) /\ UNCHANGED server
    BY <1>4 DEF Serve
  <2>2. PICK read \in Readings : Answers(r, read)
    BY <2>1 DEF suggestFromPhoto
  <2>3. QED
    BY <1>0, <1>1, <1>4, <2>1, <2>2 DEF Outcome
<1>5. CASE req[r].kind = "delete"
  <2>1. remove(r) /\ UNCHANGED stored /\ req[r].id \in Products
    BY <1>0, <1>5 DEF Serve, Fit
  <2>2. CASE product[req[r].id] # None /\ product' = [product EXCEPT ![req[r].id] = None] /\ Answers(r, TRUE)
    BY <1>0, <1>1, <1>5, <2>1, <2>2 DEF WriteKinds, Outcome
  <2>3. CASE Answers(r, FALSE) /\ UNCHANGED product
    BY <1>0, <1>1, <1>5, <2>1, <2>3 DEF WriteKinds, server, Outcome
  <2>4. QED
    BY <2>1, <2>2, <2>3 DEF remove
<1>6. CASE req[r].kind = "save" /\ req[r].id = None
  <2>1. create(r) /\ UNCHANGED stored
    BY <1>6 DEF Serve
  <2>2. Answers(r, TRUE) /\ \E p \in Products \ Shelf :
            product[p] = None /\ product' = Written(p, req[r].what, req[r].draft)
    BY <2>1 DEF create
  <2>3. QED
    BY <1>0, <1>1, <1>6, <2>1, <2>2 DEF Outcome
<1>7. CASE req[r].kind \in {"toggle", "undo"} \/ (req[r].kind = "save" /\ req[r].id # None)
  <2>1. update(r) /\ UNCHANGED stored
    BY <1>7 DEF Serve
  <2>2. req[r].id \in Products
    BY <1>0, <1>7 DEF Fit
  <2>3. CASE product[req[r].id] = None
    BY <1>0, <1>1, <1>7, <2>1, <2>3 DEF update, WriteKinds, server, Outcome
  <2>4. CASE product[req[r].id] # None
    <3>1. Answers(r, TRUE)
      BY <2>1, <2>4 DEF update
    <3>2. \/ product' = Written(req[r].id, req[r].what, product[req[r].id].from) /\ req[r].kind = "save"
          \/ product' = [product EXCEPT ![req[r].id].isAvailable = req[r].what]
             /\ req[r].kind \in {"toggle", "undo"}
      BY <1>7, <2>1, <2>4 DEF update
    <3>3. QED
      BY <1>0, <1>1, <1>7, <2>1, <2>2, <2>4, <3>1, <3>2 DEF WriteKinds, Outcome
  <2>5. QED
    BY <2>3, <2>4
<1>8. CASE req[r].kind = "categories"
  <2>1. Answers(r, TRUE) /\ UNCHANGED server
    BY <1>8 DEF Serve
  <2>2. QED
    BY <1>0, <1>1, <1>8, <2>1 DEF Outcome
<1>9. QED
  BY <1>0, <1>2, <1>3, <1>4, <1>5, <1>6, <1>7, <1>8 DEF Kinds, WriteKinds

\* A request that was sent: the server has not seen it, and it is of this draft.
Asked(r, kind, id, what, term) ==
    /\ req[r] = Idle /\ req' = [req EXCEPT ![r] = req'[r]] /\ DOMAIN req'[r] = Parts
    /\ req'[r].kind = kind /\ req'[r].id = id /\ req'[r].what = what /\ req'[r].term = term
    /\ req'[r].draft = draft /\ req'[r].after = None /\ req'[r].served = FALSE

LEMMA SendShape ==
    ASSUME TypeInv, NEW r \in Slots, NEW kind, NEW id, NEW what, Sends(r, Request(kind, id, what))
    PROVE  Asked(r, kind, id, what, search)
<1> DEFINE q == Request(kind, id, what)
<1>1. /\ DOMAIN q = Parts /\ q.kind = kind /\ q.id = id /\ q.what = what /\ q.term = search
      /\ q.draft = draft /\ q.after = None /\ q.served = FALSE
  BY DEF Request, Idle, Parts
<1>2. req[r] = Idle /\ req' = [req EXCEPT ![r] = q]
  BY DEF Sends
<1> HIDE DEF q
<1>3. req'[r] = q
  BY <1>2, OthersKept
<1>4. QED
  BY <1>1, <1>2, <1>3 DEF Asked

LEMMA AskedFits ==
    ASSUME TypeInv, NEW r \in Slots, NEW kind \in {"pick", "list"} \cup WriteKinds, NEW id, NEW what,
           NEW term \in Terms, Asked(r, kind, id, what, term), draft' = draft,
           kind \in {"toggle", "undo", "delete"} => id \in Products,
           kind \in {"toggle", "undo"} => what \in BOOLEAN,
           kind = "save" => id \in Products \cup {None} /\ what \in Form
    PROVE  RequestsInv'
<1>1. draft \in Nat
  BY DEF TypeInv, SheetTyped
<1>2. req'[r].after # "toggle"
  BY NoneIsNoWrite DEF Asked
<1>3. req'[r].kind \in Kinds /\ req'[r].kind \notin {"upload", "suggest"}
  BY DEF Asked, Kinds, WriteKinds
<1>4. Fit(req'[r])
  BY <1>1, <1>2, <1>3 DEF Fit, Asked
<1>5. QED
  BY <1>1, <1>4, RequestsKept DEF Asked

LEMMA FreedFits ==
    ASSUME TypeInv, NEW r \in Slots, req' = [req EXCEPT ![r] = Idle], draft' \in Nat, draft <= draft'
    PROVE  RequestsInv' /\ req'[r] = Idle
<1>1. Fit(Idle) /\ Idle.draft <= draft'
  BY IdleFits DEF TypeInv, SheetTyped, Idle
<1>2. QED
  BY <1>1, RequestsKept, OthersKept

\* A write that was heard: the list is asked for.
Relisted(r) ==
    /\ req' = [req EXCEPT ![r] = req'[r]] /\ DOMAIN req'[r] = Parts
    /\ req'[r].kind = "list" /\ req'[r].id = req[r].id /\ req'[r].what = req[r].what
    /\ req'[r].term = req[r].term /\ req'[r].draft = req[r].draft /\ req'[r].after = req[r].kind
    /\ req'[r].served = FALSE

LEMMA RelistShape ==
    ASSUME TypeInv, NEW r \in Slots, ThenLists(r)
    PROVE  Relisted(r) /\ Asks(r, req[r].term)
<1>1. req' = [req EXCEPT ![r] = [req[r] EXCEPT !.kind = "list", !.after = req[r].kind,
                                               !.served = FALSE, !.answer = None]]
  BY DEF ThenLists
<1>2. req'[r] = [req[r] EXCEPT !.kind = "list", !.after = req[r].kind, !.served = FALSE, !.answer = None]
  BY <1>1 DEF TypeInv, RequestsInv
<1>3. req' = [req EXCEPT ![r] = req'[r]]
  BY <1>1, <1>2
<1>4. DOMAIN req[r] = Parts
  BY DEF TypeInv, RequestsInv, Fit
<1>5. /\ DOMAIN req'[r] = Parts
      /\ req'[r].kind = "list" /\ req'[r].id = req[r].id /\ req'[r].what = req[r].what
      /\ req'[r].term = req[r].term /\ req'[r].draft = req[r].draft /\ req'[r].after = req[r].kind
      /\ req'[r].served = FALSE
  BY <1>2, <1>4 DEF Parts
<1>6. QED
  BY <1>3, <1>5 DEF Relisted, ThenLists

LEMMA RelistFits ==
    ASSUME TypeInv, NEW r \in Writes, Relisted(r), draft' \in Nat, draft <= draft'
    PROVE  RequestsInv'
<1>0. r \in Slots /\ Fit(req[r]) /\ req[r].draft <= draft /\ req[r].draft \in Nat /\ draft \in Nat
  BY DEF Writes, TypeInv, RequestsInv, SheetTyped, Fit
<1>1. req'[r].draft <= draft'
  BY <1>0 DEF Relisted
<1>2. req'[r].after = "toggle" => req'[r].id \in Products /\ req'[r].what \in BOOLEAN
  BY <1>0 DEF Fit, Relisted
<1>3. Fit(req'[r])
  BY <1>0, <1>2 DEF Fit, Relisted, Kinds
<1>4. QED
  BY <1>0, <1>1, <1>3, RequestsKept DEF Relisted

\* The categories were heard: the first list is asked for.
First(r) ==
    /\ req' = [req EXCEPT ![r] = req'[r]] /\ DOMAIN req'[r] = Parts
    /\ req'[r].kind = "list" /\ req'[r].term = "all" /\ req'[r].draft = 0 /\ req'[r].after = None
    /\ req'[r].served = FALSE

LEMMA FirstShape ==
    ASSUME TypeInv, NEW r \in Slots, hearCategories(r)
    PROVE  First(r) /\ req[r].kind = "categories"
<1> DEFINE q == [Idle EXCEPT !.kind = "list"]
<1>1. /\ DOMAIN q = Parts /\ q.kind = "list" /\ q.term = "all" /\ q.draft = 0 /\ q.after = None
      /\ q.served = FALSE
  BY DEF Idle, Parts
<1>2. req' = [req EXCEPT ![r] = q] /\ req[r].kind = "categories"
  BY DEF hearCategories
<1> HIDE DEF q
<1>3. req'[r] = q
  BY <1>2, OthersKept
<1>4. QED
  BY <1>1, <1>2, <1>3 DEF First

LEMMA FirstFits == ASSUME TypeInv, NEW r \in Slots, First(r), draft' = draft PROVE RequestsInv'
<1>1. draft \in Nat /\ req'[r].draft <= draft
  BY DEF TypeInv, SheetTyped, First
<1>2. req'[r].after # "toggle" /\ req'[r].term \in Terms /\ req'[r].draft \in Nat
  BY NoneIsNoWrite DEF First, Terms
<1>3. DOMAIN req'[r] = Parts /\ req'[r].kind = "list" /\ req'[r].served = FALSE
  BY DEF First
<1>4. Fit(req'[r])
  BY <1>2, <1>3 DEF Fit, Kinds, WriteKinds
<1>5. QED
  BY <1>1, <1>4, RequestsKept DEF First

\* A photo that was taken is sent; one that is kept is read.
Captured(r, kind, what) ==
    /\ req' = [req EXCEPT ![r] = req'[r]] /\ DOMAIN req'[r] = Parts
    /\ req'[r].kind = kind /\ req'[r].what = what /\ req'[r].draft = req[r].draft
    /\ req'[r].term = req[r].term /\ req'[r].served = FALSE

LEMMA PictureShape ==
    ASSUME TypeInv, NEW r \in Slots, handleCapture(r)
    PROVE  \/ \E ph \in unusedKeys : Captured(r, "upload", ph) /\ uploading' = TRUE
           \/ req' = [req EXCEPT ![r] = Idle] /\ UNCHANGED uploading
<1>0. Fit(req[r]) /\ DOMAIN req[r] = Parts /\ req[r].served = FALSE /\ req[r].kind = "pick"
  BY DEF handleCapture, TypeInv, RequestsInv, Fit
<1>1. ASSUME NEW ph \in unusedKeys, req' = [req EXCEPT ![r].kind = "upload", ![r].what = ph]
      PROVE  Captured(r, "upload", ph)
  <2>1. req'[r] = [req[r] EXCEPT !.kind = "upload", !.what = ph]
    BY <1>1 DEF TypeInv, RequestsInv
  <2>2. req' = [req EXCEPT ![r] = req'[r]]
    BY <1>1, <2>1 DEF TypeInv, RequestsInv
  <2>3. /\ DOMAIN req'[r] = Parts /\ req'[r].kind = "upload" /\ req'[r].what = ph
        /\ req'[r].draft = req[r].draft /\ req'[r].term = req[r].term /\ req'[r].served = FALSE
    BY <1>0, <2>1 DEF Parts
  <2>4. QED
    BY <2>2, <2>3 DEF Captured
<1>2. QED
  BY <1>1 DEF handleCapture

LEMMA KeptShape ==
    ASSUME TypeInv, NEW r \in Slots, hearUpload(r), req[r].answer
    PROVE  Captured(r, "suggest", req[r].what)
<1>0. DOMAIN req[r] = Parts
  BY DEF TypeInv, RequestsInv, Fit
<1>1. req' = [req EXCEPT ![r].kind = "suggest", ![r].served = FALSE, ![r].answer = None]
  BY DEF hearUpload
<1>2. req'[r] = [req[r] EXCEPT !.kind = "suggest", !.served = FALSE, !.answer = None]
  BY <1>1 DEF TypeInv, RequestsInv
<1>3. req' = [req EXCEPT ![r] = req'[r]]
  BY <1>1, <1>2 DEF TypeInv, RequestsInv
<1>4. /\ DOMAIN req'[r] = Parts /\ req'[r].kind = "suggest" /\ req'[r].what = req[r].what
      /\ req'[r].draft = req[r].draft /\ req'[r].term = req[r].term /\ req'[r].served = FALSE
  BY <1>0, <1>2 DEF Parts
<1>5. QED
  BY <1>3, <1>4 DEF Captured

LEMMA CapturedFits ==
    ASSUME TypeInv, NEW r \in Slots, NEW kind \in {"upload", "suggest"}, NEW ph \in Photos,
           Captured(r, kind, ph), draft' = draft
    PROVE  RequestsInv'
<1>1. Fit(req[r]) /\ req[r].draft <= draft /\ draft \in Nat
  BY DEF TypeInv, RequestsInv, SheetTyped
<1>2. Fit(req'[r])
  BY <1>1 DEF Captured, Fit, Kinds, WriteKinds
<1>3. QED
  BY <1>1, <1>2, RequestsKept DEF Captured

-----------------------------------------------------------------------------
(* What is what *)

\* What a save writes: the form's photo, or the product's own.
LEMMA WrittenShape ==
    ASSUME ServerTyped, NEW p \in Products, NEW q \in Form, NEW from \in Nat,
           product' = Written(p, q, from)
    PROVE  /\ product' \in [Products -> Product \cup {None}]
           /\ product'[p] \in Product /\ product'[p].from = from
           /\ product'[p].photo \in {None} \cup (IF q.photo # None THEN {q.photo.id} ELSE {})
                                    \cup (IF product[p] # None THEN {product[p].photo} ELSE {})
           /\ \A x \in Products \ {p} : product'[x] = product[x]
<1> DEFINE row == [isAvailable |-> IF product[p] = None THEN TRUE ELSE product[p].isAvailable,
                   from |-> from,
                   photo |-> IF q.photo # None THEN q.photo.id
                             ELSE IF product[p] = None THEN None ELSE product[p].photo]
<1>1. product' = [product EXCEPT ![p] = row]
  BY DEF Written
<1>2. product[p] # None => product[p] \in Product
  BY DEF ServerTyped
<1>3. q.photo # None => q.photo.id \in Photos
  BY DEF Form, Taken
<1>4. row \in Product
  BY <1>2, <1>3 DEF Product
<1>5. row.from = from /\ row.photo \in {None} \cup (IF q.photo # None THEN {q.photo.id} ELSE {})
                                    \cup (IF product[p] # None THEN {product[p].photo} ELSE {})
  OBVIOUS
<1> HIDE DEF row
<1>6. QED
  BY <1>1, <1>4, <1>5 DEF ServerTyped

LEMMA ListedTyped == ASSUME ServerTyped, NEW term PROVE Listed(term) \subseteq Row
<1>1. ASSUME NEW p \in Products, product[p] # None
      PROVE  [id |-> p, isAvailable |-> product[p].isAvailable, photo |-> product[p].photo] \in Row
  <2>1. product[p] \in Product BY <1>1 DEF ServerTyped
  <2>2. QED
    BY <2>1 DEF Product, Row
<1>2. QED
  BY <1>1 DEF Listed

LEMMA EmptyTyped == EMPTY_FORM \in Form /\ EMPTY_FORM.photo = None
                    /\ EMPTY_FORM.given = [f \in Fields |-> None]
  BY DEF EMPTY_FORM, Form

\* A draft begins with an empty form or with what the product that is edited has.
LEMMA BeginsTyped ==
    ASSUME SheetTyped, NEW f \in Form, NEW id \in Products \cup {None}, Begins(f, id),
           showForm' \in BOOLEAN
    PROVE  SheetTyped' /\ draft' = draft + 1
  BY DEF SheetTyped, Begins

LEMMA EditTyped ==
    ASSUME SheetTyped, NEW row \in Row
    PROVE  [given |-> [f \in Fields |-> [by |-> "saved", draft |-> draft + 1]],
            photo |-> IF row.photo = None THEN None ELSE [id |-> row.photo, draft |-> draft + 1]] \in Form
<1>1. draft + 1 \in Nat
  BY DEF SheetTyped
<1>2. [by |-> "saved", draft |-> draft + 1] \in Value
  BY <1>1 DEF Value
<1>3. row.photo # None => [id |-> row.photo, draft |-> draft + 1] \in Taken
  BY <1>1 DEF Row, Taken
<1>4. QED
  BY <1>2, <1>3 DEF Form

LEMMA FilledTyped ==
    ASSUME SheetTyped, NEW r \in Slots, Fit(req[r])
    PROVE  filled(r) \in [Fields -> Value \cup {None}] /\ [form EXCEPT !.given = filled(r)] \in Form
<1>1. [by |-> "read", draft |-> req[r].draft] \in Value
  BY DEF Fit, Value
<1>2. form.given \in [Fields -> Value \cup {None}]
  BY DEF SheetTyped, Form
<1>3. filled(r) \in [Fields -> Value \cup {None}]
  BY <1>1, <1>2 DEF filled
<1>4. form \in Form
  BY DEF SheetTyped
<1>5. QED
  BY <1>3, <1>4 DEF Form

-----------------------------------------------------------------------------
(* Types *)

\* What is on its way when the screen opens.
Opened == [Idle EXCEPT !.kind = "categories"]

LEMMA InitRequests ==
    ASSUME Init
    PROVE  /\ req = [r \in Slots |-> req[r]]
           /\ \A r \in Slots : /\ req[r] \in {Idle, Opened} /\ ~req[r].served
                              /\ req[r].kind \in {"idle", "categories"}
  BY DEF Init, Opened, Idle

LEMMA InitType == Init => TypeInv
<1> SUFFICES ASSUME Init PROVE TypeInv
  OBVIOUS
<1>1. ServerTyped
  BY DEF Init, ServerTyped, Product
<1>2. ListTyped
  <2>1. due \in BOOLEAN /\ rows \subseteq Row
    BY <1>1, ListedTyped DEF Init, Opening
  <2>2. older \in [Slots -> SUBSET Slots]
    BY DEF Init
  <2>3. QED
    BY <2>1, <2>2 DEF Init, ListTyped, Terms
<1>3. SheetTyped
  BY EmptyTyped DEF Init, SheetTyped
<1>4. RequestsInv
  <2>1. Fit(Idle) /\ Idle.draft <= draft
    BY <1>3, IdleFits
  <2>2. Fit(Opened) /\ Opened.draft <= draft
    BY <1>3, <2>1 DEF Opened, Fit, Idle, Parts, Kinds, WriteKinds, SheetTyped
  <2>3. req = [r \in Slots |-> req[r]] /\ \A r \in Slots : req[r] \in {Idle, Opened}
    BY InitRequests
  <2> HIDE DEF Init
  <2>4. QED
    BY <2>1, <2>2, <2>3 DEF RequestsInv
<1>5. QED
  BY <1>1, <1>2, <1>3, <1>4 DEF Init, TypeInv, FlagsTyped

LEMMA TypeServe == ASSUME TypeInv, NEW r \in Slots, Serve(r) PROVE TypeInv'
<1>1. UNCHANGED <<day, list, sheet, flags, unheard>>
  BY DEF Serve
<1>2. /\ day' \in Days /\ unheard' \subseteq Nat /\ ListTyped' /\ SheetTyped' /\ FlagsTyped'
      /\ ServerTyped /\ Fit(req[r]) /\ draft \in Nat /\ draft' = draft
  BY <1>1 DEF TypeInv, ListTyped, SheetTyped, FlagsTyped, list, sheet, flags, RequestsInv
<1>3. PICK a : Answered(r, a) /\ Outcome(r, a)
  BY ServeShape
<1>4. req[r].kind \in {"list", "categories", "suggest"} \/ (req[r].kind \in WriteKinds \cup {"upload"} /\ a \in BOOLEAN)
  BY <1>3 DEF Outcome, WriteKinds
<1>5. req[r].kind = "list" => a \subseteq Row
  <2>1. req[r].kind = "list" => a = Listed(req[r].term)
    BY <1>3 DEF Outcome, WriteKinds
  <2>2. QED
    BY <1>2, <2>1, ListedTyped
<1>6. Fit(req'[r]) /\ req'[r].draft <= draft
  <2>1. req[r].draft <= draft /\ req[r].kind # "pick"
    BY ServeShape DEF TypeInv, RequestsInv
  <2>2. req'[r].kind \in WriteKinds \cup {"upload"} => req'[r].answer \in BOOLEAN
    BY <1>3, <1>4 DEF Answered, WriteKinds
  <2>3. req'[r].kind = "list" => req'[r].answer \subseteq Row
    BY <1>3, <1>5 DEF Answered
  <2>4. req'[r].served \in BOOLEAN
    BY <1>3 DEF Answered
  <2>5. /\ req'[r].kind \in Kinds /\ req'[r].term \in Terms /\ req'[r].draft \in Nat
        /\ req'[r].kind \in {"toggle", "undo", "delete"} => req'[r].id \in Products
        /\ req'[r].kind \in {"toggle", "undo"} => req'[r].what \in BOOLEAN
        /\ req'[r].kind = "save" => req'[r].id \in Products \cup {None} /\ req'[r].what \in Form
        /\ req'[r].kind \in {"upload", "suggest"} => req'[r].what \in Photos
        /\ req'[r].kind = "list" /\ req'[r].after = "toggle" =>
              req'[r].id \in Products /\ req'[r].what \in BOOLEAN
    BY <1>2, <1>3 DEF Answered, Fit
  <2>6. QED
    BY <1>3, <2>1, <2>2, <2>3, <2>4, <2>5 DEF Answered, Fit
<1>7. RequestsInv'
  <2>1. req' = [req EXCEPT ![r] = req'[r]]
    BY <1>3 DEF Answered
  <2>2. draft' \in Nat /\ draft <= draft' /\ req'[r].draft <= draft'
    BY <1>2, <1>6
  <2>3. QED
    BY <1>6, <2>1, <2>2, RequestsKept
<1>8. ServerTyped'
  <2>1. CASE UNCHANGED server
    BY <1>2, <2>1 DEF ServerTyped, server
  <2>2. CASE req[r].kind = "upload" /\ stored' = stored \cup {req[r].what} /\ UNCHANGED product
    BY <1>2, <2>2 DEF ServerTyped, Fit
  <2>3. ASSUME UNCHANGED stored, req[r].kind = "save", NEW p \in Products, NEW from \in Nat,
               product' = Written(p, req[r].what, from)
        PROVE  ServerTyped'
    <3>1. req[r].what \in Form
      BY <1>2, <2>3 DEF Fit
    <3>2. product' \in [Products -> Product \cup {None}]
      BY <1>2, <2>3, <3>1, WrittenShape
    <3>3. QED
      BY <1>2, <2>3, <3>2 DEF ServerTyped
  <2>4. ASSUME UNCHANGED stored, req[r].id \in Products, product[req[r].id] # None,
               \/ product' = [product EXCEPT ![req[r].id].isAvailable = req[r].what]
                  /\ req[r].kind \in {"toggle", "undo"}
               \/ product' = [product EXCEPT ![req[r].id] = None]
        PROVE  ServerTyped'
    <3>1. product[req[r].id] \in Product /\ (req[r].kind \in {"toggle", "undo"} => req[r].what \in BOOLEAN)
      BY <1>2, <2>4 DEF ServerTyped, Fit
    <3>2. req[r].kind \in {"toggle", "undo"} => [product[req[r].id] EXCEPT !.isAvailable = req[r].what] \in Product
      BY <3>1 DEF Product
    <3>3. QED
      BY <1>2, <2>4, <3>2 DEF ServerTyped
  <2>5. req[r].draft \in Nat /\ (req[r].id \in Products /\ product[req[r].id] # None => product[req[r].id].from \in Nat)
    BY <1>2 DEF Fit, ServerTyped, Product
  <2>6. QED
    BY <1>3, <2>1, <2>2, <2>3, <2>4, <2>5 DEF Outcome
<1>9. QED
  BY <1>2, <1>7, <1>8 DEF TypeInv

\* The parts of the state that an action leaves alone keep their types.
LEMMA SameTyped ==
    ASSUME TypeInv
    PROVE  /\ UNCHANGED server => ServerTyped'
           /\ UNCHANGED list => ListTyped'
           /\ UNCHANGED sheet => SheetTyped' /\ draft' = draft
           /\ UNCHANGED flags => FlagsTyped'
           /\ UNCHANGED <<req, draft>> => RequestsInv'
  BY DEF TypeInv, ServerTyped, ListTyped, SheetTyped, FlagsTyped, server, list, sheet, flags, RequestsInv

LEMMA TypeSearch ==
    ASSUME TypeInv, (\E term \in Terms : setSearch(term)) \/ dismiss \/ setShowForm
                        \/ \E row \in rows : confirmDelete(row)
    PROVE  TypeInv'
<1>1. UNCHANGED <<day, server, flags, req, draft, unheard>>
  BY DEF setSearch, dismiss, setShowForm, confirmDelete, sheet
<1>2. ServerTyped' /\ FlagsTyped' /\ RequestsInv'
  BY <1>1, SameTyped
<1>3. SheetTyped'
  BY DEF TypeInv, SheetTyped, setSearch, dismiss, setShowForm, confirmDelete, sheet
<1>4. ListTyped'
  <2>1. CASE \E term \in Terms : setSearch(term)
    BY <2>1 DEF TypeInv, ListTyped, setSearch
  <2>2. CASE dismiss
    BY <2>2 DEF TypeInv, ListTyped, dismiss
  <2>3. CASE setShowForm
    BY <2>3, SameTyped DEF setShowForm
  <2>4. CASE \E row \in rows : confirmDelete(row)
    <3>1. PICK row \in rows : confirmDelete(row)
      BY <2>4
    <3>2. row.id \in Products
      BY DEF TypeInv, ListTyped, Row
    <3>3. QED
      BY <3>1, <3>2 DEF TypeInv, ListTyped, confirmDelete
  <2>5. QED
    BY <2>1, <2>2, <2>3, <2>4
<1>5. QED
  BY <1>1, <1>2, <1>3, <1>4 DEF TypeInv

LEMMA AsksTyped ==
    ASSUME TypeInv, NEW r \in Slots, NEW term, Asks(r, term)
    PROVE  older' \in [Slots -> SUBSET Slots] /\ crossed' \in BOOLEAN
<1>1. Lists \subseteq Slots /\ older \in [Slots -> SUBSET Slots]
  BY DEF Lists, TypeInv, ListTyped
<1>2. crossed' = (term # search)
  BY DEF Asks
<1>3. crossed' \in BOOLEAN
  BY <1>2
<1>4. QED
  BY <1>1, <1>3 DEF Asks

LEMMA EndsTyped ==
    ASSUME TypeInv, NEW r \in Slots, Ends(r)
    PROVE  older' \in [Slots -> SUBSET Slots]
  BY DEF Ends, TypeInv, ListTyped

LEMMA TypeAsks ==
    ASSUME TypeInv, NEW r \in Slots, debounce(r) \/ retry(r) \/ takePhoto(r) \/ hearCategories(r)
    PROVE  TypeInv'
<1>1. UNCHANGED <<day, server, sheet, flags, unheard>>
  BY DEF debounce, retry, loadProducts, takePhoto, hearCategories
<1>2. ServerTyped' /\ SheetTyped' /\ FlagsTyped' /\ draft' = draft
  BY <1>1, SameTyped
<1>3. ListTyped'
  <2>1. CASE takePhoto(r)
    BY <2>1, SameTyped DEF takePhoto
  <2>2. ASSUME \E term : Asks(r, term),
               UNCHANGED <<rows, search, loadFailed, confirming, undo>>, due' \in {due, FALSE}
        PROVE  ListTyped'
    <3>1. older' \in [Slots -> SUBSET Slots] /\ crossed' \in BOOLEAN
      BY <2>2, AsksTyped
    <3>2. QED
      BY <2>2, <3>1 DEF TypeInv, ListTyped
  <2>3. CASE debounce(r) \/ retry(r)
    BY <2>2, <2>3 DEF debounce, retry, loadProducts
  <2>4. CASE hearCategories(r)
    BY <2>2, <2>4 DEF hearCategories
  <2>5. QED
    BY <2>1, <2>3, <2>4
<1>4. RequestsInv'
  <2>1. search \in Terms
    BY DEF TypeInv, ListTyped
  <2>2. CASE Asked(r, "list", None, None, search)
    BY <1>2, <2>1, <2>2, AskedFits DEF WriteKinds
  <2>3. CASE Asked(r, "pick", None, None, search)
    BY <1>2, <2>1, <2>3, AskedFits DEF WriteKinds
  <2>4. CASE hearCategories(r)
    BY <1>2, <2>4, FirstShape, FirstFits
  <2>5. QED
    BY <2>2, <2>3, <2>4, SendShape DEF debounce, retry, loadProducts, takePhoto
<1>5. QED
  BY <1>1, <1>2, <1>3, <1>4 DEF TypeInv

LEMMA TypeForm ==
    ASSUME TypeInv, closeForm \/ (\E row \in rows : startEdit(row)) \/ \E f \in Fields : type(f)
    PROVE  TypeInv'
<1>1. UNCHANGED <<day, server, flags, req, unheard>>
  BY DEF closeForm, startEdit, type
<1>2. ServerTyped' /\ FlagsTyped' /\ SheetTyped /\ draft \in Nat
  BY <1>1, SameTyped DEF TypeInv, SheetTyped
<1>3. SheetTyped' /\ draft' \in {draft, draft + 1}
  <2>1. CASE closeForm
    <3>1. Begins(EMPTY_FORM, None) /\ showForm' = FALSE
      BY <2>1 DEF closeForm, resetForm
    <3>2. QED
      BY <1>2, <3>1, EmptyTyped, BeginsTyped
  <2>2. CASE \E row \in rows : startEdit(row)
    <3>1. PICK row \in rows : startEdit(row)
      BY <2>2
    <3>2. row \in Row /\ row.id \in Products
      BY DEF TypeInv, ListTyped, Row
    <3>3. PICK f \in Form : Begins(f, row.id)
      BY <1>2, <3>1, <3>2, EditTyped DEF startEdit
    <3>4. showForm' = TRUE
      BY <3>1 DEF startEdit
    <3>5. QED
      BY <1>2, <3>2, <3>3, <3>4, BeginsTyped
  <2>3. CASE \E f \in Fields : type(f)
    <3>1. PICK f \in Fields : type(f)
      BY <2>3
    <3>2. PICK v \in {None, [by |-> "typed", draft |-> draft]} : form' = [form EXCEPT !.given[f] = v]
      BY <3>1 DEF type
    <3>3. v \in Value \cup {None}
      BY <1>2 DEF Value
    <3>4. form \in Form /\ form.given \in [Fields -> Value \cup {None}]
      BY <1>2 DEF SheetTyped, Form
    <3>5. [form.given EXCEPT ![f] = v] \in [Fields -> Value \cup {None}]
      BY <3>3, <3>4
    <3>6. form' \in Form
      BY <3>2, <3>4, <3>5 DEF Form
    <3>7. QED
      BY <1>2, <3>1, <3>6 DEF type, SheetTyped
  <2>4. QED
    BY <2>1, <2>2, <2>3
<1>4. ListTyped'
  <2>1. CASE \E row \in rows : startEdit(row)
    BY <2>1 DEF startEdit, TypeInv, ListTyped
  <2>2. CASE UNCHANGED list
    BY <2>2, SameTyped
  <2>3. QED
    BY <2>1, <2>2 DEF closeForm, type
<1>5. RequestsInv'
  <2>1. ASSUME NEW r \in Slots PROVE req[r].draft <= draft'
    <3>1. req[r].draft \in Nat /\ req[r].draft <= draft
      BY DEF TypeInv, RequestsInv, Fit
    <3>2. QED
      BY <1>2, <1>3, <3>1
  <2>2. QED
    BY <1>1, <2>1 DEF TypeInv, RequestsInv
<1>6. QED
  BY <1>1, <1>2, <1>3, <1>4, <1>5 DEF TypeInv

LEMMA TypePhoto ==
    ASSUME TypeInv, NEW r \in Slots, handleCapture(r) \/ hearUpload(r) \/ hearSuggestion(r)
    PROVE  TypeInv'
<1>1. UNCHANGED <<day, server, list, draft, editing, showForm, straddled, busy, unheard>>
  BY DEF handleCapture, hearUpload, hearSuggestion, sheet
<1>2. ServerTyped' /\ ListTyped' /\ SheetTyped /\ draft \in Nat /\ draft' = draft /\ Fit(req[r])
  BY <1>1, SameTyped DEF TypeInv, SheetTyped, RequestsInv
<1>6. draft' \in Nat /\ draft <= draft'
  BY <1>2
<1>3. CASE handleCapture(r)
  <2>1. SheetTyped' /\ FlagsTyped'
    BY <1>3, SameTyped DEF handleCapture, TypeInv, FlagsTyped
  <2>2. RequestsInv'
    <3>1. CASE \E ph \in unusedKeys : Captured(r, "upload", ph)
      BY <1>2, <3>1, CapturedFits DEF unusedKeys
    <3>2. CASE req' = [req EXCEPT ![r] = Idle]
      BY <1>6, <3>2, FreedFits
    <3>3. QED
      BY <1>3, <3>1, <3>2, PictureShape
  <2>3. QED
    BY <1>1, <1>2, <2>1, <2>2 DEF TypeInv
<1>4. CASE hearUpload(r)
  <2>1. req[r].what \in Photos /\ req[r].draft \in Nat
    BY <1>2, <1>4 DEF hearUpload, Fit
  <2>2. [form EXCEPT !.photo = [id |-> req[r].what, draft |-> req[r].draft]] \in Form
    <3>1. [id |-> req[r].what, draft |-> req[r].draft] \in Taken
      BY <2>1 DEF Taken
    <3>2. QED
      BY <1>2, <3>1 DEF SheetTyped, Form
  <2>3. SheetTyped'
    <3>1. form' = form \/ form' = [form EXCEPT !.photo = [id |-> req[r].what, draft |-> req[r].draft]]
      BY <1>4 DEF hearUpload
    <3>2. QED
      BY <1>1, <1>2, <2>2, <3>1 DEF SheetTyped
  <2>4. FlagsTyped'
    BY <1>4 DEF hearUpload, TypeInv, FlagsTyped
  <2>5. RequestsInv'
    <3>1. CASE req[r].answer
      BY <1>2, <1>4, <2>1, <3>1, KeptShape, CapturedFits
    <3>2. CASE ~req[r].answer
      BY <1>2, <1>4, <3>2, FreedFits DEF hearUpload
    <3>3. QED
      BY <3>1, <3>2
  <2>6. QED
    BY <1>1, <1>2, <2>3, <2>4, <2>5 DEF TypeInv
<1>5. CASE hearSuggestion(r)
  <2>1. SheetTyped'
    BY <1>1, <1>2, <1>5, FilledTyped DEF hearSuggestion, SheetTyped
  <2>2. FlagsTyped'
    BY <1>5 DEF hearSuggestion, TypeInv, FlagsTyped
  <2>3. RequestsInv'
    <3>1. req' = [req EXCEPT ![r] = Idle]
      BY <1>5 DEF hearSuggestion
    <3>2. QED
      BY <1>6, <3>1, FreedFits
  <2>4. QED
    BY <1>1, <1>2, <2>1, <2>2, <2>3 DEF TypeInv
<1>7. QED
  BY <1>3, <1>4, <1>5

LEMMA UndoShape ==
    ASSUME TypeInv, NEW r \in Slots, handleUndo(r)
    PROVE  undo \in Undo /\ Asked(r, "undo", undo.id, undo.was, undo.term)
<1> DEFINE q == [Request("undo", undo.id, undo.was) EXCEPT !.term = undo.term]
<1>1. /\ DOMAIN q = Parts /\ q.kind = "undo" /\ q.id = undo.id /\ q.what = undo.was
      /\ q.term = undo.term /\ q.draft = draft /\ q.after = None /\ q.served = FALSE
  BY DEF Request, Idle, Parts
<1>2. req[r] = Idle /\ req' = [req EXCEPT ![r] = q] /\ undo \in Undo
  BY DEF handleUndo, Sends, TypeInv, ListTyped
<1> HIDE DEF q
<1>3. req'[r] = q
  BY <1>2, OthersKept
<1>4. QED
  BY <1>1, <1>2, <1>3 DEF Asked

LEMMA TypeWrites ==
    ASSUME TypeInv, NEW r \in Slots,
           \/ handleSubmit(r) \/ handleUndo(r)
           \/ \E row \in rows : handleToggle(r, row) \/ handleDelete(r, row)
    PROVE  TypeInv'
<1>1. UNCHANGED <<day, server, sheet, unheard>>
  BY DEF handleSubmit, handleUndo, handleToggle, handleDelete
<1>2. ServerTyped' /\ SheetTyped' /\ SheetTyped /\ draft' = draft /\ search \in Terms
  BY <1>1, SameTyped DEF TypeInv, ListTyped
<1>3. CASE handleSubmit(r)
  <2>1. ListTyped'
    BY <1>3, SameTyped DEF handleSubmit
  <2>2. FlagsTyped'
    BY <1>3 DEF handleSubmit, TypeInv, FlagsTyped
  <2>3. Asked(r, "save", editing, form, search)
    BY <1>3, SendShape DEF handleSubmit
  <2>4. editing \in Products \cup {None} /\ form \in Form /\ "save" \in WriteKinds
    BY <1>2 DEF SheetTyped, WriteKinds
  <2>5. RequestsInv'
    BY <1>2, <2>3, <2>4, AskedFits
  <2>6. QED
    BY <1>1, <1>2, <2>1, <2>2, <2>5 DEF TypeInv
<1>4. CASE handleUndo(r)
  <2>1. Asked(r, "undo", undo.id, undo.was, undo.term) /\ undo \in Undo
    BY <1>4, UndoShape
  <2>2. undo.id \in Products /\ undo.was \in BOOLEAN /\ undo.term \in Terms /\ "undo" \in WriteKinds
    BY <2>1 DEF Undo, WriteKinds
  <2>3. RequestsInv'
    BY <1>2, <2>1, <2>2, AskedFits
  <2>4. ListTyped' /\ FlagsTyped'
    BY <1>4, SameTyped DEF handleUndo, TypeInv, ListTyped
  <2>5. QED
    BY <1>1, <1>2, <2>3, <2>4 DEF TypeInv
<1>5. ASSUME NEW row \in rows, handleToggle(r, row)
      PROVE  TypeInv'
  <2>1. row.id \in Products /\ (~row.isAvailable) \in BOOLEAN /\ "toggle" \in WriteKinds
    BY DEF TypeInv, ListTyped, Row, WriteKinds
  <2>2. Asked(r, "toggle", row.id, ~row.isAvailable, search)
    BY <1>5, SendShape DEF handleToggle
  <2>3. RequestsInv'
    BY <1>2, <2>1, <2>2, AskedFits
  <2>4. ListTyped' /\ FlagsTyped'
    BY <1>5, SameTyped DEF handleToggle
  <2>5. QED
    BY <1>1, <1>2, <2>3, <2>4 DEF TypeInv
<1>6. ASSUME NEW row \in rows, handleDelete(r, row)
      PROVE  TypeInv'
  <2>1. row.id \in Products /\ "delete" \in WriteKinds
    BY DEF TypeInv, ListTyped, Row, WriteKinds
  <2>2. Asked(r, "delete", row.id, editing, search)
    BY <1>6, SendShape DEF handleDelete
  <2>3. RequestsInv'
    BY <1>2, <2>1, <2>2, AskedFits
  <2>4. ListTyped' /\ FlagsTyped'
    BY <1>6, SameTyped DEF handleDelete
  <2>5. QED
    BY <1>1, <1>2, <2>3, <2>4 DEF TypeInv
<1>7. QED
  BY <1>3, <1>4, <1>5, <1>6

\* What a request that is over does to the form: nothing, or a draft begins with an empty one.
LEMMA AfterForm ==
    ASSUME TypeInv, NEW r \in Slots, hearWrite(r) \/ hearRefusal(r) \/ hearList(r) \/ connectionFails(r)
    PROVE  \/ UNCHANGED sheet
           \/ Begins(EMPTY_FORM, editing) /\ UNCHANGED showForm
           \/ Begins(EMPTY_FORM, None) /\ showForm' = FALSE
  BY DEF hearWrite, hearRefusal, hearList, connectionFails, Concludes, resetForm

LEMMA TypeAfter ==
    ASSUME TypeInv, NEW r \in Slots, hearWrite(r) \/ hearRefusal(r) \/ hearList(r) \/ connectionFails(r)
    PROVE  TypeInv'
<1>1. UNCHANGED <<day, server>>
  BY DEF hearWrite, hearRefusal, hearList, connectionFails
<1>2. ServerTyped' /\ SheetTyped /\ draft \in Nat /\ Fit(req[r])
  BY <1>1, SameTyped DEF TypeInv, SheetTyped, RequestsInv
<1>3. SheetTyped' /\ draft' \in Nat /\ draft <= draft'
  <2>1. CASE UNCHANGED sheet
    BY <1>2, <2>1, SameTyped
  <2>2. CASE Begins(EMPTY_FORM, editing) /\ UNCHANGED showForm
    <3>1. showForm' \in BOOLEAN /\ editing \in Products \cup {None}
      BY <1>2, <2>2 DEF SheetTyped
    <3>2. QED
      BY <1>2, <2>2, <3>1, EmptyTyped, BeginsTyped
  <2>3. CASE Begins(EMPTY_FORM, None) /\ showForm' = FALSE
    <3>1. showForm' \in BOOLEAN
      BY <2>3
    <3>2. QED
      BY <1>2, <2>3, <3>1, EmptyTyped, BeginsTyped
  <2>4. QED
    BY <2>1, <2>2, <2>3, AfterForm
<1>4. CASE hearWrite(r)
  <2>1. RequestsInv'
    <3>1. r \in Writes /\ ThenLists(r)
      BY <1>4 DEF hearWrite
    <3>2. QED
      BY <1>3, <3>1, RelistShape, RelistFits
  <2>2. older' \in [Slots -> SUBSET Slots] /\ crossed' \in BOOLEAN
    BY <1>4, RelistShape, AsksTyped DEF hearWrite
  <2>3. ListTyped'
    BY <1>4, <2>2 DEF hearWrite, TypeInv, ListTyped
  <2>4. QED
    BY <1>1, <1>2, <1>3, <1>4, <2>1, <2>3, SameTyped DEF TypeInv, hearWrite
<1>5. CASE hearRefusal(r)
  <2>1. RequestsInv'
    BY <1>3, <1>5, FreedFits DEF hearRefusal
  <2>2. FlagsTyped'
    BY <1>5 DEF hearRefusal, TypeInv, FlagsTyped
  <2>3. QED
    BY <1>1, <1>2, <1>3, <1>5, <2>1, <2>2, SameTyped DEF TypeInv, hearRefusal
<1>6. ASSUME Concludes(r), req[r].kind = "list"
      PROVE  RequestsInv' /\ busy' \in BOOLEAN /\ undo' \in Undo \cup {None}
  <2>1. req' = [req EXCEPT ![r] = Idle] /\ busy' \in BOOLEAN
    BY <1>6 DEF Concludes
  <2>2. CASE req[r].after = "toggle"
    <3>1. undo' = [id |-> req[r].id, was |-> ~req[r].what, term |-> req[r].term]
      BY <1>6, <2>2 DEF Concludes
    <3>2. req[r].id \in Products /\ req[r].what \in BOOLEAN /\ req[r].term \in Terms
      BY <1>2, <1>6, <2>2 DEF Fit
    <3>3. undo' \in Undo
      BY <3>1, <3>2 DEF Undo
    <3>4. QED
      BY <1>3, <2>1, <3>3, FreedFits
  <2>3. CASE req[r].after # "toggle"
    <3>1. undo' = undo \/ undo' = None
      BY <1>6, <2>3 DEF Concludes
    <3>2. QED
      BY <1>3, <2>1, <3>1, FreedFits DEF TypeInv, ListTyped
  <2>4. QED
    BY <2>2, <2>3
<1>7. CASE hearList(r)
  <2>1. RequestsInv' /\ busy' \in BOOLEAN /\ undo' \in Undo \cup {None}
    BY <1>6, <1>7 DEF hearList
  <2>2. rows' \subseteq Row /\ older' \in [Slots -> SUBSET Slots]
    BY <1>2, <1>7, EndsTyped DEF hearList, Fit
  <2>3. crossed' \in BOOLEAN
    <3>1. crossed' = (crossed \/ older[r] # {})
      BY <1>7 DEF hearList
    <3>2. QED
      BY <3>1
  <2>4. ListTyped' /\ FlagsTyped'
    BY <1>7, <2>1, <2>2, <2>3 DEF hearList, TypeInv, ListTyped, FlagsTyped
  <2>5. QED
    BY <1>1, <1>2, <1>3, <1>7, <2>1, <2>4 DEF TypeInv, hearList
<1>8. CASE connectionFails(r)
  <2>1. crossed' \in BOOLEAN /\ older' \in [Slots -> SUBSET Slots]
    <3>1. crossed' = (crossed \/ r \in Lists \cup Writes)
      BY <1>8 DEF connectionFails
    <3>2. QED
      BY <1>8, <3>1, EndsTyped DEF connectionFails
  <2>2. CASE r \in Lists
    <3>1. RequestsInv' /\ busy' \in BOOLEAN /\ undo' \in Undo \cup {None}
      BY <1>6, <1>8, <2>2 DEF connectionFails, Lists
    <3>2. ListTyped' /\ FlagsTyped'
      BY <1>8, <2>1, <2>2, <3>1 DEF connectionFails, TypeInv, ListTyped, FlagsTyped
    <3>3. QED
      BY <1>1, <1>2, <1>3, <1>8, <2>2, <3>1, <3>2 DEF TypeInv, connectionFails
  <2>3. CASE r \notin Lists
    <3>1. RequestsInv'
      BY <1>3, <1>8, <2>3, FreedFits DEF connectionFails
    <3>2. ListTyped'
      BY <1>8, <2>1, <2>3 DEF connectionFails, TypeInv, ListTyped
    <3>3. FlagsTyped'
      BY <1>8, <2>3 DEF connectionFails, TypeInv, FlagsTyped
    <3>4. unheard' \subseteq Nat
      BY <1>2, <1>8, <2>3 DEF connectionFails, TypeInv, Fit
    <3>5. QED
      BY <1>1, <1>2, <1>3, <3>1, <3>2, <3>3, <3>4 DEF TypeInv
  <2>4. QED
    BY <2>2, <2>3
<1>9. QED
  BY <1>4, <1>5, <1>7, <1>8

LEMMA TypeStep == TypeInv /\ [Next]_vars => TypeInv'
<1> SUFFICES ASSUME TypeInv, [Next]_vars PROVE TypeInv'
  OBVIOUS
<1>1. CASE UNCHANGED vars
  BY <1>1, SameTyped DEF vars, TypeInv, sheet
<1>2. CASE Next
  BY <1>2, TypeServe, TypeSearch, TypeAsks, TypeForm, TypePhoto, TypeWrites, TypeAfter DEF Next
<1>3. QED
  BY <1>1, <1>2

-----------------------------------------------------------------------------
(* A form is for one product *)

\* A photo under way was so before, for the same draft, or is taken for this one.
CapturesFollow ==
    \A s \in Captures' : (s \in Captures /\ req'[s].draft = req[s].draft) \/ req'[s].draft = draft

LEMMA CapturesSame == ASSUME UNCHANGED req PROVE CapturesFollow
  BY DEF CapturesFollow, Captures

LEMMA CapturesOne ==
    ASSUME TypeInv, NEW r \in Slots, req' = [req EXCEPT ![r] = req'[r]],
           req'[r].kind \in {"pick", "upload", "suggest"} =>
               (r \in Captures /\ req'[r].draft = req[r].draft) \/ req'[r].draft = draft
    PROVE  CapturesFollow
<1>1. \A s \in Slots \ {r} : req'[s] = req[s]
  BY DEF TypeInv, RequestsInv
<1>2. QED
  BY <1>1 DEF CapturesFollow, Captures

LEMMA CapturesFreed ==
    ASSUME TypeInv, NEW r \in Slots, req' = [req EXCEPT ![r] = Idle]
    PROVE  CapturesFollow
<1>1. req'[r] = Idle /\ Idle.kind = "idle"
  BY OthersKept DEF Idle
<1>2. req' = [req EXCEPT ![r] = req'[r]]
  BY <1>1
<1>3. QED
  BY <1>1, <1>2, CapturesOne

LEMMA CapturesStep == ASSUME TypeInv, Next PROVE CapturesFollow
<1>1. ASSUME UNCHANGED req PROVE CapturesFollow
  BY <1>1, CapturesSame
<1>2. CASE setShowForm \/ closeForm \/ dismiss \/ (\E term \in Terms : setSearch(term))
              \/ (\E row \in rows : startEdit(row) \/ confirmDelete(row)) \/ (\E f \in Fields : type(f))
  BY <1>1, <1>2 DEF setShowForm, closeForm, dismiss, setSearch, startEdit, confirmDelete, type
<1>3. ASSUME NEW r \in Slots, Serve(r) PROVE CapturesFollow
  <2>1. PICK a : Answered(r, a)
    BY <1>3, ServeShape
  <2>2. QED
    BY <2>1, CapturesOne DEF Answered, Captures
<1>4. ASSUME NEW r \in Slots, NEW kind, NEW id, NEW what, NEW term, Asked(r, kind, id, what, term)
      PROVE  CapturesFollow
  BY <1>4, CapturesOne DEF Asked
<1>5. ASSUME NEW r \in Slots,
             \/ loadProducts(r) \/ takePhoto(r) \/ handleSubmit(r)
             \/ \E row \in rows : handleToggle(r, row) \/ handleDelete(r, row)
      PROVE  CapturesFollow
  <2>1. \E kind, id, what : Sends(r, Request(kind, id, what))
    BY <1>5 DEF loadProducts, takePhoto, handleSubmit, handleToggle, handleDelete
  <2>2. PICK kind, id, what : Sends(r, Request(kind, id, what))
    BY <2>1
  <2>3. QED
    BY <1>4, <2>2, SendShape
<1>6. ASSUME NEW r \in Slots, handleUndo(r) PROVE CapturesFollow
  BY <1>4, <1>6, UndoShape
<1>7. ASSUME NEW r \in Slots, handleCapture(r) PROVE CapturesFollow
  <2>1. ASSUME NEW ph, Captured(r, "upload", ph) PROVE CapturesFollow
    BY <1>7, <2>1, CapturesOne DEF Captured, handleCapture, Captures
  <2>2. QED
    BY <1>7, <2>1, CapturesFreed, PictureShape
<1>8. ASSUME NEW r \in Slots, hearUpload(r) PROVE CapturesFollow
  <2>1. CASE req[r].answer
    <3>1. Captured(r, "suggest", req[r].what)
      BY <1>8, <2>1, KeptShape
    <3>2. QED
      BY <1>8, <3>1, CapturesOne DEF Captured, hearUpload, Captures
  <2>2. CASE ~req[r].answer
    BY <1>8, <2>2, CapturesFreed DEF hearUpload
  <2>3. QED
    BY <2>1, <2>2
<1>9. ASSUME NEW r \in Slots, hearWrite(r) PROVE CapturesFollow
  <2>1. Relisted(r)
    BY <1>9, RelistShape DEF hearWrite
  <2>2. QED
    BY <2>1, CapturesOne DEF Relisted
<1>10. ASSUME NEW r \in Slots, hearSuggestion(r) \/ hearRefusal(r) \/ hearList(r) \/ connectionFails(r)
       PROVE  CapturesFollow
  BY <1>10, CapturesFreed DEF hearSuggestion, hearRefusal, hearList, connectionFails, Concludes
<1>11. ASSUME NEW r \in Slots, hearCategories(r) PROVE CapturesFollow
  BY <1>11, FirstShape, CapturesOne DEF First
<1>12. QED
  BY <1>2, <1>3, <1>5, <1>6, <1>7, <1>8, <1>9, <1>10, <1>11 DEF Next, debounce, retry

\* What is in a new form is of its own draft.
Fresh(f) ==
    /\ \A x \in Fields : f.given[x] # None => f.given[x].draft = draft + 1 /\ f.given[x].by # "read"
    /\ f.photo # None => f.photo.draft = draft + 1

\* What an action does to the form.
SheetChange ==
    \/ UNCHANGED <<form, draft, straddled>>
    \/ \E f, id : Begins(f, id) /\ Fresh(f) /\ Captures' \subseteq Captures
    \/ /\ UNCHANGED <<draft, straddled>>
       /\ \E v : \E x \in Fields : /\ v # None => v.by = "typed" /\ v.draft = draft
                                 /\ form' = [form EXCEPT !.given[x] = v]
    \/ /\ UNCHANGED <<draft, straddled>>
       /\ \E r \in Captures : form' = [form EXCEPT !.photo = [id |-> req[r].what, draft |-> req[r].draft]]
    \/ /\ UNCHANGED <<draft, straddled>>
       /\ \E r \in Captures : form' = [form EXCEPT !.given = filled(r)]

LEMMA AfterCaptures ==
    ASSUME TypeInv, NEW r \in Slots, hearWrite(r) \/ hearRefusal(r) \/ hearList(r) \/ connectionFails(r)
    PROVE  Captures' \subseteq Captures
<1>1. CASE hearWrite(r)
  <2>1. Relisted(r)
    BY <1>1, RelistShape DEF hearWrite
  <2>2. \A s \in Slots \ {r} : req'[s] = req[s]
    BY <2>1 DEF Relisted, TypeInv, RequestsInv
  <2>3. QED
    BY <2>1, <2>2 DEF Relisted, Captures
<1>2. CASE hearRefusal(r) \/ hearList(r) \/ connectionFails(r)
  <2>1. req' = [req EXCEPT ![r] = Idle]
    BY <1>2 DEF hearRefusal, hearList, connectionFails, Concludes
  <2>2. req'[r] = Idle /\ (\A s \in Slots \ {r} : req'[s] = req[s]) /\ Idle.kind = "idle"
    BY <2>1, OthersKept DEF Idle
  <2>3. QED
    BY <2>2 DEF Captures
<1>3. QED
  BY <1>1, <1>2

LEMMA EmptyFresh == Fresh(EMPTY_FORM)
  BY EmptyTyped DEF Fresh

LEMMA SheetStep == ASSUME TypeInv, Next PROVE SheetChange
<1>1. ASSUME UNCHANGED <<form, draft, straddled>> PROVE SheetChange
  BY <1>1 DEF SheetChange
<1>2. CASE setShowForm \/ dismiss \/ (\E term \in Terms : setSearch(term))
              \/ (\E row \in rows : confirmDelete(row))
  BY <1>1, <1>2 DEF setShowForm, dismiss, setSearch, confirmDelete, sheet
<1>3. ASSUME NEW r \in Slots,
             \/ Serve(r) \/ loadProducts(r) \/ hearCategories(r) \/ takePhoto(r) \/ handleCapture(r)
             \/ handleSubmit(r) \/ handleUndo(r)
             \/ \E row \in rows : handleToggle(r, row) \/ handleDelete(r, row)
      PROVE  SheetChange
  BY <1>1, <1>3 DEF Serve, loadProducts, hearCategories, takePhoto, handleCapture, handleSubmit, handleUndo,
                    handleToggle, handleDelete, sheet
<1>4. ASSUME NEW id, Begins(EMPTY_FORM, id), Captures' \subseteq Captures PROVE SheetChange
  BY <1>4, EmptyFresh DEF SheetChange
<1>5. CASE closeForm
  BY <1>4, <1>5 DEF closeForm, resetForm, Captures
<1>6. ASSUME NEW row \in rows, startEdit(row) PROVE SheetChange
  <2> DEFINE f == [given |-> [x \in Fields |-> [by |-> "saved", draft |-> draft + 1]],
                   photo |-> IF row.photo = None THEN None ELSE [id |-> row.photo, draft |-> draft + 1]]
  <2>1. Begins(f, row.id) /\ Captures' \subseteq Captures
    BY <1>6 DEF startEdit, Captures
  <2>2. Fresh(f)
    BY DEF Fresh
  <2> HIDE DEF f
  <2>3. QED
    BY <2>1, <2>2 DEF SheetChange
<1>7. ASSUME NEW x \in Fields, type(x) PROVE SheetChange
  <2>1. PICK v \in {None, [by |-> "typed", draft |-> draft]} : form' = [form EXCEPT !.given[x] = v]
    BY <1>7 DEF type
  <2>2. v # None => v.by = "typed" /\ v.draft = draft
    OBVIOUS
  <2>3. UNCHANGED <<draft, straddled>>
    BY <1>7 DEF type
  <2>4. QED
    BY <2>1, <2>2, <2>3 DEF SheetChange
<1>8. ASSUME NEW r \in Slots, hearUpload(r) PROVE SheetChange
  BY <1>1, <1>8 DEF hearUpload, SheetChange, Captures
<1>9. ASSUME NEW r \in Slots, hearSuggestion(r) PROVE SheetChange
  BY <1>9 DEF hearSuggestion, SheetChange, Captures
<1>10. ASSUME NEW r \in Slots, hearWrite(r) \/ hearRefusal(r) \/ hearList(r) \/ connectionFails(r)
       PROVE  SheetChange
  BY <1>1, <1>4, <1>10, AfterForm, AfterCaptures DEF sheet
<1>11. QED
  BY <1>2, <1>3, <1>5, <1>6, <1>7, <1>8, <1>9, <1>10 DEF Next, debounce, retry

LEMMA InitDraft == Init => DraftInv
<1> SUFFICES ASSUME Init PROVE DraftInv
  OBVIOUS
<1>1. Captures = {}
  BY InitRequests DEF Captures
<1>2. QED
  BY <1>1 DEF Init, DraftInv, OneProductPerForm, EMPTY_FORM

LEMMA DraftStep == ASSUME TypeInv, DraftInv, [Next]_vars PROVE DraftInv'
<1>1. CASE UNCHANGED vars
  BY <1>1 DEF vars, sheet, DraftInv, OneProductPerForm, Captures
<1>2. CASE Next
  <2>1. CapturesFollow /\ SheetChange
    BY <1>2, CapturesStep, SheetStep
  <2>2. form \in Form /\ draft \in Nat /\ \A r \in Slots : req[r].draft \in Nat
    BY DEF TypeInv, SheetTyped, RequestsInv, Fit
  <2>3. ASSUME UNCHANGED <<draft, straddled>>
        PROVE  \A r \in Captures' : req'[r].draft = draft' \/ straddled'
    BY <2>1, <2>3 DEF CapturesFollow, DraftInv
  <2>4. CASE UNCHANGED <<form, draft, straddled>>
    BY <2>3, <2>4 DEF DraftInv, OneProductPerForm
  <2>5. ASSUME NEW f, NEW id, Begins(f, id), Fresh(f), Captures' \subseteq Captures
        PROVE  DraftInv'
    <3>1. OneProductPerForm'
      BY <2>5 DEF Begins, Fresh, OneProductPerForm
    <3>2. \A r \in Captures' : straddled'
      BY <2>5 DEF Begins
    <3>3. QED
      BY <3>1, <3>2 DEF DraftInv
  <2>6. ASSUME UNCHANGED <<draft, straddled>>, NEW x \in Fields, NEW v, v # None => v.draft = draft,
               form' = [form EXCEPT !.given[x] = v]
        PROVE  DraftInv'
    <3>1. /\ form'.photo = form.photo /\ form'.given[x] = v
          /\ \A y \in Fields \ {x} : form'.given[y] = form.given[y]
      BY <2>2, <2>6 DEF Form
    <3>2. QED
      BY <2>3, <2>6, <3>1 DEF DraftInv, OneProductPerForm
  <2>7. ASSUME UNCHANGED <<draft, straddled>>, NEW r \in Captures,
               form' = [form EXCEPT !.photo = [id |-> req[r].what, draft |-> req[r].draft]]
        PROVE  DraftInv'
    <3>1. form'.given = form.given /\ form'.photo.draft = req[r].draft
      BY <2>2, <2>7 DEF Form
    <3>2. QED
      BY <2>3, <2>7, <3>1 DEF DraftInv, OneProductPerForm
  <2>8. ASSUME UNCHANGED <<draft, straddled>>, NEW r \in Captures,
               form' = [form EXCEPT !.given = filled(r)]
        PROVE  DraftInv'
    <3>1. form'.photo = form.photo /\ form'.given = filled(r)
      BY <2>2, <2>8 DEF Form
    <3>2. \A y \in Fields : \/ filled(r)[y] = form.given[y]
                            \/ filled(r)[y].by = "read" /\ filled(r)[y].draft = req[r].draft
      BY DEF filled
    <3>3. QED
      BY <2>3, <2>8, <3>1, <3>2 DEF DraftInv, OneProductPerForm
  <2>9. QED
    BY <2>1, <2>4, <2>5, <2>6, <2>7, <2>8 DEF SheetChange
<1>3. QED
  BY <1>1, <1>2

LEMMA TypedStep ==
    ASSUME TypeInv, [Next]_vars, NEW x \in Fields, form.given[x] # None, form.given[x].by # "read"
    PROVE  form'.given[x] = None \/ form'.given[x].by # "read"
<1>1. CASE UNCHANGED vars
  BY <1>1 DEF vars, sheet
<1>2. CASE Next
  <2>1. SheetChange /\ form \in Form
    BY <1>2, SheetStep DEF TypeInv, SheetTyped
  <2>2. ASSUME NEW f, NEW id, Begins(f, id), Fresh(f)
        PROVE  form'.given[x] = None \/ form'.given[x].by # "read"
    BY <2>2 DEF Begins, Fresh
  <2>3. ASSUME NEW y \in Fields, NEW v, v # None => v.by = "typed", form' = [form EXCEPT !.given[y] = v]
        PROVE  form'.given[x] = None \/ form'.given[x].by # "read"
    <3>1. form'.given[x] \in {v, form.given[x]}
      BY <2>1, <2>3 DEF Form
    <3>2. QED
      BY <2>3, <3>1
  <2>4. ASSUME NEW p, form' = [form EXCEPT !.photo = p]
        PROVE  form'.given[x] = None \/ form'.given[x].by # "read"
    <3>1. form'.given = form.given
      BY <2>1, <2>4 DEF Form
    <3>2. QED
      BY <3>1
  <2>5. ASSUME NEW r \in Captures, form' = [form EXCEPT !.given = filled(r)]
        PROVE  form'.given[x] = None \/ form'.given[x].by # "read"
    <3>1. form'.given = filled(r)
      BY <2>1, <2>5 DEF Form
    <3>2. QED
      BY <3>1 DEF filled
  <2>6. QED
    BY <2>1, <2>2, <2>3, <2>4, <2>5 DEF SheetChange
<1>3. QED
  BY <1>1, <1>2

-----------------------------------------------------------------------------
(* Photos are stored *)

Kept == stored \cup {None}

\* What is in the storage as far as one product, row, form or request is concerned.
ProductKept(p) == product[p] # None => product[p].photo \in Kept
RowsKept == \A row \in rows : row.photo \in Kept
FormKept == form.photo # None => form.photo.id \in Kept
RequestKept(r) ==
    /\ req[r].kind = "save" /\ req[r].what.photo # None => req[r].what.photo.id \in Kept
    /\ req[r].kind = "list" /\ req[r].served => \A row \in req[r].answer : row.photo \in Kept
    /\ req[r].kind = "upload" /\ req[r].served /\ req[r].answer => req[r].what \in stored

LEMMA PhotoParts ==
    PhotoInv <=> /\ \A p \in Products : ProductKept(p)
                 /\ RowsKept /\ FormKept /\ \A r \in Slots : RequestKept(r)
<1>1. PhotoIsStored <=> (\A p \in Products : ProductKept(p)) /\ RowsKept /\ FormKept
  BY DEF PhotoIsStored, ProductKept, RowsKept, FormKept, Kept
<1>2. QED
  BY <1>1 DEF PhotoInv, RequestKept, Kept

LEMMA PhotoPartsNext ==
    ASSUME (\A p \in Products : ProductKept(p))', RowsKept', FormKept', (\A r \in Slots : RequestKept(r))'
    PROVE  PhotoInv'
  BY DEF PhotoInv, PhotoIsStored, ProductKept, RowsKept, FormKept, Kept, RequestKept

LEMMA ListedKept ==
    ASSUME \A p \in Products : ProductKept(p), NEW term
    PROVE  \A row \in Listed(term) : row.photo \in Kept
  BY DEF Listed, ProductKept

\* A request is still about photos that are stored when its slot is another's or empty, or when it has
\* become something else of this kind.
LEMMA RequestsStored ==
    ASSUME TypeInv, PhotoInv, NEW r \in Slots, stored \subseteq stored',
           req' = [req EXCEPT ![r] = req'[r]], RequestKept(r)'
    PROVE  \A s \in Slots : RequestKept(s)'
<1>1. ASSUME NEW s \in Slots \ {r} PROVE RequestKept(s)'
  <2>1. req'[s] = req[s] /\ RequestKept(s)
    BY PhotoParts DEF TypeInv, RequestsInv
  <2>2. QED
    BY <2>1 DEF RequestKept, Kept
<1>2. QED
  BY <1>1

LEMMA InitPhoto == Init => PhotoInv
<1> SUFFICES ASSUME Init PROVE PhotoInv
  OBVIOUS
<1>1. \A p \in Products : ProductKept(p)
  BY DEF Init, ProductKept, Kept
<1>2. RowsKept
  BY <1>1, ListedKept DEF Init, RowsKept
<1>3. FormKept /\ \A r \in Slots : RequestKept(r)
  BY InitRequests DEF Init, FormKept, RequestKept, EMPTY_FORM
<1>4. QED
  BY <1>1, <1>2, <1>3, PhotoParts

LEMMA PhotoServe == ASSUME TypeInv, PhotoInv, NEW r \in Slots, Serve(r) PROVE PhotoInv'
<1>0. /\ \A p \in Products : ProductKept(p)
      /\ RowsKept /\ FormKept /\ \A s \in Slots : RequestKept(s)
      /\ ServerTyped
  BY PhotoParts DEF TypeInv
<1>1. PICK a : Answered(r, a) /\ Outcome(r, a)
  BY ServeShape
<1>2. UNCHANGED <<rows, form>> /\ Fit(req[r])
  BY ServeShape DEF list, sheet
<1>3. stored \subseteq stored'
  BY <1>1 DEF Outcome, server
<1>4. RowsKept' /\ FormKept'
  BY <1>0, <1>2, <1>3 DEF RowsKept, FormKept, Kept
<1>5. ASSUME NEW p \in Products PROVE ProductKept(p)'
  <2>1. CASE UNCHANGED product
    BY <1>0, <1>3, <2>1 DEF ProductKept, Kept
  <2>2. ASSUME NEW x \in Products, NEW from \in Nat, req[r].kind = "save",
               product' = Written(x, req[r].what, from)
        PROVE  ProductKept(p)'
    <3>1. req[r].what \in Form
      BY <1>2, <2>2 DEF Fit
    <3>2. CASE p = x
      <4>1. product'[x].photo \in {None}
                \cup (IF req[r].what.photo # None THEN {req[r].what.photo.id} ELSE {})
                \cup (IF product[x] # None THEN {product[x].photo} ELSE {})
        BY <1>0, <2>2, <3>1, WrittenShape
      <4>2. product'[x].photo \in Kept
        BY <1>0, <2>2, <4>1 DEF ProductKept, RequestKept, Kept
      <4>3. QED
        BY <1>3, <3>2, <4>2 DEF ProductKept, Kept
    <3>3. CASE p # x
      <4>1. product'[p] = product[p]
        BY <1>0, <2>2, <3>1, <3>3, WrittenShape
      <4>2. QED
        BY <1>0, <1>3, <4>1 DEF ProductKept, Kept
    <3>4. QED
      BY <3>2, <3>3
  <2>3. ASSUME NEW x \in Products, product[x] # None,
               \/ product' = [product EXCEPT ![x].isAvailable = req[r].what]
               \/ product' = [product EXCEPT ![x] = None]
        PROVE  ProductKept(p)'
    <3>1. product[x] \in Product
      BY <1>0, <2>3 DEF ServerTyped
    <3>2. product'[p] # None => product[p] # None /\ product'[p].photo = product[p].photo
      BY <1>0, <2>3, <3>1 DEF ServerTyped, Product
    <3>3. QED
      BY <1>0, <1>3, <3>2 DEF ProductKept, Kept
  <2>4. /\ req[r].draft \in Nat
        /\ req[r].id \in Products /\ product[req[r].id] # None => product[req[r].id].from \in Nat
    BY <1>0, <1>2 DEF Fit, ServerTyped, Product
  <2>5. QED
    BY <1>1, <2>1, <2>2, <2>3, <2>4 DEF Outcome, server
<1>6. RequestKept(r)'
  <2>1. req[r].kind = "list" => \A row \in a : row.photo \in Kept
    BY <1>0, <1>1, ListedKept DEF Outcome, WriteKinds
  <2>2. req[r].kind = "upload" /\ a => req[r].what \in stored'
    BY <1>1 DEF Outcome, WriteKinds
  <2>3. QED
    BY <1>0, <1>1, <1>3, <2>1, <2>2 DEF RequestKept, Answered, Kept
<1>7. \A s \in Slots : RequestKept(s)'
  BY <1>1, <1>3, <1>6, RequestsStored DEF Answered
<1>8. QED
  BY <1>4, <1>5, <1>7, PhotoPartsNext

\* The list and the form show what the server told of.
LEMMA PhotoShown ==
    ASSUME TypeInv, PhotoInv, Next, UNCHANGED server
    PROVE  RowsKept' /\ FormKept'
<1>0. /\ RowsKept /\ FormKept /\ \A s \in Slots : RequestKept(s)
      /\ form \in Form
  BY PhotoParts DEF TypeInv, SheetTyped
<1>1. Kept' = Kept
  BY DEF Kept, server
<1>2. RowsKept'
  <2>1. ASSUME NEW r \in Slots, hearList(r) PROVE RowsKept'
    BY <1>0, <1>1, <2>1 DEF hearList, RowsKept, RequestKept
  <2>2. CASE UNCHANGED rows
    BY <1>0, <1>1, <2>2 DEF RowsKept
  <2>3. QED
    BY <2>1, <2>2 DEF Next, setShowForm, closeForm, dismiss, setSearch, startEdit, confirmDelete, type,
               debounce, retry, loadProducts, hearCategories, takePhoto, handleCapture, hearUpload,
               hearSuggestion, handleSubmit, handleUndo, hearWrite, hearRefusal, connectionFails,
               handleToggle, handleDelete, Serve, list
<1>3. FormKept'
  <2>1. CASE UNCHANGED form
    BY <1>0, <1>1, <2>1 DEF FormKept
  <2>2. ASSUME NEW id, Begins(EMPTY_FORM, id) PROVE FormKept'
    BY <2>2, EmptyTyped DEF Begins, FormKept
  <2>3. ASSUME NEW row \in rows, startEdit(row) PROVE FormKept'
    <3>1. form'.photo = IF row.photo = None THEN None ELSE [id |-> row.photo, draft |-> draft + 1]
      BY <2>3 DEF startEdit, Begins
    <3>2. row.photo \in Kept
      BY <1>0 DEF RowsKept
    <3>3. QED
      BY <1>1, <3>1, <3>2 DEF FormKept
  <2>4. ASSUME NEW f \in Fields, type(f) PROVE FormKept'
    <3>1. form'.photo = form.photo
      BY <1>0, <2>4 DEF type, Form
    <3>2. QED
      BY <1>0, <1>1, <3>1 DEF FormKept
  <2>5. ASSUME NEW r \in Slots, hearUpload(r) PROVE FormKept'
    <3>1. CASE req[r].answer
      <4>1. form'.photo.id = req[r].what
        BY <1>0, <2>5, <3>1 DEF hearUpload, Form
      <4>2. req[r].what \in Kept
        BY <1>0, <2>5, <3>1 DEF hearUpload, RequestKept, Kept
      <4>3. QED
        BY <1>1, <4>1, <4>2 DEF FormKept
    <3>2. CASE ~req[r].answer
      BY <2>1, <2>5, <3>2 DEF hearUpload
    <3>3. QED
      BY <3>1, <3>2
  <2>6. ASSUME NEW r \in Slots, hearSuggestion(r) PROVE FormKept'
    <3>1. form'.photo = form.photo
      BY <1>0, <2>6 DEF hearSuggestion, Form
    <3>2. QED
      BY <1>0, <1>1, <3>1 DEF FormKept
  <2>7. ASSUME NEW r \in Slots, hearWrite(r) \/ hearRefusal(r) \/ hearList(r) \/ connectionFails(r)
        PROVE  FormKept'
    BY <2>1, <2>2, <2>7, AfterForm DEF sheet
  <2>8. CASE closeForm
    BY <2>2, <2>8 DEF closeForm, resetForm
  <2>9. CASE setShowForm \/ dismiss \/ (\E term \in Terms : setSearch(term))
               \/ (\E row \in rows : confirmDelete(row))
    BY <2>1, <2>9 DEF setShowForm, dismiss, setSearch, confirmDelete, sheet
  <2>10. ASSUME NEW r \in Slots,
                \/ Serve(r) \/ loadProducts(r) \/ hearCategories(r) \/ takePhoto(r) \/ handleCapture(r)
                \/ handleSubmit(r) \/ handleUndo(r)
                \/ \E row \in rows : handleToggle(r, row) \/ handleDelete(r, row)
         PROVE  FormKept'
    BY <2>1, <2>10 DEF Serve, loadProducts, hearCategories, takePhoto, handleCapture, handleSubmit, handleUndo,
                       handleToggle, handleDelete, sheet
  <2>11. QED
    BY <2>3, <2>4, <2>5, <2>6, <2>7, <2>8, <2>9, <2>10 DEF Next, debounce, retry
<1>4. QED
  BY <1>2, <1>3

\* What a phone asks for is about photos that are stored.
LEMMA PhotoAsked ==
    ASSUME TypeInv, PhotoInv, Next, UNCHANGED server
    PROVE  \A s \in Slots : RequestKept(s)'
<1>0. FormKept /\ (\A s \in Slots : RequestKept(s)) /\ stored' = stored /\ stored \subseteq stored'
  BY PhotoParts DEF server
<1>1. CASE UNCHANGED req
  BY <1>0, <1>1 DEF RequestKept, Kept
<1>2. ASSUME NEW r \in Slots, req' = [req EXCEPT ![r] = req'[r]], req'[r].served = FALSE,
             req'[r].kind # "save"
      PROVE  \A s \in Slots : RequestKept(s)'
  <2>1. RequestKept(r)'
    BY <1>2 DEF RequestKept
  <2>2. QED
    BY <1>0, <1>2, <2>1, RequestsStored
<1>3. ASSUME NEW r \in Slots, req' = [req EXCEPT ![r] = Idle]
      PROVE  \A s \in Slots : RequestKept(s)'
  <2>1. req'[r] = Idle
    BY <1>3, OthersKept
  <2>2. req'[r].served = FALSE /\ req'[r].kind # "save"
    BY <2>1 DEF Idle
  <2>3. QED
    BY <1>2, <1>3, <2>1, <2>2
<1>4. ASSUME NEW r \in Slots, NEW kind, NEW id, NEW what, NEW term,
             Asked(r, kind, id, what, term), kind # "save"
      PROVE  \A s \in Slots : RequestKept(s)'
  BY <1>2, <1>4 DEF Asked
<1>5. ASSUME NEW r \in Slots, handleSubmit(r) PROVE \A s \in Slots : RequestKept(s)'
  <2>1. Asked(r, "save", editing, form, search)
    BY <1>5, SendShape DEF handleSubmit
  <2>2. RequestKept(r)'
    BY <1>0, <2>1 DEF Asked, RequestKept, FormKept, Kept
  <2>3. QED
    BY <1>0, <2>1, <2>2, RequestsStored DEF Asked
<1>6. ASSUME NEW r \in Slots, \/ loadProducts(r) \/ takePhoto(r)
                              \/ \E row \in rows : handleToggle(r, row) \/ handleDelete(r, row)
      PROVE  \A s \in Slots : RequestKept(s)'
  <2>1. \E kind, id, what : Sends(r, Request(kind, id, what)) /\ kind # "save"
    BY <1>6 DEF loadProducts, takePhoto, handleToggle, handleDelete
  <2>2. PICK kind, id, what : Sends(r, Request(kind, id, what)) /\ kind # "save"
    BY <2>1
  <2>3. QED
    BY <1>4, <2>2, SendShape
<1>7. ASSUME NEW r \in Slots, handleUndo(r) PROVE \A s \in Slots : RequestKept(s)'
  BY <1>4, <1>7, UndoShape
<1>8. ASSUME NEW r \in Slots, handleCapture(r) \/ hearUpload(r) PROVE \A s \in Slots : RequestKept(s)'
  <2>1. ASSUME NEW kind \in {"upload", "suggest"}, NEW ph, Captured(r, kind, ph)
        PROVE  \A s \in Slots : RequestKept(s)'
    BY <1>2, <2>1 DEF Captured
  <2>2. CASE handleCapture(r)
    BY <1>3, <2>1, <2>2, PictureShape
  <2>3. CASE hearUpload(r) /\ req[r].answer
    BY <2>1, <2>3, KeptShape
  <2>4. CASE hearUpload(r) /\ ~req[r].answer
    BY <1>3, <2>4 DEF hearUpload
  <2>5. QED
    BY <1>8, <2>2, <2>3, <2>4
<1>9. ASSUME NEW r \in Slots, hearWrite(r) PROVE \A s \in Slots : RequestKept(s)'
  <2>1. Relisted(r)
    BY <1>9, RelistShape DEF hearWrite
  <2>2. QED
    BY <1>2, <2>1 DEF Relisted
<1>10. ASSUME NEW r \in Slots, hearSuggestion(r) \/ hearRefusal(r) \/ hearList(r) \/ connectionFails(r)
       PROVE  \A s \in Slots : RequestKept(s)'
  BY <1>3, <1>10 DEF hearSuggestion, hearRefusal, hearList, connectionFails, Concludes
<1>11. ASSUME NEW r \in Slots, Serve(r), UNCHANGED server PROVE \A s \in Slots : RequestKept(s)'
  BY <1>11, PhotoServe DEF PhotoInv, RequestKept, Kept
<1>12. CASE setShowForm \/ closeForm \/ dismiss \/ (\E term \in Terms : setSearch(term))
               \/ (\E row \in rows : startEdit(row) \/ confirmDelete(row)) \/ (\E f \in Fields : type(f))
  BY <1>1, <1>12 DEF setShowForm, closeForm, dismiss, setSearch, startEdit, confirmDelete, type
<1>13. ASSUME NEW r \in Slots, hearCategories(r) PROVE \A s \in Slots : RequestKept(s)'
  <2>1. First(r)
    BY <1>13, FirstShape
  <2>2. QED
    BY <1>2, <2>1 DEF First
<1>14. QED
  BY <1>5, <1>6, <1>7, <1>8, <1>9, <1>10, <1>11, <1>12, <1>13 DEF Next, debounce, retry

LEMMA PhotoStep == ASSUME TypeInv, PhotoInv, [Next]_vars PROVE PhotoInv'
<1>1. CASE UNCHANGED vars
  BY <1>1 DEF vars, server, list, sheet, PhotoInv, PhotoIsStored
<1>2. CASE Next
  <2>1. CASE UNCHANGED server
    <3>1. \A p \in Products : ProductKept(p)'
      BY <2>1, PhotoParts DEF ProductKept, Kept, server
    <3>2. QED
      BY <1>2, <2>1, <3>1, PhotoShown, PhotoAsked, PhotoPartsNext
  <2>2. ASSUME NEW r \in Slots, Serve(r) PROVE PhotoInv'
    BY <2>2, PhotoServe
  <2>3. QED
    BY <1>2, <2>1, <2>2 DEF Next, setShowForm, closeForm, dismiss, setSearch, startEdit, confirmDelete,
               type, debounce, retry, loadProducts, hearCategories, takePhoto, handleCapture, hearUpload, hearSuggestion, handleSubmit,
               handleUndo, hearWrite, hearRefusal, hearList, connectionFails, handleToggle, handleDelete
<1>3. QED
  BY <1>1, <1>2

-----------------------------------------------------------------------------
(* A product is added once *)

LEMMA SavingOne ==
    ASSUME TypeInv, OneSave, NEW r \in Slots, req' = [req EXCEPT ![r] = req'[r]],
           r \in Saving' => r \in Saving,
           busy' = busy \/ (r \in Saving /\ r \notin Saving')
    PROVE  OneSave'
<1>1. \A s \in Slots \ {r} : req'[s] = req[s]
  BY DEF TypeInv, RequestsInv
<1>2. Saving' \subseteq Saving
  BY <1>1 DEF Saving
<1>3. QED
  BY <1>2 DEF OneSave

LEMMA SavingFreed ==
    ASSUME TypeInv, OneSave, NEW r \in Slots, req' = [req EXCEPT ![r] = Idle], busy' = busy \/ r \in Saving
    PROVE  OneSave'
<1>1. req'[r] = Idle
  BY OthersKept
<1>2. req' = [req EXCEPT ![r] = req'[r]]
  BY <1>1
<1>3. req'[r].kind = "idle"
  BY <1>1 DEF Idle
<1>4. r \notin Saving'
  BY <1>3 DEF Saving
<1>5. QED
  BY <1>2, <1>4, SavingOne

LEMMA SavingStep == ASSUME TypeInv, OneSave, Next PROVE OneSave'
<1>1. CASE setShowForm \/ closeForm \/ dismiss \/ (\E term \in Terms : setSearch(term))
              \/ (\E row \in rows : startEdit(row) \/ confirmDelete(row)) \/ (\E f \in Fields : type(f))
  <2>1. UNCHANGED <<req, busy>>
    BY <1>1 DEF setShowForm, closeForm, dismiss, setSearch, startEdit, confirmDelete, type, flags
  <2>2. QED
    BY <2>1 DEF OneSave, Saving
<1>2. ASSUME NEW r \in Slots, Serve(r) PROVE OneSave'
  <2>1. PICK a : Answered(r, a)
    BY <1>2, ServeShape
  <2>2. UNCHANGED busy
    BY <1>2 DEF Serve, flags
  <2>3. QED
    BY <2>1, <2>2, SavingOne DEF Answered, Saving
<1>3. ASSUME NEW r \in Slots, NEW kind, NEW id, NEW what, NEW term,
             Asked(r, kind, id, what, term), kind # "save", UNCHANGED busy
      PROVE  OneSave'
  BY <1>3, SavingOne, NoneIsNoWrite DEF Asked, Saving
<1>4. ASSUME NEW r \in Slots, handleSubmit(r) PROVE OneSave'
  <2>1. Asked(r, "save", editing, form, search)
    BY <1>4, SendShape DEF handleSubmit
  <2>2. Saving = {} /\ busy' = TRUE
    BY <1>4 DEF handleSubmit, SaveOffered, OneSave
  <2>3. \A s \in Slots \ {r} : req'[s] = req[s]
    BY <2>1 DEF Asked, TypeInv, RequestsInv
  <2>4. Saving' \subseteq {r}
    BY <2>2, <2>3 DEF Saving
  <2>5. QED
    BY <2>2, <2>4 DEF OneSave
<1>5. ASSUME NEW r \in Slots, \/ loadProducts(r) \/ takePhoto(r)
                              \/ \E row \in rows : handleToggle(r, row) \/ handleDelete(r, row)
      PROVE  OneSave'
  <2>1. UNCHANGED busy /\ \E kind, id, what : Sends(r, Request(kind, id, what)) /\ kind # "save"
    BY <1>5 DEF loadProducts, takePhoto, handleToggle, handleDelete, flags
  <2>2. PICK kind, id, what : Sends(r, Request(kind, id, what)) /\ kind # "save"
    BY <2>1
  <2>3. QED
    BY <1>3, <2>1, <2>2, SendShape
<1>6. ASSUME NEW r \in Slots, handleUndo(r) PROVE OneSave'
  BY <1>3, <1>6, UndoShape DEF handleUndo, flags
<1>7. ASSUME NEW r \in Slots, handleCapture(r) \/ hearUpload(r) \/ hearSuggestion(r) PROVE OneSave'
  <2>0. UNCHANGED busy
    BY <1>7 DEF handleCapture, hearUpload, hearSuggestion
  <2>1. ASSUME NEW kind \in {"upload", "suggest"}, NEW ph, Captured(r, kind, ph)
        PROVE  OneSave'
    BY <2>0, <2>1, SavingOne DEF Captured, Saving
  <2>2. CASE req' = [req EXCEPT ![r] = Idle]
    BY <2>0, <2>2, SavingFreed
  <2>3. CASE handleCapture(r)
    BY <2>1, <2>2, <2>3, PictureShape
  <2>4. CASE hearUpload(r) /\ req[r].answer
    BY <2>1, <2>4, KeptShape
  <2>5. CASE hearUpload(r) /\ ~req[r].answer
    BY <2>2, <2>5 DEF hearUpload
  <2>6. CASE hearSuggestion(r)
    BY <2>2, <2>6 DEF hearSuggestion
  <2>7. QED
    BY <1>7, <2>3, <2>4, <2>5, <2>6
<1>8. ASSUME NEW r \in Slots, hearWrite(r) PROVE OneSave'
  <2>1. Relisted(r) /\ UNCHANGED busy
    BY <1>8, RelistShape DEF hearWrite, flags
  <2>2. QED
    BY <2>1, SavingOne DEF Relisted, Saving
<1>9. ASSUME NEW r \in Slots, hearRefusal(r) \/ hearList(r) \/ connectionFails(r) PROVE OneSave'
  <2>1. req' = [req EXCEPT ![r] = Idle] /\ busy \in BOOLEAN
    BY <1>9 DEF hearRefusal, hearList, connectionFails, Concludes, TypeInv, FlagsTyped
  <2>2. busy' = busy \/ r \in Saving
    <3>1. CASE hearRefusal(r)
      BY <2>1, <3>1 DEF hearRefusal, Saving
    <3>2. ASSUME req[r].kind = "list", Concludes(r) PROVE busy' = busy \/ r \in Saving
      BY <2>1, <3>2 DEF Concludes, Saving
    <3>3. CASE hearList(r)
      BY <3>2, <3>3 DEF hearList
    <3>4. CASE connectionFails(r)
      <4>1. CASE r \in Lists
        BY <3>2, <3>4, <4>1 DEF connectionFails, Lists
      <4>2. CASE r \notin Lists
        BY <2>1, <3>4, <4>2 DEF connectionFails, Saving
      <4>3. QED
        BY <4>1, <4>2
    <3>5. QED
      BY <1>9, <3>1, <3>3, <3>4
  <2>3. QED
    BY <2>1, <2>2, SavingFreed
<1>10. ASSUME NEW r \in Slots, hearCategories(r) PROVE OneSave'
  <2>1. First(r) /\ UNCHANGED busy
    BY <1>10, FirstShape DEF hearCategories, flags
  <2>2. QED
    BY <2>1, SavingOne, NoneIsNoWrite DEF First, Saving
<1>11. QED
  BY <1>1, <1>2, <1>4, <1>5, <1>6, <1>7, <1>8, <1>9, <1>10 DEF Next, debounce, retry

\* Nothing is added when the shelf stays as it is: whoever is about to hear of a product still is, or a
\* new draft begins, or it was lost; and a save that is new finds none under way.
LEMMA AddOne ==
    ASSUME TypeInv, AddInv, OneSave', NEW r \in Slots, req' = [req EXCEPT ![r] = req'[r]],
           UNCHANGED product, draft' \in Nat, draft <= draft', unheard \subseteq unheard',
           Pends(r) => draft' # draft \/ req[r].draft \in unheard',
           req'[r].kind = "save" => req'[r].draft = draft /\ Saving = {}
    PROVE  AddInv'
<1>0. draft \in Nat /\ product \in [Products -> Product \cup {None}]
  BY DEF TypeInv, SheetTyped, ServerTyped
<1>1. \A s \in Slots \ {r} : req'[s] = req[s]
  BY DEF TypeInv, RequestsInv
<1>2. AddedOnce'
  BY DEF AddInv, AddedOnce
<1>3. ASSUME NEW p \in Added
      PROVE  /\ product[p].from <= draft'
             /\ product[p].from = draft' /\ draft' \notin unheard' =>
                   \E s \in Slots : Pends(s)' /\ req'[s].draft = draft'
             /\ product[p].from \notin unheard' =>
                   \A s \in Slots : Unmade(s)' => req'[s].draft # product[p].from
  <2>1. product[p].from \in Nat
    BY <1>0 DEF Added, Product
  <2>2. /\ product[p].from <= draft
        /\ product[p].from = draft /\ draft \notin unheard => \E s \in Slots : Pends(s) /\ req[s].draft = draft
        /\ product[p].from \notin unheard => \A s \in Slots : Unmade(s) => req[s].draft # product[p].from
    BY DEF AddInv
  <2>3. ASSUME product[p].from = draft', draft' \notin unheard'
        PROVE  \E s \in Slots : Pends(s)' /\ req'[s].draft = draft'
    <3>1. draft' = draft
      BY <1>0, <2>1, <2>2, <2>3
    <3>2. PICK s \in Slots : Pends(s) /\ req[s].draft = draft
      BY <2>2, <2>3, <3>1
    <3>3. s # r
      BY <2>3, <3>1, <3>2
    <3>4. req'[s] = req[s]
      BY <1>1, <3>3
    <3>5. QED
      BY <3>1, <3>2, <3>4 DEF Pends
  <2>4. ASSUME product[p].from \notin unheard', NEW s \in Slots, Unmade(s)'
        PROVE  req'[s].draft # product[p].from
    <3>1. CASE s = r
      <4>1. req'[r].draft = draft /\ Saving = {}
        BY <2>4, <3>1 DEF Unmade
      <4>2. \A x \in Slots : ~Pends(x)
        BY <4>1 DEF Saving, Pends
      <4>3. draft # product[p].from
        BY <2>2, <2>4, <4>2
      <4>4. QED
        BY <3>1, <4>1, <4>3
    <3>2. CASE s # r
      <4>1. req'[s] = req[s]
        BY <1>1, <3>2
      <4>2. QED
        BY <2>2, <2>4, <4>1 DEF Unmade
    <3>3. QED
      BY <3>1, <3>2
  <2>5. QED
    BY <1>0, <2>1, <2>2, <2>3, <2>4
<1>4. Added' = Added
  BY DEF Added
<1>5. QED
  BY <1>2, <1>3, <1>4 DEF AddInv

LEMMA AddQuiet ==
    ASSUME TypeInv, AddInv, UNCHANGED <<product, req, busy, unheard>>, draft' \in Nat, draft <= draft'
    PROVE  AddInv'
<1>0. draft \in Nat /\ product \in [Products -> Product \cup {None}]
  BY DEF TypeInv, SheetTyped, ServerTyped
<1>1. AddedOnce' /\ OneSave' /\ Added' = Added
  BY DEF AddInv, AddedOnce, OneSave, Saving, Added
<1>2. ASSUME NEW p \in Added
      PROVE  /\ product[p].from <= draft'
             /\ product[p].from = draft' /\ draft' \notin unheard =>
                   \E s \in Slots : Pends(s) /\ req[s].draft = draft'
             /\ product[p].from \notin unheard => \A s \in Slots : Unmade(s) => req[s].draft # product[p].from
  <2>1. product[p].from \in Nat
    BY <1>0 DEF Added, Product
  <2>2. QED
    BY <1>0, <2>1 DEF AddInv
<1>3. \A s \in Slots : (Pends(s)' <=> Pends(s)) /\ (Unmade(s)' <=> Unmade(s))
  BY DEF Pends, Unmade
<1>4. QED
  BY <1>1, <1>2, <1>3 DEF AddInv

\* What the server does but for adding: no product there is more than before, nor of another draft.
LEMMA AddFewer ==
    ASSUME TypeInv, AddInv, NEW r \in Slots, NEW a, Answered(r, a), UNCHANGED <<draft, busy, unheard>>,
           \A p \in Added' : p \in Added /\ product'[p].from = product[p].from, ~req[r].served
    PROVE  AddInv'
<1>1. \A s \in Slots \ {r} : req'[s] = req[s]
  BY DEF Answered, TypeInv, RequestsInv
<1>2. OneSave'
  BY SavingOne DEF Answered, Saving, AddInv
<1>3. AddedOnce'
  BY DEF AddInv, AddedOnce, Added
<1>4. \A s \in Slots : (Pends(s) => Pends(s)') /\ (Unmade(s)' => Unmade(s)) /\ req'[s].draft = req[s].draft
  BY <1>1 DEF Pends, Unmade, Answered
<1>5. ASSUME NEW p \in Added'
      PROVE  /\ product'[p].from <= draft
             /\ product'[p].from = draft /\ draft \notin unheard =>
                   \E s \in Slots : Pends(s)' /\ req'[s].draft = draft
             /\ product'[p].from \notin unheard =>
                   \A s \in Slots : Unmade(s)' => req'[s].draft # product'[p].from
  BY <1>4 DEF AddInv
<1>6. QED
  BY <1>2, <1>3, <1>5 DEF AddInv

\* The server adds a product: its save is about to be heard, and no other is on its way.
LEMMA AddCreates ==
    ASSUME TypeInv, AddInv, NEW r \in Slots, Answered(r, TRUE), UNCHANGED <<draft, busy, unheard>>,
           ~req[r].served, req[r].kind = "save", req[r].id = None,
           NEW x \in Products \ Shelf, product[x] = None, product' = Written(x, req[r].what, req[r].draft)
    PROVE  AddInv'
<1>0. /\ ServerTyped /\ req[r].what \in Form /\ req[r].draft \in Nat /\ req[r].draft <= draft
  BY DEF TypeInv, RequestsInv, Fit
<1>1. product'[x].from = req[r].draft /\ \A p \in Products \ {x} : product'[p] = product[p]
  BY <1>0, WrittenShape
<1>2. \A s \in Slots \ {r} : req'[s] = req[s]
  BY DEF Answered, TypeInv, RequestsInv
<1>3. OneSave'
  BY SavingOne DEF Answered, Saving, AddInv
<1>4. \A s \in Slots : ~Unmade(s)'
  BY <1>2 DEF Unmade, Answered, AddInv, OneSave, Saving
<1>5. Pends(r)' /\ req'[r].draft = req[r].draft
  BY DEF Answered, Pends
<1>6. \A p \in Added' \ {x} : p \in Added /\ product'[p] = product[p]
  BY <1>1 DEF Added
<1>7. \A p \in Added : product[p].from \in unheard \/ product[p].from # req[r].draft
  BY DEF AddInv, Unmade
<1>8. AddedOnce'
  <2>1. \A p \in Added' \ {x} : product'[p].from = product'[x].from => product'[p].from \in unheard'
    BY <1>1, <1>6, <1>7
  <2>2. \A p, q \in Added' \ {x} : product'[p].from = product'[q].from => p = q \/ product'[p].from \in unheard'
    BY <1>6 DEF AddInv, AddedOnce, Added
  <2>3. \A p, q \in Added' : product'[p].from = product'[q].from => p = q \/ product'[p].from \in unheard'
    BY <2>1, <2>2
  <2>4. QED
    BY <2>3 DEF AddedOnce, Added
<1>9. ASSUME NEW p \in Added'
      PROVE  /\ product'[p].from <= draft
             /\ product'[p].from = draft /\ draft \notin unheard =>
                   \E s \in Slots : Pends(s)' /\ req'[s].draft = draft
  <2>1. CASE p = x
    BY <1>0, <1>1, <1>5, <2>1
  <2>2. CASE p # x
    <3>1. p \in Added /\ product'[p] = product[p]
      BY <1>6, <2>2
    <3>2. ASSUME product'[p].from = draft, draft \notin unheard
          PROVE  \E s \in Slots : Pends(s)' /\ req'[s].draft = draft
      <4>1. PICK s \in Slots : Pends(s) /\ req[s].draft = draft
        BY <3>1, <3>2 DEF AddInv
      <4>2. s # r
        BY <4>1 DEF Pends
      <4>3. QED
        BY <1>2, <4>1, <4>2 DEF Pends
    <3>3. QED
      BY <3>1, <3>2 DEF AddInv
  <2>3. QED
    BY <2>1, <2>2
<1>10. QED
  BY <1>3, <1>4, <1>8, <1>9 DEF AddInv

LEMMA AddServe == ASSUME TypeInv, AddInv, NEW r \in Slots, Serve(r) PROVE AddInv'
<1>1. PICK a : Answered(r, a) /\ Outcome(r, a)
  BY ServeShape
<1>2. UNCHANGED <<draft, busy, unheard>> /\ ~req[r].served /\ Fit(req[r]) /\ ServerTyped
  BY ServeShape DEF sheet, flags, TypeInv
<1>3. ASSUME \A p \in Added' : p \in Added /\ product'[p].from = product[p].from
      PROVE  AddInv'
  BY <1>1, <1>2, <1>3, AddFewer
<1>4. CASE UNCHANGED product
  BY <1>3, <1>4 DEF Added
<1>5. ASSUME NEW x \in Products, product[x] # None, req[r].kind = "save",
             product' = Written(x, req[r].what, product[x].from)
      PROVE  AddInv'
  <2>1. req[r].what \in Form /\ product[x].from \in Nat
    BY <1>2, <1>5 DEF Fit, ServerTyped, Product
  <2>2. product'[x].from = product[x].from /\ \A p \in Products \ {x} : product'[p] = product[p]
    BY <1>2, <1>5, <2>1, WrittenShape
  <2>3. QED
    BY <1>3, <1>5, <2>2 DEF Added
<1>6. ASSUME NEW x \in Products, product[x] # None,
             product' = [product EXCEPT ![x].isAvailable = req[r].what]
      PROVE  AddInv'
  <2>1. product[x] \in Product
    BY <1>2, <1>6 DEF ServerTyped
  <2>2. product'[x].from = product[x].from /\ \A p \in Products \ {x} : product'[p] = product[p]
    BY <1>2, <1>6, <2>1 DEF ServerTyped, Product
  <2>3. QED
    BY <1>3, <1>6, <2>2 DEF Added
<1>7. ASSUME NEW x \in Products, product' = [product EXCEPT ![x] = None]
      PROVE  AddInv'
  <2>1. product'[x] = None /\ \A p \in Products \ {x} : product'[p] = product[p]
    BY <1>2, <1>7 DEF ServerTyped
  <2>2. QED
    BY <1>3, <2>1 DEF Added
<1>8. ASSUME a = TRUE, req[r].kind = "save", req[r].id = None,
             NEW x \in Products \ Shelf, product[x] = None, product' = Written(x, req[r].what, req[r].draft)
      PROVE  AddInv'
  BY <1>1, <1>2, <1>8, AddCreates
<1>9. QED
  BY <1>1, <1>4, <1>5, <1>6, <1>7, <1>8 DEF Outcome, server

LEMMA DraftGrows == ASSUME TypeInv, Next PROVE draft \in Nat /\ draft' \in Nat /\ draft <= draft'
<1>1. draft \in Nat
  BY DEF TypeInv, SheetTyped
<1>2. SheetChange
  BY SheetStep
<1>3. QED
  BY <1>1, <1>2 DEF SheetChange, Begins

LEMMA AddFreed ==
    ASSUME TypeInv, AddInv, OneSave', NEW r \in Slots, req' = [req EXCEPT ![r] = Idle],
           UNCHANGED product, draft' \in Nat, draft <= draft', unheard \subseteq unheard',
           Pends(r) => draft' # draft \/ req[r].draft \in unheard'
    PROVE  AddInv'
<1>1. req'[r] = Idle
  BY OthersKept
<1>2. req' = [req EXCEPT ![r] = req'[r]]
  BY <1>1
<1>3. req'[r].kind # "save"
  BY <1>1 DEF Idle
<1>4. QED
  BY <1>2, <1>3, AddOne

LEMMA AddStep == ASSUME TypeInv, AddInv, [Next]_vars PROVE AddInv'
<1>1. CASE UNCHANGED vars
  <2>1. UNCHANGED <<product, req, busy, unheard, draft>> /\ draft \in Nat
    BY <1>1 DEF vars, server, sheet, flags, TypeInv, SheetTyped
  <2>2. QED
    BY <2>1, AddQuiet
<1>2. CASE Next
  <2>0. OneSave' /\ draft \in Nat /\ draft' \in Nat /\ draft <= draft'
    BY <1>2, SavingStep, DraftGrows DEF AddInv
  <2>1. CASE setShowForm \/ closeForm \/ dismiss \/ (\E term \in Terms : setSearch(term))
                \/ (\E row \in rows : startEdit(row) \/ confirmDelete(row)) \/ (\E f \in Fields : type(f))
    <3>1. UNCHANGED <<product, req, busy, unheard>>
      BY <2>1 DEF setShowForm, closeForm, dismiss, setSearch, startEdit, confirmDelete, type, flags, server
    <3>2. QED
      BY <2>0, <3>1, AddQuiet
  <2>2. ASSUME NEW r \in Slots, NEW kind, NEW id, NEW what, NEW term,
               Asked(r, kind, id, what, term), UNCHANGED <<product, unheard>>,
               kind = "save" => Saving = {}
        PROVE  AddInv'
    <3>1. ~Pends(r)
      BY <2>2 DEF Asked, Pends, Idle
    <3>2. QED
      BY <2>0, <2>2, <3>1, AddOne DEF Asked
  <2>3. ASSUME NEW r \in Slots, handleSubmit(r) PROVE AddInv'
    <3>1. Asked(r, "save", editing, form, search)
      BY <2>3, SendShape DEF handleSubmit
    <3>2. Saving = {} /\ UNCHANGED <<product, unheard>>
      BY <2>3 DEF handleSubmit, SaveOffered, AddInv, OneSave, server
    <3>3. QED
      BY <2>2, <3>1, <3>2
  <2>4. ASSUME NEW r \in Slots, \/ loadProducts(r) \/ takePhoto(r)
                                \/ \E row \in rows : handleToggle(r, row) \/ handleDelete(r, row)
        PROVE  AddInv'
    <3>1. /\ UNCHANGED <<product, unheard>>
          /\ \E kind, id, what : Sends(r, Request(kind, id, what)) /\ kind # "save"
      BY <2>4 DEF loadProducts, takePhoto, handleToggle, handleDelete, server
    <3>2. PICK kind, id, what : Sends(r, Request(kind, id, what)) /\ kind # "save"
      BY <3>1
    <3>3. QED
      BY <2>2, <3>1, <3>2, SendShape
  <2>5. ASSUME NEW r \in Slots, handleUndo(r) PROVE AddInv'
    <3>1. UNCHANGED <<product, unheard>>
      BY <2>5 DEF handleUndo, server
    <3>2. QED
      BY <2>2, <2>5, <3>1, UndoShape
  <2>6. ASSUME NEW r \in Slots, handleCapture(r) \/ hearUpload(r) \/ hearSuggestion(r) PROVE AddInv'
    <3>0. UNCHANGED <<product, unheard>> /\ ~Pends(r)
      BY <2>6 DEF handleCapture, hearUpload, hearSuggestion, server, Pends
    <3>1. ASSUME NEW kind \in {"upload", "suggest"}, NEW ph, Captured(r, kind, ph)
          PROVE  AddInv'
      BY <2>0, <3>0, <3>1, AddOne DEF Captured
    <3>2. CASE req' = [req EXCEPT ![r] = Idle]
      BY <2>0, <3>0, <3>2, AddFreed
    <3>3. CASE handleCapture(r)
      BY <3>1, <3>2, <3>3, PictureShape
    <3>4. CASE hearUpload(r) /\ req[r].answer
      BY <3>1, <3>4, KeptShape
    <3>5. CASE hearUpload(r) /\ ~req[r].answer
      BY <3>2, <3>5 DEF hearUpload
    <3>6. CASE hearSuggestion(r)
      BY <3>2, <3>6 DEF hearSuggestion
    <3>7. QED
      BY <2>6, <3>3, <3>4, <3>5, <3>6
  <2>7. ASSUME NEW r \in Slots, hearWrite(r) PROVE AddInv'
    <3>1. Relisted(r) /\ UNCHANGED <<product, unheard>>
      BY <2>7, RelistShape DEF hearWrite, server
    <3>2. Pends(r) => draft' = draft + 1
      BY <2>7 DEF hearWrite, Begins, resetForm, Pends
    <3>3. QED
      BY <2>0, <3>1, <3>2, AddOne DEF Relisted
  <2>8. ASSUME NEW r \in Slots, hearRefusal(r) \/ hearList(r) \/ connectionFails(r) PROVE AddInv'
    <3>1. req' = [req EXCEPT ![r] = Idle] /\ UNCHANGED product
      BY <2>8 DEF hearRefusal, hearList, connectionFails, Concludes, server
    <3>2. unheard \subseteq unheard' /\ (Pends(r) => req[r].draft \in unheard')
      <4>1. CASE hearRefusal(r)
        BY <4>1 DEF hearRefusal, Pends
      <4>2. CASE hearList(r)
        BY <4>2 DEF hearList, Pends
      <4>3. CASE connectionFails(r)
        BY <4>3 DEF connectionFails, Pends, Lists
      <4>4. QED
        BY <2>8, <4>1, <4>2, <4>3
    <3>3. QED
      BY <2>0, <3>1, <3>2, AddFreed
  <2>9. ASSUME NEW r \in Slots, Serve(r) PROVE AddInv'
    BY <2>9, AddServe
  <2>10. ASSUME NEW r \in Slots, hearCategories(r) PROVE AddInv'
    <3>1. First(r) /\ ~Pends(r) /\ UNCHANGED <<product, unheard>>
      BY <2>10, FirstShape DEF hearCategories, server, Pends
    <3>2. QED
      BY <2>0, <3>1, AddOne DEF First
  <2>11. QED
    BY <1>2, <2>1, <2>3, <2>4, <2>5, <2>6, <2>7, <2>8, <2>9, <2>10 DEF Next, debounce, retry
<1>3. QED
  BY <1>1, <1>2

LEMMA InitAdd == Init => AddInv
<1> SUFFICES ASSUME Init PROVE AddInv
  OBVIOUS
<1>1. Added = {}
  BY DEF Init, Added
<1>2. Saving = {}
  BY InitRequests DEF Saving
<1>3. AddedOnce
  BY <1>1 DEF Added, AddedOnce
<1>4. QED
  BY <1>1, <1>2, <1>3 DEF AddInv, OneSave

-----------------------------------------------------------------------------
(* The list tells the shelf *)

\* Nothing the list depends on has changed, or its timer was started.
LEMMA ListSame ==
    ASSUME TypeInv, ListInv, UNCHANGED <<product, rows, crossed>>,
           UNCHANGED <<search, due>> \/ due' = TRUE, Lists' = Lists, Done' = Done,
           \A s \in Lists : req'[s] = req[s] /\ older'[s] = older[s],
           \A s \in Slots : older'[s] \subseteq older[s]
    PROVE  ListInv'
<1>1. Ordered'
  BY DEF ListInv, Ordered
<1>2. \A s \in Slots : (Newest(s))' <=> Newest(s)
  BY DEF Newest
<1>3. ASSUME ~crossed PROVE Current'
  <2>1. Current
    BY <1>3 DEF ListInv
  <2>2. ~due' => \A s \in Slots : (Newest(s))' => req'[s].term = search'
    BY <1>2, <2>1 DEF Current, Newest
  <2>3. ASSUME Done = {}, NEW s \in Slots, Newest(s), req'[s].served
        PROVE  (req[s].answer = Listed(req[s].term))'
    <3>1. s \in Lists /\ req'[s] = req[s]
      BY <2>3 DEF Newest
    <3>2. req[s].answer = Listed(req[s].term)
      BY <2>1, <2>3, <3>1 DEF Current
    <3>3. product' = product
      OBVIOUS
    <3>4. QED
      BY <3>1, <3>2, <3>3 DEF Listed
  <2>4. Done = {} /\ Lists = {} /\ ~due' => (rows = Listed(search))'
    BY <2>1 DEF Current, Listed
  <2>5. QED
    BY <1>2, <2>2, <2>3, <2>4 DEF Current
<1>4. QED
  BY <1>1, <1>3 DEF ListInv

\* A slot that is no list's and stays none's leaves the lists alone.
LEMMA ListOne ==
    ASSUME TypeInv, NEW r \in Slots, req' = [req EXCEPT ![r] = req'[r]],
           r \notin Lists, r \notin Lists', r \in Done' <=> r \in Done
    PROVE  Lists' = Lists /\ Done' = Done /\ \A s \in Lists : req'[s] = req[s]
<1>1. \A s \in Slots \ {r} : req'[s] = req[s]
  BY DEF TypeInv, RequestsInv
<1>2. QED
  BY <1>1 DEF Lists, Writes, Done

LEMMA ListFreed ==
    ASSUME TypeInv, NEW r \in Slots, req' = [req EXCEPT ![r] = Idle], r \notin Lists, r \notin Done
    PROVE  Lists' = Lists /\ Done' = Done /\ \A s \in Lists : req'[s] = req[s]
<1>1. req'[r] = Idle
  BY OthersKept
<1>2. req' = [req EXCEPT ![r] = req'[r]]
  BY <1>1
<1>3. r \notin Lists' /\ r \notin Done'
  BY <1>1 DEF Idle, Lists, Writes, Done
<1>4. QED
  BY <1>2, <1>3, ListOne

\* The list that is asked for is the newest, and no answer to it is there yet.
LEMMA ListAsked ==
    ASSUME TypeInv, ListInv, NEW r \in Slots, r \notin Lists, req' = [req EXCEPT ![r] = req'[r]],
           req'[r].kind = "list", req'[r].served = FALSE, Asks(r, req'[r].term), UNCHANGED search
    PROVE  ListInv'
<1>1. \A s \in Slots \ {r} : req'[s] = req[s]
  BY DEF TypeInv, RequestsInv
<1>2. Lists' = Lists \cup {r}
  BY <1>1 DEF Lists
<1>3. /\ older'[r] = Lists /\ \A s \in Slots \ {r} : older'[s] = older[s]
      /\ crossed' = (req'[r].term # search)
  BY DEF Asks, TypeInv, ListTyped
<1>4. \A s \in Slots : older[s] \subseteq Lists
  BY DEF ListInv, Ordered
<1>5. Ordered'
  <2>1. \A s \in Slots : older'[s] \subseteq Lists'
    BY <1>2, <1>3, <1>4
  <2>2. ASSUME NEW x \in Lists', NEW y \in Lists', x # y PROVE x \in older'[y] \/ y \in older'[x]
    <3>1. CASE x = r \/ y = r
      BY <1>2, <1>3, <2>2, <3>1
    <3>2. CASE x # r /\ y # r
      <4>1. x \in Lists /\ y \in Lists /\ x \in Slots /\ y \in Slots
        BY <1>2, <3>2 DEF Lists
      <4>2. x \in older[y] \/ y \in older[x]
        BY <2>2, <4>1 DEF ListInv, Ordered
      <4>3. QED
        BY <1>3, <3>2, <4>1, <4>2
    <3>3. QED
      BY <3>1, <3>2
  <2>3. QED
    BY <2>1, <2>2 DEF Ordered
<1>6. ASSUME NEW s \in Slots, (Newest(s))' PROVE s = r
  <2>1. SUFFICES ASSUME s # r PROVE FALSE
    OBVIOUS
  <2>2. r \in older'[s]
    BY <1>2, <1>6, <2>1 DEF Newest
  <2>3. QED
    BY <1>3, <1>4, <2>1, <2>2
<1>7. ASSUME ~crossed' PROVE Current'
  BY <1>2, <1>3, <1>6, <1>7 DEF Current
<1>8. QED
  BY <1>5, <1>7 DEF ListInv

LEMMA ListServe == ASSUME TypeInv, ListInv, NEW r \in Slots, Serve(r) PROVE ListInv'
<1>1. PICK a : Answered(r, a) /\ Outcome(r, a)
  BY ServeShape
<1>2. UNCHANGED <<rows, search, due, older, crossed>> /\ ~req[r].served /\ search \in Terms
  BY ServeShape DEF list, TypeInv, ListTyped
<1>3. \A s \in Slots \ {r} : req'[s] = req[s]
  BY <1>1 DEF Answered, TypeInv, RequestsInv
<1>4. Lists' = Lists /\ Writes' = Writes /\ \A s \in Slots : req'[s].term = req[s].term
  BY <1>1, <1>3 DEF Answered, Lists, Writes
<1>5. Ordered' /\ \A s \in Slots : (Newest(s))' <=> Newest(s)
  BY <1>2, <1>4 DEF ListInv, Ordered, Newest
<1>6. ASSUME ~crossed PROVE Current'
  <2>0. Current
    BY <1>6 DEF ListInv
  <2>1. ~due' => \A s \in Slots : (Newest(s))' => req'[s].term = search'
    BY <1>2, <1>4, <1>5, <2>0 DEF Current
  <2>2. CASE r \in Writes /\ a = TRUE
    <3>1. r \in Done'
      BY <1>1, <1>4, <2>2 DEF Done, Answered
    <3>2. QED
      BY <2>1, <3>1 DEF Current
  <2>3. CASE ~(r \in Writes /\ a = TRUE)
    <3>1. UNCHANGED product
      BY <1>1, <2>3 DEF Outcome, Writes, WriteKinds, server
    <3>2. r \in Writes => a = FALSE
      BY <1>1, <2>3 DEF Outcome, Writes, WriteKinds
    <3>3. r \notin Done /\ r \notin Done'
      BY <1>1, <1>2, <3>2 DEF Done, Writes, Answered
    <3>4. Done' = Done
      BY <1>3, <1>4, <3>3 DEF Done, Writes
    <3>5. r \in Lists => a = Listed(req[r].term)
      BY <1>1 DEF Lists, Outcome, WriteKinds
    <3>6. ASSUME Done = {}, NEW s \in Slots, Newest(s), req'[s].served
          PROVE  (req[s].answer = Listed(req[s].term))'
      <4>1. req'[s].answer = Listed(req[s].term)
        <5>1. CASE s = r
          BY <1>1, <3>5, <3>6, <5>1 DEF Answered, Newest
        <5>2. CASE s # r
          BY <1>3, <2>0, <3>6, <5>2 DEF Current
        <5>3. QED
          BY <5>1, <5>2
      <4>2. req'[s].term = req[s].term
        BY <1>4
      <4>3. QED
        BY <3>1, <4>1, <4>2 DEF Listed
    <3>7. Done = {} /\ Lists = {} /\ ~due => (rows = Listed(search))'
      BY <1>2, <2>0, <3>1 DEF Current, Listed
    <3>8. QED
      BY <1>2, <1>4, <1>5, <2>1, <3>4, <3>6, <3>7 DEF Current
  <2>4. QED
    BY <2>2, <2>3
<1>7. QED
  BY <1>2, <1>5, <1>6 DEF ListInv

\* A list that is over leaves the others in their order.
LEMMA OrderKept ==
    ASSUME TypeInv, ListInv, NEW r \in Slots, req' = [req EXCEPT ![r] = Idle], Ends(r)
    PROVE  /\ Ordered' /\ Lists' = Lists \ {r}
           /\ \A s \in Slots \ {r} : req'[s] = req[s] /\ older'[s] = older[s] \ {r}
<1>1. req'[r] = Idle /\ \A s \in Slots \ {r} : req'[s] = req[s]
  BY OthersKept
<1>2. Lists' = Lists \ {r}
  BY <1>1 DEF Lists, Idle
<1>3. older'[r] = {} /\ \A s \in Slots \ {r} : older'[s] = older[s] \ {r}
  BY DEF Ends
<1>4. \A s \in Slots : older'[s] \subseteq Lists'
  BY <1>2, <1>3 DEF ListInv, Ordered
<1>5. ASSUME NEW x \in Lists', NEW y \in Lists', x # y PROVE x \in older'[y] \/ y \in older'[x]
  <2>1. /\ x \in Lists /\ y \in Lists /\ x \in Slots /\ y \in Slots /\ x # r /\ y # r
    BY <1>2 DEF Lists
  <2>2. x \in older[y] \/ y \in older[x]
    BY <1>5, <2>1 DEF ListInv, Ordered
  <2>3. QED
    BY <1>3, <2>1, <2>2
<1>6. QED
  BY <1>1, <1>2, <1>3, <1>4, <1>5 DEF Ordered

\* The list that is heard before all others is the only one, or the newest stays the newest.
LEMMA ListHeard == ASSUME TypeInv, ListInv, NEW r \in Slots, hearList(r) PROVE ListInv'
<1>1. /\ UNCHANGED <<product, search, due>> /\ r \in Lists /\ rows' = req[r].answer /\ req[r].served
      /\ crossed' = (crossed \/ older[r] # {}) /\ req' = [req EXCEPT ![r] = Idle] /\ Ends(r)
      /\ search \in Terms
  BY DEF hearList, Concludes, server, Lists, TypeInv, ListTyped
<1>2. /\ Ordered' /\ Lists' = Lists \ {r}
      /\ \A s \in Slots \ {r} : req'[s] = req[s] /\ older'[s] = older[s] \ {r}
  BY <1>1, OrderKept
<1>3. Done' = Done
  <2>1. req'[r] = Idle /\ req[r].kind = "list"
    BY <1>1, OthersKept DEF Lists
  <2>2. QED
    BY <1>2, <2>1 DEF Done, Writes, Idle
<1>4. ASSUME ~crossed' PROVE Current'
  <2>1. Current /\ older[r] = {}
    BY <1>1, <1>4 DEF ListInv
  <2>2. ASSUME NEW s \in Slots, (Newest(s))'
        PROVE  s \in Slots \ {r} /\ Newest(s) /\ req[s].term \in Terms
    <3>1. s \in Lists /\ s # r /\ r # s /\ Lists' \ {s} \subseteq older'[s]
      BY <1>2, <2>2 DEF Newest
    <3>2. r \in older[s]
      BY <1>1, <2>1, <3>1 DEF ListInv, Ordered
    <3>3. Lists \ {s} \subseteq older[s]
      BY <1>2, <3>1, <3>2
    <3>4. QED
      BY <3>1, <3>3 DEF Newest, TypeInv, RequestsInv, Fit
  <2>3. ~due' => \A s \in Slots : (Newest(s))' => req'[s].term = search'
    BY <1>1, <1>2, <2>1, <2>2 DEF Current
  <2>4. ASSUME Done = {}, NEW s \in Slots, (Newest(s))', req'[s].served
        PROVE  (req[s].answer = Listed(req[s].term))'
    <3>1. Newest(s) /\ req'[s] = req[s]
      BY <1>2, <2>2, <2>4
    <3>2. req[s].answer = Listed(req[s].term)
      BY <2>1, <2>4, <3>1 DEF Current
    <3>3. QED
      BY <1>1, <3>1, <3>2 DEF Listed
  <2>5. Done = {} /\ Lists' = {} /\ ~due' => (rows = Listed(search))'
    <3>1. Lists' = {} => Newest(r)
      BY <1>1, <1>2 DEF Newest
    <3>2. QED
      BY <1>1, <2>1, <3>1 DEF Current, Listed
  <2>6. QED
    BY <1>3, <2>3, <2>4, <2>5 DEF Current
<1>5. QED
  BY <1>2, <1>4 DEF ListInv

LEMMA ListStep == ASSUME TypeInv, ListInv, [Next]_vars PROVE ListInv'
<1>1. ASSUME UNCHANGED <<product, rows, older, crossed, req>>, UNCHANGED <<search, due>> \/ due' = TRUE
      PROVE  ListInv'
  <2>1. Lists' = Lists /\ Done' = Done
    BY <1>1 DEF Lists, Writes, Done
  <2>2. QED
    BY <1>1, <2>1, ListSame
<1>2. CASE UNCHANGED vars
  BY <1>1, <1>2 DEF vars, server, list
<1>3. CASE setShowForm \/ closeForm \/ dismiss \/ (\E term \in Terms : setSearch(term))
              \/ (\E row \in rows : startEdit(row) \/ confirmDelete(row)) \/ (\E f \in Fields : type(f))
  BY <1>1, <1>3 DEF setShowForm, closeForm, dismiss, setSearch, startEdit, confirmDelete, type, list, server
<1>4. ASSUME NEW r \in Slots, loadProducts(r) PROVE ListInv'
  <2>1. Asked(r, "list", None, None, search) /\ Asks(r, search) /\ UNCHANGED search
    BY <1>4, SendShape DEF loadProducts
  <2>2. r \notin Lists
    BY <2>1 DEF Asked, Lists, Idle
  <2>3. QED
    BY <2>1, <2>2, ListAsked DEF Asked
<1>5. ASSUME NEW r \in Slots, hearCategories(r) PROVE ListInv'
  <2>1. First(r) /\ Asks(r, "all") /\ UNCHANGED search /\ r \notin Lists
    BY <1>5, FirstShape DEF hearCategories, Lists
  <2>2. QED
    BY <2>1, ListAsked DEF First
<1>6. ASSUME NEW r \in Slots, hearWrite(r) PROVE ListInv'
  <2>1. Relisted(r) /\ Asks(r, req[r].term) /\ UNCHANGED search /\ r \notin Lists
    BY <1>6, RelistShape DEF hearWrite, Lists, Writes
  <2>2. QED
    BY <2>1, ListAsked DEF Relisted
<1>7. ASSUME NEW r \in Slots, req' = [req EXCEPT ![r] = req'[r]], r \notin Lists, r \notin Lists',
             r \notin Done, r \notin Done', UNCHANGED <<product, rows, search, due, older, crossed>>
      PROVE  ListInv'
  <2>1. Lists' = Lists /\ Done' = Done /\ \A s \in Lists : req'[s] = req[s]
    BY <1>7, ListOne
  <2>2. QED
    BY <1>7, <2>1, ListSame DEF Lists
<1>8. ASSUME NEW r \in Slots, NEW kind, NEW id, NEW what, NEW term, Asked(r, kind, id, what, term),
             kind # "list", UNCHANGED <<product, rows, search, due, older, crossed>>
      PROVE  ListInv'
  <2>1. r \notin Lists /\ r \notin Lists' /\ r \notin Done /\ r \notin Done'
    BY <1>8 DEF Asked, Lists, Writes, Done, Idle
  <2>2. QED
    BY <1>7, <1>8, <2>1 DEF Asked
<1>9. ASSUME NEW r \in Slots, \/ takePhoto(r) \/ handleSubmit(r)
                              \/ \E row \in rows : handleToggle(r, row) \/ handleDelete(r, row)
      PROVE  ListInv'
  <2>1. /\ UNCHANGED <<product, rows, search, due, older, crossed>>
        /\ \E kind, id, what : kind # "list" /\ Sends(r, Request(kind, id, what))
    BY <1>9 DEF takePhoto, handleSubmit, handleToggle, handleDelete, server, list
  <2>2. PICK kind, id, what : kind # "list" /\ Sends(r, Request(kind, id, what))
    BY <2>1
  <2>3. QED
    BY <1>8, <2>1, <2>2, SendShape
<1>10. ASSUME NEW r \in Slots, handleUndo(r) PROVE ListInv'
  <2>1. UNCHANGED <<product, rows, search, due, older, crossed>>
    BY <1>10 DEF handleUndo, server
  <2>2. QED
    BY <1>8, <1>10, <2>1, UndoShape
<1>11. ASSUME NEW r \in Slots, req' = [req EXCEPT ![r] = Idle], r \notin Lists, r \notin Done,
              UNCHANGED <<product, rows, search, due, crossed>>, older' = older \/ Ends(r)
       PROVE  ListInv'
  <2>1. Lists' = Lists /\ Done' = Done /\ \A s \in Lists : req'[s] = req[s]
    BY <1>11, ListFreed
  <2>2. \A s \in Slots : older[s] \subseteq Lists
    BY DEF ListInv, Ordered
  <2>3. /\ \A s \in Lists : older'[s] = older[s]
        /\ \A s \in Slots : older'[s] \subseteq older[s]
    <3>1. CASE older' = older
      BY <3>1
    <3>2. CASE Ends(r)
      <4>1. \A s \in Slots : older'[s] = IF s = r THEN {} ELSE older[s] \ {r}
        BY <3>2 DEF Ends
      <4>2. \A s \in Lists : s \in Slots /\ s # r /\ r \notin older[s]
        BY <1>11, <2>2 DEF Lists
      <4>3. QED
        BY <4>1, <4>2
    <3>3. QED
      BY <1>11, <3>1, <3>2
  <2>4. QED
    BY <1>11, <2>1, <2>3, ListSame
<1>12. ASSUME NEW r \in Slots, handleCapture(r) \/ hearUpload(r) \/ hearSuggestion(r) PROVE ListInv'
  <2>0. /\ UNCHANGED <<product, rows, search, due, older, crossed>>
        /\ r \notin Lists /\ r \notin Done
    BY <1>12 DEF handleCapture, hearUpload, hearSuggestion, server, list, Lists, Writes, Done
  <2>1. ASSUME NEW kind \in {"upload", "suggest"}, NEW ph, Captured(r, kind, ph)
        PROVE  ListInv'
    BY <1>7, <2>0, <2>1 DEF Captured, Lists, Writes, Done
  <2>2. CASE req' = [req EXCEPT ![r] = Idle]
    BY <1>11, <2>0, <2>2
  <2>3. CASE handleCapture(r)
    BY <2>1, <2>2, <2>3, PictureShape
  <2>4. CASE hearUpload(r) /\ req[r].answer
    BY <2>1, <2>4, KeptShape
  <2>5. CASE hearUpload(r) /\ ~req[r].answer
    BY <2>2, <2>5 DEF hearUpload
  <2>6. CASE hearSuggestion(r)
    BY <2>2, <2>6 DEF hearSuggestion
  <2>7. QED
    BY <1>12, <2>3, <2>4, <2>5, <2>6
<1>13. ASSUME NEW r \in Slots, hearRefusal(r) PROVE ListInv'
  <2>1. /\ UNCHANGED <<product, rows, search, due, older, crossed>> /\ req' = [req EXCEPT ![r] = Idle]
        /\ r \notin Lists /\ r \notin Done
    BY <1>13 DEF hearRefusal, server, list, Lists, Writes, Done
  <2>2. QED
    BY <1>11, <2>1
<1>14. ASSUME NEW r \in Slots, connectionFails(r) PROVE ListInv'
  <2>1. /\ crossed' = (crossed \/ r \in Lists \cup Writes) /\ req' = [req EXCEPT ![r] = Idle] /\ Ends(r)
        /\ UNCHANGED <<product, rows, search, due>>
    BY <1>14 DEF connectionFails, Concludes, server
  <2>2. CASE r \in Lists \cup Writes
    BY <2>1, <2>2, OrderKept DEF ListInv
  <2>3. CASE r \notin Lists \cup Writes
    <3>1. UNCHANGED crossed /\ r \notin Lists /\ r \notin Done
      BY <2>1, <2>3 DEF Done, TypeInv, ListTyped
    <3>2. QED
      BY <1>11, <2>1, <3>1
  <2>4. QED
    BY <2>2, <2>3
<1>15. QED
  BY <1>2, <1>3, <1>4, <1>5, <1>6, <1>9, <1>10, <1>12, <1>13, <1>14, ListServe, ListHeard
  DEF Next, debounce, retry

LEMMA InitList == Init => ListInv
<1> SUFFICES ASSUME Init PROVE ListInv
  OBVIOUS
<1>1. Lists = {}
  BY InitRequests DEF Lists
<1>2. (\A s \in Slots : older[s] = {}) /\ (~due => rows = Listed(search))
  BY DEF Init
<1>3. Ordered
  BY <1>1, <1>2 DEF Ordered
<1>4. Current
  BY <1>1, <1>2 DEF Current, Newest
<1>5. QED
  BY <1>3, <1>4 DEF ListInv

-----------------------------------------------------------------------------
(* The theorems *)

\* In every reachable state: everything is of its type, a form is for one draft, the photos that are
\* referred to are stored, saves are one at a time, the lists on their way are in the order they were
\* asked for, and unless `crossed` the last of them tells the shelf.
THEOREM ProductsInvariant == Spec => []ProductsInv
  <1>1. Init => ProductsInv
    BY InitType, InitDraft, InitPhoto, InitAdd, InitList DEF ProductsInv
  <1>2. ProductsInv /\ [Next]_vars => ProductsInv'
    BY TypeStep, DraftStep, PhotoStep, AddStep, ListStep DEF ProductsInv
  <1>3. QED
    BY <1>1, <1>2, PTL DEF Spec

\* What was typed, or loaded to be edited, is never overwritten by what was read of a photo, however late
\* the reading comes.
THEOREM TypedIsKeptHolds == Spec => TypedIsKept
  <1>1. ProductsInv /\ [Next]_vars =>
            [\A f \in Fields :
                form.given[f] # None /\ form.given[f].by # "read" =>
                    form'.given[f] = None \/ form'.given[f].by # "read"]_vars
    BY TypedStep DEF ProductsInv
  <1>2. QED
    BY <1>1, ProductsInvariant, PTL DEF Spec, TypedIsKept

\* What was typed or loaded is of the product the form is open on; a photo or its reading is another's
\* only if it was under way when the form was opened.
THEOREM OneProductPerFormHolds == Spec => []OneProductPerForm
  <1>1. ProductsInv => OneProductPerForm
    BY DEF ProductsInv, DraftInv
  <1>2. QED
    BY <1>1, ProductsInvariant, PTL

\* A form adds one product, unless the answer was not heard.
THEOREM AddedOnceHolds == Spec => []AddedOnce
  <1>1. ProductsInv => AddedOnce
    BY DEF ProductsInv, AddInv
  <1>2. QED
    BY <1>1, ProductsInvariant, PTL

\* No product, listed row or form refers to a photo that the storage does not keep.
THEOREM PhotoIsStoredHolds == Spec => []PhotoIsStored
  <1>1. ProductsInv => PhotoIsStored
    BY DEF ProductsInv, PhotoInv
  <1>2. QED
    BY <1>1, ProductsInvariant, PTL

\* When nothing is on its way the list is the shelf's for the term in the box, from the opening of the
\* screen on; unless the last list asked for was for another term, or since it an answer overtook an
\* older one or was lost.
THEOREM ListTellsShelfHolds == Spec => []ListTellsShelf
  <1>1. ProductsInv => ListTellsShelf
    <2>1. SUFFICES ASSUME ProductsInv, ~due, ~crossed, \A r \in Slots : req[r] = Idle
                   PROVE  rows = Listed(search)
      BY DEF ListTellsShelf
    <2>2. Lists = {} /\ Writes = {}
      BY <2>1 DEF Lists, Writes, Idle
    <2>3. Done = {}
      BY <2>2 DEF Done
    <2>4. QED
      BY <2>1, <2>2, <2>3 DEF ProductsInv, ListInv, Current
  <1>2. QED
    BY <1>1, ProductsInvariant, PTL
=============================================================================
