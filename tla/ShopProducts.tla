---------------------------- MODULE ShopProducts ----------------------------
(***************************************************************************)
(* The shopkeeper's product screen and the shelf behind it: a list that is *)
(* searched, and one form that serves to add and to edit.  A photo fills   *)
(* the form in two requests, while the shopkeeper goes on typing, saving,  *)
(* closing the form or opening it on something else; whatever comes back   *)
(* is put in the form that is there by then.                               *)
(*                                                                         *)
(* A form is filled for one product at a time: a draft.  Drafts are        *)
(* counted, and every value remembers the draft it was meant for.          *)
(***************************************************************************)
EXTENDS Naturals, FiniteSets

CONSTANTS Products,     \* those on the shelf at first, and those that may be added
          Shelf,        \* those on the shelf at first
          Matching,     \* those whose name the search term matches
          Fields,       \* what must be filled: "name" and the others
          Photos,
          MaxInFlight,  \* bound: requests on their way at once
          Days,         \* bound: what the shopkeeper does, and how many drafts are begun
          None          \* null, ""

ASSUME NameIsAField == "name" \in Fields
ASSUME NoneIsNoWrite == None \notin {"save", "toggle", "undo", "delete"}
ASSUME ShelfIsOfProducts == Shelf \subseteq Products

Slots == 1..MaxInFlight
Terms == {"all", "term"}

VARIABLES
    day,        \* which of the Days it is
    product,    \* the server's products: isAvailable, the photo and (history) the draft each is
                \* from; None when there is no such row
    stored,     \* the photos the image storage keeps
    rows,       \* the products listed
    search, due,\* what the search box says; its timer runs
    loadFailed, \* the last list could not be read
    form,       \* what the form holds, and its photo
    draft,      \* history: the draft it is for
    editing,    \* the product it edits; None to add one
    showForm,   \* it is open
    busy, uploading, suggesting,
    confirming, \* the product whose deletion is asked to be confirmed
    undo,       \* the availability the toast offers to put back
    req,        \* requests on their way
    straddled,  \* history: this draft began with a photo under way
    older,      \* history: of each list on its way, the lists on their way that were asked for before
    crossed,    \* history: the last list was asked for another term than the box's, or since then an
                \* answer overtook an older one or was not heard
    unheard     \* history: drafts of which a save was not heard

list == <<rows, search, due, loadFailed, confirming, undo, older, crossed>>
sheet == <<form, draft, editing, showForm, straddled>>
flags == <<busy, uploading, suggesting>>
server == <<product, stored>>
vars == <<day, server, list, sheet, flags, req, unheard>>

\* What a field holds: by whom it was given ("typed", "read", "saved") and for which draft; the
\* photo, likewise, says for which draft it was taken.
EMPTY_FORM == [given |-> [f \in Fields |-> None], photo |-> None]

\* A request: on which product, with what, the search term to list again, its draft, and for a
\* list what it comes after.
Idle == [kind |-> "idle", id |-> None, what |-> None, term |-> "all", draft |-> 0,
         after |-> None, served |-> FALSE, answer |-> None]
Request(kind, id, what) ==
    [Idle EXCEPT !.kind = kind, !.id = id, !.what = what, !.term = search, !.draft = draft]

Captures == {r \in Slots : req[r].kind \in {"pick", "upload", "suggest"}}
Lists == {r \in Slots : req[r].kind = "list"}
Writes == {r \in Slots : req[r].kind \in {"save", "toggle", "undo", "delete"}}

Sends(r, q) ==
    /\ req[r] = Idle /\ \A s \in 1..(r - 1) : req[s] # Idle
    /\ req' = [req EXCEPT ![r] = q]

Listed(term) ==
    {[id |-> p, isAvailable |-> product[p].isAvailable, photo |-> product[p].photo] :
        p \in {x \in Products : product[x] # None /\ (term = "term" => x \in Matching)}}

\* The screen is opened: the categories are asked for, and the timer of the empty box runs.  Bound: a
\* day that does not open it begins when the first list has been read.
Opening == "open" \in day.does

Init ==
    /\ day \in Days
    /\ product = [p \in Products |->
                    IF p \in Shelf THEN [isAvailable |-> TRUE, photo |-> None, from |-> 0] ELSE None]
    /\ stored = {}
    /\ search = "all" /\ due = Opening /\ loadFailed = FALSE
    /\ rows = IF Opening THEN {} ELSE Listed("all")
    /\ confirming = None /\ undo = None
    /\ form = EMPTY_FORM /\ draft = 1 /\ editing = None /\ showForm = FALSE
    /\ busy = FALSE /\ uploading = FALSE /\ suggesting = FALSE
    /\ req = [r \in Slots |-> IF Opening /\ r = 1 THEN [Idle EXCEPT !.kind = "categories"] ELSE Idle]
    /\ straddled = FALSE /\ older = [r \in Slots |-> {}] /\ crossed = FALSE /\ unheard = {}

-----------------------------------------------------------------------------
(* The server *)

\* A payload without a photo leaves the product's own.
Written(p, q, from) ==
    [product EXCEPT ![p] =
        [isAvailable |-> IF @ = None THEN TRUE ELSE @.isAvailable, from |-> from,
         photo |-> IF q.photo # None THEN q.photo.id ELSE IF @ = None THEN None ELSE @.photo]]

Answers(r, a) == req' = [req EXCEPT ![r].served = TRUE, ![r].answer = a]

create(r) ==
    \E p \in {x \in Products \ Shelf : product[x] = None} :
        product' = Written(p, req[r].what, req[r].draft) /\ Answers(r, TRUE)

\* Another shop's product, or one deleted, is not found.
update(r) ==
    LET p == req[r].id
    IN  IF product[p] = None THEN Answers(r, FALSE) /\ UNCHANGED product
        ELSE /\ product' = IF req[r].kind = "save" THEN Written(p, req[r].what, product[p].from)
                           ELSE [product EXCEPT ![p].isAvailable = req[r].what]
             /\ Answers(r, TRUE)

\* A product some order names is not deleted: any of them may be.
remove(r) ==
    \/ product[req[r].id] # None /\ product' = [product EXCEPT ![req[r].id] = None] /\ Answers(r, TRUE)
    \/ Answers(r, FALSE) /\ UNCHANGED product

\* The storage keeps the photo under a key of its own, or fails.
store(r) == stored' = stored \cup {req[r].what}

\* storeImage that answers before the file is written.
storeImage_AnswersFirst(r) == Answers(r, TRUE) /\ (store(r) \/ UNCHANGED stored)
\* Not an image, or not kept: refused.
storeImage(r) ==
    \/ store(r) /\ Answers(r, TRUE)
    \/ UNCHANGED stored /\ Answers(r, FALSE)

\* What could be read of a photo: a name and perhaps more, or nothing to rely on.
Readings == {{}} \cup {S \in SUBSET Fields : "name" \in S}

suggestFromPhoto(r) == \E read \in Readings : Answers(r, read)

Serve(r) ==
    /\ req[r].kind \notin {"idle", "pick"} /\ ~req[r].served
    /\ CASE req[r].kind = "list" -> Answers(r, Listed(req[r].term)) /\ UNCHANGED server
         [] req[r].kind = "categories" -> Answers(r, TRUE) /\ UNCHANGED server
         [] req[r].kind = "upload" -> storeImage(r) /\ UNCHANGED product
         [] req[r].kind = "suggest" -> suggestFromPhoto(r) /\ UNCHANGED server
         [] req[r].kind = "delete" -> remove(r) /\ UNCHANGED stored
         [] req[r].kind = "save" /\ req[r].id = None -> create(r) /\ UNCHANGED stored
         [] OTHER -> update(r) /\ UNCHANGED stored
    /\ UNCHANGED <<day, list, sheet, flags, unheard>>

-----------------------------------------------------------------------------
(* The list *)

\* A list is asked for: what the screen shows will be the shelf for this term.
Asks(r, term) ==
    /\ older' = [older EXCEPT ![r] = Lists]
    /\ crossed' = (term # search)

\* It is answered, or never will be.
Ends(r) == older' = [s \in Slots |-> IF s = r THEN {} ELSE older[s] \ {r}]

setSearch(term) ==
    /\ "search" \in day.does
    /\ term # search
    /\ search' = term /\ due' = TRUE
    /\ UNCHANGED <<day, server, rows, loadFailed, confirming, undo, older, crossed, sheet, flags, req,
                   unheard>>

\* loadProducts of what the box says, by the timer 250 ms after the last key, once also when the
\* screen opens, or by the button that a failed list shows.
loadProducts(r) ==
    /\ Sends(r, Request("list", None, None))
    /\ Asks(r, search)
    /\ UNCHANGED <<day, server, rows, search, loadFailed, confirming, undo, sheet, flags, unheard>>

debounce(r) == due /\ due' = FALSE /\ loadProducts(r)

retry(r) == loadFailed /\ loadProducts(r) /\ UNCHANGED due

\* The categories were read: the first list is asked for, of all products whatever the box says by now.
hearCategories(r) ==
    /\ req[r].kind = "categories" /\ req[r].served
    /\ req' = [req EXCEPT ![r] = [Idle EXCEPT !.kind = "list"]]
    /\ Asks(r, "all")
    /\ UNCHANGED <<day, server, rows, search, due, loadFailed, confirming, undo, sheet, flags, unheard>>

-----------------------------------------------------------------------------
(* The form *)

\* A draft begins: the form holds what this product has, and nothing of the last one's.
Begins(f, id) ==
    /\ form' = f /\ editing' = id /\ draft' = draft + 1
    /\ straddled' = (Captures # {})

\* Room for the drafts that those on their way may begin.
RoomForDraft ==
    draft + Cardinality({r \in Slots : req[r].kind \in {"save", "delete"} \/ req[r].after = "delete"})
        < day.drafts

setShowForm ==
    /\ ~showForm /\ showForm' = TRUE
    /\ UNCHANGED <<day, server, list, form, draft, editing, straddled, flags, req, unheard>>

\* The fields alone, where the photo is forgotten.
resetForm_KeepsPhoto == Begins([EMPTY_FORM EXCEPT !.photo = form.photo], None) /\ showForm' = FALSE
resetForm == Begins(EMPTY_FORM, None) /\ showForm' = FALSE

closeForm ==
    /\ showForm /\ RoomForDraft
    /\ resetForm
    /\ UNCHANGED <<day, server, list, flags, req, unheard>>

\* What can be done with a product listed: while its deletion is to be confirmed, no more than that.
RowOffers(row) ==
    {"toggle"} \cup IF confirming = row.id THEN {"yesDelete", "keep"} ELSE {"edit", "delete"}

startEdit(row) ==
    /\ "edit" \in day.does /\ row \in rows /\ "edit" \in RowOffers(row)
    /\ RoomForDraft
    /\ Begins([given |-> [f \in Fields |-> [by |-> "saved", draft |-> draft + 1]],
               photo |-> IF row.photo = None THEN None ELSE [id |-> row.photo, draft |-> draft + 1]],
              row.id)
    /\ showForm' = TRUE /\ confirming' = None
    /\ UNCHANGED <<day, server, rows, search, due, loadFailed, undo, older, crossed, flags, req,
                   unheard>>

type(f) ==
    /\ showForm
    /\ \E v \in {None, [by |-> "typed", draft |-> draft]} :
          form.given[f] # v /\ form' = [form EXCEPT !.given[f] = v]
    /\ UNCHANGED <<day, server, list, draft, editing, showForm, straddled, flags, req, unheard>>

-----------------------------------------------------------------------------
(* A photo *)

PhotoOffered == showForm /\ ~uploading /\ ~suggesting

\* takePhoto, pickFromLibrary: the camera or the gallery is opened.
takePhoto(r) ==
    /\ "photo" \in day.does /\ PhotoOffered
    /\ Sends(r, Request("pick", None, None))
    /\ UNCHANGED <<day, server, list, sheet, flags, unheard>>

unusedKeys == Photos \ (stored \cup {req[s].what : s \in Slots})

\* handleCapture of a picture; without one it returns at once.
handleCapture(r) ==
    /\ req[r].kind = "pick"
    /\ \/ /\ \E ph \in unusedKeys :
                req' = [req EXCEPT ![r].kind = "upload", ![r].what = ph]
          /\ uploading' = TRUE
       \/ req' = [req EXCEPT ![r] = Idle] /\ UNCHANGED uploading
    /\ UNCHANGED <<day, server, list, sheet, busy, suggesting, unheard>>

hearUpload(r) ==
    /\ req[r].kind = "upload" /\ req[r].served
    /\ uploading' = FALSE
    /\ IF req[r].answer
       THEN /\ form' = [form EXCEPT !.photo = [id |-> req[r].what, draft |-> req[r].draft]]
            /\ req' = [req EXCEPT ![r].kind = "suggest", ![r].served = FALSE, ![r].answer = None]
            /\ suggesting' = TRUE
       ELSE req' = [req EXCEPT ![r] = Idle] /\ UNCHANGED <<form, suggesting>>
    /\ UNCHANGED <<day, server, list, draft, editing, showForm, straddled, busy, unheard>>

\* Whatever the form holds, what was read of the photo goes over it.
filled_Over(r) ==
    [f \in Fields |->
        IF f \in req[r].answer THEN [by |-> "read", draft |-> req[r].draft] ELSE form.given[f]]
\* Only the fields that are empty when the answer comes.
filled(r) ==
    [f \in Fields |->
        IF f \in req[r].answer /\ form.given[f] = None THEN [by |-> "read", draft |-> req[r].draft]
        ELSE form.given[f]]

hearSuggestion(r) ==
    /\ req[r].kind = "suggest" /\ req[r].served
    /\ form' = [form EXCEPT !.given = filled(r)]
    /\ suggesting' = FALSE
    /\ req' = [req EXCEPT ![r] = Idle]
    /\ UNCHANGED <<day, server, list, draft, editing, showForm, straddled, busy, uploading, unheard>>

-----------------------------------------------------------------------------
(* Saving, switching and deleting *)

Ready == \A f \in Fields : form.given[f] # None

\* Not while a save or a photo is on its way up.
SaveOffered == showForm /\ ~busy /\ ~uploading

\* The save button, were it not disabled while a save is on its way.
handleSubmit_NotDisabled(r) ==
    /\ "save" \in day.does /\ showForm /\ ~uploading
    /\ Ready /\ RoomForDraft
    /\ editing = None => Products \ Shelf # {p \in Products \ Shelf : product[p] # None}
    /\ Sends(r, Request("save", editing, form))
    /\ busy' = TRUE
    /\ UNCHANGED <<day, server, list, sheet, uploading, suggesting, unheard>>
\* Bound: a row is left for a product to be added.
handleSubmit(r) ==
    /\ "save" \in day.does /\ SaveOffered
    /\ Ready /\ RoomForDraft
    /\ editing = None => Products \ Shelf # {p \in Products \ Shelf : product[p] # None}
    /\ Sends(r, Request("save", editing, form))
    /\ busy' = TRUE
    /\ UNCHANGED <<day, server, list, sheet, uploading, suggesting, unheard>>

handleToggle(r, row) ==
    /\ "toggle" \in day.does /\ row \in rows /\ "toggle" \in RowOffers(row)
    /\ Sends(r, Request("toggle", row.id, ~row.isAvailable))
    /\ UNCHANGED <<day, server, list, sheet, flags, unheard>>

\* The toast's action: the availability the row showed, and the term searched, when it was tapped.
handleUndo(r) ==
    /\ undo # None /\ undo' = None
    /\ Sends(r, [Request("undo", undo.id, undo.was) EXCEPT !.term = undo.term])
    /\ UNCHANGED <<day, server, rows, search, due, loadFailed, confirming, older, crossed, sheet, flags,
                   unheard>>

\* The toast goes after some seconds.
dismiss ==
    /\ undo # None /\ undo' = None
    /\ UNCHANGED <<day, server, rows, search, due, loadFailed, confirming, older, crossed, sheet, flags,
                   req, unheard>>

\* Asked of this product, whichever it was asked of before, or of none.
confirmDelete(row) ==
    /\ "delete" \in day.does /\ row \in rows
    /\ \/ "delete" \in RowOffers(row) /\ confirming' = row.id
       \/ "keep" \in RowOffers(row) /\ confirming' = None
    /\ UNCHANGED <<day, server, rows, search, due, loadFailed, undo, older, crossed, sheet, flags, req,
                   unheard>>

\* It keeps the product that was edited when it was tapped.
handleDelete(r, row) ==
    /\ row \in rows /\ "yesDelete" \in RowOffers(row) /\ RoomForDraft
    /\ Sends(r, Request("delete", row.id, editing))
    /\ UNCHANGED <<day, server, list, sheet, flags, unheard>>

\* A write that is not followed by a list.
ThenLists_Not(r) == req' = [req EXCEPT ![r] = Idle] /\ UNCHANGED <<older, crossed>>
\* What a write leaves behind it: the list, read again for the term searched when it was tapped.
ThenLists(r) ==
    /\ req' = [req EXCEPT ![r] = [@ EXCEPT !.kind = "list", !.after = req[r].kind, !.served = FALSE,
                                           !.answer = None]]
    /\ Asks(r, req[r].term)

hearWrite(r) ==
    /\ r \in Writes /\ req[r].served /\ req[r].answer
    /\ ThenLists(r)
    /\ IF req[r].kind = "save"
       THEN IF req[r].id = None THEN Begins(EMPTY_FORM, editing) /\ UNCHANGED showForm ELSE resetForm
       ELSE UNCHANGED sheet
    /\ confirming' = IF req[r].kind = "delete" THEN None ELSE confirming
    /\ UNCHANGED <<day, server, rows, search, due, loadFailed, undo, flags, unheard>>

hearRefusal(r) ==
    /\ r \in Writes /\ req[r].served /\ ~req[r].answer
    /\ busy' = (busy /\ req[r].kind # "save")
    /\ req' = [req EXCEPT ![r] = Idle]
    /\ UNCHANGED <<day, server, list, sheet, uploading, suggesting, unheard>>

\* After the list, read or not: the save is over, the toast shown, the form of a product that was
\* deleted put away.
Concludes(r) ==
    /\ busy' = (busy /\ req[r].after # "save")
    /\ undo' = CASE req[r].after = "toggle" -> [id |-> req[r].id, was |-> ~req[r].what, term |-> req[r].term]
                 [] req[r].after \in {"save", "delete"} -> None
                 [] OTHER -> undo
    /\ IF req[r].after = "delete" /\ req[r].what = req[r].id THEN resetForm ELSE UNCHANGED sheet
    /\ req' = [req EXCEPT ![r] = Idle]

hearList(r) ==
    /\ req[r].kind = "list" /\ req[r].served
    /\ rows' = req[r].answer /\ loadFailed' = FALSE
    /\ Concludes(r) /\ Ends(r)
    /\ crossed' = (crossed \/ older[r] # {})
    /\ UNCHANGED <<day, server, search, due, confirming, uploading, suggesting, unheard>>

\* fetch rejects: an error is shown, and the server has acted or has not.
connectionFails(r) ==
    /\ req[r].kind \notin {"idle", "pick"}
    /\ Ends(r)
    /\ crossed' = (crossed \/ r \in Lists \cup Writes)
    /\ IF r \in Lists THEN loadFailed' = TRUE /\ Concludes(r) /\ UNCHANGED <<uploading, suggesting, unheard>>
       ELSE /\ busy' = (busy /\ req[r].kind # "save")
            /\ uploading' = (uploading /\ req[r].kind # "upload")
            /\ suggesting' = (suggesting /\ req[r].kind # "suggest")
            /\ unheard' = IF req[r].kind = "save" THEN unheard \cup {req[r].draft} ELSE unheard
            /\ req' = [req EXCEPT ![r] = Idle]
            /\ UNCHANGED <<loadFailed, undo, sheet>>
    /\ UNCHANGED <<day, server, rows, search, due, confirming>>

Next ==
    \/ setShowForm \/ closeForm \/ dismiss
    \/ \E term \in Terms : setSearch(term)
    \/ \E row \in rows : startEdit(row) \/ confirmDelete(row)
    \/ \E f \in Fields : type(f)
    \/ \E r \in Slots :
          \/ Serve(r) \/ debounce(r) \/ retry(r) \/ hearCategories(r) \/ takePhoto(r) \/ handleCapture(r)
          \/ hearUpload(r) \/ hearSuggestion(r) \/ handleSubmit(r) \/ handleUndo(r)
          \/ hearWrite(r) \/ hearRefusal(r) \/ hearList(r) \/ connectionFails(r)
          \/ \E row \in rows : handleToggle(r, row) \/ handleDelete(r, row)

Spec == Init /\ [][Next]_vars

-----------------------------------------------------------------------------
\* ProductsScreen.tsx: the AI suggestion only fills empty fields, never overwrites what the merchant
\* typed; nor what the product being edited already has.  However long the photo takes, and whatever
\* the form was opened on meanwhile.
TypedIsKept ==
    [][\A f \in Fields :
        form.given[f] # None /\ form.given[f].by # "read" =>
            form'.given[f] = None \/ form'.given[f].by # "read"]_vars

\* A form holds one product's values: what was typed or loaded is always of this draft, and a photo
\* or what was read of one is another draft's only if it was under way when this one began.
OneProductPerForm ==
    /\ \A f \in Fields : form.given[f] # None =>
          form.given[f].draft = draft \/ (form.given[f].by = "read" /\ straddled)
    /\ form.photo # None => form.photo.draft = draft \/ straddled

\* A product is added once for each form filled, but where the answer was not heard and the
\* shopkeeper saved again.
AddedOnce ==
    \A p, q \in Products \ Shelf :
        product[p] # None /\ product[q] # None /\ product[p].from = product[q].from =>
            p = q \/ product[p].from \in unheard

\* Every photo that a product, a listed row or the form refers to is one the storage keeps.
PhotoIsStored ==
    {product[p].photo : p \in {x \in Products : product[x] # None}} \cup {row.photo : row \in rows}
        \cup (IF form.photo = None THEN {} ELSE {form.photo.id}) \subseteq stored \cup {None}

\* When nothing is on its way, the list shows the shelf as it is, for the term in the box, however
\* many lists and writes met; unless the last list asked for was for another term (that of when the
\* write before it was tapped, or none when the categories came late), and since it no answer
\* overtook an older one and none was lost.
ListTellsShelf ==
    ~due /\ ~crossed /\ (\A r \in Slots : req[r] = Idle) => rows = Listed(search)
=============================================================================
