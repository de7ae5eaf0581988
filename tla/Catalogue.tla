----------------------------- MODULE Catalogue ------------------------------
(***************************************************************************)
(* The category tree that the admin keeps and every shop files its         *)
(* products under.                                                         *)
(*                                                                         *)
(* AdminService's handlers read, check and write in statements of their own*)
(* outside any transaction; so does ProductsService where it checks a      *)
(* category before it names it.  What a check has seen may be gone by the  *)
(* write, which the schema then judges: the foreign keys onto categories   *)
(* refuse a dangling or an orphaning write, and the unique index on        *)
(* (parent_category_id, name) a second sibling of one name, except at the  *)
(* top, where the parent is NULL and no two NULLs are equal.               *)
(***************************************************************************)
EXTENDS Integers, FiniteSets

CONSTANTS Categories,  \* identities for rows of categories
          Names,
          Goods,       \* identities for rows of products
          Slots,       \* slots for requests in flight
          Root         \* NULL: the parent of a top-level category

ASSUME RootAssumption == Root \notin Categories /\ Names # {}

VARIABLES
    category,   \* categories: the row of each
    filed,      \* products.category_id; Root for a product that does not exist
    inFlight    \* the requests in flight

catalogueVars == <<category, filed, inFlight>>

CategoryRow ==
    [row : {"unused", "listed", "deleted"}, name : Names, parent : Categories \cup {Root}]

\* `id` is the category read or named, `parent` and `name` those asked for or read.
CategoryRequest ==
    [at     : {"idle", "clash", "insert", "others", "rename", "delete", "file"},
     id     : Categories \cup {Root},
     parent : Categories \cup {Root},
     name   : Names]

NoRequest == [at |-> "idle", id |-> Root, parent |-> Root, name |-> CHOOSE n \in Names : TRUE]

Existing == {c \in Categories : category[c].row = "listed"}
Unused == {c \in Categories : category[c].row = "unused"}

\* The children of a parent, Root's being the top level.
Under(parent) == {c \in Existing : category[c].parent = parent}
Filed(c) == {p \in Goods : filed[p] = c}

\* CategoriesService.findTree: roots, each with its subcategories.
findTree == [r \in Under(Root) |-> Under(r)]

-----------------------------------------------------------------------------
\* Any number of top-level categories of different names to begin with.
CatalogueInit ==
    /\ category \in [Categories -> [row : {"unused", "listed"}, name : Names, parent : {Root}]]
    /\ \A c, d \in Existing : c # d => category[c].name # category[d].name
    /\ filed = [p \in Goods |-> Root]
    /\ inFlight = [r \in Slots |-> NoRequest]

Finishes(r) == inFlight' = [inFlight EXCEPT ![r] = NoRequest]
Proceeds(r, point) == inFlight' = [inFlight EXCEPT ![r] = [@ EXCEPT !.at = point]]

\* What the unique index says of a row for c with this parent and name.
Duplicate_NoIndex(c, parent, name) == FALSE
Duplicate(c, parent, name) ==
    parent # Root /\ \E d \in Under(parent) \ {c} : category[d].name = name

-----------------------------------------------------------------------------
(* AdminService.createCategory *)

\* One identity is kept for each request that creates.
CanCreate ==
    Cardinality({r \in Slots : inFlight[r].at \in {"clash", "insert"}}) < Cardinality(Unused)

\* A handler that takes any category for a parent.
CreateReadParent_AnyDepth(r, parent, name) ==
    /\ CanCreate
    /\ inFlight[r] = NoRequest
    /\ parent \in {Root} \cup Existing
    /\ inFlight' = [inFlight EXCEPT
           ![r] = [NoRequest EXCEPT !.at = "clash", !.parent = parent, !.name = name]]
    /\ UNCHANGED <<category, filed>>
\* The parent, when one is given, is read: it is there, and at the top.
CreateReadParent(r, parent, name) ==
    /\ CanCreate
    /\ inFlight[r] = NoRequest
    /\ parent \in {Root} \cup Under(Root)
    /\ inFlight' = [inFlight EXCEPT
           ![r] = [NoRequest EXCEPT !.at = "clash", !.parent = parent, !.name = name]]
    /\ UNCHANGED <<category, filed>>

CreateReadClash(r) ==
    /\ inFlight[r].at = "clash"
    /\ IF \E c \in Under(inFlight[r].parent) : category[c].name = inFlight[r].name
       THEN Finishes(r) ELSE Proceeds(r, "insert")
    /\ UNCHANGED <<category, filed>>

CreateInsert(r) ==
    LET parent == inFlight[r].parent
        name   == inFlight[r].name
    IN  /\ inFlight[r].at = "insert"
        /\ \E c \in Unused :
              category' = IF Duplicate(c, parent, name) \/ parent \notin Existing \cup {Root}
                          THEN category
                          ELSE [category EXCEPT ![c] =
                                   [row |-> "listed", name |-> name, parent |-> parent]]
        /\ Finishes(r)
        /\ UNCHANGED filed

-----------------------------------------------------------------------------
(* AdminService.updateCategory: the name only. *)

RenameRead(r, c, name) ==
    /\ inFlight[r] = NoRequest
    /\ c \in Existing
    /\ inFlight' = [inFlight EXCEPT
           ![r] = [at |-> "others", id |-> c, parent |-> category[c].parent, name |-> name]]
    /\ UNCHANGED <<category, filed>>

RenameReadClash(r) ==
    /\ inFlight[r].at = "others"
    /\ IF \E d \in Under(inFlight[r].parent) \ {inFlight[r].id} :
             category[d].name = inFlight[r].name
       THEN Finishes(r) ELSE Proceeds(r, "rename")
    /\ UNCHANGED <<category, filed>>

RenameWrite(r) ==
    LET c == inFlight[r].id
    IN  /\ inFlight[r].at = "rename"
        /\ category' = IF c \notin Existing \/ Duplicate(c, category[c].parent, inFlight[r].name)
                       THEN category
                       ELSE [category EXCEPT ![c] = [@ EXCEPT !.name = inFlight[r].name]]
        /\ Finishes(r)
        /\ UNCHANGED filed

-----------------------------------------------------------------------------
(* AdminService.deleteCategory *)

\* The category with the number of products and of subcategories it has.
DeleteRead(r, c) ==
    /\ inFlight[r] = NoRequest
    /\ c \in Existing
    /\ Filed(c) = {} /\ Under(c) = {}
    /\ inFlight' = [inFlight EXCEPT ![r] = [NoRequest EXCEPT !.at = "delete", !.id = c]]
    /\ UNCHANGED <<category, filed>>

DeleteWrite(r) ==
    LET c == inFlight[r].id
    IN  /\ inFlight[r].at = "delete"
        /\ category' = IF c \notin Existing \/ Under(c) # {} \/ Filed(c) # {} THEN category
                       ELSE [category EXCEPT ![c] = [@ EXCEPT !.row = "deleted"]]
        /\ Finishes(r)
        /\ UNCHANGED filed

-----------------------------------------------------------------------------
(* ProductsService.create, update, remove: what they do to categories. *)

\* requireCategory
FileRead(r, c) ==
    /\ inFlight[r] = NoRequest
    /\ c \in Existing
    /\ inFlight' = [inFlight EXCEPT ![r] = [NoRequest EXCEPT !.at = "file", !.id = c]]
    /\ UNCHANGED <<category, filed>>

\* A product is created in the category or moved to it; a category gone is refused.
FileWrite(r) ==
    /\ inFlight[r].at = "file"
    /\ \E p \in Goods :
          filed' = IF inFlight[r].id \in Existing
                   THEN [filed EXCEPT ![p] = inFlight[r].id] ELSE filed
    /\ Finishes(r)
    /\ UNCHANGED category

RemoveProduct ==
    /\ \E p \in Goods : filed[p] # Root /\ filed' = [filed EXCEPT ![p] = Root]
    /\ UNCHANGED <<category, inFlight>>

CatalogueNext ==
    \/ RemoveProduct
    \/ \E r \in Slots :
          \/ \E parent \in Categories \cup {Root}, name \in Names : CreateReadParent(r, parent, name)
          \/ CreateReadClash(r) \/ CreateInsert(r)
          \/ \E c \in Categories, name \in Names : RenameRead(r, c, name)
          \/ RenameReadClash(r) \/ RenameWrite(r)
          \/ \E c \in Categories : DeleteRead(r, c) \/ FileRead(r, c)
          \/ DeleteWrite(r) \/ FileWrite(r)

CatalogueSpec == CatalogueInit /\ [][CatalogueNext]_catalogueVars

-----------------------------------------------------------------------------
\* Every variable has its type, and a request about to write a category or file a product
\* names a category.
CatalogueTypeOK ==
    /\ category \in [Categories -> CategoryRow]
    /\ filed \in [Goods -> Categories \cup {Root}]
    /\ inFlight \in [Slots -> CategoryRequest]
    /\ \A r \in Slots :
          inFlight[r].at \in {"others", "rename", "delete", "file"} => inFlight[r].id \in Categories

\* Two levels is what the apps render: findTree shows every category there is, once, however
\* creations and deletions overlap.
TreeShowsAll == Existing = DOMAIN findTree \cup UNION {findTree[r] : r \in DOMAIN findTree}

\* Two subcategories of one parent never share a name, whatever the checks before the writes saw.
SubcategoryNamesDiffer ==
    \A c, d \in Existing \ Under(Root) :
        c # d /\ category[c].parent = category[d].parent => category[c].name # category[d].name

\* A product is always in a category that exists, though its category may be deleted between
\* the check and the write.
ProductsKeepCategory == \A p \in Goods : filed[p] \in Existing \cup {Root}

\* No row loses the one above it: a category is always one that the tree shows, and a product's
\* category is always one of those.
NothingOrphaned == TreeShowsAll /\ ProductsKeepCategory
=============================================================================
