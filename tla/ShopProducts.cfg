SPECIFICATION Spec
CONSTANTS
  p1 = p1
  p2 = p2
  p3 = p3
  ph1 = ph1
  ph2 = ph2
  Products <- ProductsDef
  Shelf <- ShelfDef
  Matching <- MatchingDef
  Fields <- FieldsDef
  Photos <- PhotosDef
  Days <- DaysDef
  MaxInFlight = 2
  None = None
SYMMETRY PhotosAlike
INVARIANTS
  OneProductPerForm
  AddedOnce
  PhotoIsStored
  ListTellsShelf
PROPERTIES
  TypedIsKept
