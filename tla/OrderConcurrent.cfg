\* Two requests in flight at a time, over an order of two lines.
SPECIFICATION Spec
CONSTANTS
  tea = tea
  soap = soap
  r1 = r1
  r2 = r2
  Items <- TwoItems
  Requests <- TwoSlots
SYMMETRY LinesAndSlots
INVARIANTS
  OrderBackedByDelivery
PROPERTIES
  NothingComesBack
