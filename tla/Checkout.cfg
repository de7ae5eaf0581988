\* Orders placed from a shelf that is edited meanwhile.
SPECIFICATION Spec
CONSTANTS
  tea = tea
  soap = soap
  r1 = r1
  r2 = r2
  Products <- MCProducts
  Prices <- MCPrices
  Requests <- MCRequests
  MaxEdits = 2
  MaxOrders = 3
SYMMETRY ProductsAndSlots
INVARIANTS
  HistoryKept
  LateOrdersBounded
PROPERTY
  OneShelf
CHECK_DEADLOCK FALSE
