\* One request at a time: what the handlers guarantee when they do not overlap.
SPECIFICATION FairSpec
CONSTANTS
  tea = tea
  soap = soap
  r1 = r1
  r2 = r2
  Items <- TwoItems
  Requests <- OneSlot
INVARIANTS
  ChargedMatchesLines
  DeliveryDrivesOrder
PROPERTIES
  KeepsPromise
  ServedAsOne
  OrderSettles
