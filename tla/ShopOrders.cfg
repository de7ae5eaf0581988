SPECIFICATION Spec
CONSTANTS
  o1 = o1
  o2 = o2
  i1 = i1
  Orders <- OrdersDef
  MaxInFlight = 2
  Items <- ItemsDef
  Days <- DaysDef
  None = None
INVARIANTS
  OfferedIsAccepted
  BoxKeepsItsOrder
PROPERTIES
  ListCatchesUp
