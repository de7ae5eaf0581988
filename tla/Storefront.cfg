SPECIFICATION Spec
CONSTANTS
  omar = omar
  lina = lina
  Keepers <- KeepersDef
  Filters <- FiltersDef
  Days <- DaysDef
  Attempts = 4
  MaxInFlight = 2
  None = None
INVARIANTS
  KeeperHasShop
  ShelfIsOfFilter
PROPERTIES
  FirstLoadEnds
  NothingOfAClosedShop
  AreaIsKept
