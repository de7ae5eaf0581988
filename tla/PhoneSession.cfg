SPECIFICATION Spec
CONSTANTS
  ali = ali
  sara = sara
  shop = shop
  Users <- UsersDef
  Customers <- CustomersDef
  Holders <- HoldersDef
  MaxSessions = 2
  Days <- DaysDef
  MaxInFlight = 2
  MaxRestarts = 1
  None = None
INVARIANTS
  RegisteredIsReached
  QuietAfterSignOut
PROPERTIES
  SavedSessionIsKept
CHECK_DEADLOCK FALSE
