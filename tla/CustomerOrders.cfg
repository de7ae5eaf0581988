SPECIFICATION Spec
CONSTANTS
  o1 = o1
  i1 = i1
  Orders <- OrdersDef
  Items <- ItemsDef
  Days <- DaysDef
  MaxInFlight = 2
  None = None
INVARIANTS
  WarnedOnceShown
  NumbersGoForward
PROPERTIES
  ButtonsComeBack
