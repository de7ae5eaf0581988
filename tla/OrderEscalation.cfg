\* Two looks at a time; a wall clock that lags by a tick, so timers can fire too early; one restart.
SPECIFICATION EscalationFairSpec
CONSTANTS
  c1 = c1
  c2 = c2
  Calls <- TwoCalls
  First = 1
  Admin = 2
  Skew = 1
  MaxAge = 4
  MaxRestarts = 1
INVARIANTS
  AnnouncedIsDue
  RingsOncePerLevel
PROPERTIES
  IgnoredIsEscalated
