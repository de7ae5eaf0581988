\* Two requests in flight, a limit of two codes a window, one failure.
SPECIFICATION FairSpec
CONSTANTS
  r1 = r1
  r2 = r2
  a = a
  b = b
  c = c
  Requests <- TwoSlots
  Codes <- ThreeCodes
  Limit = 2
  Window = 1
  MaxAttempts = 1
  Sends = 2
  MaxFaults = 1
INVARIANTS
  OneCodePerOverlap
  AttemptsBounded
PROPERTIES
  NotThrottledForever
