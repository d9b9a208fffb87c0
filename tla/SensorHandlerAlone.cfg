\* One sensor at a time: what must eventually happen.
CONSTANTS
  Bno = {bno055}
  Ms = {ms5837}
  MAX_TRIES = 2
SPECIFICATION MCSpec
PROPERTIES
  PowerLossNoticed
  Recovers
  DestructorReturns
