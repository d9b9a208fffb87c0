\* One sensor of each kind: what is read and published.
CONSTANTS
  Bno = {bno055}
  Ms = {ms5837}
  MAX_TRIES = 1
SPECIFICATION Spec
INVARIANTS
  TypeOK
  ReadsOnlyWhenSetUp
  SamplesOfOneSession
