\* The command queue, its watchdog and the life of the loop's thread.
CONSTANTS
  Still = Still
  Manual = Manual
  Held = Held
  None = None
  Neutral = Still
  Commands <- MCCommands
  Stabilized <- MCStabilized
  Fields <- MCFields
  MAX_COUNT = 3
  WRAP = 5
SPECIFICATION Spec
INVARIANTS
  TypeOK
  NeverTorn
  StoredCommandExpires
  RegulatorForgets
PROPERTIES
  QuietOnceJoined
  DestructorReturns
  FailSafe
  ImplementsDeadMan
