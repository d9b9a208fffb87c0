\* The arithmetic of one cycle, over chosen vectors and angles.
CONSTANTS
  Channels <- MCChannels
  Unit = 2
  Commands <- MCCommands
  Settings <- MCSettings
  Rotations <- MCRotations
  Forces <- MCForces
  None = None
SPECIFICATION Spec
INVARIANTS
  TypeOK
  PWMInRange
  DirectionKept
  DemandMet
  ErrorIsDistance
