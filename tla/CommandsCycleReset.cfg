\* The D term after a reset of the stabilization.
CONSTANTS
  Still = Still
  Manual = Manual
  Held = Held
  None = None
  Neutral = Still
  Commands <- MCCommands
  Stabilized <- MCStabilized
  Fields <- MCFields
  MAX_COUNT = 3
  WRAP = 5
SPECIFICATION Spec
INVARIANT CorrectionForgets
