\* Writes, reads, crashes and power losses.
CONSTANTS
  Messages <- MCMessages
  Gains <- MCGains
  Empty = Empty
  None = None
SPECIFICATION Spec
INVARIANTS
  TypeOK
  SettingsFit
  FileAgrees
  AcknowledgedSurvives
PROPERTY
  ImplementsDurableRegister
