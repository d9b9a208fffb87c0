\* The life of the process, its threads and its video.
CONSTANT
  MaxUnread = 2
SPECIFICATION Spec
INVARIANTS
  TypeOK
  UsesOnlyWhatLives
PROPERTIES
  VideoEnds
  Exits
