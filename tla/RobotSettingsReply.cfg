\* The reply of Read to a robot that has never been set up.
CONSTANTS
  Messages <- MCMessages
  Gains <- MCGains
  Empty = Empty
  None = None
SPECIFICATION Spec
INVARIANT RepliesAreComplete
