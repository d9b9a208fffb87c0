\* The picture a client asked for.
CONSTANT
  MaxUnread = 2
SPECIFICATION Spec
INVARIANT CameraAsRequested
