\* A second reset may come before the peer has left ACK.
CONSTANTS
  Ends = {a, b}
  Writers = {a}
  Frames = {f1}
  Torn = Torn
  NFrames = 2
  Mod = 4
  RepeatedReset = TRUE
SPECIFICATION Spec
INVARIANT CountersNotInUse
CHECK_DEADLOCK FALSE
