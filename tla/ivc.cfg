\* Both ends reset, reboot and transfer frames; a reset is not repeated before the
\* peer left ACK.  Ends that were never asked to connect are at rest.
CONSTANTS
  Ends = {a, b}
  Writers = {a}
  Frames = {f1, f2}
  Torn = Torn
  NFrames = 2
  Mod = 4
  RepeatedReset = FALSE
SPECIFICATION FairSpec
INVARIANTS
  CountersNotInUse
  AdvanceCheckPasses
  NoLostWakeup
PROPERTIES
  IsFifo
  Reconnects
  FramesAreRead
CHECK_DEADLOCK FALSE
