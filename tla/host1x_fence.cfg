\* Two fences on one syncpoint, interrupts, timeouts, cancellation and polling.
\* Once every fence is freed and user space makes no more the driver is at rest.
CONSTANTS
  Fences = {f1, f2}
  NoFence = NoFence
  Mod = 8
  Offsets = {0, 1, 2}
  Backlog = 1
SPECIFICATION Spec
SYMMETRY FenceSymmetry
INVARIANTS
  RefsAccounted
  NoMissedFence
  SignaledMeansReached
  CancelIsFinal
CHECK_DEADLOCK FALSE
