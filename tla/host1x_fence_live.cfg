\* One fence, fair interrupt and work item: signalled once reached, freed after a timeout.
CONSTANTS
  Fences = {f1}
  NoFence = NoFence
  Mod = 8
  Offsets = {0, 1, 2}
  Backlog = 1
SPECIFICATION FairSpec
PROPERTIES
  ReachedIsSignaled
  TimeoutFreesFence
CHECK_DEADLOCK FALSE
