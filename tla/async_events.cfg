\* Three work items, a client that comes and goes, allocations that fail.
SPECIFICATION FairSpec
CONSTANTS
  N = 3
  NFrames = 3
  AllocFail = TRUE
INVARIANTS
  TypeOK
  NoLostEvent
  WorkAccounted
PROPERTIES
  EventsServed
