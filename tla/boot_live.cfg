\* Nothing fails: the driver boots again after every suspend, and never deadlocks.
SPECIFICATION FairSpec
CONSTANTS
  Users = {u1}
  Interruptible = {}
  NFrames = 2
  EarlySuspend = FALSE
  AllocFail = FALSE
  FwErr = FALSE
  FwIrqs = {}
  Overtaken = FALSE
INVARIANTS
  BootDoneMeansChannels
PROPERTIES
  AlwaysBootsAgain
  CallsReturn
  SuspendEnds
