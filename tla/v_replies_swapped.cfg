\* Two users: a reply may reach the wrong caller.
SPECIFICATION Spec
CONSTANTS
  Users = {u1, u2}
  Interruptible = {}
  NFrames = 2
  EarlySuspend = FALSE
  AllocFail = FALSE
  FwErr = FALSE
  FwIrqs = {}
  Overtaken = FALSE
SYMMETRY UserSymmetry
INVARIANTS
  ReplyAnswersRequest
CHECK_DEADLOCK FALSE
