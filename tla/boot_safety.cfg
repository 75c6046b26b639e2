\* One user, firmware that may answer with errors, allocations that fail.
\* A boot that failed stays failed: the driver may stop.
SPECIFICATION Spec
CONSTANTS
  Users = {u1}
  Interruptible = {}
  NFrames = 2
  EarlySuspend = FALSE
  AllocFail = TRUE
  FwErr = TRUE
  FwIrqs = {}
  Overtaken = FALSE
INVARIANTS
  TypeOK
  BootCmdsInOrder
  AckAnswersCmd
  ReplyAnswersRequest
  RequestedMatchesState
  ErrorStopsBoot
  WaitStartsFresh
  AnswerOnItsWay
CHECK_DEADLOCK FALSE
