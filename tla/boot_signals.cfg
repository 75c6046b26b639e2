\* Signals interrupt the waits of a user and of the suspending process, and
\* the firmware may answer with errors.
\* An interrupted SC7 entry leaves firmware nobody talks to: the driver may stop.
SPECIFICATION Spec
CONSTANTS
  Users = {u1}
  Interruptible = {u1, "pm"}
  NFrames = 1
  EarlySuspend = FALSE
  AllocFail = FALSE
  FwErr = TRUE
  FwIrqs = {}
  Overtaken = TRUE
INVARIANTS
  SleeperIsExpected
  SuspendedIsSafe
  OneSc7Report
  AdminOnlyAfterBootcmds
PROPERTIES
  BootDoneClearedInSc7
CHECK_DEADLOCK FALSE
