\* Trace-log and abort interrupts at any time.  An abort may leave the driver waiting.
SPECIFICATION Spec
CONSTANTS
  Users = {}
  Interruptible = {}
  NFrames = 1
  EarlySuspend = FALSE
  AllocFail = FALSE
  FwErr = FALSE
  FwIrqs = {"LOG_READY", "ABORT"}
  Overtaken = TRUE
INVARIANTS
  BootDoneMeansServing
PROPERTIES
  Sc7LeftByResume
CHECK_DEADLOCK FALSE
