\* HOST1X_HW >= 6, a ring too small for three jobs.
SPECIFICATION Spec
CONSTANTS
  j1 = j1
  j2 = j2
  j3 = j3
  s1 = s1
  s2 = s2
  Jobs = {j1, j2, j3}
  NoJob = NoJob
  Syncpts = {s1, s2}
  SyncptOf <- MCSyncptOf
  Program <- MCProgram
  Recovery = {j2}
  Slots = 9
  Builds = {TRUE}
  Mod = 8
  Base = 0
INVARIANTS
  FenceSetUpFirst
CHECK_DEADLOCK FALSE
