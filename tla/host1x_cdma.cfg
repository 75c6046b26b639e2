\* Three jobs on two syncpoints in a ring that holds two of them; the engine may
\* hang, the channel is stopped once.  Every job is submitted once, then it is at rest.
SPECIFICATION FairSpec
CONSTANTS
  j1 = j1
  j2 = j2
  j3 = j3
  s1 = s1
  s2 = s2
  Jobs = {j1, j2, j3}
  NoJob = NoJob
  Syncpts = {s1, s2}
  SyncptOf <- MCSyncptOf
  Program <- MCProgram
  Recovery = {j2}
  Slots = 9
  Builds = {TRUE, FALSE}
  Mod = 8
  Base = 0
INVARIANTS
  RingAccounted
  HeadIsTimed
  OldFenceSetUpFirst
PROPERTIES
  SubmitEnds
  StopEnds
CHECK_DEADLOCK FALSE
