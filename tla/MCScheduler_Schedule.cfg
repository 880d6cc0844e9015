SPECIFICATION FairSpec
CONSTANTS
  Requests = {r1}
  Boot = Boot
  Crons = {c1, c2}
  Inputs = {i1, i2}
  None = None
  MaxRequests = 4
  MaxTicks = 1
  MaxRestarts = 2
  MaxFaults = 1
CHECK_DEADLOCK FALSE
INVARIANTS
  RegisteredIffEnabled
  AtMostOneJob
  EnabledIsRegistered
PROPERTIES
  SyncRepairs
