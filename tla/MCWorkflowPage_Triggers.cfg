SPECIFICATION Spec
CONSTANTS
  None = None
  c1 = c1
  hourly = hourly  daily = daily
  Calls = {c1}
  MaxFaults = 1
  Crons = {hourly}
  Default = hourly
  MaxVisits = 2
  MaxOps = 1
CHECK_DEADLOCK FALSE
INVARIANTS
  RunFromLiveWebhook
  
  OwnChangeShown
PROPERTIES
  TokensNeverReturn
