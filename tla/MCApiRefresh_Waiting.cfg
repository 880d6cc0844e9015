SPECIFICATION FairSpec
CONSTANTS
  Requests = {r1, r2, r3}
  None = None
  MaxTokens = 3
CHECK_DEADLOCK FALSE
INVARIANTS
  SingleRefresh
  NoLostWaiter
PROPERTIES
  EveryRequestSettles
