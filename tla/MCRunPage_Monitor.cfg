SPECIFICATION RunPageFairSpec
CONSTANTS
  None = None
  Tasks = {t1}
  Lists = {"runs"}
  MaxTurns = 3
  MaxFaults = 1
  MaxCancels = 1
CHECK_DEADLOCK FALSE
INVARIANTS
  EndOnItsWay
PROPERTIES
  EndStaysShown
  
  CanvasSettles
