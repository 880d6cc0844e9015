SPECIFICATION Spec
CONSTANTS
  None = None
  n1 = n1
  n2 = n2
  blank = blank
  text = text
  NodeIds = {n1, n2}
  TypeOf <- TwoTypes
  Texts = {blank, text}
  Blank = blank
  Files <- ChainFiles
  MaxHistory = 2
  MaxEdits = 2
  MaxVisits = 2
  MaxFaults = 1
  MaxSaves = 2
CHECK_DEADLOCK FALSE
INVARIANTS
  EdgesHaveEnds
  DraftKept
PROPERTIES
  EditsSurvive
