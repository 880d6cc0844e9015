SPECIFICATION WorkspaceSpec
CONSTANTS
  None = None
  Personal = Personal
  a = a  b = b
  Orgs = {a, b}
  MaxChoices = 2
  MaxEvents = 1
CHECK_DEADLOCK FALSE
INVARIANTS
  ChosenIsKept
  ShownIsCurrent
PROPERTIES
  RefusedIsLeft
