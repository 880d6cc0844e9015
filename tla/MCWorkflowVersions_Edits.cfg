SPECIFICATION Spec
CONSTANTS
  Requests = {r1, r2, r3}
  Fields = {definition}
  Values = {x, y}
  NoSnapshot = NoSnapshot
  MaxVersion = 3
  MaxFaults = 2
SYMMETRY RequestSymmetry
CHECK_DEADLOCK FALSE
INVARIANTS
  SnapshotsSequential
  EditableUnlessInterrupted
PROPERTIES
  NoLostEdit
  ImplementsHistory
