SPECIFICATION Spec
CONSTANTS
  Users = {u1, u2, u3}
  Creator = u1
  Requests = {q1, q2, q3}
  NewRoles = {"OWNER"}
  MaxRemovals = 1
SYMMETRY Symmetry
CHECK_DEADLOCK FALSE
INVARIANTS
  HasOwner
