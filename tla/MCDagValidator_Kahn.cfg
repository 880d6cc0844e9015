SPECIFICATION Spec
CONSTANTS
  EdgeIds = {e, f}
  MaxNodes = 3
  MaxEdges = 3
  Supported = {"LLM_AGENT"}
  Definitions <- SmallDefinitions
CHECK_DEADLOCK FALSE
INVARIANTS
  AcceptedIsWellFormed
  RejectedIsDefective
