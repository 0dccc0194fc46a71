SPECIFICATION Spec
CONSTANTS
  BatchSizes = {1, 2}
  MaxCmds = 4
INVARIANTS
  OwnAnswer
  Answered
CHECK_DEADLOCK FALSE
