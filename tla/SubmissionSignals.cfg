SPECIFICATION Spec
CONSTANTS
  MaxDepth = 1
  MaxArtifacts = 2
  MaxFindingsBytes = 3
  MaxSubmissionIngest = 0
  MaxExtraction = 0
  MaxChildren = 2
  Bodies <- SignalBodies
  DieImage = TRUE
INVARIANT VerdictExact
PROPERTIES OnlyUp ImplementsRollup
CHECK_DEADLOCK FALSE
