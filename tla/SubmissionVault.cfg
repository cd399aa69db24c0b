SPECIFICATION Spec
CONSTANTS
  MaxDepth = 1
  MaxArtifacts = 3
  MaxFindingsBytes = 1
  MaxSubmissionIngest = 1
  MaxExtraction = 2
  MaxChildren = 2
  Bodies <- QuietBodies
  DieImage = FALSE
INVARIANTS VaultWritesBounded
CHECK_DEADLOCK FALSE
