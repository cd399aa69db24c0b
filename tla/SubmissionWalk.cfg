SPECIFICATION FairSpec
CONSTANTS
  MaxDepth = 2
  MaxArtifacts = 3
  MaxFindingsBytes = 1
  MaxSubmissionIngest = 1
  MaxExtraction = 2
  MaxChildren = 2
  Bodies <- QuietBodies
  DieImage = FALSE
INVARIANTS GapsDisclosed NoSilentDrop OffBudgetBounded CountedIngestBounded
PROPERTIES Terminates
CHECK_DEADLOCK FALSE
