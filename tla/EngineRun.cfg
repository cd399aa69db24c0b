SPECIFICATION FairSpec
CONSTANTS
  MaxAttempts = 3
  MaxCrashes = 1
  Words = {"MALICIOUS", "other"}
  Retryable = Retryable
  Final = Final
  Pending = Pending
  Failed = Failed
  NoWord = NoWord
INVARIANTS VerdictEarned JailsOwned
PROPERTIES Answered
CHECK_DEADLOCK FALSE
