SPECIFICATION FairSpec
\* An exception ends the process.
CHECK_DEADLOCK FALSE
CONSTANTS
  SeqSpace = 3
  AckRetries = 1
  MaxFailedChecks = 2
  MaxCalls = 3
INVARIANTS
  TypeOK
  OkMeansApplied
  TaskSuccessIsBacked
  AppliedOncePerAttempt
  OnlyFailedRetriesLeak
PROPERTIES
  CrashOnlyOnLeakedKey
  CallReturns
