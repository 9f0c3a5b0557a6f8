CONSTANTS
  MaxAttempts = 3
  MaxCompensationAttempts = 2
  MaxVersion = 30
  None = None
  Web = web
  Reconciler = {d1, d2}
  Owner = {web, d1, d2}
  Token <- MCToken
  JobLease = 1
  MaxFaults = 1
  Punctual = TRUE
  MaxTime = 5
SPECIFICATION FairSpec
INVARIANTS PublicNamesClean
PROPERTIES RetryOnlyNonPublic LiveLeaseRespected Settles
CHECK_DEADLOCK FALSE
