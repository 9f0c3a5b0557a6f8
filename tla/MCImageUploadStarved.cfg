CONSTANTS
  MaxAttempts = 2
  MaxCompensationAttempts = 2
  MaxVersion = 30
  None = None
  Web = web
  Reconciler = {d}
  Owner = {web, d}
  Token <- MCToken
  JobLease = 1
  MaxFaults = 1
  Punctual = FALSE
  MaxTime = 5
SPECIFICATION FairSpec
PROPERTY LeavesDueQueue
CHECK_DEADLOCK FALSE
