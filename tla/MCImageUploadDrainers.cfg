CONSTANTS
  MaxAttempts = 2
  MaxCompensationAttempts = 2
  MaxVersion = 30
  None = None
  Web = web
  Reconciler = {d1, d2}
  Owner = {web, d1, d2}
  Token <- MCToken
  JobLease = 1
  MaxFaults = 0
  Punctual = TRUE
  MaxTime = 5
SPECIFICATION Spec
PROPERTY OutputUndisturbed
CHECK_DEADLOCK FALSE
