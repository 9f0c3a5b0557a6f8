CONSTANTS
  MaxAttempts = 2
  MaxCompensationAttempts = 1
  MaxVersion = 30
  None = None
  Web = web
  Reconciler = {d}
  Owner = {web, d}
  Token <- MCToken
  JobLease = 1
  MaxFaults = 0
  Punctual = FALSE
  MaxTime = 5
SPECIFICATION FairSpec
PROPERTIES LedgerKept SettlesOrExhausts
CHECK_DEADLOCK FALSE
