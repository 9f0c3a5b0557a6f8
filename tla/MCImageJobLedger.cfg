CONSTANTS
  MaxAttempts = 2
  MaxCompensationAttempts = 2
  MaxVersion = 10
  Owner = {web}
  Token = {t1, t2}
  JobId = {j1, j2}
  RequestKey = {k1}
  Time <- MCTime
  None = None
  Blank = Blank
  Dependency = {database, redis}
  Database = database
  Timeout = 2
  CacheTtl = 2
  DatabaseTimeout = 1
  GateTimeout = 4
  Retry = 1
  Run = {1, 2, 3}
  Snapshot <- MCSnapshot
  Target = target
  MaximumBatch = 1
  LinkedDays = 2
  OrphanDays = 1
  ActivityLimit = 1
  MaxFaults = 2
  NoDate = NoDate
  Link = {l}
  Click = {c}
  Days = 3
  MaxTick = 7
  MaxClicks = 2
SPECIFICATION MCSpec
INVARIANTS LedgerInv  PlansAreAccepted WebInv 
PROPERTIES ShieldIsExact SettledRowsStay LeaseHandedOverFree PublicationKept ShutdownSettles
CHECK_DEADLOCK FALSE
