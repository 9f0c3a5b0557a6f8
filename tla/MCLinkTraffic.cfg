SPECIFICATION Spec
CONSTANTS
  None = None
  Failed = Failed
  Null = Null
  Old = Old
  Visitor = {v, u}
  Writer = {m, n}
  Code = {x}
  AcceptUnproven = TRUE
  CacheTtl = 1
  ClaimTtl = 2
  Delay = 1
  MaxAttempts = 2
  MaxFaults = 1
  MaxCounter = 3
  Config <- Current
  Configs <- MCConfigs
  Visits <- MCVisits
  Sample <- MCSample
  Countries <- MCCountries
  Snapshots <- MCSnapshots
  StateRows <- MCStateRows
  HistoryRows <- MCHistoryRows
SYMMETRY Interchangeable
INVARIANTS TrafficInv UngappedBucketIsExact DeletedLinkForgotten
INVARIANTS BookedAsServed DecidedOncePerBrowser ReconciledWindowIsComplete
