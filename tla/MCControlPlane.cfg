CONSTANTS
  MaxAttempts = 2
  MaxCompensationAttempts = 2
  MaxVersion = 30
  None = None
  Web = web
  Reconciler = {d}
  Owner = {web, d}
  Token <- MCToken
  JobLease = 1
  MaxFaults = 2
  Punctual = FALSE
  MaxTime = 5
  Country = {A, B}
  MaxRows = 2
  Admin = {a, b}
  Visit = {v}
  Ttl = 1
  Delay = 1
  MaxSaves = 2
  MaxMishaps = 1
  Unset = Unset
SPECIFICATION MCSpec
INVARIANTS UploadInv AnswersHold CompensatedClean SettingsInv FormTruthful
PROPERTY RecoverySparesManual
SYMMETRY Alike
CHECK_DEADLOCK FALSE
