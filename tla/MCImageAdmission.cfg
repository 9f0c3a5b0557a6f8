CONSTANTS
  Job = {i, j}
  Executor = {e, f}
  NoJob = NoJob
  Cap = 1
  Submission = 1
  Grace = 3
  MaxAttempts = 2
  MaxFaults = 2
  Artifact = {a, b}
  Site = {s, t}
  Topology = {m, n}
  Nothing = Nothing
  MaxAge = 1
  MaxLifetime <- Lifetimes
  Horizon = 2
  MaxReceipts = 3
  MaxChanges = 4
  MaxActivations = 1
SPECIFICATION MCSpec
INVARIANTS AdmissionInv StartedOnEvidence ActivationHolds
CHECK_DEADLOCK FALSE
