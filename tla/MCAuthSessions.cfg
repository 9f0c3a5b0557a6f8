CONSTANTS
  Request = {q, r}
  Browser = {a, b}
  Name = {root, new}
  First = First
  Admin = a
  Root = root
  None = None
  MaxFaults = 2
  Absent = Absent
  Mine = {1}
  PerPage = 1
  Wanted = {2}
  SummaryTtl = 1
  CommandTime = 1
  Day = 1
  MaxTime = 2
  MaxEvents = 1
  Unread = Unread
  Applicable = TRUE
  Hours = 2
  BucketsADay = 2
  Week = 2
  Offset = 1
  Lag = 1
  Tolerance = 2
  MaxBucket = 6
  MaxMark = 2
  MaxUpsets = 1
SPECIFICATION MCSpec
INVARIANTS AuthInv TokensFollowReset RememberedSessionAlive HistoryHolds
PROPERTIES Answered ReportTruthful
CHECK_DEADLOCK FALSE
