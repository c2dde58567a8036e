SPECIFICATION Spec
CONSTANTS
  RetryDelays = 1
  WithheldRetryDelays = 2
  MaxRequestFailures = 2
  Variants = {"a", "b"}
  Episodes = {1}
  Backlog = {}
  Workers = {"w1"}
  RequestWorkers = 1
  Settings <- STwo
  BatchSize = 0
  DbFaults = FALSE
  LeaseOutlasts = TRUE
  Requests = {"r1"}
  Admins = {"a1"}
  MaxChanges = 1
  Tasks = {}
INVARIANTS ServesCurrentSettings
CHECK_DEADLOCK FALSE
