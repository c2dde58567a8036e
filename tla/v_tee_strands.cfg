SPECIFICATION Spec
CONSTANTS
  RetryDelays = 1
  WithheldRetryDelays = 2
  MaxRequestFailures = 2
  Variants = {"a", "b"}
  Episodes = {1}
  Backlog = {1}
  Workers = {"w1"}
  RequestWorkers = 1
  Settings <- SPlainAhead
  BatchSize = 0
  DbFaults = FALSE
  LeaseOutlasts = TRUE
  Requests = {"r1"}
  Admins = {}
  MaxChanges = 0
  Tasks = {}
INVARIANTS AcquiringHasOwner
CHECK_DEADLOCK FALSE
