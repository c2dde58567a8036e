SPECIFICATION Spec
CONSTANTS
  RetryDelays = 0
  WithheldRetryDelays = 1
  MaxRequestFailures = 1
  Variants = {"a", "b"}
  Episodes = {1, 2}
  Backlog = {}
  Workers = {"w1", "w2"}
  RequestWorkers = 1
  Settings <- SCleaned
  BatchSize = 2
  DbFaults = TRUE
  LeaseOutlasts = FALSE
  Requests = {"r1"}
  Admins = {}
  MaxChanges = 0
  Tasks = {}
INVARIANTS RegistryMatchesJobs
CHECK_DEADLOCK FALSE
