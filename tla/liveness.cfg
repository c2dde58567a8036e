SPECIFICATION FairSpec
CONSTANTS
  RetryDelays = 1
  WithheldRetryDelays = 1
  MaxRequestFailures = 1
  Variants = {"a", "b"}
  Episodes = {1, 2}
  Backlog = {}
  Workers = {"w1"}
  RequestWorkers = 1
  Settings <- SCleaned
  BatchSize = 0
  DbFaults = FALSE
  LeaseOutlasts = TRUE
  Requests = {"r1"}
  Admins = {}
  MaxChanges = 0
  Tasks = {}
PROPERTIES EverySettles WithheldIsRetried WaiterAnswered
CHECK_DEADLOCK FALSE
