SPECIFICATION FairSpec
CONSTANTS
  RetryDelays = 2
  WithheldRetryDelays = 2
  MaxRequestFailures = 2
  Variants = {"a", "b"}
  Episodes = {1}
  Backlog = {1}
  Workers = {"w1", "w2"}
  RequestWorkers = 1
  Settings <- SRestart
  BatchSize = 0
  DbFaults = FALSE
  LeaseOutlasts = TRUE
  Requests = {"r1"}
  Admins = {}
  MaxChanges = 0
  Tasks = {"crash"}
PROPERTIES FollowsLifecycle EverySettles RunReturns
CHECK_DEADLOCK FALSE
