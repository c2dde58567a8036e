SPECIFICATION Spec
CONSTANTS
  RetryDelays = 1
  WithheldRetryDelays = 1
  MaxRequestFailures = 1
  Variants = {"a", "b"}
  Episodes = {1}
  Backlog = {}
  Workers = {"w1"}
  RequestWorkers = 1
  Settings <- SHidden
  BatchSize = 0
  DbFaults = FALSE
  LeaseOutlasts = TRUE
  Requests = {"r1"}
  Admins = {}
  MaxChanges = 0
  Tasks = {"hide", "sweep"}
INVARIANTS FiledNotQueued CommittedFileStays
PROPERTIES FollowsLifecycle
CHECK_DEADLOCK FALSE
