SPECIFICATION Spec
CONSTANTS
  RetryDelays = 1
  WithheldRetryDelays = 1
  MaxRequestFailures = 2
  Variants = {"a", "b"}
  Episodes = {1}
  Backlog = {}
  Workers = {"w1"}
  RequestWorkers = 1
  Settings <- SServed
  BatchSize = 0
  DbFaults = FALSE
  LeaseOutlasts = TRUE
  Requests = {"r1", "r2"}
  Admins = {}
  MaxChanges = 1
  Tasks = {"crash"}
INVARIANTS TypeOK NoLostWakeup AcquiringHasOwner HiddenAudioNeverServed
CHECK_DEADLOCK FALSE
