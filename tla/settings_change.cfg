SPECIFICATION Spec
CONSTANTS
  RetryDelays = 0
  WithheldRetryDelays = 2
  MaxRequestFailures = 1
  Variants = {"a", "b"}
  Episodes = {1}
  Backlog = {}
  Workers = {"w1"}
  RequestWorkers = 1
  Settings <- SReprocessed
  BatchSize = 0
  DbFaults = FALSE
  LeaseOutlasts = TRUE
  Requests = {"r1"}
  Admins = {"a1"}
  MaxChanges = 1
  Tasks = {"queue"}
INVARIANTS RowsSound LabelTellsTruth FiledNotQueued
CHECK_DEADLOCK FALSE
