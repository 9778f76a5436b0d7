\* Two sessions, a backoff after three failures, four faults.
CONSTANTS
  CheckInterval = 1
  RetryDelay = 1
  BackoffFactor = 2
  MaxRetries = 3
  MaxSessions = 2
  MaxTaskFaults = 4
  RootFile = FALSE
SPECIFICATION TaskSpec
INVARIANTS KeptForFiles
PROPERTIES Drained Released
