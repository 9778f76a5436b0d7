\* The upload task and the cleanup command; everything can go wrong, twice.
CONSTANTS
  NumSessions = 2
  MaxUploads = 6
  MaxFaults = 2
  Faults = {"wifi", "moving", "post", "put", "ack", "patch", "marker", "remove", "crash"}
  AutoCleanup = TRUE
  ConsoleUploads = FALSE
  ConsoleTidies = TRUE
SPECIFICATION FairSpec
INVARIANTS NothingLost DuplicatesExplained OverrideRecoverable
PROPERTIES Delivered
CHECK_DEADLOCK FALSE
