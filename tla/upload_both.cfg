\* The upload command next to the upload task, and the cleanup command; files kept until then.
CONSTANTS
  NumSessions = 1
  MaxUploads = 4
  MaxFaults = 2
  Faults = {"wifi", "put", "ack", "patch", "marker", "remove", "crash"}
  AutoCleanup = FALSE
  ConsoleUploads = TRUE
  ConsoleTidies = TRUE
SPECIFICATION Spec
INVARIANTS AcceptedBeforeGone 
CHECK_DEADLOCK FALSE
