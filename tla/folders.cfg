\* Two sessions within four seconds, one fault, cards old and new.
CONSTANTS
  MaxSessions = 2
  LastSecond = 4
  MaxFaults = 1
  AutoCleanup = {TRUE, FALSE}
  NewCard = TRUE
  None = None
SPECIFICATION Spec
INVARIANTS MarkedIsSent OwnBoat
PROPERTIES NeverTruncated
CHECK_DEADLOCK FALSE
