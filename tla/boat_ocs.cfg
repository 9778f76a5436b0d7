\* Two starts, two copies of the arming, one of a recall.
CONSTANTS
  MaxAnnounced = 2
  ArmCopies = 2
  CallCopies = 1
SPECIFICATION OcsSpec
INVARIANTS FlagExplained OneStart
PROPERTIES Flagged Cleared
CHECK_DEADLOCK FALSE
