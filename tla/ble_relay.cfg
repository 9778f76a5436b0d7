\* Two files, two calls, two losses, next to the upload walk.
CONSTANTS
  NumFiles = 2
  MaxChunks = 2
  MaxCalls = 2
  MaxFaults = 2
  AutoCleanup = TRUE
SPECIFICATION Spec
INVARIANTS NothingLost
PROPERTIES Returns ImplementsArchive
CHECK_DEADLOCK FALSE
