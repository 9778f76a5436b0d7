\* Button and phone, a stop that times out, an open that fails, resets.
CONSTANTS
  MaxSessions = 3
  MaxRows = 1
  AutoCleanup = TRUE
SPECIFICATION Spec
INVARIANTS SendExcludesLogging UploadNeverOpen ArchivedIsComplete ViewsAgree
PROPERTIES ImplementsArchive
