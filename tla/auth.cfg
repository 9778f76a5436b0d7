\* Two codes, two faults.
CONSTANTS
  MaxCodes = 2
  MaxFaults = 2
SPECIFICATION Spec
  
PROPERTIES Attempted
CHECK_DEADLOCK FALSE
