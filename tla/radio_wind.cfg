\* Two sensors, no device_config write and one event: the link drops, or a window drops it.
CONSTANTS
  s1 = s1
  s2 = s2
  None = None
  Torn = Torn
  Sensors <- MCSensors
  Own = s1
  MaxWrites = 0
  MaxEvents = 1
  OptIn = TRUE
  Blocks = 2
SPECIFICATION Spec
PROPERTIES WindBack
CHECK_DEADLOCK FALSE
