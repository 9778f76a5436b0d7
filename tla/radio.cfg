\* Two sensors, one device_config write and two other events; an image of one block.
CONSTANTS
  s1 = s1
  s2 = s2
  None = None
  Torn = Torn
  Sensors <- MCSensors
  Own = s1
  MaxWrites = 1
  MaxEvents = 2
  OptIn = TRUE
  Blocks = 1
SPECIFICATION Spec
INVARIANTS BootAgrees SparesRecording
PROPERTIES MeshBack
CHECK_DEADLOCK FALSE
