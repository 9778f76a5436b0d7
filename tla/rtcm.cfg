\* Frames of up to three fragments, an identifier that comes round, and a ring
\* that a stalled loop lets run full.
CONSTANTS
  NumFrames = 4
  MaxFrags = 3
  IdMod = 3
  RingSize = 4
SPECIFICATION Spec
INVARIANTS FramesInOrder
PROPERTIES HeardIsHandedOn
CHECK_DEADLOCK FALSE
