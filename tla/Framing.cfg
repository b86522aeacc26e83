SPECIFICATION Spec
CONSTANTS
  MaxLine = 3
  MaxBuffer = 7
  MaxRead = 4
  MaxStream = 10
CHECK_DEADLOCK FALSE
INVARIANTS
  Framing
  Bounded
  LongLineOnly
  PrefixDelivered
