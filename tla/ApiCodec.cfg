CONSTANTS
  Byte = 16
  IntBytes = 2
  LongBytes = 3
  Exchanges <- MCExchanges
SPECIFICATION Spec
INVARIANTS RoundTrip Announced
CHECK_DEADLOCK FALSE
