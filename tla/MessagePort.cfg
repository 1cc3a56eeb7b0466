CONSTANTS
  m1 = m1
  m2 = m2
  m3 = m3
  Msgs <- MCMsgs
  Urgent <- MCUrgent
  WireCap = 1
SPECIFICATION FairSpec
INVARIANTS NoLostWakeup NoClosedFdSelected WriteNeverBlocks
PROPERTIES IsChannel Delivered
CHECK_DEADLOCK FALSE
