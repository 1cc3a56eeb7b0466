CONSTANTS
  k1 = k1
  k2 = k2
  k3 = k3
  g1 = g1
  Nobody = Nobody
  Client = {k1, k2, k3}
  Order <- Orders
  Address = {1, 2, 3}
  Descriptor = {1, 2, 3}
  Wild = 2
  Gri = {g1}
  Message <- Messages
  MaxSends = 2
  MaxLeaves = 1
SPECIFICATION FairSpec
CHECK_DEADLOCK FALSE
INVARIANTS OwnReply DiesOfStrays ConnectionAwake
PROPERTIES Answered
