CONSTANTS
  c1 = c1
  c2 = c2
  c3 = c3
  c4 = c4
  Calls = {c1, c2, c3, c4}
SPECIFICATION CallsFairSpec
INVARIANTS OwnManifest
PROPERTIES StopsForItsReply Returns
CHECK_DEADLOCK FALSE
