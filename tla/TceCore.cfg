CONSTANTS
  a1 = a1
  x = x
  Requests = {a1, x}
  ServerOf <- MCServerOf
SPECIFICATION FairSpec
INVARIANTS NothingCut AnsweredAfterJoin
PROPERTIES IsRequestServer Reclaimed
