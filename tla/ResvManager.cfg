CONSTANTS
  A = A
  B = B
  a1 = a1
  a2 = a2
  x = x
  bad = bad
  Domains = {A, B}
  Gris = {a1, a2, x, bad}
  Crosses <- MCCrosses
  Lists <- MCLists
  Loadable = {a1, a2, x}
  w = w
  Workers = {w}
  MaxEntries = 3
SPECIFICATION FairSpec
INVARIANTS NothingLost CountedOnce
PROPERTIES StaleExpires
