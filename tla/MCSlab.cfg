SPECIFICATION FSpec
CONSTANTS
  p1 = p1  p2 = p2
  s1 = s1  s2 = s2  s3 = s3  s4 = s4
  t1 = t1  t2 = t2  t3 = t3
  c1 = c1  c2 = c2
  Pages = {p1, p2}
  Slots = {s1, s2, s3, s4}
  Threads = {t1, t2, t3}
  Chunks = {c1, c2}
  Sizes = {1, 2, 3}
  ItemSize = 2
CONSTRAINT OneAtATime
SYMMETRY Symmetry
INVARIANTS
  Apart
  ListsSorted
  NoAbort
  BlocksAccounted
CHECK_DEADLOCK FALSE
