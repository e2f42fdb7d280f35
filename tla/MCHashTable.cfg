SPECIFICATION Spec
CONSTANTS
  v1 = v1  v2 = v2  v3 = v3  v4 = v4
  k1 = k1  k2 = k2  k3 = k3
  e1 = e1  e2 = e2  e3 = e3
  t1 = t1  t2 = t2
  Values = {v1, v2, v3, v4}
  Keys = {k1, k2, k3}
  KeyOf <- MCKeyOf
  Filters <- MCFilters
  LineOf <- MCLineOf
  Entries = {e1, e2, e3}
  Threads = {t1, t2}
  Lines = 2
  Limit = 1
SYMMETRY Symmetry
INVARIANTS
  EntriesAccounted
  FoundUnlessRemoved
PROPERTY
  Implements
