SPECIFICATION PythonSpec
CONSTANTS
  t1 = t1
  t2 = t2
  t3 = t3
  good = good
  bad = bad
  Threads <- MCThreads
  Ids <- MCIds
  Valid <- MCValid
  MaxUsers = 2
INVARIANTS
  CacheIsTrue
  UsersFindPacks
SYMMETRY MCSymmetry
