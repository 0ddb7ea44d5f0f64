SPECIFICATION CachesSpec
CONSTANTS
  c1 = c1  c2 = c2  c3 = c3  l1 = l1
  full1 = full1  full2 = full2  bare1 = bare1  old = old
  NoRow = NoRow
  Calls = {c1, c2, c3}
  Listeners = {l1}
  Complete = {full1, full2}
  Bare = {bare1}
  Misleading = {full1, full2}
  Legacy = {old}
  MaxCrashes = 1
SYMMETRY SymCalls
INVARIANTS HitsAgree CompleteIsCached NoFalseFriends RowHasObject
\* every job runs once
CHECK_DEADLOCK FALSE
