SPECIFICATION PullSpec
CONSTANTS
  MemoryId = {1, 2}
  Write = {w1, w2, w3}
  Puller = {p1}
  PageSize = 2
  Serial = FALSE
  MaxPullTrouble = 0
  Absent = Absent
CHECK_DEADLOCK FALSE
INVARIANTS
  NothingSkipped
