SPECIFICATION QueueFairSpec
CONSTANTS
  s1 = s1
  s2 = s2
  bad = bad
  Save = {s1, s2, bad}
  Pusher = {p1, p2}
  Content <- MCContent
  Rejected = {bad}
  QueueMax = 2
  MaxTrouble = 1
CHECK_DEADLOCK FALSE

  
PROPERTIES
  FlushKeepsEdits
  RefusedNeverBlocks
