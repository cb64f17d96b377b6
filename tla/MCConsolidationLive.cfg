SPECIFICATION FairSpec
CONSTANTS
  s1 = s1
  huge = huge
  Session = {s1, huge}
  Project <- MCProject
  ProjectOf <- MCProjectOf
  Huge = {huge}
  Request = {r1}
  Tiers = {1}
  Tier1Batch = 1
  Tier2Batch = 2
  MaxDrainBatches = 1
  MaxFailures = 1
PROPERTIES
  EndedIsSummarised
  
