SPECIFICATION TranscriptsSpec
CONSTANTS
  Histories <- MCHistories
  Existing = {"home"}
  Batch = 2
  MaxRuns = 2
  MaxImportFaults = 2
  NoDir = "nowhere"
CHECK_DEADLOCK FALSE
INVARIANTS
  NotDuplicated
