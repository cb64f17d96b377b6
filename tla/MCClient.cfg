SPECIFICATION ClientSpec
CONSTANTS
  MaxHooks = 5
  Abreast = 2
  FlushAt = 2
  MaxItems = 2
  MaxTrouble = 1
  NoSession = NoSession
  Binary = {dkm, exe}
  Plain = {dkm}
  Entry = {e1}
  MaxCommands = 2
  MaxEdits = 1
  MaxFaults = 2
  Nobody = Nobody
  Gone = Gone
  MaxProject = 3
  Clashing = {2, 3}
  Here = 1
  MaxTrips = 2
  Corpora <- MCCorpora
  Documents <- MCDocuments
  MaxId = 3
  Wording = {"a", "b"}
  PageLimit = 1
  MaxTransferChanges = 2
  MaxTransferFaults = 1
  MaxImports = 2
  Initial <- MCInitial
  ByHand <- MCByHand
  Histories <- MCHistories
  Existing = {"home"}
  Batch = 2
  MaxRuns = 2
  MaxImportFaults = 2
  NoDir = "nowhere"
  New = {n1, n2, n3}
  RandLength = 2
  RandTop = 1
  MaxClock = 2
  MaxPutBack = 1
CHECK_DEADLOCK FALSE
INVARIANTS
  CapturedOnce
  UserEntriesKept
  
  
  TransferSound
  TranscriptsStored
  IdsAscend
