SPECIFICATION HookSpec
CONSTANTS
  MaxHooks = 4
  Abreast = 1
  FlushAt = 2
  MaxItems = 2
  MaxTrouble = 1
  NoSession = NoSession
CHECK_DEADLOCK FALSE
INVARIANTS
  ObservationsKept
