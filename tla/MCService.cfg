SPECIFICATION ServiceSpec
CONSTANTS
  RRFK = 2
  Scale = 420
  CandidateLimit = 5
  ListLimit = 4
  SessionLimit = 2
  Headings <- Lengths
  Corpora <- Stores
  Requests <- Asks
  Providers <- Models
  Prompts <- Written
  SearchLimit = 5
  BriefLimit = 2
  ContextBudget = 18
  MaxMemories = 3
  MaxMemoryChars = 70
  MaxLineChars = 40
  NarrowTo = 2
  MaxAttempts = 3
  BackoffBase = 3
  RetryAfters <- Waiting
  hooks = hooks
  cli = cli
  other = other
  Caller <- Callers
  KeyOf <- Keys
  Budget <- Budgets
  MinuteSeconds = 2
  TicksPerSecond = 2
  StaleMinutes = 1
  MaxBuckets = 1
  MaxRetries = 1
  MaxCalls = 4
  MaxTime = 8
  MaxRestarts = 1
  File = {1, 2, 3}
  Memory = {1}
  Observation = {1, 2, 3}
  Session = {"s1"}
  Names <- MCNames
  From <- MCFrom
  Touched <- MCTouched
  During <- MCDuring
  Window = 1
  NodeCap = 2
  Worker = {w1, w2}
  Button = {}
  MaxTrouble = 1
  None = None
CHECK_DEADLOCK FALSE
INVARIANTS
  
  RetriesRight
  
  
  BudgetHeld
  FreshIsDerived
PROPERTIES
  HonouredRetrySucceeds
  
