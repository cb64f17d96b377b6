SPECIFICATION Spec
CONSTANTS
  User = {u1, u2}
  MemoryId = {m1, m2}
  u1 = u1
  u2 = u2
  c1 = c1
  c2 = c2
  c3 = c3
  c4 = c4
  Call = {c1, c2, c3, c4}
  Caller <- MCCaller
  Title <- MCTitle
  Body <- MCBody
  Normal <- MCNormal
  NoRow = NoRow
  NoMemory = NoMemory
  NoVector = NoVector
  Keep = Keep
SYMMETRY Symmetry
INVARIANTS
  TypeOK
  
  HashMatchesText
  CreatedOnce
PROPERTIES
  DeletedFrozen
  OwnerWrites
  ChainKept
  ImplementsBook
