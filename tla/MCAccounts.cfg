SPECIFICATION FairSpec
CONSTANTS
  server = server
  older = older
  command = command
  kuong = kuong
  default = default
  acme = acme
  r1 = r1
  r2 = r2
  Asked <- MCAsked
  Talks <- MCTalks
  Mistaken = {r1}
  Process = {server, older, command}
  Serves = {server, older}
  MigrateOnStart = {server}
  Ships <- MCShips
  Dimensions <- MCDimensions
  MaxKeys = 2
  User = {admin, kuong}
  Team = {default, acme}
  Request = {r1, r2}
  Admin = admin
  Default = default
  MaxCached = 1
  MaxTrouble = 1
  None = None
INVARIANTS
  StartSound
PROPERTIES
  LiveKeyRequired
  TeamBoundary
  ComesUp
