CONSTANTS
  Clients = {c1, c2}
  Providers = {cava, beat}
  NoProvider = NoProvider
  MaxEvents = 6
SPECIFICATION FairSpec
CHECK_DEADLOCK FALSE
INVARIANTS
  UsersFollowClients
  WorkerFollowsUsers
  MicIsOptIn
PROPERTIES
  StopReturns
