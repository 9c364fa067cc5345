SPECIFICATION SessionsSpec
CONSTANTS
  Clients = {0, 1, 2}
  MinClients = 2
  AsyncRound2 = FALSE
  Graph <- FullGraph
  Unreliable = {0, 1, 2}
CHECK_DEADLOCK FALSE
INVARIANTS
  SessionsAreExact
  NoClientIsUncovered
  HonestClientsAreKept
PROPERTIES
  SessionEndsForEveryone
