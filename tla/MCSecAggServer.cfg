SPECIFICATION FairSpec
CONSTANTS
  Clients = {c1, c2, c3}
  MinClients = 2
  AsyncRound2 = TRUE
CHECK_DEADLOCK FALSE
INVARIANTS
  BookkeepingMatchesStatuses
  AbortsOnlyWhenHopeless
  UnmaskedByQuorum
  NobodyLeftWaiting
PROPERTIES
  ClientsAreClosedOnce
  ImplementsSession
  EventuallyTerminal
