SPECIFICATION Spec
CONSTANTS
  NumRequests = 2
  Ids = {"a", "b", "c"}
  MaxSize = 7
  MaxAge = 1
  Faults = {"read", "write", "remove", "network", "crash"}
  MaxTime = 3
  HasCheckpoint = TRUE
  Iters = {1, 2}
  NumSlices = 2
  MaxExamples = 1
  MaxMade = 2
  MaxLogged = 1
CHECK_DEADLOCK FALSE
INVARIANTS
  CacheIsConsistent
  
  ServerSeesProtocol
  PlanResultIsTruthful
  SlicesAreServedInOrder
PROPERTIES
  HonoursContract
  
