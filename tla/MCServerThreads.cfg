SPECIFICATION ThreadsSpec
CONSTANTS
  Tasks = {t1, t2, t3}
  Observers = {o1, o2}
  QueueObservers = {o1}
  Inputs = {i1, i2, i3}
  Threads = {t1, t2}
  MaxTasks = 3
  Callers = {t1, t2}
  MaxTime = 2
  MaxWaiters = 2
  MaxLevel = 2
CHECK_DEADLOCK FALSE
INVARIANT
  AccumulatorIsSound
PROPERTIES
  AccumulatorAnswers
  QueuedInputsAreSummed
  PrngEndIsReported
  PoolRunsEverything
  AlarmsRing
