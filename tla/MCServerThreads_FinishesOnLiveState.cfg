SPECIFICATION ThreadsSpec
CONSTANTS
  Tasks = {t1, t2}
  Observers = {o1}
  QueueObservers = {o1}
  Inputs = {i1}
  Threads = {t1}
  MaxTasks = 1
  Callers = {t1}
  MaxTime = 2
  MaxWaiters = 1
  MaxLevel = 1
CHECK_DEADLOCK FALSE
INVARIANT FinishesOnLiveState
