SPECIFICATION Spec
CONSTANTS
  w1 = w1
  w2 = w2
  c1 = c1
  c2 = c2
  t1 = t1
  t2 = t2
  t3 = t3
  NoTask = NoTask
  Workers <- MCWorkers
  Clients <- MCClients
  Tasks <- MCTasks
INVARIANTS TypeOK NoLostWakeup DestroyedIsDrained
PROPERTIES EverySubmittedTaskRuns DestructionEnds ImplementsTaskQueue
CHECK_DEADLOCK FALSE
