SPECIFICATION Spec
CONSTANTS
  WorkerCount = 4
  MaxItems = 2
  Phases <- MCPhases
  Tasks <- MCTasks
  Outcomes <- MCOutcomes
  DefaultWrite <- MCDefaultWrite
INVARIANTS TypeOK NoStarvation DeferredPhasesCollect FirstErrorWins BadItemSparesTheRest
PROPERTY LoadReturns
CHECK_DEADLOCK FALSE
