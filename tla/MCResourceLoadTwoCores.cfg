SPECIFICATION Spec
CONSTANTS
  WorkerCount = 2
  MaxItems = 2
  Phases <- MCPhases
  Tasks <- MCTasks
  Outcomes <- MCOutcomes
  DefaultWrite <- MCDefaultWrite
INVARIANT NoStarvation
CHECK_DEADLOCK FALSE
