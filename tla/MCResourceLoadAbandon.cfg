SPECIFICATION Spec
CONSTANTS
  WorkerCount = 4
  MaxItems = 2
  Phases <- MCPhases
  Tasks <- MCTasks
  Outcomes <- MCOutcomes
  DefaultWrite <- MCDefaultWrite
INVARIANT NoTaskOutlivesItsPhase
CHECK_DEADLOCK FALSE
