SPECIFICATION Spec
CONSTANTS
  f1 = f1
  f2 = f2
  Files <- MCFiles
  Home <- MCHome
  Plans <- MCPlans
  Faux <- MCFaux
  MaxSaves = 3
INVARIANTS TypeOK ParallelIsSequential ReadYourWrites MappedFilesOpen
PROPERTY WritesStayInThisMod
CHECK_DEADLOCK FALSE
