SPECIFICATION Spec
CONSTANT MaxLoads = 3
INVARIANTS TypeOK WindowMatchesModule ModulesHaveOwners JoinIsShort FormAwaitsResult
PROPERTIES LoadMenuComesBack QuitCompletes
CHECK_DEADLOCK FALSE
