SPECIFICATION Spec
CONSTANT MaxLoads = 2
INVARIANT TreeShowsLiveModule
CHECK_DEADLOCK FALSE
