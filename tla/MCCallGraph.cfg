CONSTANTS
  f1 = f1
  f2 = f2
  f3 = f3
  Function <- MCFunction
  Graphs <- MCGraphs
SPECIFICATION WalkSpec
INVARIANT VerdictExact
PROPERTY AlwaysProgress
PROPERTY EventuallyAnswered
PROPERTY Refines
CHECK_DEADLOCK FALSE
