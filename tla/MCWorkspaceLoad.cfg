CONSTANTS
  none = none
  None <- none
  NDirectories = 4
  Trees <- MCTrees
SPECIFICATION Spec
INVARIANT FilesBelong
INVARIANT IdsResolve
INVARIANT EveryPackagePlaced
CHECK_DEADLOCK FALSE
