CONSTANTS
  LastLine = 7
  Reach = 2
  Rule <- MCRule
  Layouts <- MCLayouts
  Directives <- MCDirectives
SPECIFICATION Spec
INVARIANT InsideFunctionCovered
INVARIANT SiblingsUntouched
INVARIANT NothingAboveSilenced
CHECK_DEADLOCK FALSE
