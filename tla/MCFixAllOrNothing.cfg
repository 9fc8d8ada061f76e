CONSTANTS
  none = none
  None <- none
  Length <- MCLength
  Inputs <- MCInputs
SPECIFICATION Spec
CHECK_DEADLOCK FALSE
INVARIANT AllOrNothing
