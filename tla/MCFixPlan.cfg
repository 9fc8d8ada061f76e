CONSTANTS
  none = none
  None <- none
  Length <- MCLength
  Inputs <- MCInputs
SPECIFICATION Spec
INVARIANT PatchFaithful
INVARIANT SkippedForEarlier
INVARIANT EveryFixReported
CHECK_DEADLOCK FALSE
