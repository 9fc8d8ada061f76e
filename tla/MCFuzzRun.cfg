CONSTANTS
  a = a
  b = b
  none = none
  None <- none
  Call = {a, b}
  State <- MCState
  Initial = 0
  NInvariants = 2
  Systems <- MCSystems
  Sequences <- MCSequences
  Cases = 2
  MaxShrinks = 2
SPECIFICATION Spec
INVARIANT HarnessInv
INVARIANT ReportReproduces
INVARIANT ReportIsLastFailure
PROPERTY FuzzReturns
CHECK_DEADLOCK FALSE
