SPECIFICATION Spec
CONSTANTS
  pay = pay
  mint = mint
  helper = helper
  storage_put = storage_put
  require_auth = require_auth
  Name <- MCName
  StorageWrites <- MCWrites
  AuthImports <- MCAuth
  Inputs <- MCInputs
  MaxIndex = 3
  PageSize = 1
  Width = 32
  NarrowWidth = 8
INVARIANT UpperBoundExact
CHECK_DEADLOCK FALSE
