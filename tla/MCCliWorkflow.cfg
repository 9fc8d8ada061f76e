CONSTANTS
  aFile = aFile
  noFile = noFile
  unset = unset
  NoFile <- noFile
  Unset <- unset
  Rule <- MCRule
  Meta <- MCMeta
  Duplicates = {}
  Universe <- MCUniverse
  Comments <- MCComments
  Thresholds = {3}
SPECIFICATION Spec
INVARIANT BaselineInv
INVARIANT NothingPassesUnseen
INVARIANT RecordedPasses
