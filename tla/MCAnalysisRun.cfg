CONSTANTS
  aFile = aFile
  bFile = bFile
  noFile = noFile
  NoFile <- noFile
  Rule <- MCRule
  Meta <- MCMeta
  Duplicates = {3}
  NPackages = 2
  Configs <- MCConfigs
  Workspaces <- MCWorkspaces
  WorkspaceNotes <- MCWorkspaceNotes
SPECIFICATION Spec
INVARIANT PipelineInv
INVARIANT FindingAccountedFor
INVARIANT SuppressionVerdict
PROPERTY DeliversPromise
CHECK_DEADLOCK FALSE
