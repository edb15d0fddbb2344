SPECIFICATION Spec
CONSTANTS
  UsedProfiles = {"developer"}
  Changes <- OneKey
  WorkspaceScope <- Scope
  Looks = {0, 1}
  MaxRevision <- Revisions
  MaxEpoch <- Epochs
  MaxRecords <- Records
  MaxTokens <- Approvals
  LooksChange = {"never_write", "workspace_policy"}
  MaxLives = 1
  MaxLate = 1
  MaxApplied = 2
  MaxAudit = 1
INVARIANTS
  NavigationAudited
CHECK_DEADLOCK FALSE
