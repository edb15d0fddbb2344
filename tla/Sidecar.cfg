SPECIFICATION Spec
CONSTANTS
  UsedProfiles = {"never_write", "workspace_policy", "developer"}
  Changes <- OneKey
  WorkspaceScope <- Scope
  Looks = {0, 1}
  MaxRevision <- Revisions
  MaxEpoch <- Epochs
  MaxRecords <- Records
  MaxTokens <- Approvals
  LooksChange = {"never_write", "workspace_policy"}
  MaxLives = 1
  MaxLate = 1
  MaxApplied = 2
  MaxAudit = 1
INVARIANTS
  TypeOK
  AppliedOnce
  AppliedAsApproved
  KeyCommitsOnce
  AuditIsTrue
PROPERTIES
  DenialsUseNothingUp
  ImplementsApprovedEdits
CHECK_DEADLOCK FALSE
