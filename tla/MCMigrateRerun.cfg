SPECIFICATION Spec
CONSTANTS
  Columns <- MCColumns
  Names <- MCNames
  Scaffold <- MCScaffold
  Quarantine <- MCQuarantine
  Liked <- MCLiked
  Policies <- MCPolicies
  Scenarios <- OneRerun
  MaxAttempts = 2
INVARIANTS RerunFinishes
CHECK_DEADLOCK FALSE
