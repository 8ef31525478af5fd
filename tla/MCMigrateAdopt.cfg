SPECIFICATION Spec
CONSTANTS
  Columns <- MCColumns
  Names <- MCNames
  Scaffold <- MCScaffold
  Quarantine <- MCQuarantine
  Liked <- MCLiked
  Policies <- MCPolicies
  Scenarios <- OneAdoption
  MaxAttempts = 2
INVARIANTS AdoptsTheChecked
CHECK_DEADLOCK FALSE
