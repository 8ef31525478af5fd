SPECIFICATION Spec
CONSTANTS
  Columns <- MCColumns
  Names <- MCNames
  Scaffold <- MCScaffold
  Quarantine <- MCQuarantine
  Liked <- MCLiked
  Policies <- MCPolicies
  Scenarios <- FrontDoors
  MaxAttempts = 2
INVARIANTS VerdictIsHonest OwnPlanConverges LeftoversAreResumed NativeNeverBlocks OnlyTheCheckedObject
  QuarantinedIsDead BuildLeavesValidOrNothing CancelHitsTheBuild SwapStrandsNothing
PROPERTIES DiscardsNothing SwapDelivers
CHECK_DEADLOCK FALSE
