SPECIFICATION Spec
CONSTANTS
  Commands <- MCCommands
  Traits <- MCTraits
  Policies <- MCPolicies
  Installed <- MCInstalled
  Budget = 2
INVARIANT FailedSyncRetried
CHECK_DEADLOCK FALSE
