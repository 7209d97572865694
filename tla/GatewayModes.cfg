SPECIFICATION Spec
CONSTANTS
  Commands <- MCCommands
  Traits <- MCTraits
  Policies <- MCPolicies
  Installed <- MCInstalled
  Budget = 2
INVARIANTS
  TypeOK
  AppliedHolds
  ApprovedWasOpen
  StrictMeansMinted
  
CHECK_DEADLOCK FALSE
