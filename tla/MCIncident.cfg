\* Two responses of one incident, to be collapsed into one status.
CONSTANTS
  Responses     = {r1, r2}
  PrefixesOf    <- MCPrefixesOf
  Analysts      <- MCOneAnalyst
  RoleOf        <- MCOneRole
  Cases         <- MCFewCases
  ManualActions <- MCManual
  Policies      <- MCCustomPolicies
SPECIFICATION Spec
INVARIANTS
  StatusNeverHidesExecution
  ContainedIsReal
PROPERTY ContainedIsStable
