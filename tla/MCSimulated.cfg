\* An approved collection whose preview ran first.
CONSTANTS
  Responses     = {r1}
  PrefixesOf    <- MCPrefixesOf
  Analysts      <- MCOneAnalyst
  RoleOf        <- MCOneRole
  Cases         <- MCCases
  ManualActions <- MCManual
  Policies      <- MCCustomPolicies
SPECIFICATION Spec
INVARIANT SimulatedMeansNotExecuted
