\* A containment an analyst asks for while enforce is not set.
CONSTANTS
  Responses     = {r1}
  PrefixesOf    <- MCPrefixesOf
  Analysts      <- MCOneAnalyst
  RoleOf        <- MCOneRole
  Cases         <- MCCases
  ManualActions <- MCManual
  Policies      <- MCCustomPolicies
SPECIFICATION Spec
INVARIANT ContainmentNeedsEnforce
