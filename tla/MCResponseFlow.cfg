\* One response in every detail: every case, every role, every report.  The
\* properties concern one response at a time; responses share only the mode.
CONSTANTS
  Responses     = {r1}
  PrefixesOf    <- MCPrefixesOf
  Analysts      <- MCAnalysts
  RoleOf        <- MCRoleOf
  Cases         <- MCCases
  ManualActions <- MCManual
  Policies      <- MCCustomPolicies
SPECIFICATION FairSpec
INVARIANTS
  FlowInv
  ExecutionIsAuthorized
  CancelledNeverRan
  EvidenceDecides
PROPERTIES
  RefinesLifecycle
  Settles
