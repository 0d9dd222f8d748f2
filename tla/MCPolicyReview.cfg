CONSTANTS
  PrefixesOf    <- MCPrefixesOf
  Levels        <- MCLevels
  Percents      <- MCPercents
  Keys          <- MCKeys
  FirstAlerts   <- MCFirstAlerts
  Candidates    <- MCCandidates
  PolicySets    <- MCPolicySets
  ExtraPolicies <- MCExtraPolicies
  MaxPolicies   = 3
SPECIFICATION Spec
INVARIANT ReviewTypeOK
PROPERTIES
  StrongerAlertNeverAnsweredLess
  ModeSwitchOnlyPreviews
  ForeignPolicyHasNoSay
