\* A case with two commands, on a host that was cloned; widths of two bits.
CONSTANTS
  Max32 = 2
  Max64 = 2
  MaxActiveGlobal = 1
  Reservation = 1
  Requests <- MCRequests
  Policies <- MCPolicies
  Agent = "agent"
  Host = "host"
  Hosts = {"host", "clone"}
  Correlation = "case"
  Artifacts = {"art_1", "art_2"}
  MaxContent = 1
  MaxEvidence = 2
  MaxCommands = 2
SPECIFICATION Spec
INVARIANTS
  CaseInv
  EvidenceOfItsCommand
PROPERTIES
  UnattendedIsReadOnly
  StricterNeverWeaker
