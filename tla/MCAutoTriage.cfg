\* Two rules on one endpoint, three revisions, an unvalidated one among them.
\* The limit of the installation is below the widest one of the endpoint.
CONSTANTS
  MaxActiveGlobal = 2
  Reservation = 2
  Horizon = 2
  Jobs <- MCShared
  Revisions <- MCRevisions
  Reports <- MCReports
SPECIFICATION FairSpec
INVARIANTS
  TriageInv
  CollectionsWithinBudget
  BytesWithinBudget
PROPERTIES
  UnattendedIsBounded
  OnlyRestricts
  LimitsRecover
