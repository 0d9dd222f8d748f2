\* One command signed, its message replaced by any envelope of the set, again and again.
CONSTANTS
  Max32 = 2
  Max64 = 2
  Characters <- MCCharacters
  Envelopes <- MCEnvelopes
  LegalHosts <- MCLegalHosts
  Manifests <- MCManifests
  MaxSigned = 1
SPECIFICATION Spec
INVARIANTS
  ExecutedIsAuthorized
  NotationIsFree
  BytesDetermineFields
