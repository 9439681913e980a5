\* Creations, deletions, counts and verdicts by two callers.
CONSTANTS
  d1 = d1
  d2 = d2
  NoCaller = NoCaller
  Callers = {c1, c2}
  Operations = {"Usage", "Create", "Delete", "IsVerified"}
  Domains = {d1, d2}
  PageOf <- MCPageOf
  Pages = 2
  MaxIdentitiesPerRegion = 2
  CountTTL = 2
  VerifyTTL = 1
  MaxLatency = 0
  LostReplies = TRUE
  SharedAccount = TRUE
SPECIFICATION IdentitySpec
CONSTRAINT OneDomainPublishes
SYMMETRY CallerSymmetry
INVARIANTS IdentityTypeOK CountCoherent
