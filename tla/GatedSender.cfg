\* A sender behind the gate, and an operator that creates and deletes the
\* domain it sends from.
CONSTANTS
  x = x
  mx = mx
  i1 = i1
  s1 = s1
  d1 = d1
  Blank = Blank
  NoDomain = NoDomain
  NoCaller = NoCaller
  Instances = {i1}
  Senders = {s1}
  Addresses <- MCAddresses
  Mailboxes <- MCMailboxes
  normalize <- MCnormalize
  InstanceOf <- OneProcess
  Batches <- MCBatches
  Durable = TRUE
  DBFaults = FALSE
  RequireVerified = TRUE
  ListedFor = {"manual"}
  Callers = {s1, c1}
  Operations = {"Create", "Delete", "IsVerified", "Status"}
  Domains = {d1}
  PageOf <- MCPageOf
  Pages = 1
  MaxIdentitiesPerRegion = 1
  CountTTL = 1
  VerifyTTL = 1
  MaxLatency = 1
  LostReplies = TRUE
  SharedAccount = TRUE
SPECIFICATION GatedFairSpec
INVARIANT VerdictFresh
PROPERTIES CallsReturn UnvouchedNeverMails
