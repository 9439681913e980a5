\* Two processes over one SQLSuppressionList whose statements may fail; one
\* sends batches behind the gate, both suppress and lift.
CONSTANTS
  a = a
  A = A
  b = b
  ma = ma
  mb = mb
  i1 = i1
  i2 = i2
  s1 = s1
  s2 = s2
  d = d
  Blank = Blank
  NoDomain = NoDomain
  Instances = {i1, i2}
  Senders = {s1}
  Addresses <- MCAddresses
  Mailboxes <- MCMailboxes
  normalize <- MCnormalize
  InstanceOf <- TwoInstances
  Batches <- MixedBatches
  Durable = TRUE
  DBFaults = TRUE
  RequireVerified = TRUE
  ListedFor = {"bounce", "complaint", "manual"}
SPECIFICATION SenderSpec
INVARIANTS TypeOK FirstErrorReturned
PROPERTIES BarredNeverMailed ImplementsBatchSender
