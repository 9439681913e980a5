\* A suppression that arrives between the filter and SendEmail.
CONSTANTS
  a = a
  A = A
  b = b
  ma = ma
  mb = mb
  i1 = i1
  i2 = i2
  s1 = s1
  s2 = s2
  d = d
  Blank = Blank
  NoDomain = NoDomain
  Instances = {i1}
  Senders = {s1}
  Addresses <- MCAddresses
  Mailboxes <- MCMailboxes
  normalize <- MCnormalize
  InstanceOf <- OneInstance
  Batches <- SimpleBatches
  Durable = FALSE
  DBFaults = FALSE
  RequireVerified = FALSE
  ListedFor = {"manual"}
SPECIFICATION SenderSpec
PROPERTY SuppressedNeverReachSES
