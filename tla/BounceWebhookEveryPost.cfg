\* Every kind of envelope, one handler over a MemorySuppressionList.
CONSTANTS
  adrA = adrA
  adrB = adrB
  blanks = blanks
  empty = empty
  ma = ma
  mb = mb
  i1 = i1
  i2 = i2
  h1 = h1
  h2 = h2
  cert = cert
  evil = evil
  Blank = Blank
  EmptyAddress = empty
  Instances = {i1}
  Handlers = {h1}
  Addresses <- MCAddresses
  Mailboxes <- MCMailboxes
  normalize <- MCnormalize
  HandledBy <- OneProcess
  Posts <- Everything
  CertURLs = {cert}
  Durable = FALSE
  DBFaults = FALSE
  confirmSubscriptions = TRUE
SPECIFICATION WebhookSpec
INVARIANTS EntriesBacked ConfirmsOnlyPublished
