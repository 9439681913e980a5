\* The database refuses an INSERT and the notification is acknowledged.
CONSTANTS
  adrA = adrA
  adrB = adrB
  blanks = blanks
  empty = empty
  ma = ma
  mb = mb
  i1 = i1
  i2 = i2
  h1 = h1
  h2 = h2
  cert = cert
  evil = evil
  Blank = Blank
  EmptyAddress = empty
  Instances = {i1}
  Handlers = {h1}
  Addresses <- MCAddresses
  Mailboxes <- MCMailboxes
  normalize <- MCnormalize
  HandledBy <- OneProcess
  Posts <- Feedback
  CertURLs = {cert}
  Durable = TRUE
  DBFaults = TRUE
  confirmSubscriptions = TRUE
SPECIFICATION WebhookSpec
INVARIANT AckedIsSuppressed
