\* Two processes over one SQLSuppressionList: crashes, redeliveries and
\* overlapping feedback.
CONSTANTS
  adrA = adrA
  adrB = adrB
  blanks = blanks
  empty = empty
  ma = ma
  mb = mb
  i1 = i1
  i2 = i2
  h1 = h1
  h2 = h2
  cert = cert
  evil = evil
  Blank = Blank
  EmptyAddress = empty
  Instances = {i1, i2}
  Handlers = {h1, h2}
  Addresses <- MCAddresses
  Mailboxes <- MCMailboxes
  normalize <- MCnormalize
  HandledBy <- OneEach
  Posts <- Overlapping
  CertURLs = {cert}
  Durable = TRUE
  DBFaults = FALSE
  confirmSubscriptions = FALSE
SPECIFICATION WebhookFairSpec
INVARIANTS WebhookTypeOK AckedIsSuppressed
PROPERTY FeedbackProcessed
