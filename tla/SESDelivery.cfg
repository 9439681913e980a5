\* Two processes mail over one SQLSuppressionList, one of them gets the feedback.
CONSTANTS
  adrA = adrA
  adrb = adrb
  adrB = adrB
  blanks = blanks
  empty = empty
  ma = ma
  mb = mb
  i1 = i1
  i2 = i2
  s1 = s1
  s2 = s2
  h1 = h1
  h2 = h2
  dom = dom
  cert = cert
  Blank = Blank
  EmptyAddress = empty
  NoDomain = NoDomain
  Instances = {i1, i2}
  Senders = {s1, s2}
  Handlers = {h1}
  Addresses <- MCAddresses
  Mailboxes <- MCMailboxes
  normalize <- MCnormalize
  InstanceOf <- SenderPerProcess
  HandledBy <- HandlerPerProcess
  Batches <- MCBatches
  Posts <- MCPosts
  FeedbackOn <- MCFeedbackOn
  CertURLs = {cert}
  Durable = TRUE
  DBFaults = FALSE
  RequireVerified = FALSE
  ListedFor = {"bounce", "complaint"}
  confirmSubscriptions = TRUE
SPECIFICATION DeliveryFairSpec
INVARIANT WithheldForCause
PROPERTIES BarredNeverMailed AckedNeverMailed HostileLeftAlone
