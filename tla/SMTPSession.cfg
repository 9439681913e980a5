\* One sender, every configuration, every way a session can fail.
CONSTANTS
  x = x
  y = y
  Senders = {s1}
  Batches <- MCBatches
  LostAnswers = TRUE
SPECIFICATION SMTPSpec
INVARIANTS SMTPTypeOK NoCleartextCredentials AllOrNothing FirstErrorReturned
PROPERTY ImplementsBatchSender
