\* The connection holds until the relay has answered the final dot, and then
\* QUIT fails.
CONSTANTS
  x = x
  y = y
  Senders = {s1}
  Batches <- MCBatches
  LostAnswers = FALSE
SPECIFICATION SMTPSpec
INVARIANT ErrorMeansNobody
