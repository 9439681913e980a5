----------------------------- MODULE MCSMTPSender -----------------------------
(***************************************************************************)
(* A small instance of SMTPSender.  Sessions share nothing, so one or two  *)
(* senders and a batch with and without recipients are enough.             *)
(***************************************************************************)
EXTENDS SMTPSender

CONSTANTS x, y

Pair == [to |-> <<x>>, cc |-> <<>>, bcc |-> <<y>>]
Nobody == [to |-> <<>>, cc |-> <<>>, bcc |-> <<>>]
MCBatches == {<<>>, <<Pair>>, <<Nobody, Pair>>}
=============================================================================
