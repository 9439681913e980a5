----------------------------- MODULE MCSESSender -----------------------------
(***************************************************************************)
(* A small instance of SESSender: two mailboxes, one of them spelled in    *)
(* two ways, and messages that use To, CC and BCC.                         *)
(***************************************************************************)
EXTENDS SESSender

CONSTANTS a, A, b, ma, mb, i1, i2, s1, s2, d

MCAddresses == {a, A, b}
MCMailboxes == {ma, mb}
MCnormalize == [x \in MCAddresses |-> IF x = b THEN mb ELSE ma]

OneInstance == [t \in Senders |-> i1]
TwoInstances == [t \in Senders |-> IF t = s1 THEN i1 ELSE i2]

\* One address in To and Bcc under two spellings, another in Cc.
All3 == [from |-> d, to |-> <<A>>, cc |-> <<b>>, bcc |-> <<a>>]
\* One recipient, from an address without a domain.
Anonymous == [from |-> NoDomain, to |-> <<b>>, cc |-> <<>>, bcc |-> <<>>]
Simple == [from |-> d, to |-> <<A>>, cc |-> <<>>, bcc |-> <<>>]

MixedBatches == {<<>>, <<All3>>, <<Anonymous, Simple>>}
SimpleBatches == {<<Simple>>, <<All3>>}
=============================================================================
