---------------------------- MODULE MCSESDelivery ----------------------------
(***************************************************************************)
(* A small instance of SESDelivery: two processes, each with a sender and  *)
(* a handler, a mailbox that bounces and one that takes its mail.          *)
(***************************************************************************)
EXTENDS SESDelivery

CONSTANTS adrA, adrb, adrB, blanks, empty, ma, mb, i1, i2, s1, s2, h1, h2, dom, cert

MCAddresses == {adrA, adrb, adrB, blanks, empty}
MCMailboxes == {ma, mb}
MCnormalize ==
  [x \in MCAddresses |-> CASE x = adrA -> ma [] x \in {adrb, adrB} -> mb [] OTHER -> Blank]

SenderPerProcess == [t \in Senders |-> IF t = s1 THEN i1 ELSE i2]
HandlerPerProcess == [h \in Handlers |-> IF h = h1 THEN i1 ELSE i2]

\* SES reports the address in its own spelling.
Bounce == [kind |-> "PermanentBounce", rcpts |-> <<blanks, adrB>>, cert |-> cert, signed |-> TRUE,
           trustedSubscribeURL |-> FALSE]
\* A bounce of the other mailbox that is not AWS's.
Forged == [Bounce EXCEPT !.rcpts = <<adrA>>, !.signed = FALSE]
MCPosts == {Bounce, Forged}
MCFeedbackOn == [x \in MCMailboxes \cup {Blank} |-> IF x = mb THEN {Bounce} ELSE {}]

Newsletter == [from |-> dom, to |-> <<adrA>>, cc |-> <<>>, bcc |-> <<adrb>>]
MCBatches == {<<Newsletter>>}
=============================================================================
