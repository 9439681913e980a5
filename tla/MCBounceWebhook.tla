--------------------------- MODULE MCBounceWebhook ---------------------------
(***************************************************************************)
(* A small instance of BounceWebhook: two mailboxes and, among the         *)
(* recipients, an empty and a blank address.                               *)
(***************************************************************************)
EXTENDS BounceWebhook

CONSTANTS adrA, adrB, blanks, empty, ma, mb, i1, i2, h1, h2, cert, evil

MCAddresses == {adrA, adrB, blanks, empty}
MCMailboxes == {ma, mb}
MCnormalize == [x \in MCAddresses |-> CASE x = adrA -> ma [] x = adrB -> mb [] OTHER -> Blank]

OneProcess == [h \in Handlers |-> i1]
OneEach == [h \in Handlers |-> IF h = h1 THEN i1 ELSE i2]

Envelope(kind, rcpts, c, signed, url) ==
  [kind |-> kind, rcpts |-> rcpts, cert |-> c, signed |-> signed, trustedSubscribeURL |-> url]

\* Two mailboxes bounce, after a blank address; one of the two
\* complains later.
Bounce == Envelope("PermanentBounce", <<blanks, adrA, empty, adrB>>, cert, TRUE, FALSE)
Complaint == Envelope("Complaint", <<adrB>>, cert, TRUE, FALSE)
SmallBounce == Envelope("PermanentBounce", <<blanks, adrB>>, cert, TRUE, FALSE)
\* What must not suppress anybody.
Transient == Envelope("TransientBounce", <<adrA>>, cert, TRUE, FALSE)
Forged == Envelope("Complaint", <<adrA>>, cert, FALSE, FALSE)
Foreign == Envelope("Complaint", <<adrA>>, evil, FALSE, FALSE)
Garbled == Envelope("Unparsable", <<>>, cert, TRUE, FALSE)
Delivery == Envelope("OtherNotification", <<>>, cert, TRUE, FALSE)
Unsubscribed == Envelope("OtherType", <<>>, cert, TRUE, FALSE)
Subscription == Envelope("SubscriptionConfirmation", <<>>, cert, TRUE, TRUE)
Pretended == Envelope("SubscriptionConfirmation", <<>>, cert, FALSE, TRUE)
Misdirected == Envelope("SubscriptionConfirmation", <<>>, cert, TRUE, FALSE)

\* A bounce and a complaint that name the same mailbox.
Overlapping == {SmallBounce, Complaint}
Feedback == {Bounce, Complaint}
Everything ==
  {Complaint, Transient, Forged, Foreign, Garbled, Delivery, Unsubscribed, Subscription,
   Pretended, Misdirected}
=============================================================================
