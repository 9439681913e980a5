---------------------------- MODULE BounceWebhook ----------------------------
(***************************************************************************)
(* The HTTP handler that turns SES bounce and complaint notifications into *)
(* suppressions (backend/ses/bounce.go, backend/ses/sns_verify.go), and    *)
(* the SNS topic that posts them (external).                               *)
(*                                                                         *)
(* SNS keeps a notification until the endpoint answers 2xx.  It may post   *)
(* it again at any time and to any process, and posts to as many handler   *)
(* goroutines as it likes; anyone else may post to the same URL.  Each     *)
(* recipient is added in a step of its own, and a process may die before   *)
(* the next one.                                                           *)
(***************************************************************************)
EXTENDS SuppressionList, Integers, Sequences

CONSTANTS
  Handlers,             \* handler goroutines
  HandledBy,            \* the process each of them runs in
  Posts,                \* the envelopes that may be posted
  EmptyAddress,         \* the emailAddress ""
  CertURLs,             \* the trusted values of SigningCertURL
  confirmSubscriptions

NotificationKinds ==
  {"PermanentBounce", "TransientBounce", "Complaint", "OtherNotification", "Unparsable"}

ASSUME WebhookAssumption ==
  /\ HandledBy \in [Handlers -> Instances]
  /\ confirmSubscriptions \in BOOLEAN
  /\ EmptyAddress \in Addresses
  /\ normalize[EmptyAddress] = Blank
  /\ \A m \in Posts :
       /\ m.kind \in NotificationKinds \cup {"SubscriptionConfirmation", "OtherType"}
       /\ m.rcpts \in Seq(Addresses)
       /\ {m.signed, m.trustedSubscribeURL} \subseteq BOOLEAN

VARIABLES
  phase,     \* where the handler is in ServeHTTP, "idle" between requests
  request,   \* the envelope it works on
  cursor,    \* the recipient it adds next
  certs,     \* snsCertCache of each process: the URLs whose key it holds
  published, \* external: the envelopes that AWS has handed to SNS
  pending,   \* external: those SNS has no 2xx for
  confirmed, \* external: confirmations that SNS accepted
  due,       \* history: on each list, the mailboxes named by notifications
             \* that were answered with 200, and that nobody has lifted since
  lifted,    \* history: mailboxes lifted while the handler was at work
  settled    \* external: from now on no process dies and nothing is lifted

handling == <<phase, request, cursor, lifted>>
topic == <<published, pending, confirmed>>
webhookVars == <<handling, certs, topic, due, settled>>
webhookAll == <<entries, webhookVars>>

NoRequest == [kind |-> "none", rcpts |-> <<>>]

\* Every list a handler can reach is the list of its process.
ListOf(h) == StoreOf(HandledBy[h])

WebhookInit ==
  /\ phase = [h \in Handlers |-> "idle"]
  /\ request = [h \in Handlers |-> NoRequest]
  /\ cursor = [h \in Handlers |-> 1]
  /\ certs = [i \in Instances |-> {}]
  /\ published = {}
  /\ pending = {}
  /\ confirmed = {}
  /\ due = [s \in Stores |-> {}]
  /\ lifted = [h \in Handlers |-> {}]
  /\ settled = FALSE

\* The mailboxes a notification names.
Named(m) == {normalize[m.rcpts[k]] : k \in DOMAIN m.rcpts} \ {Blank}

\* Mutant: the test of bounceType is the wrong way round.
TransientOnly(m) == m.kind \in {"TransientBounce", "Complaint"}

\* handleBounce goes on for a permanent bounce, handleComplaint for any.
Suppresses(m) == m.kind \in {"PermanentBounce", "Complaint"}

Reason(m) == IF m.kind = "Complaint" THEN "complaint" ELSE "bounce"

\* AWS publishes an envelope (external).
Publish(m) ==
  /\ m.signed
  /\ m \notin published
  /\ published' = published \cup {m}
  /\ pending' = pending \cup {m}
  /\ UNCHANGED <<entries, handling, certs, confirmed, due, settled>>

\* An envelope arrives at handler h: one that SNS has, for the first time or
\* again, or one that is not AWS's.  (Requests that are no POST, cannot be
\* read or hold no JSON are refused without any effect.)
Post(h, m) ==
  /\ phase[h] = "idle"
  /\ m.signed => m \in published
  /\ phase' = [phase EXCEPT ![h] = "verify"]
  /\ request' = [request EXCEPT ![h] = m]
  /\ lifted' = [lifted EXCEPT ![h] = {}]
  /\ UNCHANGED <<entries, cursor, certs, topic, due, settled>>

\* h is done with its request.
EndRequest(h) ==
  /\ phase' = [phase EXCEPT ![h] = "idle"]
  /\ request' = [request EXCEPT ![h] = NoRequest]
  /\ cursor' = [cursor EXCEPT ![h] = 1]
  /\ lifted' = [lifted EXCEPT ![h] = {}]

\* The answer is 400, 403 or 500: SNS keeps the envelope.
Refuse(h) ==
  /\ EndRequest(h)
  /\ UNCHANGED <<entries, published, pending, due, settled>>

\* The answer is 200: SNS has delivered the envelope.
Acknowledge(h) ==
  /\ EndRequest(h)
  /\ pending' = pending \ {request[h]}
  /\ due' = IF request[h].kind \in {"PermanentBounce", "Complaint"}
            THEN [due EXCEPT ![ListOf(h)] = @ \cup (Named(request[h]) \ lifted[h])]
            ELSE due
  /\ UNCHANGED <<entries, published, settled>>

\* Work goes on in another part of ServeHTTP.
Proceed(h, p) ==
  /\ phase' = [phase EXCEPT ![h] = p]
  /\ UNCHANGED <<entries, request, cursor, published, pending, due, lifted, settled>>

\* The switches of ServeHTTP and handleNotification.
Dispatch(h) ==
  LET m == request[h] IN
  \/ m.kind = "SubscriptionConfirmation" /\ Proceed(h, "confirm")
  \/ m.kind = "Unparsable" /\ Refuse(h)
  \/ m.kind \in NotificationKinds \ {"Unparsable"} /\ Suppresses(m) /\ Proceed(h, "add")
  \/ m.kind \in NotificationKinds \ {"Unparsable"} /\ ~ Suppresses(m) /\ Acknowledge(h)
  \/ m.kind = "OtherType" /\ Acknowledge(h)

\* Mutant: the envelope is trusted for its certificate's URL.
AnySignature(m) == m.cert \in CertURLs

\* The last step of VerifySNSMessage: the signature is the key's.
SignatureValid(m) == m.signed

\* VerifySNSMessage with the key at hand, cached or fetched now.
Verify(h) ==
  LET m == request[h] IN
  /\ phase[h] = "verify"
  /\ m.cert \in CertURLs
  /\ certs' = [certs EXCEPT ![HandledBy[h]] = @ \cup {m.cert}]
  /\ IF SignatureValid(m) THEN Dispatch(h) ELSE Refuse(h)
  /\ UNCHANGED confirmed

\* VerifySNSMessage without a key: the SignatureVersion or the URL is not
\* acceptable, or the certificate is not cached and cannot be fetched.
CannotVerify(h) ==
  /\ phase[h] = "verify"
  /\ request[h].cert \notin CertURLs \/ request[h].cert \notin certs[HandledBy[h]]
  /\ Refuse(h)
  /\ UNCHANGED <<certs, confirmed>>

\* handleSubscriptionConfirmation.  The status of the GET is not looked at:
\* SNS may have refused the confirmation.
Confirm(h) ==
  LET m == request[h] IN
  /\ phase[h] = "confirm"
  /\ \/ /\ ~ confirmSubscriptions
        /\ Acknowledge(h)
        /\ UNCHANGED confirmed
     \/ /\ confirmSubscriptions /\ ~ m.trustedSubscribeURL
        /\ Refuse(h)
        /\ UNCHANGED confirmed
     \/ /\ confirmSubscriptions /\ m.trustedSubscribeURL
        /\ \/ Refuse(h) /\ UNCHANGED confirmed
           \/ Acknowledge(h) /\ confirmed' \in {confirmed, confirmed \cup {m}}
  /\ UNCHANGED certs

\* Mutant: a recipient that cannot be added ends the loop.
StopAtError(h, err) == IF err THEN Len(request[h].rcpts) + 1 ELSE cursor[h] + 1

\* Mutant: a recipient that cannot be added is tried again.
TryAgain(h, err) == IF err THEN cursor[h] ELSE cursor[h] + 1

\* Mutant: the loop skips a recipient.
EveryOther(h, err) == cursor[h] + 2

\* The loops continue with the next recipient, whatever Add returned.
NextRecipient(h, err) == cursor[h] + 1

\* One iteration of the loop of handleBounce or handleComplaint.
AddRecipient(h) ==
  LET m == request[h]
      a == m.rcpts[cursor[h]]
  IN /\ phase[h] = "add"
     /\ cursor[h] \in DOMAIN m.rcpts
     /\ \/ /\ a = EmptyAddress
           /\ cursor' = [cursor EXCEPT ![h] = @ + 1]
           /\ UNCHANGED entries
        \/ /\ a # EmptyAddress
           /\ \E err \in BOOLEAN :
                /\ Add(HandledBy[h], a, Reason(m), err)
                /\ cursor' = [cursor EXCEPT ![h] = NextRecipient(h, err)]
     /\ UNCHANGED <<phase, request, certs, topic, due, lifted, settled>>

\* All recipients are dealt with.
Answer(h) ==
  /\ phase[h] = "add"
  /\ cursor[h] \notin DOMAIN request[h].rcpts
  /\ Acknowledge(h)
  /\ UNCHANGED <<certs, confirmed>>

HandlerStep(h) ==
  \/ Verify(h) \/ CannotVerify(h) \/ Confirm(h) \/ AddRecipient(h) \/ Answer(h)

\* What the history forgets when the operator lifts address a on list s.
ForgetLifted(s, a) ==
  /\ due' = [due EXCEPT ![s] = @ \ {normalize[a]}]
  /\ lifted' = [h \in Handlers |-> IF ListOf(h) = s /\ phase[h] # "idle"
                                   THEN lifted[h] \cup {normalize[a]} ELSE lifted[h]]

\* The operator removes an address from the list of instance i.
LiftAddress(i) ==
  /\ ~ settled
  /\ \E a \in Addresses, err \in BOOLEAN : Remove(i, a, err) /\ ForgetLifted(StoreOf(i), a)
  /\ UNCHANGED <<phase, request, cursor, certs, topic, settled>>

\* Process i dies and starts again: its requests and its keys are gone.
Recycle(i) ==
  LET Reborn(f, zero) == [h \in Handlers |-> IF HandledBy[h] = i THEN zero ELSE f[h]] IN
  /\ ~ settled
  /\ phase' = Reborn(phase, "idle")
  /\ request' = Reborn(request, NoRequest)
  /\ cursor' = Reborn(cursor, 1)
  /\ lifted' = Reborn(lifted, {})
  /\ certs' = [certs EXCEPT ![i] = {}]
  /\ UNCHANGED <<topic, due, settled>>

RestartWebhook(i) == Reopen(i) /\ Recycle(i)

\* Crashes and interventions come to an end (a bound on the environment).
Settle ==
  /\ settled' = TRUE
  /\ UNCHANGED <<entries, handling, certs, topic, due>>

WebhookNext ==
  \/ \E m \in Posts : Publish(m) \/ \E h \in Handlers : Post(h, m)
  \/ \E h \in Handlers : HandlerStep(h)
  \/ \E i \in Instances : LiftAddress(i) \/ RestartWebhook(i)
  \/ Settle

FeedbackInit == SuppressionInit /\ WebhookInit

WebhookSpec == FeedbackInit /\ [][WebhookNext]_webhookAll

(***************************************************************************)
(* SNS posts an unacknowledged envelope again and again; the HTTP server   *)
(* gives every request a goroutine and the Go runtime runs it; and the     *)
(* certificate can be fetched now and then, or is cached.                  *)
(***************************************************************************)
WebhookFairness ==
  /\ \A m \in Posts : SF_webhookAll(\E h \in Handlers : m \in pending /\ Post(h, m))
  /\ \A h \in Handlers : /\ SF_webhookAll(Verify(h))
                         /\ WF_webhookAll(HandlerStep(h))

WebhookFairSpec == WebhookSpec /\ WebhookFairness

-----------------------------------------------------------------------------
WebhookTypeOK ==
  /\ SuppressionTypeOK
  /\ phase \in [Handlers -> {"idle", "verify", "confirm", "add"}]
  /\ request \in [Handlers -> Posts \cup {NoRequest}]
  /\ cursor \in [Handlers -> Nat]
  /\ certs \in [Instances -> SUBSET CertURLs]
  /\ pending \subseteq published
  /\ published \subseteq Posts
  /\ confirmed \subseteq Posts
  /\ due \in [Stores -> SUBSET Mailboxes]
  /\ lifted \in [Handlers -> SUBSET (Mailboxes \cup {Blank})]
  /\ settled \in BOOLEAN
  /\ \A h \in Handlers : /\ IF phase[h] = "idle" THEN request[h] = NoRequest
                            ELSE request[h] \in Posts
                         /\ cursor[h] \in 1 .. Len(request[h].rcpts) + 1

(***************************************************************************)
(* Nobody is suppressed on hearsay: every entry is backed by a permanent   *)
(* bounce or a complaint that AWS published and that names the mailbox, of *)
(* the kind the entry gives as its reason (bounce.go:114-246).             *)
(***************************************************************************)
EntriesBacked ==
  \A s \in Stores, b \in Mailboxes : entries[s][b] # NoEntry =>
    \E m \in published :
      /\ b \in Named(m)
      /\ m.kind = (IF entries[s][b] = "bounce" THEN "PermanentBounce" ELSE "Complaint")

(***************************************************************************)
(* The handler subscribes to nothing on hearsay either: whatever it has    *)
(* confirmed, AWS published, with a SubscribeURL of SNS (bounce.go:61-62,  *)
(* 114-127, 143-175).                                                      *)
(***************************************************************************)
ConfirmsOnlyPublished == confirmed \subseteq {m \in published : m.trustedSubscribeURL}

(***************************************************************************)
(* What SNS has a 200 for is on the list: SNS will not post it again, so   *)
(* an address that was not added by then may be mailed for ever.  Also if  *)
(* processes die in the middle of a loop, several handlers work on the     *)
(* same notification, or some of its addresses are blank                   *)
(* (bounce.go:194, 211-224, 233-245).                                      *)
(***************************************************************************)
AckedIsSuppressed == \A i \in Instances : due[StoreOf(i)] \subseteq Suppressed(i)

\* Where a handler stands: it acts only on behalf of what AWS published.
RequestBacked(h) ==
  /\ phase[h] # "idle" /\ request[h].signed => request[h] \in published
  /\ phase[h] = "confirm" => /\ request[h] \in published
                             /\ request[h].kind = "SubscriptionConfirmation"
  /\ phase[h] = "add" => request[h] \in published /\ Suppresses(request[h])

\* The recipients before the cursor are on the list, blank, or lifted since.
LoopProgress(h) ==
  IF phase[h] = "add"
  THEN \A k \in DOMAIN request[h].rcpts : k < cursor[h] =>
         normalize[request[h].rcpts[k]] \in {Blank} \cup lifted[h] \cup Suppressed(HandledBy[h])
  ELSE cursor[h] = 1

\* The two with the state of the handlers they rest on.
BackedInv == EntriesBacked /\ ConfirmsOnlyPublished /\ \A h \in Handlers : RequestBacked(h)

\* AckedIsSuppressed with the state of the handlers it rests on.
AckedInv == AckedIsSuppressed /\ \A h \in Handlers : LoopProgress(h)

(***************************************************************************)
(* Every bounce and complaint AWS publishes is processed in the end,       *)
(* though fetches fail, requests are lost in crashes, and other requests   *)
(* keep the handlers busy (bounce.go:94-141, sns_verify.go:132-165).       *)
(***************************************************************************)
FeedbackProcessed ==
  <>settled =>
    \A m \in Posts : m.kind \in {"PermanentBounce", "Complaint"} =>
      (m \in published ~> m \notin pending)

=============================================================================
