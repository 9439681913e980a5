------------------------ MODULE BounceWebhookProofs ------------------------
(***************************************************************************)
(* Nobody is suppressed and nothing confirmed on hearsay, and what SNS has *)
(* a 200 for is on the list, for every set of processes, handlers and      *)
(* envelopes.                                                              *)
(***************************************************************************)
EXTENDS BounceWebhook, SuppressionListProofs

\* The mailboxes an envelope names, when it is one.
LEMMA NamedMailboxes ==
  ASSUME NEW m \in Posts
  PROVE  /\ m.rcpts \in Seq(Addresses)
         /\ Len(m.rcpts) \in Nat
         /\ DOMAIN m.rcpts = 1 .. Len(m.rcpts)
         /\ Named(m) \in SUBSET Mailboxes
<1>1. m.rcpts \in Seq(Addresses)
  BY WebhookAssumption
<1>2. Len(m.rcpts) \in Nat /\ DOMAIN m.rcpts = 1 .. Len(m.rcpts)
  BY <1>1
<1>3. \A k \in DOMAIN m.rcpts : normalize[m.rcpts[k]] \in Mailboxes \cup {Blank}
  BY <1>1, <1>2, SuppressionAssumption
<1> QED
  BY <1>1, <1>2, <1>3 DEF Named

\* Every request a handler ends, whatever the answer.
LEMMA EndTypes ==
  ASSUME WebhookTypeOK, NEW h \in Handlers, phase[h] # "idle", EndRequest(h),
         UNCHANGED <<entries, published, settled>>,
         \/ UNCHANGED <<pending, due>>
         \/ /\ pending' = pending \ {request[h]}
            /\ \/ UNCHANGED due
               \/ due' = [due EXCEPT ![ListOf(h)] = @ \cup (Named(request[h]) \ lifted[h])],
         certs' \in [Instances -> SUBSET CertURLs],
         confirmed' \in SUBSET Posts
  PROVE  WebhookTypeOK'
<1>1. SuppressionTypeOK'
  BY DEF WebhookTypeOK, SuppressionTypeOK, Stores
<1>2. /\ phase' \in [Handlers -> {"idle", "verify", "confirm", "add"}]
      /\ request' \in [Handlers -> Posts \cup {NoRequest}]
      /\ cursor' \in [Handlers -> Nat]
      /\ lifted' \in [Handlers -> SUBSET (Mailboxes \cup {Blank})]
  BY DEF EndRequest, WebhookTypeOK
<1>3. pending' \subseteq published' /\ published' \subseteq Posts
  BY DEF WebhookTypeOK
<1>4. due' \in [Stores -> SUBSET Mailboxes]
  <2>1. Named(request[h]) \in SUBSET Mailboxes
    BY NamedMailboxes DEF WebhookTypeOK
  <2> QED
    BY <2>1 DEF WebhookTypeOK, Stores
<1>5. ASSUME NEW g \in Handlers
      PROVE  /\ IF phase'[g] = "idle" THEN request'[g] = NoRequest ELSE request'[g] \in Posts
             /\ cursor'[g] \in 1 .. Len(request'[g].rcpts) + 1
  <2>1. CASE g = h
    <3>1. phase'[g] = "idle" /\ request'[g] = NoRequest /\ cursor'[g] = 1
      BY <2>1 DEF EndRequest, WebhookTypeOK
    <3>2. Len(NoRequest.rcpts) = 0
      BY DEF NoRequest
    <3> QED
      BY <3>1, <3>2
  <2>2. CASE g # h
    BY <2>2 DEF EndRequest, WebhookTypeOK
  <2> QED
    BY <2>1, <2>2
<1> QED
  BY <1>1, <1>2, <1>3, <1>4, <1>5 DEF WebhookTypeOK

\* A request goes on in another part of the handler.
LEMMA ProceedTypes ==
  ASSUME WebhookTypeOK, NEW h \in Handlers, phase[h] # "idle",
         NEW p \in {"confirm", "add"}, Proceed(h, p),
         certs' \in [Instances -> SUBSET CertURLs], UNCHANGED confirmed
  PROVE  WebhookTypeOK'
<1>1. phase' \in [Handlers -> {"idle", "verify", "confirm", "add"}]
  BY DEF Proceed, WebhookTypeOK
<1>2. ASSUME NEW g \in Handlers
      PROVE  IF phase'[g] = "idle" THEN request'[g] = NoRequest ELSE request'[g] \in Posts
  BY DEF Proceed, WebhookTypeOK
<1> QED
  BY <1>1, <1>2 DEF Proceed, WebhookTypeOK, SuppressionTypeOK, Stores

\* An answer of 4xx or 5xx, and one of 200.
LEMMA AnswerTypes ==
  ASSUME WebhookTypeOK, NEW h \in Handlers, phase[h] # "idle",
         Refuse(h) \/ Acknowledge(h),
         certs' \in [Instances -> SUBSET CertURLs], confirmed' \in SUBSET Posts
  PROVE  WebhookTypeOK'
BY EndTypes DEF Refuse, Acknowledge

\* Every step of a handler.
LEMMA HandlerTypes ==
  ASSUME WebhookTypeOK, NEW h \in Handlers, HandlerStep(h)
  PROVE  WebhookTypeOK'
<1>0. /\ certs \in [Instances -> SUBSET CertURLs]
      /\ confirmed \in SUBSET Posts
      /\ HandledBy[h] \in Instances
  BY WebhookAssumption DEF WebhookTypeOK
<1>1. CASE Verify(h)
  <2>1. certs' \in [Instances -> SUBSET CertURLs] /\ UNCHANGED confirmed /\ phase[h] # "idle"
    BY <1>0, <1>1 DEF Verify
  <2>2. CASE Dispatch(h)
    BY <1>0, <2>1, <2>2, AnswerTypes, ProceedTypes DEF Dispatch
  <2> QED
    BY <1>0, <1>1, <2>1, <2>2, AnswerTypes DEF Verify
<1>2. CASE CannotVerify(h)
  BY <1>0, <1>2, AnswerTypes DEF CannotVerify
<1>3. CASE Confirm(h)
  <2>1. confirmed' \in SUBSET Posts
    BY <1>0, <1>3 DEF Confirm, WebhookTypeOK
  <2> QED
    BY <1>0, <1>3, <2>1, AnswerTypes DEF Confirm
<1>4. CASE AddRecipient(h)
  <2>1. request[h] \in Posts /\ cursor[h] \in DOMAIN request[h].rcpts
    BY <1>4 DEF AddRecipient, WebhookTypeOK
  <2>2. request[h].rcpts[cursor[h]] \in Addresses /\ Reason(request[h]) \in Reasons
    BY <2>1, NamedMailboxes DEF Reason, Reasons
  <2>3. SuppressionTypeOK'
    <3>1. CASE UNCHANGED entries
      BY <3>1 DEF WebhookTypeOK, SuppressionTypeOK, Stores
    <3>2. ASSUME NEW err \in BOOLEAN,
                 Add(HandledBy[h], request[h].rcpts[cursor[h]], Reason(request[h]), err)
          PROVE  SuppressionTypeOK'
      BY <1>0, <2>2, <3>2, ListTypes DEF WebhookTypeOK
    <3> QED
      BY <1>4, <3>1, <3>2 DEF AddRecipient
  <2>4. cursor' = [cursor EXCEPT ![h] = @ + 1]
    BY <1>4 DEF AddRecipient, NextRecipient
  <2>5. cursor' \in [Handlers -> Nat]
    BY <2>4 DEF WebhookTypeOK
  <2>6. ASSUME NEW g \in Handlers PROVE cursor'[g] \in 1 .. Len(request[g].rcpts) + 1
    <3>1. CASE g = h
      <4>1. cursor'[h] = cursor[h] + 1
        BY <2>4 DEF WebhookTypeOK
      <4>2. cursor[h] \in 1 .. Len(request[h].rcpts) /\ Len(request[h].rcpts) \in Nat
        BY <2>1, NamedMailboxes
      <4> QED
        BY <3>1, <4>1, <4>2
    <3>2. CASE g # h
      BY <2>4, <3>2 DEF WebhookTypeOK
    <3> QED
      BY <3>1, <3>2
  <2> QED
    BY <1>4, <2>3, <2>5, <2>6 DEF AddRecipient, WebhookTypeOK, topic
<1>5. CASE Answer(h)
  BY <1>0, <1>5, AnswerTypes DEF Answer
<1> QED
  BY <1>1, <1>2, <1>3, <1>4, <1>5 DEF HandlerStep

\* Every step of the webhook and of what surrounds it.
LEMMA WebhookStepTypes ==
  ASSUME WebhookTypeOK, [WebhookNext]_webhookAll
  PROVE  WebhookTypeOK'
<1>1. ASSUME NEW m \in Posts, Publish(m) PROVE WebhookTypeOK'
  BY <1>1 DEF Publish, handling, WebhookTypeOK, SuppressionTypeOK, Stores
<1>2. ASSUME NEW m \in Posts, NEW h \in Handlers, Post(h, m) PROVE WebhookTypeOK'
  <2>1. /\ phase' \in [Handlers -> {"idle", "verify", "confirm", "add"}]
        /\ request' \in [Handlers -> Posts \cup {NoRequest}]
        /\ lifted' \in [Handlers -> SUBSET (Mailboxes \cup {Blank})]
    BY <1>2 DEF Post, WebhookTypeOK
  <2>2. ASSUME NEW g \in Handlers
        PROVE  /\ IF phase'[g] = "idle" THEN request'[g] = NoRequest
                  ELSE request'[g] \in Posts
               /\ cursor'[g] \in 1 .. Len(request'[g].rcpts) + 1
    <3>1. CASE g = h
      <4>1. request[h] = NoRequest /\ Len(NoRequest.rcpts) = 0
        BY <1>2 DEF Post, WebhookTypeOK, NoRequest
      <4>2. cursor'[h] = 1
        BY <1>2, <4>1 DEF Post, WebhookTypeOK
      <4>3. phase'[h] = "verify" /\ request'[h] = m /\ Len(m.rcpts) \in Nat
        BY <1>2, NamedMailboxes DEF Post, WebhookTypeOK
      <4> QED
        BY <3>1, <4>2, <4>3
    <3>2. CASE g # h
      BY <1>2, <3>2 DEF Post, WebhookTypeOK
    <3> QED
      BY <3>1, <3>2
  <2> QED
    BY <1>2, <2>1, <2>2 DEF Post, topic, WebhookTypeOK, SuppressionTypeOK, Stores
<1>3. ASSUME NEW h \in Handlers, HandlerStep(h) PROVE WebhookTypeOK'
  BY <1>3, HandlerTypes
<1>4. ASSUME NEW i \in Instances, LiftAddress(i) PROVE WebhookTypeOK'
  <2>1. PICK a \in Addresses, err \in BOOLEAN :
          Remove(i, a, err) /\ ForgetLifted(StoreOf(i), a)
    BY <1>4 DEF LiftAddress
  <2>2. SuppressionTypeOK'
    BY <2>1, ListTypes DEF WebhookTypeOK
  <2>3. due' \in [Stores -> SUBSET Mailboxes]
    BY <2>1 DEF ForgetLifted, WebhookTypeOK, Stores
  <2>4. lifted' \in [Handlers -> SUBSET (Mailboxes \cup {Blank})]
    <3>1. normalize[a] \in Mailboxes \cup {Blank}
      BY SuppressionAssumption
    <3> QED
      BY <2>1, <3>1 DEF ForgetLifted, WebhookTypeOK
  <2> QED
    BY <1>4, <2>2, <2>3, <2>4 DEF LiftAddress, topic, WebhookTypeOK
<1>5. ASSUME NEW i \in Instances, RestartWebhook(i) PROVE WebhookTypeOK'
  <2>1. SuppressionTypeOK'
    BY <1>5, ListTypes DEF RestartWebhook, WebhookTypeOK
  <2>2. /\ phase' \in [Handlers -> {"idle", "verify", "confirm", "add"}]
        /\ request' \in [Handlers -> Posts \cup {NoRequest}]
        /\ cursor' \in [Handlers -> Nat]
        /\ lifted' \in [Handlers -> SUBSET (Mailboxes \cup {Blank})]
        /\ certs' \in [Instances -> SUBSET CertURLs]
    BY <1>5 DEF RestartWebhook, Recycle, WebhookTypeOK
  <2>3. ASSUME NEW g \in Handlers
        PROVE  /\ IF phase'[g] = "idle" THEN request'[g] = NoRequest
                  ELSE request'[g] \in Posts
               /\ cursor'[g] \in 1 .. Len(request'[g].rcpts) + 1
    <3>1. Len(NoRequest.rcpts) = 0
      BY DEF NoRequest
    <3> QED
      BY <1>5, <3>1 DEF RestartWebhook, Recycle, WebhookTypeOK
  <2> QED
    BY <1>5, <2>1, <2>2, <2>3 DEF RestartWebhook, Recycle, topic, WebhookTypeOK, Stores
<1>6. CASE Settle
  BY <1>6 DEF Settle, handling, topic, WebhookTypeOK, SuppressionTypeOK, Stores
<1>7. CASE UNCHANGED webhookAll
  BY <1>7 DEF webhookAll, webhookVars, handling, topic, WebhookTypeOK, SuppressionTypeOK,
              Stores
<1> QED
  BY <1>1, <1>2, <1>3, <1>4, <1>5, <1>6, <1>7 DEF WebhookNext

\* The webhook starts with its types in order.
LEMMA WebhookInitTypes ==
  ASSUME SuppressionInit, WebhookInit
  PROVE  WebhookTypeOK
<1>1. SuppressionTypeOK
  BY DEF SuppressionInit, SuppressionTypeOK
<1>2. Len(NoRequest.rcpts) = 0
  BY DEF NoRequest
<1>3. settled \in BOOLEAN
  BY DEF WebhookInit
<1>4. \A h \in Handlers : /\ phase[h] = "idle" /\ request[h] = NoRequest
                         /\ cursor[h] \in 1 .. Len(request[h].rcpts) + 1
  BY <1>2 DEF WebhookInit
<1> QED
  BY <1>1, <1>3, <1>4 DEF WebhookInit, WebhookTypeOK

\* Every value a variable takes has its type, whatever is posted.
THEOREM WebhookTypeCorrect == WebhookSpec => []WebhookTypeOK
<1>1. SuppressionInit /\ WebhookInit => WebhookTypeOK
  BY WebhookInitTypes
<1>2. WebhookTypeOK /\ [WebhookNext]_webhookAll => WebhookTypeOK'
  BY WebhookStepTypes
<1> QED
  BY <1>1, <1>2, PTL DEF WebhookSpec, FeedbackInit

-----------------------------------------------------------------------------
\* The end of a request suppresses nobody, and a confirmation is one AWS asked for.
LEMMA EndBacked ==
  ASSUME WebhookTypeOK, BackedInv, NEW h \in Handlers, EndRequest(h),
         UNCHANGED <<entries, published>>,
         \/ UNCHANGED confirmed
         \/ /\ phase[h] = "confirm" /\ request[h].trustedSubscribeURL
            /\ confirmed' = confirmed \cup {request[h]}
  PROVE  BackedInv'
<1>1. EntriesBacked'
  BY DEF BackedInv, EntriesBacked
<1>3. ConfirmsOnlyPublished'
  BY DEF BackedInv, ConfirmsOnlyPublished, RequestBacked
<1>2. ASSUME NEW g \in Handlers PROVE RequestBacked(g)'
  BY DEF BackedInv, RequestBacked, Suppresses, EndRequest, WebhookTypeOK
<1> QED
  BY <1>1, <1>2, <1>3 DEF BackedInv

\* A verified request is signed, so it is AWS's.
LEMMA ProceedBacked ==
  ASSUME WebhookTypeOK, BackedInv, NEW h \in Handlers, phase[h] # "idle",
         SignatureValid(request[h]), NEW p, Proceed(h, p), UNCHANGED confirmed,
         \/ p = "confirm" /\ request[h].kind = "SubscriptionConfirmation"
         \/ p = "add" /\ Suppresses(request[h])
  PROVE  BackedInv'
<1>1. EntriesBacked'
  BY DEF BackedInv, EntriesBacked, Proceed
<1>2. RequestBacked(h)'
  BY DEF BackedInv, RequestBacked, Suppresses, SignatureValid, Proceed, WebhookTypeOK
<1>3. ASSUME NEW g \in Handlers, g # h PROVE RequestBacked(g)'
  BY <1>3 DEF BackedInv, RequestBacked, Suppresses, Proceed, WebhookTypeOK
<1>4. ConfirmsOnlyPublished'
  BY DEF BackedInv, ConfirmsOnlyPublished, Proceed
<1> QED
  BY <1>1, <1>2, <1>3, <1>4 DEF BackedInv

\* What an addition enters is backed by the request.
LEMMA AddBacked ==
  ASSUME WebhookTypeOK, BackedInv, NEW h \in Handlers, AddRecipient(h)
  PROVE  BackedInv'
<1> DEFINE m == request[h]
           a == m.rcpts[cursor[h]]
<1>1. m \in Posts /\ cursor[h] \in DOMAIN m.rcpts /\ UNCHANGED <<phase, request, published>>
  BY DEF AddRecipient, WebhookTypeOK, topic
<1>2. m \in published /\ Suppresses(m)
  BY DEF AddRecipient, BackedInv, RequestBacked
<1>3. ASSUME NEW s \in Stores, NEW b \in Mailboxes, entries'[s][b] # NoEntry
      PROVE  \E n \in published :
               /\ b \in Named(n)
               /\ n.kind = IF entries'[s][b] = "bounce" THEN "PermanentBounce" ELSE "Complaint"
  <2>1. CASE entries'[s][b] = entries[s][b]
    BY <1>3, <2>1 DEF BackedInv, EntriesBacked
  <2>2. CASE entries'[s][b] # entries[s][b]
    <3>1. normalize[a] # Blank /\ Upsert(HandledBy[h], a, Reason(m))
      BY <2>2 DEF AddRecipient, Add
    <3>2. b = normalize[a] /\ entries'[s][b] = Reason(m)
      BY <2>2, <3>1 DEF Upsert, WebhookTypeOK, SuppressionTypeOK
    <3>3. b \in Named(m)
      BY <1>1, <3>1, <3>2 DEF Named
    <3>4. m.kind = IF Reason(m) = "bounce" THEN "PermanentBounce" ELSE "Complaint"
      BY <1>2 DEF Suppresses, Reason
    <3> QED
      BY <1>2, <3>2, <3>3, <3>4
  <2> QED
    BY <2>1, <2>2
<1>4. EntriesBacked'
  BY <1>1, <1>3 DEF EntriesBacked, Stores, Named
<1>5. ASSUME NEW g \in Handlers PROVE RequestBacked(g)'
  BY <1>1 DEF BackedInv, RequestBacked, Suppresses
<1>6. ConfirmsOnlyPublished'
  BY DEF BackedInv, ConfirmsOnlyPublished, AddRecipient, topic
<1> QED
  BY <1>4, <1>5, <1>6 DEF BackedInv

\* A removal or a restart may empty entries, and makes none.
LEMMA RemovalBacked ==
  ASSUME WebhookTypeOK, BackedInv, NEW i \in Instances,
         (\E a \in Addresses, err \in BOOLEAN : Remove(i, a, err)) \/ Reopen(i),
         UNCHANGED <<published, confirmed>>
  PROVE  EntriesBacked' /\ ConfirmsOnlyPublished'
<1>1. ASSUME NEW s \in Stores, NEW b \in Mailboxes
      PROVE  entries'[s][b] \in {entries[s][b], NoEntry}
  BY DEF Remove, Reopen, WebhookTypeOK, SuppressionTypeOK
<1> QED
  BY <1>1 DEF BackedInv, EntriesBacked, ConfirmsOnlyPublished, Stores, Named

\* Every step leaves every entry backed.
LEMMA WebhookStepBacked ==
  ASSUME WebhookTypeOK, BackedInv, [WebhookNext]_webhookAll
  PROVE  BackedInv'
<1>1. ASSUME NEW m \in Posts, Publish(m) PROVE BackedInv'
  BY <1>1 DEF Publish, handling, BackedInv, EntriesBacked, ConfirmsOnlyPublished,
              RequestBacked, Suppresses
<1>2. ASSUME NEW m \in Posts, NEW h \in Handlers, Post(h, m) PROVE BackedInv'
  <2>1. EntriesBacked' /\ ConfirmsOnlyPublished'
    BY <1>2 DEF Post, topic, BackedInv, EntriesBacked, ConfirmsOnlyPublished
  <2>2. ASSUME NEW g \in Handlers PROVE RequestBacked(g)'
    BY <1>2 DEF Post, topic, BackedInv, RequestBacked, Suppresses, WebhookTypeOK
  <2> QED
    BY <2>1, <2>2 DEF BackedInv
<1>3. ASSUME NEW h \in Handlers, HandlerStep(h) PROVE BackedInv'
  <2>1. ASSUME Refuse(h) \/ Acknowledge(h), UNCHANGED confirmed PROVE BackedInv'
    BY <2>1, EndBacked DEF Refuse, Acknowledge
  <2>2. CASE Verify(h)
    BY <2>1, <2>2, ProceedBacked DEF Verify, Dispatch
  <2>3. CASE CannotVerify(h) \/ Answer(h)
    BY <2>1, <2>3 DEF CannotVerify, Answer
  <2>4. CASE Confirm(h)
    <3>1. \/ (Refuse(h) \/ Acknowledge(h)) /\ UNCHANGED confirmed
          \/ /\ Acknowledge(h) /\ phase[h] = "confirm" /\ request[h].trustedSubscribeURL
             /\ confirmed' = confirmed \cup {request[h]}
      BY <2>4 DEF Confirm
    <3> QED
      BY <2>1, <3>1, EndBacked DEF Acknowledge
  <2> QED
    BY <1>3, <2>2, <2>3, <2>4, AddBacked DEF HandlerStep
<1>4. ASSUME NEW i \in Instances, LiftAddress(i) PROVE BackedInv'
  <2>1. EntriesBacked' /\ ConfirmsOnlyPublished'
    BY <1>4, RemovalBacked DEF LiftAddress, topic
  <2> QED
    BY <1>4, <2>1 DEF LiftAddress, topic, BackedInv, RequestBacked, Suppresses
<1>5. ASSUME NEW i \in Instances, RestartWebhook(i) PROVE BackedInv'
  <2>1. EntriesBacked' /\ ConfirmsOnlyPublished'
    BY <1>5, RemovalBacked DEF RestartWebhook, Recycle, topic
  <2>2. ASSUME NEW g \in Handlers PROVE RequestBacked(g)'
    BY <1>5 DEF RestartWebhook, Recycle, topic, BackedInv, RequestBacked, Suppresses
  <2> QED
    BY <2>1, <2>2 DEF BackedInv
<1>6. CASE Settle \/ UNCHANGED webhookAll
  BY <1>6 DEF Settle, webhookAll, webhookVars, handling, topic, BackedInv, EntriesBacked,
              ConfirmsOnlyPublished, RequestBacked, Suppresses
<1> QED
  BY <1>1, <1>2, <1>3, <1>4, <1>5, <1>6 DEF WebhookNext

\* The inductive invariant behind it: only what AWS published gets as far as
\* the loop over the recipients.
THEOREM RequestsBacked == WebhookSpec => []BackedInv
<1>1. SuppressionInit /\ WebhookInit => BackedInv
  BY DEF SuppressionInit, WebhookInit, BackedInv, EntriesBacked, ConfirmsOnlyPublished,
         RequestBacked
<1>2. WebhookTypeOK /\ BackedInv /\ [WebhookNext]_webhookAll => BackedInv'
  BY WebhookStepBacked
<1> QED
  BY <1>1, <1>2, WebhookTypeCorrect, PTL DEF WebhookSpec, FeedbackInit

(***************************************************************************)
(* Nobody is suppressed on hearsay, whatever anyone posts to the webhook.  *)
(***************************************************************************)
THEOREM Backed == WebhookSpec => []EntriesBacked
<1>1. BackedInv => EntriesBacked
  BY DEF BackedInv
<1> QED
  BY <1>1, RequestsBacked, PTL

(***************************************************************************)
(* And no subscription is confirmed but at the request of AWS, however the *)
(* requests of any number of handlers overlap (bounce.go:143-175).         *)
(***************************************************************************)
THEOREM ConfirmsSafe == WebhookSpec => []ConfirmsOnlyPublished
<1>1. BackedInv => ConfirmsOnlyPublished
  BY DEF BackedInv
<1> QED
  BY <1>1, RequestsBacked, PTL

-----------------------------------------------------------------------------
\* A request that ends leaves the invariant, if its 200 is deserved.
LEMMA EndAcked ==
  ASSUME WebhookTypeOK, AckedInv, NEW h \in Handlers, EndRequest(h), UNCHANGED entries,
         \/ UNCHANGED due
         \/ /\ due' = [due EXCEPT ![ListOf(h)] = @ \cup (Named(request[h]) \ lifted[h])]
            /\ Named(request[h]) \ lifted[h] \subseteq Suppressed(HandledBy[h])
  PROVE  AckedInv'
<1>1. AckedIsSuppressed'
  BY DEF AckedInv, AckedIsSuppressed, Suppressed, ListOf, WebhookTypeOK, Stores
<1>2. ASSUME NEW g \in Handlers PROVE LoopProgress(g)'
  BY DEF AckedInv, LoopProgress, EndRequest, WebhookTypeOK, Suppressed
<1> QED
  BY <1>1, <1>2 DEF AckedInv

\* The loop starts with the first recipient.
LEMMA ProceedAcked ==
  ASSUME WebhookTypeOK, AckedInv, NEW h \in Handlers, phase[h] = "verify",
         NEW p \in {"confirm", "add"}, Proceed(h, p)
  PROVE  AckedInv'
<1>1. AckedIsSuppressed'
  BY DEF AckedInv, AckedIsSuppressed, Suppressed, Proceed
<1>2. cursor'[h] = 1 /\ request'[h] \in Posts /\ phase'[h] = p
  BY DEF AckedInv, LoopProgress, Proceed, WebhookTypeOK
<1>3. \A k \in DOMAIN request'[h].rcpts : ~ (k < 1)
  BY <1>2, NamedMailboxes
<1>4. LoopProgress(h)'
  BY <1>2, <1>3 DEF LoopProgress
<1>5. ASSUME NEW g \in Handlers, g # h PROVE LoopProgress(g)'
  BY <1>5 DEF AckedInv, LoopProgress, Proceed, WebhookTypeOK, Suppressed
<1> QED
  BY <1>1, <1>4, <1>5 DEF AckedInv

\* One recipient more is on the list, or blank.
LEMMA AddAcked ==
  ASSUME WebhookTypeOK, AckedInv, ~DBFaults, NEW h \in Handlers, AddRecipient(h)
  PROVE  AckedInv'
<1> DEFINE m == request[h]
           a == m.rcpts[cursor[h]]
<1>1. /\ m \in Posts /\ cursor[h] \in DOMAIN m.rcpts /\ phase[h] = "add"
      /\ UNCHANGED <<phase, request, due, lifted>>
      /\ cursor' = [cursor EXCEPT ![h] = @ + 1]
  BY DEF AddRecipient, WebhookTypeOK, NextRecipient
<1>2. a \in Addresses /\ Reason(m) \in Reasons /\ \A i \in Handlers : HandledBy[i] \in Instances
  BY <1>1, NamedMailboxes, WebhookAssumption DEF Reason, Reasons
<1>3. /\ \A j \in Instances : Suppressed(j) \subseteq Suppressed(j)'
      /\ normalize[a] \in {Blank} \cup Suppressed(HandledBy[h])'
  <2>1. CASE a = EmptyAddress /\ UNCHANGED entries
    BY <2>1, WebhookAssumption DEF Suppressed
  <2>2. ASSUME NEW err \in BOOLEAN, Add(HandledBy[h], a, Reason(m), err)
        PROVE  /\ \A j \in Instances : Suppressed(j) \subseteq Suppressed(j)'
               /\ normalize[a] \in {Blank} \cup Suppressed(HandledBy[h])'
    <3>1. \A j \in Instances : Suppressed(j) \subseteq Suppressed(j)'
      BY <1>2, <2>2, AddKeeps DEF WebhookTypeOK
    <3>2. CASE err
      BY <2>2, <3>1, <3>2 DEF Add
    <3>3. CASE ~err
      BY <1>2, <2>2, <3>1, <3>3, AddAdds DEF WebhookTypeOK
    <3> QED
      BY <3>2, <3>3, <3>1
  <2> QED
    BY <2>1, <2>2 DEF AddRecipient
<1>4. AckedIsSuppressed'
  BY <1>1, <1>3 DEF AckedInv, AckedIsSuppressed
<1>5. LoopProgress(h)'
  <2>1. phase'[h] = "add" /\ request'[h] = m /\ lifted'[h] = lifted[h]
    BY <1>1
  <2>2. cursor'[h] = cursor[h] + 1 /\ cursor[h] \in Nat /\ DOMAIN m.rcpts \subseteq Nat
    BY <1>1, NamedMailboxes DEF WebhookTypeOK
  <2>3. ASSUME NEW k \in DOMAIN m.rcpts, k < cursor'[h]
        PROVE  normalize[m.rcpts[k]] \in {Blank} \cup lifted[h] \cup Suppressed(HandledBy[h])'
    <3>1. CASE k = cursor[h]
      BY <1>3, <3>1
    <3>2. CASE k < cursor[h]
      BY <1>1, <1>2, <1>3, <3>2 DEF AckedInv, LoopProgress
    <3> QED
      BY <2>2, <2>3, <3>1, <3>2
  <2> QED
    BY <2>1, <2>3 DEF LoopProgress
<1>6. ASSUME NEW g \in Handlers, g # h PROVE LoopProgress(g)'
  <2>1. cursor'[g] = cursor[g] /\ LoopProgress(g)
    BY <1>1, <1>6 DEF AckedInv, WebhookTypeOK
  <2>2. Suppressed(HandledBy[g]) \subseteq Suppressed(HandledBy[g])'
    BY <1>2, <1>3
  <2> QED
    BY <1>1, <2>1, <2>2 DEF LoopProgress
<1> QED
  BY <1>4, <1>5, <1>6 DEF AckedInv

\* The 200 at the end of the loop is deserved.
LEMMA AnswerAcked ==
  ASSUME WebhookTypeOK, AckedInv, NEW h \in Handlers, Answer(h)
  PROVE  AckedInv'
<1> DEFINE m == request[h]
<1>1. m \in Posts /\ cursor[h] \notin DOMAIN m.rcpts /\ phase[h] = "add" /\ cursor[h] \in Nat
  BY DEF Answer, WebhookTypeOK
<1>2. cursor[h] \in 1 .. Len(m.rcpts) + 1
  BY DEF WebhookTypeOK
<1>3. \A k \in DOMAIN m.rcpts : k < cursor[h]
  BY <1>1, <1>2, NamedMailboxes
<1>4. Named(m) \ lifted[h] \subseteq Suppressed(HandledBy[h])
  BY <1>1, <1>3 DEF AckedInv, LoopProgress, Named
<1> QED
  BY <1>4, EndAcked DEF Answer, Acknowledge

\* Who is lifted is owed to nobody any more.
LEMMA LiftAcked ==
  ASSUME WebhookTypeOK, AckedInv, NEW i \in Instances, LiftAddress(i)
  PROVE  AckedInv'
<1>1. PICK a \in Addresses, err \in BOOLEAN : Remove(i, a, err) /\ ForgetLifted(StoreOf(i), a)
  BY DEF LiftAddress
<1>2. ASSUME NEW j \in Instances
      PROVE  /\ Suppressed(j) \ {normalize[a]} \subseteq Suppressed(j)'
             /\ StoreOf(j) # StoreOf(i) => Suppressed(j) \subseteq Suppressed(j)'
  BY <1>1, RemoveKeeps DEF WebhookTypeOK
<1>3. AckedIsSuppressed'
  <2> SUFFICES ASSUME NEW j \in Instances PROVE due'[StoreOf(j)] \subseteq Suppressed(j)'
    BY DEF AckedIsSuppressed, StoreOf
  <2>1. due[StoreOf(j)] \subseteq Suppressed(j) /\ StoreOf(j) \in Stores /\ StoreOf(i) \in Stores
    BY DEF AckedInv, AckedIsSuppressed, Stores
  <2>2. CASE StoreOf(j) = StoreOf(i)
    <3>1. due'[StoreOf(j)] = due[StoreOf(j)] \ {normalize[a]}
      BY <1>1, <2>1, <2>2 DEF ForgetLifted, WebhookTypeOK
    <3> QED
      BY <1>2, <2>1, <3>1
  <2>3. CASE StoreOf(j) # StoreOf(i)
    <3>1. due'[StoreOf(j)] = due[StoreOf(j)]
      BY <1>1, <2>1, <2>3 DEF ForgetLifted, WebhookTypeOK
    <3> QED
      BY <1>2, <2>1, <2>3, <3>1
  <2> QED
    BY <2>2, <2>3
<1>4. ASSUME NEW g \in Handlers PROVE LoopProgress(g)'
  <2>1. LoopProgress(g) /\ HandledBy[g] \in Instances /\ UNCHANGED <<phase, request, cursor>>
    BY WebhookAssumption DEF AckedInv, LiftAddress
  <2>2. CASE phase[g] = "add"
    <3>1. lifted[g] \cup Suppressed(HandledBy[g]) \subseteq lifted'[g] \cup Suppressed(HandledBy[g])'
      BY <1>1, <1>2, <2>1, <2>2 DEF ForgetLifted, ListOf
    <3> QED
      BY <2>1, <2>2, <3>1 DEF LoopProgress
  <2>3. CASE phase[g] # "add"
    BY <2>1, <2>3 DEF LoopProgress
  <2> QED
    BY <2>2, <2>3
<1> QED
  BY <1>3, <1>4 DEF AckedInv

\* Every step leaves on the list what was acknowledged.
LEMMA WebhookStepAcked ==
  ASSUME Durable, ~DBFaults, WebhookTypeOK, BackedInv, AckedInv, [WebhookNext]_webhookAll
  PROVE  AckedInv'
<1>0. ASSUME UNCHANGED <<entries, due>>,
             \A g \in Handlers : LoopProgress(g)'
      PROVE  AckedInv'
  BY <1>0 DEF AckedInv, AckedIsSuppressed, Suppressed
<1>1. ASSUME NEW m \in Posts, NEW h \in Handlers, Post(h, m) PROVE AckedInv'
  <2>1. ASSUME NEW g \in Handlers PROVE LoopProgress(g)'
    BY <1>1 DEF Post, AckedInv, LoopProgress, WebhookTypeOK, Suppressed
  <2> QED
    BY <1>0, <1>1, <2>1 DEF Post
<1>2. ASSUME NEW h \in Handlers, HandlerStep(h) PROVE AckedInv'
  <2>1. ASSUME Refuse(h) PROVE AckedInv'
    BY <2>1, EndAcked DEF Refuse
  <2>2. ASSUME Acknowledge(h), request[h].kind \notin {"PermanentBounce", "Complaint"}
        PROVE  AckedInv'
    BY <2>2, EndAcked DEF Acknowledge
  <2>3. CASE Verify(h)
    BY <2>1, <2>2, <2>3, ProceedAcked DEF Verify, Dispatch, Suppresses
  <2>4. CASE CannotVerify(h)
    BY <2>1, <2>4 DEF CannotVerify
  <2>5. CASE Confirm(h)
    BY <2>1, <2>2, <2>5 DEF Confirm, BackedInv, RequestBacked
  <2> QED
    BY <1>2, <2>3, <2>4, <2>5, AddAcked, AnswerAcked DEF HandlerStep
<1>3. ASSUME NEW i \in Instances, RestartWebhook(i) PROVE AckedInv'
  <2>1. UNCHANGED <<entries, due>>
    BY <1>3 DEF RestartWebhook, Reopen, Recycle
  <2>2. ASSUME NEW g \in Handlers PROVE LoopProgress(g)'
    BY <1>3, <2>1 DEF RestartWebhook, Recycle, AckedInv, LoopProgress, Suppressed
  <2> QED
    BY <1>0, <2>1, <2>2
<1>4. ASSUME NEW m \in Posts, Publish(m) PROVE AckedInv'
  BY <1>4 DEF Publish, handling, AckedInv, AckedIsSuppressed, LoopProgress, Suppressed
<1>5. CASE Settle \/ UNCHANGED webhookAll
  BY <1>5 DEF Settle, webhookAll, webhookVars, handling, AckedInv, AckedIsSuppressed,
              LoopProgress, Suppressed
<1> QED
  BY <1>1, <1>2, <1>3, <1>4, <1>5, LiftAcked DEF WebhookNext

\* Nothing is due before anything is published.
LEMMA AckedInitially ==
  ASSUME WebhookInit
  PROVE  AckedInv
<1>1. \A i \in Instances : due[StoreOf(i)] = {}
  BY DEF WebhookInit, Stores
<1> QED
  BY <1>1 DEF WebhookInit, AckedInv, AckedIsSuppressed, LoopProgress

(***************************************************************************)
(* What SNS has a 200 for is suppressed, on a list that outlives processes *)
(* and whose statements succeed.  (Without the first, entries are lost in  *)
(* a restart; BounceWebhookFaults shows what happens without the second.)  *)
(***************************************************************************)
THEOREM AckedSafe ==
  ASSUME Durable, ~DBFaults
  PROVE  WebhookSpec => []AckedIsSuppressed
<1>1. SuppressionInit /\ WebhookInit => AckedInv
  BY AckedInitially
<1>2. WebhookTypeOK /\ BackedInv /\ AckedInv /\ [WebhookNext]_webhookAll => AckedInv'
  BY WebhookStepAcked
<1>3. AckedInv => AckedIsSuppressed
  BY DEF AckedInv
<1> QED
  BY <1>1, <1>2, <1>3, WebhookTypeCorrect, RequestsBacked, PTL DEF WebhookSpec, FeedbackInit
=============================================================================
