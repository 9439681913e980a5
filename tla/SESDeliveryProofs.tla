--------------------------- MODULE SESDeliveryProofs ---------------------------
(***************************************************************************)
(* The feedback loop keeps the promises of its parts: a sender among       *)
(* webhooks is a sender, and the webhooks miss nothing and add nothing     *)
(* while senders mail and SES reports.                                     *)
(***************************************************************************)
EXTENDS SESDelivery, SESSenderProofs, BounceWebhookProofs

-----------------------------------------------------------------------------
\* What happens when mail is submitted, for the webhook: SES may report.
Report ==
  /\ published' \in SUBSET Posts
  /\ pending' \in SUBSET published'
  /\ published \subseteq published'
  /\ UNCHANGED <<entries, handling, certs, confirmed, due, settled>>

\* The positions SES accepts in a step are some of those Send handed over.
LEMMA SubmitMails ==
  ASSUME TypeOK, NEW t \in Senders, Submit(t)
  PROVE  /\ Active(t)
         /\ UNCHANGED entries
         /\ mail'[t][Len(mail'[t])] \in SUBSET Positions(Current(t))
<1>1. Active(t)
  BY DEF Submit, Active
<1>2. kept[t] \in SUBSET Nat /\ kept[t] \subseteq Positions(Current(t))
  BY <1>1 DEF TypeOK, ProgressOK
<1>3. ASSUME NEW res, NEW accepted \in SUBSET Positions(Current(t)), Finish(t, res, accepted)
      PROVE  UNCHANGED entries /\ mail'[t][Len(mail'[t])] \in SUBSET Positions(Current(t))
  <2>1. mail'[t] = Append(mail[t], accepted) /\ mail[t] \in Seq(SUBSET Nat)
    BY <1>3 DEF Finish, TypeOK
  <2>2. mail'[t][Len(mail'[t])] = accepted
    BY <2>1
  <2> QED
    BY <1>3, <2>2 DEF Finish
<1> QED
  BY <1>1, <1>2, <1>3 DEF Submit, Fail, Envelope

LEMMA SubmitReports ==
  ASSUME TypeOK, WebhookTypeOK, NEW t \in Senders, SubmitAndReport(t)
  PROVE  Report
<1>1. /\ Active(t)
      /\ UNCHANGED entries
      /\ mail'[t][Len(mail'[t])] \in SUBSET Positions(Current(t))
  BY SubmitMails DEF SubmitAndReport
<1>2. ASSUME NEW p \in mail'[t][Len(mail'[t])]
      PROVE  FeedbackOn[Mailbox(Current(t), p)] \subseteq Posts
  <2>1. Rcpts(Current(t))[p] \in Addresses
    BY <1>1, <1>2, CurrentMessage DEF Positions
  <2>2. Mailbox(Current(t), p) \in Mailboxes \cup {Blank}
    BY <2>1, SuppressionAssumption DEF Mailbox
  <2> QED
    BY <2>2, FeedbackAssumption
<1>3. ReportedBy(t) \subseteq Posts
  BY <1>2 DEF ReportedBy
<1> QED
  BY <1>1, <1>3 DEF SubmitAndReport, Report, WebhookTypeOK

\* Every step is one of the webhook or of what surrounds it, or a report.
LEMMA StepOfWebhook ==
  ASSUME TypeOK, WebhookTypeOK, [DeliveryNext]_deliveryVars
  PROVE  [WebhookNext]_webhookAll \/ Report
<1>1. CASE UNCHANGED deliveryVars
  BY <1>1 DEF deliveryVars, webhookAll
<1>2. ASSUME NEW t \in Senders, Prepare(t)
      PROVE  UNCHANGED webhookAll
  BY <1>2
  DEF Prepare, Call, Filter, Decide, Gate, Wait, Return, Fail, Finish, webhookAll
<1>3. ASSUME NEW t \in Senders, SubmitAndReport(t)
      PROVE  Report
  BY <1>3, SubmitReports
<1>4. ASSUME NEW h \in Handlers, Serve(h)
      PROVE  WebhookNext
  BY <1>4 DEF Serve, WebhookNext
<1>5. ASSUME NEW i \in Instances, LiftEverywhere(i)
      PROVE  LiftAddress(i)
  BY <1>5 DEF LiftEverywhere, LiftAddress
<1>6. ASSUME NEW i \in Instances, RestartProcess(i)
      PROVE  RestartWebhook(i)
  BY <1>6 DEF RestartProcess, Restart, RestartWebhook
<1> QED
  BY <1>1, <1>2, <1>3, <1>4, <1>5, <1>6 DEF DeliveryNext, WebhookNext

\* The webhook adds for the reasons SESSender reckons with.
LEMMA ServeSuppresses ==
  ASSUME WebhookTypeOK, NEW h \in Handlers, Serve(h)
  PROVE  [SenderNext]_vars
<1>1. CASE UNCHANGED entries
  BY <1>1 DEF Serve, senderAll, vars
<1>2. CASE ~ UNCHANGED entries
  <2>1. AddRecipient(h)
    BY <1>2
    DEF Serve, HandlerStep, Verify, CannotVerify, Confirm, Answer, Post, Dispatch, Refuse,
        Acknowledge, Proceed
  <2> DEFINE m == request[h]
             a == m.rcpts[cursor[h]]
  <2>2. m \in Posts /\ cursor[h] \in DOMAIN m.rcpts
    BY <2>1 DEF AddRecipient, WebhookTypeOK
  <2>3. a \in Addresses
    BY <2>2, NamedMailboxes
  <2>4. Reason(m) \in ListedFor
    BY FeedbackAssumption DEF Reason
  <2>5. PICK err \in BOOLEAN : Add(HandledBy[h], a, Reason(m), err)
    BY <1>2, <2>1 DEF AddRecipient
  <2>6. HandledBy[h] \in Instances
    BY WebhookAssumption
  <2>7. Suppress(HandledBy[h])
    BY <2>3, <2>4, <2>5 DEF Serve, senderAll, Suppress
  <2> QED
    BY <2>6, <2>7 DEF SenderNext
<1> QED
  BY <1>1, <1>2

\* Every step is one of a sender or of what surrounds it.
LEMMA StepOfSender ==
  ASSUME WebhookTypeOK, [DeliveryNext]_deliveryVars
  PROVE  [SenderNext]_vars
<1>1. CASE UNCHANGED deliveryVars
  BY <1>1 DEF deliveryVars, senderAll, vars
<1>2. ASSUME NEW t \in Senders, Prepare(t) \/ SubmitAndReport(t)
      PROVE  SenderNext
  BY <1>2 DEF Prepare, SubmitAndReport, SenderStep, SenderNext
<1>3. ASSUME NEW i \in Instances, LiftEverywhere(i) \/ RestartProcess(i)
      PROVE  SenderNext
  BY <1>3 DEF LiftEverywhere, Unsuppress, RestartProcess, SenderNext
<1>4. CASE Settle /\ UNCHANGED senderAll
  BY <1>4 DEF Settle, senderAll, vars
<1> QED
  BY <1>1, <1>2, <1>3, <1>4, ServeSuppresses DEF DeliveryNext

\* A report leaves the types in order.
LEMMA ReportTypes ==
  ASSUME WebhookTypeOK, Report
  PROVE  WebhookTypeOK'
BY DEF Report, handling, WebhookTypeOK, SuppressionTypeOK, Stores

(***************************************************************************)
(* Type correctness of both halves of the loop.                            *)
(***************************************************************************)
THEOREM DeliveryTypeCorrect == DeliverySpec => [](TypeOK /\ WebhookTypeOK)
<1>1. DeliveryInit => TypeOK /\ WebhookTypeOK
  BY SenderInitTypes, WebhookInitTypes DEF DeliveryInit
<1>2. TypeOK /\ WebhookTypeOK /\ [DeliveryNext]_deliveryVars => (TypeOK /\ WebhookTypeOK)'
  BY StepOfWebhook, StepOfSender, ReportTypes, WebhookStepTypes, SenderStepTypes
<1> QED
  BY <1>1, <1>2, PTL DEF DeliverySpec

(***************************************************************************)
(* The senders of the loop are senders: the webhooks, the reports of SES   *)
(* and crashes are nothing SESSender does not reckon with.                 *)
(***************************************************************************)
THEOREM DeliveryIsSender == DeliverySpec => SenderSpec
<1>1. DeliveryInit => SendingInit
  BY DEF DeliveryInit, SendingInit
<1>2. WebhookTypeOK /\ [DeliveryNext]_deliveryVars => [SenderNext]_vars
  BY StepOfSender
<1> QED
  BY <1>1, <1>2, DeliveryTypeCorrect, PTL DEF DeliverySpec, SenderSpec

(***************************************************************************)
(* Whatever the webhooks of all processes add to the list meanwhile, Send  *)
(* hands SES no mailbox that was on it when Send was called                *)
(* (ses.go:254-268).                                                       *)
(***************************************************************************)
THEOREM DeliveryBarredSafe == DeliverySpec => BarredNeverMailed
BY DeliveryIsSender, BarredSafe, PTL

(***************************************************************************)
(* In the loop, too, the SES backend is a BatchSender: whatever is         *)
(* suppressed meanwhile, receipts account for everybody as they were       *)
(* treated.                                                                *)
(***************************************************************************)
THEOREM DeliveryRefines == DeliverySpec => ImplementsBatchSender
BY DeliveryIsSender, Refines, PTL

(***************************************************************************)
(* A batch reports its first error, whatever is suppressed while it runs.  *)
(***************************************************************************)
THEOREM DeliveryFirstErrorSafe == DeliverySpec => []FirstErrorReturned
BY DeliveryIsSender, FirstErrorSafe, PTL

-----------------------------------------------------------------------------
\* A report suppresses nobody, and what was backed is.
LEMMA ReportBacked ==
  ASSUME BackedInv, Report
  PROVE  BackedInv'
BY DEF Report, handling, BackedInv, EntriesBacked, ConfirmsOnlyPublished, RequestBacked,
       Suppresses

\* A report acknowledges nothing.
LEMMA ReportAcked ==
  ASSUME AckedInv, Report
  PROVE  AckedInv'
BY DEF Report, handling, AckedInv, AckedIsSuppressed, LoopProgress, Suppressed

THEOREM DeliveryBackedInductive == DeliverySpec => []BackedInv
<1>1. DeliveryInit => BackedInv
  BY DEF DeliveryInit, SuppressionInit, WebhookInit, BackedInv, EntriesBacked,
         ConfirmsOnlyPublished, RequestBacked
<1>2. TypeOK /\ WebhookTypeOK /\ BackedInv /\ [DeliveryNext]_deliveryVars => BackedInv'
  BY StepOfWebhook, ReportBacked, WebhookStepBacked
<1> QED
  BY <1>1, <1>2, DeliveryTypeCorrect, PTL DEF DeliverySpec

(***************************************************************************)
(* In the loop, too, nobody is suppressed but for a bounce or a complaint  *)
(* that AWS published (bounce.go:114-246).                                 *)
(***************************************************************************)
THEOREM DeliveryBackedSafe == DeliverySpec => []EntriesBacked
<1>1. BackedInv => EntriesBacked
  BY DEF BackedInv
<1> QED
  BY <1>1, DeliveryBackedInductive, PTL

(***************************************************************************)
(* And what any process acknowledged is on the list every sender reads,    *)
(* while senders mail and SES reports more (bounce.go:194, 211-245).       *)
(***************************************************************************)
THEOREM DeliveryAckedSafe ==
  ASSUME Durable, ~DBFaults
  PROVE  DeliverySpec => []AckedIsSuppressed
<1>1. DeliveryInit => AckedInv
  BY AckedInitially DEF DeliveryInit
<1>2. TypeOK /\ WebhookTypeOK /\ BackedInv /\ AckedInv /\ [DeliveryNext]_deliveryVars
      => AckedInv'
  BY StepOfWebhook, ReportAcked, WebhookStepAcked
<1>3. AckedInv => AckedIsSuppressed
  BY DEF AckedInv
<1> QED
  BY <1>1, <1>2, <1>3, DeliveryTypeCorrect, DeliveryBackedInductive, PTL DEF DeliverySpec
-----------------------------------------------------------------------------
\* A sender that moves on within a Send keeps what it had barred; every Send
\* that begins bars the whole list.
LEMMA StepBars ==
  ASSUME TypeOK, NEW t \in Senders, SenderStep(t)
  PROVE  /\ \A u \in Senders \ {t} : barred'[u] = barred[u]
         /\ \/ barred'[t] = Suppressed(InstanceOf[t])
            \/ ~ Active(t)'
            \/ ~ Begins(t) /\ barred'[t] = barred[t]
<1>1. ASSUME NEW res, NEW accepted, Finish(t, res, accepted)
      PROVE  /\ \A u \in Senders \ {t} : barred'[u] = barred[u]
             /\ barred'[t] = Suppressed(InstanceOf[t])
  BY <1>1 DEF Finish, Enter, TypeOK
<1>2. ASSUME NEW l \in {"gate", "wait", "submit"}, Goto(t, l), UNCHANGED barred
      PROVE  ~ Begins(t)
  BY <1>2 DEF Goto, Begins, TypeOK
<1>3. CASE Call(t)
  BY <1>3 DEF Call, Enter, TypeOK
<1>4. CASE Filter(t)
  BY <1>1, <1>4 DEF Filter, Fail, Begins
<1>5. CASE Decide(t)
  BY <1>1, <1>2, <1>5 DEF Decide
<1>6. ASSUME NEW v \in {"verified", "unverified", "error"}, Gate(t, v)
      PROVE  /\ \A u \in Senders \ {t} : barred'[u] = barred[u]
             /\ \/ barred'[t] = Suppressed(InstanceOf[t])
                \/ ~ Begins(t) /\ barred'[t] = barred[t]
  BY <1>1, <1>2, <1>6 DEF Gate, Fail
<1>7. CASE Wait(t)
  BY <1>1, <1>2, <1>7 DEF Wait, Fail
<1>8. CASE Submit(t)
  BY <1>1, <1>8 DEF Submit, Fail
<1>9. CASE Return(t)
  BY <1>9 DEF Return, Goto, Active, TypeOK
<1> QED
  BY <1>3, <1>4, <1>5, <1>6, <1>7, <1>8, <1>9 DEF SenderStep

\* Hence it bars what it knows of: that is on the list.
LEMMA LearnBarred ==
  ASSUME TypeOK, BarredListed, AckedIsSuppressed, KnownBarred,
         NEW t \in Senders, SenderStep(t), Learn(t)
  PROVE  KnownBarred'
<1>1. ASSUME NEW u \in Senders, u # t PROVE known'[u] \subseteq barred'[u]
  BY <1>1, StepBars DEF Learn, KnownBarred
<1>2. known'[t] = IF Begins(t) THEN due[StoreOf(InstanceOf[t])]
                  ELSE IF Active(t)' THEN known[t] ELSE {}
  BY DEF Learn
<1>3. due[StoreOf(InstanceOf[t])] \subseteq Suppressed(InstanceOf[t])
  BY SenderAssumption DEF AckedIsSuppressed
<1>4. known[t] \subseteq barred[t] /\ known[t] \subseteq Suppressed(InstanceOf[t])
  BY DEF KnownBarred, BarredListed
<1>5. Begins(t) => Active(t)'
  BY DEF Begins, Active
<1>6. known'[t] \subseteq barred'[t]
  BY <1>2, <1>3, <1>4, <1>5, StepBars
<1> QED
  BY <1>1, <1>6 DEF KnownBarred

\* Whatever else happens takes from what is known whatever it takes from what
\* is barred.
LEMMA StepKnown ==
  ASSUME TypeOK, BarredListed, AckedIsSuppressed, KnownBarred, [DeliveryNext]_deliveryVars
  PROVE  KnownBarred'
<1>1. CASE UNCHANGED senderAll
  BY <1>1 DEF senderAll, senderVars, KnownBarred
<1>2. ASSUME NEW t \in Senders, Prepare(t) \/ SubmitAndReport(t)
      PROVE  KnownBarred'
  BY <1>2, LearnBarred DEF Prepare, SubmitAndReport, SenderStep
<1>3. ASSUME NEW i \in Instances, LiftEverywhere(i) PROVE KnownBarred'
  BY <1>3 DEF LiftEverywhere, Lift, KnownBarred
<1>4. ASSUME NEW i \in Instances, RestartProcess(i) PROVE KnownBarred'
  BY <1>4 DEF RestartProcess, Restart, Reset, KnownBarred
<1> QED
  BY <1>1, <1>2, <1>3, <1>4 DEF DeliveryNext, Serve, deliveryVars

(***************************************************************************)
(* The loop closes: on a shared list, once any process has answered 200 to *)
(* a bounce or a complaint, no Send that begins afterwards, in any         *)
(* process, mails a mailbox it names (bounce.go:194, 211-245,              *)
(* ses.go:254-268).  Needs what AckedSafe needs: a list that outlives the  *)
(* processes, and a database that reports no errors.                       *)
(***************************************************************************)
THEOREM DeliveryKnownSafe ==
  ASSUME Durable, ~DBFaults
  PROVE  DeliverySpec => AckedNeverMailed
<1>1. DeliveryInit => KnownBarred
  BY DEF DeliveryInit, KnownBarred
<1>2. SafetyInv => BarredListed
  BY DEF SafetyInv
<1>3. DeliverySpec => []SafetyInv
  BY DeliveryIsSender, Safety, PTL
<1>4. DeliverySpec => []AckedIsSuppressed
  BY DeliveryAckedSafe
<1>5. TypeOK /\ BarredListed /\ AckedIsSuppressed /\ KnownBarred /\ [DeliveryNext]_deliveryVars
      => KnownBarred'
  BY StepKnown
<1>6. DeliverySpec => []KnownBarred
  BY <1>1, <1>2, <1>3, <1>4, <1>5, DeliveryTypeCorrect, PTL DEF DeliverySpec
<1>7. [MailsNobodyBarred]_vars /\ KnownBarred => [MailsNobodyKnown]_deliveryVars
  <2>1. MailsNobodyBarred /\ KnownBarred => MailsNobodyKnown
    BY DEF MailsNobodyBarred, KnownBarred, MailsNobodyKnown
  <2>2. UNCHANGED vars => MailsNobodyKnown
    BY DEF vars, senderVars, MailsNobodyKnown
  <2> QED
    BY <2>1, <2>2
<1> QED
  BY <1>6, <1>7, DeliveryBarredSafe, PTL DEF BarredNeverMailed, AckedNeverMailed
-----------------------------------------------------------------------------
\* Whoever the receipts and the filter leave out is condemned.
CauseInv == WithheldForCause /\ FilteredForCause

\* What AWS has published stays published.
LEMMA CondemnedStay ==
  ASSUME TypeOK, WebhookTypeOK, [DeliveryNext]_deliveryVars
  PROVE  Condemned \subseteq Condemned'
<1>1. [WebhookNext]_webhookAll \/ Report
  BY StepOfWebhook
<1>2. published \subseteq published'
  BY <1>1
  DEF WebhookNext, HandlerStep, Verify, CannotVerify, Confirm, AddRecipient, Answer, Post,
      Publish, Dispatch, Refuse, Acknowledge, Proceed, LiftAddress, RestartWebhook, Recycle,
      Settle, Report, topic, webhookAll, webhookVars
<1> QED
  BY <1>2 DEF Condemned

\* Who is on a list is condemned.
LEMMA ListedCondemned ==
  ASSUME EntriesBacked, NEW i \in Instances
  PROVE  Suppressed(i) \subseteq Condemned
BY DEF EntriesBacked, Suppressed, Condemned, Stores

\* The recipients of a message that the caller passed.
LEMMA BatchMessage ==
  ASSUME NEW b \in Batches, NEW j \in Nat, 0 < j, j <= Len(b)
  PROVE  /\ Rcpts(b[j]) \in Seq(Addresses)
         /\ Positions(b[j]) = 1 .. Len(Rcpts(b[j]))
<1>1. b \in Seq({b[k] : k \in DOMAIN b})
  BY SenderAssumption
<1>2. j \in DOMAIN b
  BY <1>1
<1>3. Rcpts(b[j]) \in Seq(Addresses)
  BY <1>2, SenderAssumption DEF Rcpts
<1> QED
  BY <1>3 DEF Positions

\* The end of a Send whose receipt leaves out only who is condemned.
LEMMA FinishForCause ==
  ASSUME TypeOK, CauseInv, Condemned \subseteq Condemned', NEW t \in Senders, Active(t),
         NEW res \in ResultType, NEW accepted, Finish(t, res, accepted),
         \A p \in res.suppressed : Mailbox(Current(t), p) \in Condemned
  PROVE  CauseInv'
<1> DEFINE n == Len(results[t])
<1>1. results[t] \in Seq(ResultType) /\ n \in Nat /\ results'[t] = Append(results[t], res)
  BY DEF Finish, TypeOK
<1>2. /\ DOMAIN results'[t] = 1 .. (n + 1)
      /\ results'[t][n + 1] = res
      /\ \A j \in 1 .. n : j \in DOMAIN results[t] /\ results'[t][j] = results[t][j]
  BY <1>1
<1>3. batch' = batch /\ \A u \in Senders \ {t} : results'[u] = results[u]
  BY DEF Finish, TypeOK
<1>4. ASSUME NEW u \in Senders, NEW j \in DOMAIN results'[u],
             NEW p \in results'[u][j].suppressed
      PROVE  Mailbox(batch[u][j], p) \in Condemned
  <2>1. CASE u # t \/ j \in 1 .. n
    BY <1>2, <1>3, <1>4, <2>1 DEF CauseInv, WithheldForCause
  <2>2. CASE u = t /\ j = n + 1
    BY <1>2, <1>4, <2>2 DEF Current
  <2> QED
    BY <1>1, <1>2, <1>4, <2>1, <2>2
<1>5. WithheldForCause'
  BY <1>3, <1>4 DEF WithheldForCause, Mailbox, Rcpts
<1>6. ASSUME NEW u \in Senders, Active(u)'
      PROVE  /\ pc'[u] # "filter" => next'[u] \notin Positions(Current(u))'
             /\ \A p \in Dropped(u)' : p < next'[u] => Mailbox(Current(u), p)' \in Condemned'
  <2>1. CASE u # t
    <3>1. Active(u) /\ pc'[u] = pc[u] /\ next'[u] = next[u] /\ kept'[u] = kept[u]
      BY <1>6, <2>1 DEF Finish, Enter, Goto, Active, TypeOK
    <3>2. Current(u)' = Current(u)
      BY <1>3, <2>1 DEF Current
    <3>3. /\ Positions(Current(u))' = Positions(Current(u)) /\ Dropped(u)' = Dropped(u)
          /\ \A p : Mailbox(Current(u), p)' = Mailbox(Current(u), p)
      BY <3>1, <3>2 DEF Dropped, Positions, Mailbox, Rcpts
    <3> QED
      BY <3>1, <3>3 DEF CauseInv, FilteredForCause
  <2>2. CASE u = t
    <3>1. pc'[t] = "filter" /\ next'[t] = 1 /\ n + 1 < Len(batch[t])
      BY <1>6, <2>2 DEF Finish, Enter, Goto, AfterMessage, Active, TypeOK
    <3>2. batch[t] \in Batches
      BY DEF TypeOK, ProgressOK, Active
    <3>3. Len(batch[t]) \in Nat
      <4>1. batch[t] \in Seq({batch[t][k] : k \in DOMAIN batch[t]})
        BY <3>2, SenderAssumption
      <4> QED
        BY <4>1
    <3>4. Current(t)' = batch[t][n + 2]
      <4>1. Len(results'[t]) + 1 = n + 2
        BY <1>1
      <4> QED
        BY <1>3, <4>1 DEF Current
    <3>5. Positions(Current(t))' \subseteq Nat \ {0}
      <4>1. /\ Positions(batch[t][n + 2]) = 1 .. Len(Rcpts(batch[t][n + 2]))
            /\ Rcpts(batch[t][n + 2]) \in Seq(Addresses)
        BY <1>1, <3>1, <3>2, <3>3, BatchMessage
      <4>2. Positions(batch[t][n + 2]) \subseteq Nat \ {0}
        BY <4>1
      <4> QED
        BY <3>4, <4>2 DEF Positions, Rcpts
    <3>6. ASSUME NEW p \in Dropped(t)' PROVE ~ (p < 1)
      BY <3>5 DEF Dropped
    <3> QED
      BY <2>2, <3>1, <3>6
  <2> QED
    BY <2>1, <2>2
<1>7. FilteredForCause'
  BY <1>6 DEF FilteredForCause
<1> QED
  BY <1>5, <1>7 DEF CauseInv

\* A step inside Send that returns nothing yet, after the filter.
LEMMA MoveForCause ==
  ASSUME TypeOK, CauseInv, Condemned \subseteq Condemned', NEW t \in Senders, Active(t),
         next[t] \notin Positions(Current(t)),
         NEW l \in {"gate", "wait", "submit"}, Goto(t, l),
         UNCHANGED <<batch, next, kept, results>>
  PROVE  CauseInv'
<1>1. Active(t)' /\ \A u \in Senders \ {t} : pc'[u] = pc[u]
  BY DEF Goto, Active, TypeOK
<1> QED
  BY <1>1 DEF CauseInv, WithheldForCause, FilteredForCause, Active, Current, Dropped,
              Positions, Mailbox, Rcpts

\* Nor does a step that leaves the senders alone.
LEMMA OthersForCause ==
  ASSUME CauseInv, Condemned \subseteq Condemned', UNCHANGED <<pc, batch, next, kept, results>>
  PROVE  CauseInv'
BY DEF CauseInv, WithheldForCause, FilteredForCause, Active, Current, Dropped, Positions,
       Mailbox, Rcpts

\* One address filtered: it is left out only if it is on the list.
LEMMA FilterForCause ==
  ASSUME TypeOK, CauseInv, EntriesBacked, Condemned \subseteq Condemned',
         NEW t \in Senders, Filter(t)
  PROVE  CauseInv'
<1>1. Active(t) /\ pc[t] = "filter" /\ next[t] \in Positions(Current(t))
  BY DEF Filter, Active
<1>2. CASE Fail(t, "lookup")
  BY <1>1, <1>2, FinishForCause DEF Fail, Result, ResultType, Errors
<1>3. CASE ~ Fail(t, "lookup")
  <2>1. /\ next' = [next EXCEPT ![t] = @ + 1]
        /\ kept' = [kept EXCEPT ![t] =
                      IF IsSuppressed(InstanceOf[t], Rcpts(Current(t))[next[t]])
                      THEN @ ELSE @ \cup {next[t]}]
        /\ UNCHANGED <<entries, pc, batch, results, firstErr, mail, barred>>
    BY <1>3 DEF Filter
  <2>2. next[t] \in Nat /\ next'[t] = next[t] + 1
    BY <2>1 DEF TypeOK
  <2>3. Positions(Current(t)) \subseteq Nat
    BY <1>1, CurrentMessage
  <2>4. ASSUME NEW p \in Positions(Current(t)) \ kept'[t], p < next[t] + 1
        PROVE  Mailbox(Current(t), p) \in Condemned
    <3>1. CASE p < next[t]
      <4>1. p \in Dropped(t)
        BY <2>1, <2>4 DEF Dropped, TypeOK
      <4> QED
        BY <1>1, <3>1, <4>1 DEF CauseInv, FilteredForCause
    <3>2. CASE p = next[t]
      <4>1. IsSuppressed(InstanceOf[t], Rcpts(Current(t))[p])
        BY <2>1, <2>4, <3>2 DEF TypeOK
      <4>2. Mailbox(Current(t), p) \in Suppressed(InstanceOf[t])
        BY <4>1 DEF IsSuppressed, Mailbox
      <4> QED
        BY <4>2, ListedCondemned, SenderAssumption
    <3> QED
      BY <2>2, <2>3, <2>4, <3>1, <3>2
  <2>5. /\ \A u \in Senders : /\ Current(u)' = Current(u)
                              /\ Active(u)' = Active(u)
        /\ \A u \in Senders \ {t} : next'[u] = next[u] /\ kept'[u] = kept[u]
    BY <2>1 DEF Current, Active, TypeOK
  <2>6. ASSUME NEW u \in Senders, Active(u)
        PROVE  /\ pc'[u] # "filter" => next'[u] \notin Positions(Current(u))
               /\ \A p \in Positions(Current(u)) \ kept'[u] :
                    p < next'[u] => Mailbox(Current(u), p) \in Condemned
    <3>1. CASE u = t
      BY <1>1, <2>1, <2>2, <2>4, <3>1
    <3>2. CASE u # t
      BY <2>1, <2>5, <2>6, <3>2 DEF CauseInv, FilteredForCause, Dropped
    <3> QED
      BY <3>1, <3>2
  <2>7. FilteredForCause'
    BY <2>5, <2>6 DEF FilteredForCause, Dropped, Positions, Mailbox, Rcpts
  <2>8. WithheldForCause'
    BY <2>1 DEF CauseInv, WithheldForCause, Mailbox, Rcpts
  <2> QED
    BY <2>7, <2>8 DEF CauseInv
<1> QED
  BY <1>2, <1>3

\* The filter is through: whoever it left out is condemned.
LEMMA DroppedForCause ==
  ASSUME TypeOK, CauseInv, NEW t \in Senders, Active(t),
         next[t] \notin Positions(Current(t))
  PROVE  /\ Dropped(t) \in SUBSET Nat
         /\ \A p \in Dropped(t) : Mailbox(Current(t), p) \in Condemned
<1>1. Rcpts(Current(t)) \in Seq(Addresses)
  BY CurrentMessage
<1>2. Positions(Current(t)) = 1 .. Len(Rcpts(Current(t))) /\ next[t] \in Nat \ {0}
  BY <1>1 DEF Positions, TypeOK
<1>3. \A p \in Positions(Current(t)) : p \in Nat /\ p < next[t]
  BY <1>1, <1>2
<1> QED
  BY <1>3 DEF Dropped, CauseInv, FilteredForCause

\* Every step of a sender; Filter leaves out, Decide and Submit report it.
LEMMA SenderForCause ==
  ASSUME TypeOK, CauseInv, EntriesBacked, Condemned \subseteq Condemned',
         NEW t \in Senders, SenderStep(t)
  PROVE  CauseInv'
<1>1. ASSUME NEW err \in Errors, Active(t), Fail(t, err) PROVE CauseInv'
  BY <1>1, FinishForCause DEF Fail, Result, ResultType
<1>2. CASE Call(t) \/ Return(t)
  <2>1. \A u \in Senders \ {t} : /\ batch'[u] = batch[u] /\ results'[u] = results[u]
                                 /\ pc'[u] = pc[u] /\ next'[u] = next[u] /\ kept'[u] = kept[u]
    BY <1>2 DEF Call, Return, Enter, Goto, TypeOK
  <2>2. results'[t] = <<>>
    BY <1>2 DEF Call, Return, TypeOK, ProgressOK
  <2>3. WithheldForCause'
    <3>1. ASSUME NEW u \in Senders, NEW j \in DOMAIN results'[u],
                 NEW p \in results'[u][j].suppressed
          PROVE  Mailbox(batch'[u][j], p) \in Condemned'
      <4>1. u # t
        BY <2>2, <3>1
      <4> QED
        BY <2>1, <3>1, <4>1 DEF CauseInv, WithheldForCause
    <3> QED
      BY <3>1 DEF WithheldForCause, Mailbox, Rcpts
  <2>4. ASSUME NEW u \in Senders, Active(u)'
        PROVE  /\ pc'[u] # "filter" => next'[u] \notin Positions(Current(u))'
               /\ \A p \in Dropped(u)' : p < next'[u] => Mailbox(Current(u), p)' \in Condemned'
    <3>1. CASE u = t
      <4>1. PICK b \in Batches : b # <<>> /\ batch'[t] = b /\ pc'[t] = "filter" /\ next'[t] = 1
        BY <1>2, <2>4, <3>1 DEF Call, Return, Enter, Goto, Active, TypeOK
      <4>2. b \in Seq({b[k] : k \in DOMAIN b})
        BY SenderAssumption
      <4>3. 1 <= Len(b)
        BY <4>1, <4>2
      <4>4. Current(t)' = b[1]
        BY <2>2, <4>1 DEF Current
      <4>5. Positions(b[1]) = 1 .. Len(Rcpts(b[1])) /\ Rcpts(b[1]) \in Seq(Addresses)
        BY <4>3, BatchMessage
      <4>6. Positions(b[1]) \subseteq Nat \ {0}
        BY <4>5
      <4>7. Positions(Current(t))' \subseteq Nat \ {0}
        BY <4>4, <4>6 DEF Positions, Rcpts
      <4>8. ASSUME NEW p \in Dropped(t)' PROVE ~ (p < 1)
        BY <4>7 DEF Dropped
      <4> QED
        BY <3>1, <4>1, <4>8
    <3>2. CASE u # t
      <4>1. Current(u)' = Current(u) /\ Active(u)
        BY <2>1, <2>4, <3>2 DEF Current, Active
      <4>2. /\ Positions(Current(u))' = Positions(Current(u)) /\ Dropped(u)' = Dropped(u)
            /\ \A p : Mailbox(Current(u), p)' = Mailbox(Current(u), p)
        BY <2>1, <3>2, <4>1 DEF Dropped, Positions, Mailbox, Rcpts
      <4> QED
        BY <2>1, <3>2, <4>1, <4>2 DEF CauseInv, FilteredForCause
    <3> QED
      BY <3>1, <3>2
  <2>5. FilteredForCause'
    BY <2>4 DEF FilteredForCause
  <2> QED
    BY <2>3, <2>5 DEF CauseInv
<1>3. CASE Filter(t)
  BY <1>3, FilterForCause
<1>4. CASE Decide(t)
  <2>1. Active(t) /\ next[t] \notin Positions(Current(t))
    BY <1>4 DEF Decide, Active
  <2>2. CASE Finish(t, Result({}, Dropped(t), "ErrSuppressed"), {})
    <3>1. Result({}, Dropped(t), "ErrSuppressed") \in ResultType
      BY <2>1, DroppedForCause DEF Result, ResultType, Errors
    <3>2. Result({}, Dropped(t), "ErrSuppressed").suppressed = Dropped(t)
      BY DEF Result
    <3> QED
      BY <2>1, <2>2, <3>1, <3>2, DroppedForCause, FinishForCause
  <2> QED
    BY <1>4, <2>1, <2>2, MoveForCause DEF Decide
<1>5. ASSUME pc[t] \in {"gate", "wait", "submit"}
      PROVE  Active(t) /\ next[t] \notin Positions(Current(t))
  BY <1>5 DEF Active, CauseInv, FilteredForCause
<1>6. ASSUME NEW v \in {"verified", "unverified", "error"}, Gate(t, v)
      PROVE  CauseInv'
  BY <1>1, <1>5, <1>6, MoveForCause DEF Gate, Errors
<1>7. CASE Wait(t)
  BY <1>1, <1>5, <1>7, MoveForCause DEF Wait, Errors
<1>8. CASE Submit(t)
  <2>1. Active(t) /\ next[t] \notin Positions(Current(t))
    BY <1>5, <1>8 DEF Submit
  <2>2. CASE Finish(t, Accepted(t), Envelope(t))
    <3>1. Accepted(t) \in ResultType
      BY <2>1, DroppedForCause DEF Accepted, Envelope, Result, ResultType, Errors, TypeOK
    <3>2. Accepted(t).suppressed = Dropped(t)
      BY DEF Accepted, Result
    <3> QED
      BY <2>1, <2>2, <3>1, <3>2, DroppedForCause, FinishForCause
  <2>3. CASE Finish(t, Result({}, {}, "SendEmail"), Envelope(t))
    <3>1. Result({}, {}, "SendEmail") \in ResultType
      BY DEF Result, ResultType, Errors
    <3>2. Result({}, {}, "SendEmail").suppressed = {}
      BY DEF Result
    <3> QED
      BY <2>1, <2>3, <3>1, <3>2, FinishForCause
  <2> QED
    BY <1>1, <1>8, <2>1, <2>2, <2>3 DEF Submit, Errors
<1> QED
  BY <1>2, <1>3, <1>4, <1>6, <1>7, <1>8 DEF SenderStep

(***************************************************************************)
(* Nothing is withheld in the loop but from mailboxes of which AWS         *)
(* published a permanent bounce or a complaint, whatever list is used and  *)
(* whatever fails (ses.go:254-290, bounce.go:200-246).                     *)
(***************************************************************************)
THEOREM DeliveryCauseSafe == DeliverySpec => []WithheldForCause
<1>1. DeliveryInit => CauseInv
  BY DEF DeliveryInit, SenderInit, CauseInv, WithheldForCause, FilteredForCause, Active
<1>2. TypeOK /\ WebhookTypeOK /\ EntriesBacked /\ CauseInv /\ [DeliveryNext]_deliveryVars
      => CauseInv'
  <2> SUFFICES ASSUME TypeOK, WebhookTypeOK, EntriesBacked, CauseInv,
                      [DeliveryNext]_deliveryVars
               PROVE  CauseInv'
    OBVIOUS
  <2>1. Condemned \subseteq Condemned'
    BY CondemnedStay
  <2>2. CASE UNCHANGED <<pc, batch, next, kept, results>>
    BY <2>1, <2>2, OthersForCause
  <2>3. ASSUME NEW t \in Senders, Prepare(t) \/ SubmitAndReport(t)
        PROVE  CauseInv'
    BY <2>1, <2>3, SenderForCause DEF Prepare, SubmitAndReport, SenderStep
  <2>4. ASSUME NEW i \in Instances, RestartProcess(i) PROVE CauseInv'
    <3>1. ASSUME NEW u \in Senders, InstanceOf[u] = i
          PROVE  results'[u] = <<>> /\ ~ Active(u)'
      BY <2>4, <3>1 DEF RestartProcess, Restart, Reset, Active
    <3>2. ASSUME NEW u \in Senders, InstanceOf[u] # i
          PROVE  /\ batch'[u] = batch[u] /\ results'[u] = results[u]
                 /\ pc'[u] = pc[u] /\ next'[u] = next[u] /\ kept'[u] = kept[u]
      BY <2>4, <3>2 DEF RestartProcess, Restart, Reset
    <3>3. WithheldForCause'
      <4>1. ASSUME NEW u \in Senders, NEW j \in DOMAIN results'[u],
                   NEW p \in results'[u][j].suppressed
            PROVE  Mailbox(batch'[u][j], p) \in Condemned'
        BY <2>1, <3>1, <3>2, <4>1 DEF CauseInv, WithheldForCause
      <4> QED
        BY <4>1 DEF WithheldForCause, Mailbox, Rcpts
    <3>4. FilteredForCause'
      BY <2>1, <3>1, <3>2
      DEF CauseInv, FilteredForCause, Active, Current, Dropped, Positions, Mailbox, Rcpts
    <3> QED
      BY <3>3, <3>4 DEF CauseInv
  <2>5. ASSUME NEW i \in Instances, LiftEverywhere(i) PROVE CauseInv'
    BY <2>2, <2>5 DEF LiftEverywhere
  <2> QED
    BY <2>2, <2>3, <2>4, <2>5 DEF DeliveryNext, Serve, deliveryVars, senderAll, senderVars
<1>3. CauseInv => WithheldForCause
  BY DEF CauseInv
<1> QED
  BY <1>1, <1>2, <1>3, DeliveryTypeCorrect, DeliveryBackedSafe, PTL DEF DeliverySpec
=============================================================================
