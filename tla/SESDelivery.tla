----------------------------- MODULE SESDelivery -----------------------------
(***************************************************************************)
(* The loop that protects the SES account's reputation: senders mail, SES  *)
(* reports bounces and complaints to SNS, SNS posts them to the webhook of *)
(* some process, the webhook suppresses, and the senders filter.           *)
(*                                                                         *)
(* SESSender and BounceWebhook share the suppression lists and die         *)
(* together with their process.                                            *)
(***************************************************************************)
EXTENDS SESSender, BounceWebhook

CONSTANT FeedbackOn  \* external: the envelopes SES publishes for a mailbox it mails

ASSUME FeedbackAssumption ==
  /\ FeedbackOn \in [Mailboxes \cup {Blank} -> SUBSET {m \in Posts : m.signed}]
  /\ {"bounce", "complaint"} \subseteq ListedFor

VARIABLE
  known  \* history: the mailboxes whose feedback was answered with 200 before
         \* this Send began, and that nobody has lifted since

senderAll == <<senderVars, known>>
deliveryVars == <<entries, senderAll, webhookVars>>

DeliveryInit ==
  /\ SuppressionInit /\ SenderInit /\ WebhookInit
  /\ known = [t \in Senders |-> {}]

\* In this step t begins to send its next message.
Begins(t) == pc'[t] = "filter" /\ (pc[t] = "idle" \/ results'[t] # results[t])

\* The history follows t: a Send that begins looks at what is settled so far.
Learn(t) ==
  known' = [u \in Senders |->
              IF u # t THEN known[u]
              ELSE IF Begins(t) THEN due[StoreOf(InstanceOf[t])]
              ELSE IF Active(t)' THEN known[t] ELSE {}]

\* A sender takes a step that does not involve SES.
Prepare(t) ==
  /\ \/ Call(t) \/ Filter(t) \/ Decide(t) \/ Wait(t) \/ Return(t)
     \/ \E v \in {"verified", "unverified", "error"} : Gate(t, v)
  /\ Learn(t)
  /\ UNCHANGED webhookVars

\* The envelopes SES publishes for what it accepts from t in this step.
ReportedBy(t) ==
  UNION {FeedbackOn[Mailbox(Current(t), p)] : p \in mail'[t][Len(mail'[t])]}

\* SendEmail; bounces and complaints reach SNS any time after it.
SubmitAndReport(t) ==
  /\ Submit(t)
  /\ Learn(t)
  /\ published' = published \cup ReportedBy(t)
  /\ pending' = pending \cup ReportedBy(t)
  /\ UNCHANGED <<handling, certs, confirmed, due, settled>>

\* The webhook serves a request.
Serve(h) ==
  /\ HandlerStep(h) \/ \E m \in Posts : Post(h, m)
  /\ UNCHANGED senderAll

\* The operator lifts a suppression on the list of instance i.
LiftEverywhere(i) ==
  /\ ~ settled
  /\ \E a \in Addresses, err \in BOOLEAN :
       /\ Remove(i, a, err) /\ Lift(i, a) /\ ForgetLifted(StoreOf(i), a)
       /\ known' = [t \in Senders |-> IF StoreOf(InstanceOf[t]) = StoreOf(i)
                                      THEN known[t] \ {normalize[a]} ELSE known[t]]
  /\ UNCHANGED <<pc, batch, next, kept, results, firstErr, mail>>
  /\ UNCHANGED <<phase, request, cursor, certs, topic, settled>>

\* Process i dies with its senders and its handlers.
RestartProcess(i) == Restart(i) /\ Recycle(i) /\ known' = Reset(i, known, {})

DeliveryNext ==
  \/ \E t \in Senders : Prepare(t) \/ SubmitAndReport(t)
  \/ \E h \in Handlers : Serve(h)
  \/ \E i \in Instances : LiftEverywhere(i) \/ RestartProcess(i)
  \/ Settle /\ UNCHANGED senderAll

DeliverySpec == DeliveryInit /\ [][DeliveryNext]_deliveryVars

\* The webhook is served as in WebhookFairness; nothing is asked of senders.
DeliveryFairSpec ==
  /\ DeliverySpec
  /\ \A m \in Posts :
       SF_deliveryVars(\E h \in Handlers :
                          m \in pending /\ Post(h, m) /\ UNCHANGED senderAll)
  /\ \A h \in Handlers : /\ SF_deliveryVars(Verify(h) /\ UNCHANGED senderAll)
                         /\ WF_deliveryVars(HandlerStep(h) /\ UNCHANGED senderAll)

-----------------------------------------------------------------------------
\* A step in which SES accepts mail from t hands it nobody known.
MailsNobodyKnown ==
  \A t \in Senders :
    Len(mail'[t]) > Len(mail[t]) =>
      \A p \in mail'[t][Len(mail'[t])] : Mailbox(Current(t), p) \notin known[t]

(***************************************************************************)
(* Once SNS has a 200 for a bounce or a complaint, no Send that begins     *)
(* afterwards, in any process, mails the mailboxes it names, unless the    *)
(* operator lifts them (bounce.go:194, 211-245, ses.go:254-268).           *)
(***************************************************************************)
AckedNeverMailed == [][MailsNobodyKnown]_deliveryVars

\* The state behind it: what is known is barred.
KnownBarred == \A t \in Senders : known[t] \subseteq barred[t]

\* The mailboxes that AWS published a permanent bounce or a complaint of.
Condemned ==
  UNION {Named(m) : m \in {p \in published : p.kind \in {"PermanentBounce", "Complaint"}}}

(***************************************************************************)
(* No mail is withheld without a cause: whoever a receipt reports as       *)
(* suppressed has bounced or complained, and AWS said so.  The entry that  *)
(* the filter saw may have been lifted long since (ses.go:254-290,         *)
(* bounce.go:200-246).                                                     *)
(***************************************************************************)
WithheldForCause ==
  \A t \in Senders : \A j \in DOMAIN results[t] : \A p \in results[t][j].suppressed :
    Mailbox(batch[t][j], p) \in Condemned

\* The state behind it: where t stands in the filter, and whom it left out.
FilteredForCause ==
  \A t \in Senders : Active(t) =>
    /\ pc[t] # "filter" => next[t] \notin Positions(Current(t))
    /\ \A p \in Dropped(t) : p < next[t] => Mailbox(Current(t), p) \in Condemned

\* The mailboxes whose mail comes back, or whose owners complain.
Hostile == {b \in Mailboxes : \E m \in FeedbackOn[b] :
              m.kind \in {"PermanentBounce", "Complaint"} /\ b \in Named(m)}

(***************************************************************************)
(* A mailbox that bounces or complains is mailed finitely often, by all    *)
(* the senders of all the processes together, whatever was in flight when  *)
(* the report came in, once the operator lifts no suppressions any more    *)
(* (bounce.go:200-246, ses.go:254-268).                                    *)
(***************************************************************************)
HostileLeftAlone ==
  <>settled =>
    <>[][\A t \in Senders :
           Len(mail'[t]) > Len(mail[t]) =>
             \A p \in mail'[t][Len(mail'[t])] :
                Mailbox(Current(t), p) \notin Hostile]_deliveryVars
=============================================================================
