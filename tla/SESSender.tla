------------------------------ MODULE SESSender ------------------------------
(***************************************************************************)
(* Send and SendBatch of the SES backend (backend/ses/ses.go).             *)
(*                                                                         *)
(* A sender is a goroutine that executes one SendBatch call at a time (a   *)
(* Send is a batch of one).  Between two of its steps any other goroutine  *)
(* may run: the suppression list is read one address at a time, before the *)
(* calls that may block (the verification gate, the rate limiter, SES).    *)
(* Recipients are named by their position in To \o CC \o BCC, so the       *)
(* position also tells the address set a recipient came from.              *)
(***************************************************************************)
EXTENDS SuppressionList, Integers, Sequences

CONSTANTS
  Senders,         \* goroutines that call SendBatch
  InstanceOf,      \* the process each sender runs in
  Batches,         \* the batches a caller may pass, sequences of messages
  NoDomain,        \* senderDomain of a From address without a domain
  RequireVerified, \* Config.RequireVerifiedIdentity
  ListedFor        \* bound: the reasons addresses are listed for meanwhile

ASSUME SenderAssumption ==
  /\ InstanceOf \in [Senders -> Instances]
  /\ RequireVerified \in BOOLEAN
  /\ ListedFor \subseteq Reasons
  /\ \A b \in Batches : /\ b \in Seq({b[j] : j \in DOMAIN b})
                        /\ \A j \in DOMAIN b :
                             b[j].to \o b[j].cc \o b[j].bcc \in Seq(Addresses)

VARIABLES
  pc,        \* where the sender is in Send, "idle" outside any call
  batch,     \* the messages of the call
  next,      \* the position whose suppression is looked up next
  kept,      \* the positions filterSuppressed allowed so far
  results,   \* receipt and error of every Send of the call so far
  firstErr,  \* the error SendBatch will return
  mail,      \* external: positions SES accepted, for every Send so far
  barred     \* history: mailboxes on the list since before this Send began

senderVars == <<pc, batch, next, kept, results, firstErr, mail, barred>>
vars == <<entries, senderVars>>

Errors == {"nil", "ErrSuppressed", "ErrUnverifiedSender", "lookup", "verify",
           "limiter", "SendEmail"}

Rcpts(m) == m.to \o m.cc \o m.bcc
Positions(m) == DOMAIN Rcpts(m)
Mailbox(m, p) == normalize[Rcpts(m)[p]]

\* The message that sender t is working on.
Current(t) == batch[t][Len(results[t]) + 1]

\* The part of Receipt.Recipients the caller can rely on, with Send's error.
Result(sent, suppressed, err) == [sent |-> sent, suppressed |-> suppressed, err |-> err]

SenderInit ==
  /\ pc = [t \in Senders |-> "idle"]
  /\ batch = [t \in Senders |-> <<>>]
  /\ next = [t \in Senders |-> 1]
  /\ kept = [t \in Senders |-> {}]
  /\ results = [t \in Senders |-> <<>>]
  /\ firstErr = [t \in Senders |-> "nil"]
  /\ mail = [t \in Senders |-> <<>>]
  /\ barred = [t \in Senders |-> {}]

Goto(t, l) == pc' = [pc EXCEPT ![t] = l]

\* Send is entered: no address looked up yet.
Enter(t) ==
  /\ next' = [next EXCEPT ![t] = 1]
  /\ kept' = [kept EXCEPT ![t] = {}]
  /\ barred' = [barred EXCEPT ![t] = Suppressed(InstanceOf[t])]

\* SendBatch(msgs) is called; an empty batch returns at once.
Call(t) ==
  /\ pc[t] = "idle"
  /\ \E b \in Batches :
       /\ batch' = [batch EXCEPT ![t] = b]
       /\ Goto(t, IF b = <<>> THEN "returned" ELSE "filter")
  /\ Enter(t)
  /\ UNCHANGED <<entries, results, firstErr, mail>>

\* Mutant: the batch remembers its latest error instead of its first.
LatestError(t, err) == IF err = "nil" THEN firstErr[t] ELSE err

FirstError(t, err) == IF firstErr[t] = "nil" THEN err ELSE firstErr[t]

\* Mutant: the loop over the messages runs once too often.
OneMore(t, err) ==
  IF Len(results[t]) + 1 <= Len(batch[t]) THEN "filter" ELSE "returned"

\* A failure on one message does not abort the ones after it.
AfterMessage(t, err) ==
  IF Len(results[t]) + 1 < Len(batch[t]) THEN "filter" ELSE "returned"

\* Send returns res after SES accepted the positions in accepted; SendBatch
\* records the receipt and the first error and goes on to the next message.
Finish(t, res, accepted) ==
  /\ results' = [results EXCEPT ![t] = Append(@, res)]
  /\ mail' = [mail EXCEPT ![t] = Append(@, accepted)]
  /\ firstErr' = [firstErr EXCEPT ![t] = FirstError(t, res.err)]
  /\ Goto(t, AfterMessage(t, res.err))
  /\ Enter(t)
  /\ UNCHANGED <<entries, batch>>

\* Every error return but ErrSuppressed returns the zero Receipt.
Fail(t, err) == Finish(t, Result({}, {}, err), {})

\* One iteration of filterSuppressed, over To, then CC, then BCC.
Filter(t) ==
  /\ pc[t] = "filter"
  /\ next[t] \in Positions(Current(t))
  /\ \/ DBFaults /\ Fail(t, "lookup")
     \/ /\ next' = [next EXCEPT ![t] = @ + 1]
        /\ kept' = [kept EXCEPT ![t] =
                      IF IsSuppressed(InstanceOf[t], Rcpts(Current(t))[next[t]])
                      THEN @ ELSE @ \cup {next[t]}]
        /\ UNCHANGED <<entries, pc, batch, results, firstErr, mail, barred>>

\* Mutant: one suppressed address makes the receipt report its whole message.
WholeMessage(t) == IF kept[t] = Positions(Current(t)) THEN {} ELSE Positions(Current(t))

Dropped(t) == Positions(Current(t)) \ kept[t]

\* len(allowedTo) + len(allowedCC) + len(allowedBCC) == 0
NobodyAllowed(t) == kept[t] = {}

\* All addresses are filtered: give up, or go on to the gate or the limiter.
Decide(t) ==
  /\ pc[t] = "filter"
  /\ next[t] \notin Positions(Current(t))
  /\ IF NobodyAllowed(t)
     THEN Finish(t, Result({}, Dropped(t), "ErrSuppressed"), {})
     ELSE /\ Goto(t, IF RequireVerified THEN "gate" ELSE "wait")
          /\ UNCHANGED <<entries, batch, next, kept, results, firstErr, mail, barred>>

(***************************************************************************)
(* The gate: IdentityManager.IsVerified answered v for the From domain.    *)
(* Any answer is possible here; IdentityManager models how it comes about. *)
(***************************************************************************)
Gate(t, v) ==
  /\ pc[t] = "gate"
  /\ \/ /\ Current(t).from = NoDomain \/ v = "unverified"
        /\ Fail(t, "ErrUnverifiedSender")
     \/ /\ Current(t).from # NoDomain /\ v = "error"
        /\ Fail(t, "verify")
     \/ /\ Current(t).from # NoDomain /\ v = "verified"
        /\ Goto(t, "wait")
        /\ UNCHANGED <<entries, batch, next, kept, results, firstErr, mail, barred>>

\* rateLimiter.Wait returned: a token, or the error of a cancelled context.
Wait(t) ==
  /\ pc[t] = "wait"
  /\ \/ /\ Goto(t, "submit")
        /\ UNCHANGED <<entries, batch, next, kept, results, firstErr, mail, barred>>
     \/ Fail(t, "limiter")

\* Mutant: the envelope is built from the message instead of the filter.
WholeEnvelope(t) == Positions(Current(t))

\* The SES Destination: the allowed addresses of the three sets.
Envelope(t) == kept[t]

\* Mutant: only the recipients in To are reported as sent.
AcceptedTo(t) ==
  Result({p \in Envelope(t) : p <= Len(Current(t).to)}, Dropped(t), "nil")

\* The receipt of an accepted message.
Accepted(t) == Result(Envelope(t), Dropped(t), "nil")

\* client.SendEmail returned: accepted, rejected, or accepted by SES with
\* the answer lost on the way back.
Submit(t) ==
  /\ pc[t] = "submit"
  /\ \/ Finish(t, Accepted(t), Envelope(t))
     \/ Fail(t, "SendEmail")
     \/ Finish(t, Result({}, {}, "SendEmail"), Envelope(t))

\* The caller takes the receipts and the error.
Return(t) ==
  /\ pc[t] = "returned"
  /\ Goto(t, "idle")
  /\ batch' = [batch EXCEPT ![t] = <<>>]
  /\ results' = [results EXCEPT ![t] = <<>>]
  /\ mail' = [mail EXCEPT ![t] = <<>>]
  /\ firstErr' = [firstErr EXCEPT ![t] = "nil"]
  /\ barred' = [barred EXCEPT ![t] = {}]
  /\ UNCHANGED <<entries, next, kept>>

SenderStep(t) ==
  \/ Call(t) \/ Filter(t) \/ Decide(t) \/ Wait(t) \/ Submit(t) \/ Return(t)
  \/ \E v \in {"verified", "unverified", "error"} : Gate(t, v)

\* The operator, or the webhook, puts an address on the list of instance i.
\* Send does not read the reason.
Suppress(i) ==
  /\ \E a \in Addresses, reason \in ListedFor, err \in BOOLEAN : Add(i, a, reason, err)
  /\ UNCHANGED senderVars

\* Mailbox of a leaves the history of every sender that reads the same list.
Lift(i, a) ==
  barred' = [t \in Senders |-> IF StoreOf(InstanceOf[t]) = StoreOf(i)
                               THEN barred[t] \ {normalize[a]} ELSE barred[t]]

\* The operator lifts a suppression (e.g. after renewed consent).
Unsuppress(i) ==
  /\ \E a \in Addresses, err \in BOOLEAN : Remove(i, a, err) /\ Lift(i, a)
  /\ UNCHANGED <<pc, batch, next, kept, results, firstErr, mail>>

\* Process i dies and starts again: its calls are gone.
Reset(i, f, zero) == [t \in Senders |-> IF InstanceOf[t] = i THEN zero ELSE f[t]]

Restart(i) ==
  /\ Reopen(i)
  /\ pc' = Reset(i, pc, "idle")
  /\ batch' = Reset(i, batch, <<>>)
  /\ next' = Reset(i, next, 1)
  /\ kept' = Reset(i, kept, {})
  /\ results' = Reset(i, results, <<>>)
  /\ firstErr' = Reset(i, firstErr, "nil")
  /\ mail' = Reset(i, mail, <<>>)
  /\ barred' = Reset(i, barred, {})

SenderNext ==
  \/ \E t \in Senders : SenderStep(t)
  \/ \E i \in Instances : Suppress(i) \/ Unsuppress(i) \/ Restart(i)

SendingInit == SuppressionInit /\ SenderInit

SenderSpec == SendingInit /\ [][SenderNext]_vars

-----------------------------------------------------------------------------
\* Inside a Send call.
Active(t) == pc[t] \notin {"idle", "returned"}

ResultType == [sent : SUBSET Nat, suppressed : SUBSET Nat, err : Errors]

\* A Send call in progress has a current message, and has looked up the
\* suppression of that message's first recipients, in order.
ProgressOK(t) ==
  /\ pc[t] = "idle" => results[t] = <<>>
  /\ Active(t) => /\ Len(results[t]) < Len(batch[t])
                  /\ kept[t] \subseteq {p \in Positions(Current(t)) : p < next[t]}

\* Every variable has its type (the Go types of Send and SendBatch's locals).
TypeOK ==
  /\ SuppressionTypeOK
  /\ pc \in [Senders -> {"idle", "filter", "gate", "wait", "submit", "returned"}]
  /\ batch \in [Senders -> Batches \cup {<<>>}]
  /\ next \in [Senders -> Nat \ {0}]
  /\ kept \in [Senders -> SUBSET Nat]
  /\ results \in [Senders -> Seq(ResultType)]
  /\ firstErr \in [Senders -> Errors]
  /\ mail \in [Senders -> Seq(SUBSET Nat)]
  /\ barred \in [Senders -> SUBSET Mailboxes]
  /\ \A t \in Senders : ProgressOK(t)

\* A step in which SES accepts mail from t hands it no barred mailbox.
MailsNobodyBarred ==
  \A t \in Senders :
    Len(mail'[t]) > Len(mail[t]) =>
      \A p \in mail'[t][Len(mail'[t])] : Mailbox(Current(t), p) \notin barred[t]

(***************************************************************************)
(* Send never hands SES an address whose mailbox was on the suppression    *)
(* list when Send was called and has not been lifted since, however the    *)
(* address is spelled and whatever set it is in (ses.go:254-268).          *)
(***************************************************************************)
BarredNeverMailed == [][MailsNobodyBarred]_vars

\* The state behind it: what the filter kept is not barred.
KeptNotBarred ==
  \A t \in Senders : Active(t) =>
    \A p \in kept[t] : Mailbox(Current(t), p) \notin barred[t]

\* And what is barred is on the list, until it is lifted.
BarredListed == \A t \in Senders : barred[t] \subseteq Suppressed(InstanceOf[t])

\* Once somebody may be mailed, there is somebody to mail.
KeptSomebody == \A t \in Senders : pc[t] \in {"gate", "wait", "submit"} => kept[t] # {}

\* How a caller sees the sender.
Status == [t \in Senders |-> IF Active(t) THEN "running" ELSE pc[t]]

\* Only the error of SendEmail itself leaves open whether SES has the message.
Sending == INSTANCE BatchSender WITH status <- Status, Unsure <- {"SendEmail"}

(***************************************************************************)
(* A call that returns has tried every message and returns the error of    *)
(* the first one that failed (ses.go:384-395).                             *)
(***************************************************************************)
FirstErrorReturned == Sending!FirstErrorOfBatch

(***************************************************************************)
(* The SES backend is a BatchSender, whatever other goroutines, the        *)
(* operator and crashes do between the steps of a Send: every receipt      *)
(* accounts for the recipients as they were treated, To, CC and BCC alike, *)
(* and no error but the one of SendEmail is returned for a message that    *)
(* is mailed (ses.go:253-395).                                             *)
(***************************************************************************)
ImplementsBatchSender == Sending!BatchSpec

-----------------------------------------------------------------------------
(***************************************************************************)
(* docs/SES.md:144 says that suppressed addresses "never reach SES".  The  *)
(* list is read before the gate and the limiter, which may block for long. *)
(***************************************************************************)
SuppressedNeverReachSES ==
  [][\A t \in Senders :
       Len(mail'[t]) > Len(mail[t]) =>
         \A p \in mail'[t][Len(mail'[t])] :
            Mailbox(Current(t), p) \notin Suppressed(InstanceOf[t])]_vars
=============================================================================
