------------------------------ MODULE SMTPSender ------------------------------
(***************************************************************************)
(* Send and SendBatch of the SMTP backend (backend/smtp/smtp.go): one      *)
(* connection per message, opened, used and closed within Send.  Every     *)
(* command may be refused by the relay or fail with the connection; net's  *)
(* smtp client is modelled by the outcomes it has for Send.                *)
(***************************************************************************)
EXTENDS Integers, Sequences

CONSTANTS
  Senders,     \* goroutines that call SendBatch
  Batches,     \* the batches a caller may pass, sequences of messages
  LostAnswers  \* bound: the answer to the final dot may be lost

ASSUME SMTPAssumption ==
  /\ LostAnswers \in BOOLEAN
  /\ \A b \in Batches :
       /\ b \in Seq({b[j] : j \in DOMAIN b})
       /\ \A j \in DOMAIN b : LET r == b[j].to \o b[j].cc \o b[j].bcc
                              IN  r \in Seq({r[k] : k \in DOMAIN r})

VARIABLES
  cfg,      \* the Config passed to New
  pc,       \* where the sender is in Send, "idle" outside any call
  batch,    \* the messages of the call
  next,     \* the position of the next RCPT TO
  tls,      \* whether the connection is encrypted
  envelope, \* external: positions the relay accepted on this connection
  accepted, \* external: positions whose mail the relay took over
  results,  \* receipt and error of every Send of the call so far
  firstErr, \* the error SendBatch will return
  mail,     \* external: the value of accepted after every Send of the call
  exposed   \* history: the password crossed an unencrypted connection

session == <<next, tls, envelope, accepted>>
call == <<results, firstErr, mail>>
vars == <<cfg, pc, batch, session, call, exposed>>

Errors == {"nil", "recipients", "dial", "STARTTLS", "cleartext", "AUTH", "MAIL",
           "RCPT", "DATA", "body", "close", "QUIT"}

Rcpts(m) == m.to \o m.cc \o m.bcc
Positions(m) == DOMAIN Rcpts(m)
Current(t) == batch[t][Len(results[t]) + 1]
Result(sent, err) == [sent |-> sent, suppressed |-> {}, err |-> err]

(***************************************************************************)
(* username: AUTH is configured; implicitTLS: Port is 465 or ImplicitTLS   *)
(* is set; localhost: the relay is local, where PlainAuth would even send  *)
(* the password unencrypted.                                               *)
(***************************************************************************)
Config == [username : BOOLEAN, implicitTLS : BOOLEAN, localhost : BOOLEAN]

SMTPInit ==
  /\ cfg \in Config
  /\ pc = [t \in Senders |-> "idle"]
  /\ batch = [t \in Senders |-> <<>>]
  /\ next = [t \in Senders |-> 1]
  /\ tls = [t \in Senders |-> FALSE]
  /\ envelope = [t \in Senders |-> {}]
  /\ accepted = [t \in Senders |-> {}]
  /\ results = [t \in Senders |-> <<>>]
  /\ firstErr = [t \in Senders |-> "nil"]
  /\ mail = [t \in Senders |-> <<>>]
  /\ exposed = FALSE

Goto(t, l) == pc' = [pc EXCEPT ![t] = l]

\* No connection of an earlier Send is left when the next one starts.
NoSession(t) ==
  /\ next' = [next EXCEPT ![t] = 1]
  /\ tls' = [tls EXCEPT ![t] = FALSE]
  /\ envelope' = [envelope EXCEPT ![t] = {}]
  /\ accepted' = [accepted EXCEPT ![t] = {}]

Call(t) ==
  /\ pc[t] = "idle"
  /\ \E b \in Batches :
       /\ batch' = [batch EXCEPT ![t] = b]
       /\ Goto(t, IF b = <<>> THEN "returned" ELSE "dial")
  /\ UNCHANGED <<cfg, session, call, exposed>>

\* Mutant: a failed message ends the batch.
UntilError(t, err) ==
  IF err = "nil" /\ Len(results[t]) + 1 < Len(batch[t]) THEN "dial" ELSE "returned"

\* Mutant: the loop over the messages runs once too often.
OneMore(t, err) ==
  IF Len(results[t]) + 1 <= Len(batch[t]) THEN "dial" ELSE "returned"

\* A failure on one message does not abort the ones after it.
AfterMessage(t, err) ==
  IF Len(results[t]) + 1 < Len(batch[t]) THEN "dial" ELSE "returned"

\* Mutant: the batch remembers its latest error instead of its first.
LatestError(t, err) == IF err = "nil" THEN firstErr[t] ELSE err

FirstError(t, err) == IF firstErr[t] = "nil" THEN err ELSE firstErr[t]

\* Send returns res after the relay took over the mail of the positions in
\* took; the deferred Close drops the connection, and SendBatch goes on.
Finish(t, res, took) ==
  /\ results' = [results EXCEPT ![t] = Append(@, res)]
  /\ mail' = [mail EXCEPT ![t] = Append(@, took)]
  /\ firstErr' = [firstErr EXCEPT ![t] = FirstError(t, res.err)]
  /\ Goto(t, AfterMessage(t, res.err))
  /\ NoSession(t)
  /\ UNCHANGED <<cfg, batch>>

\* Every error return returns the zero Receipt.
Fail(t, err) == Finish(t, Result({}, err), accepted[t]) /\ UNCHANGED exposed

\* Mutant: AUTH goes ahead without STARTTLS.
NeverRefuses == FALSE

\* Without STARTTLS, a configured username makes Send fail closed.
FailsClosed == cfg.username

Connected(t, encrypted) ==
  /\ tls' = [tls EXCEPT ![t] = encrypted]
  /\ Goto(t, IF cfg.username THEN "auth" ELSE "mail")
  /\ UNCHANGED <<cfg, batch, next, envelope, accepted, call, exposed>>

\* Collect the recipients, dial the relay and encrypt the connection.  An
\* EHLO that fails looks like a relay that does not advertise STARTTLS.
Dial(t) ==
  /\ pc[t] = "dial"
  /\ IF Positions(Current(t)) = {} THEN Fail(t, "recipients")
     ELSE \/ Fail(t, "dial")
          \/ cfg.implicitTLS /\ Connected(t, TRUE)
          \/ \* STARTTLS is advertised
             ~cfg.implicitTLS /\ (Connected(t, TRUE) \/ Fail(t, "STARTTLS"))
          \/ \* it is not
             /\ ~cfg.implicitTLS
             /\ IF FailsClosed THEN Fail(t, "cleartext") ELSE Connected(t, FALSE)

\* External: PlainAuth itself sends the password over TLS or to localhost only.
PlainAuthStarts(t) == tls[t] \/ cfg.localhost

Auth(t) ==
  /\ pc[t] = "auth"
  /\ exposed' = (exposed \/ (PlainAuthStarts(t) /\ ~tls[t]))
  /\ \/ /\ PlainAuthStarts(t)
        /\ Goto(t, "mail")
        /\ UNCHANGED <<cfg, batch, session, call>>
     \/ Finish(t, Result({}, "AUTH"), {})

Mail(t) ==
  /\ pc[t] = "mail"
  /\ \/ Goto(t, "rcpt") /\ UNCHANGED <<cfg, batch, session, call, exposed>>
     \/ Fail(t, "MAIL")

\* Mutant: a recipient the relay refuses is skipped.
SkipRefused(t) ==
  /\ next' = [next EXCEPT ![t] = @ + 1]
  /\ UNCHANGED <<cfg, pc, batch, tls, envelope, accepted, call, exposed>>

\* A recipient the relay refuses fails the whole Send.
Refused(t) == Fail(t, "RCPT")

\* One iteration of the loop over the recipients; after the last, DATA.
Rcpt(t) ==
  /\ pc[t] = "rcpt"
  /\ next[t] \in Positions(Current(t))
  /\ \/ /\ next' = [next EXCEPT ![t] = @ + 1]
        /\ envelope' = [envelope EXCEPT ![t] = @ \cup {next[t]}]
        /\ UNCHANGED <<cfg, pc, batch, tls, accepted, call, exposed>>
     \/ Refused(t)

Data(t) ==
  /\ pc[t] = "rcpt"
  /\ next[t] \notin Positions(Current(t))
  /\ \/ Goto(t, "body") /\ UNCHANGED <<cfg, batch, session, call, exposed>>
     \/ Fail(t, "DATA")

\* Write the body and close the writer.  The relay takes the mail over when
\* it has read the final dot, even if its answer never arrives.
Body(t) ==
  /\ pc[t] = "body"
  /\ \/ Fail(t, "body")
     \/ Fail(t, "close")
     \/ LostAnswers /\ Finish(t, Result({}, "close"), envelope[t]) /\ UNCHANGED exposed
     \/ /\ accepted' = [accepted EXCEPT ![t] = envelope[t]]
        /\ Goto(t, "quit")
        /\ UNCHANGED <<cfg, batch, next, tls, envelope, call, exposed>>

\* The receipt lists every recipient as sent, for the message is accepted.
Quit(t) ==
  /\ pc[t] = "quit"
  /\ \/ Fail(t, "QUIT")
     \/ /\ Finish(t, Result(Positions(Current(t)), "nil"), accepted[t])
        /\ UNCHANGED exposed

\* The caller takes the receipts and the error.
Return(t) ==
  /\ pc[t] = "returned"
  /\ Goto(t, "idle")
  /\ batch' = [batch EXCEPT ![t] = <<>>]
  /\ results' = [results EXCEPT ![t] = <<>>]
  /\ firstErr' = [firstErr EXCEPT ![t] = "nil"]
  /\ mail' = [mail EXCEPT ![t] = <<>>]
  /\ UNCHANGED <<cfg, session, exposed>>

\* The process dies and starts again: its calls and connections are gone.
Restart ==
  /\ pc' = [t \in Senders |-> "idle"]
  /\ batch' = [t \in Senders |-> <<>>]
  /\ next' = [t \in Senders |-> 1]
  /\ tls' = [t \in Senders |-> FALSE]
  /\ envelope' = [t \in Senders |-> {}]
  /\ accepted' = [t \in Senders |-> {}]
  /\ results' = [t \in Senders |-> <<>>]
  /\ firstErr' = [t \in Senders |-> "nil"]
  /\ mail' = [t \in Senders |-> <<>>]
  /\ UNCHANGED <<cfg, exposed>>

SMTPStep(t) ==
  \/ Call(t) \/ Dial(t) \/ Auth(t) \/ Mail(t) \/ Rcpt(t) \/ Data(t)
  \/ Body(t) \/ Quit(t) \/ Return(t)

SMTPNext == Restart \/ \E t \in Senders : SMTPStep(t)

SMTPSpec == SMTPInit /\ [][SMTPNext]_vars

-----------------------------------------------------------------------------
Active(t) == pc[t] \notin {"idle", "returned"}

ResultType == [sent : SUBSET Nat, suppressed : {{}}, err : Errors]

\* Every variable has its type, and a Send in progress has a message.
SMTPTypeOK ==
  /\ cfg \in Config
  /\ pc \in [Senders -> {"idle", "dial", "auth", "mail", "rcpt", "body", "quit",
                         "returned"}]
  /\ batch \in [Senders -> Batches \cup {<<>>}]
  /\ next \in [Senders -> Nat \ {0}]
  /\ tls \in [Senders -> BOOLEAN]
  /\ envelope \in [Senders -> SUBSET Nat]
  /\ accepted \in [Senders -> SUBSET Nat]
  /\ results \in [Senders -> Seq(ResultType)]
  /\ firstErr \in [Senders -> Errors]
  /\ mail \in [Senders -> Seq(SUBSET Nat)]
  /\ exposed \in BOOLEAN
  /\ \A t \in Senders : /\ pc[t] = "idle" => results[t] = <<>>
                        /\ Active(t) => Len(results[t]) < Len(batch[t])

(***************************************************************************)
(* The password never crosses an unencrypted connection, whatever the      *)
(* relay advertises (smtp.go:126-166).                                     *)
(***************************************************************************)
NoCleartextCredentials == ~exposed

(***************************************************************************)
(* A message is mailed to all its recipients or to nobody, even if the     *)
(* relay refuses some of them or the connection breaks (smtp.go:172-188).  *)
(***************************************************************************)
AllOrNothing ==
  \A t \in Senders : \A j \in DOMAIN mail[t] :
    mail[t][j] \in {{}, Positions(batch[t][j])}

\* The state of a session behind these two: AUTH is reached on an encrypted
\* connection only, and the envelope is complete when the body is written.
SessionOK(t) ==
  /\ Len(mail[t]) = Len(results[t])
  /\ pc[t] \notin {"rcpt", "body", "quit"} => next[t] = 1 /\ envelope[t] = {}
  /\ pc[t] = "auth" => tls[t]
  /\ pc[t] = "rcpt" => envelope[t] = {p \in Positions(Current(t)) : p < next[t]}
  /\ pc[t] = "body" => envelope[t] = Positions(Current(t))
  /\ accepted[t] = IF pc[t] = "quit" THEN Positions(Current(t)) ELSE {}

\* The two together with the state of every session.
SessionInv == NoCleartextCredentials /\ AllOrNothing /\ \A t \in Senders : SessionOK(t)

\* Nobody dials the relay for a message without recipients.
SomebodyToMail ==
  \A t \in Senders : Active(t) /\ pc[t] # "dial" => Positions(Current(t)) # {}

\* How a caller sees the sender.
Status == [t \in Senders |-> IF Active(t) THEN "running" ELSE pc[t]]

\* From the final dot on, an error leaves open whether the relay has the message.
Sending == INSTANCE BatchSender WITH status <- Status, Unsure <- {"close", "QUIT"}

(***************************************************************************)
(* A call that returns has tried every message and returns the error of    *)
(* the first one that failed (smtp.go:210-221).                            *)
(***************************************************************************)
FirstErrorReturned == Sending!FirstErrorOfBatch

(***************************************************************************)
(* The SMTP backend is a BatchSender, wherever a session fails: a message  *)
(* without an error went to all the recipients the receipt lists, and no   *)
(* error from before the final dot is returned for a message that is       *)
(* mailed (smtp.go:94-221).                                                *)
(***************************************************************************)
ImplementsBatchSender == Sending!BatchSpec

-----------------------------------------------------------------------------
(***************************************************************************)
(* deliver.go:101-102 says that Send "returns an error only when the       *)
(* message could not be dispatched to *any* recipient".  The relay has     *)
(* taken the message over when QUIT is sent, but a QUIT that fails is      *)
(* returned as an error of the message (smtp.go:190).                      *)
(***************************************************************************)
ErrorMeansNobody ==
  \A t \in Senders : \A j \in DOMAIN results[t] :
    results[t][j].err # "nil" => mail[t][j] = {}
=============================================================================
