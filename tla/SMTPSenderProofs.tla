-------------------------- MODULE SMTPSenderProofs --------------------------
(***************************************************************************)
(* No session of SMTPSender shows the password or delivers to a part of    *)
(* the recipients, for any batches, any number of goroutines, every        *)
(* configuration and wherever the session fails.                           *)
(***************************************************************************)
EXTENDS SMTPSender, TLAPS

\* The current message of a Send has recipients at positions 1, 2, ...
LEMMA CurrentMessage ==
  ASSUME SMTPTypeOK, NEW t \in Senders, Active(t)
  PROVE  \E n \in Nat : Positions(Current(t)) = 1 .. n
<1>1. batch[t] \in Batches
  BY DEF SMTPTypeOK, Active
<1>2. batch[t] \in Seq({batch[t][j] : j \in DOMAIN batch[t]})
  BY <1>1, SMTPAssumption
<1>3. Len(results[t]) \in Nat /\ Len(results[t]) < Len(batch[t])
  BY DEF SMTPTypeOK
<1>4. Len(results[t]) + 1 \in DOMAIN batch[t]
  BY <1>2, <1>3
<1> DEFINE r == Rcpts(Current(t))
<1>5. r \in Seq({r[k] : k \in DOMAIN r})
  BY <1>1, <1>4, SMTPAssumption DEF Current, Rcpts
<1>6. Len(r) \in Nat /\ DOMAIN r = 1 .. Len(r)
  BY <1>5
<1> QED
  BY <1>6 DEF Positions

-----------------------------------------------------------------------------
\* However a Send ends, SendBatch is left in a well-typed state.
LEMMA FinishTypes ==
  ASSUME SMTPTypeOK, NEW t \in Senders, Active(t),
         NEW res \in ResultType, NEW took \in SUBSET Nat,
         Finish(t, res, took), exposed' \in BOOLEAN
  PROVE  SMTPTypeOK'
<1> USE DEF Finish, NoSession, Goto
<1>1. /\ cfg' \in Config
      /\ batch' \in [Senders -> Batches \cup {<<>>}]
      /\ next' \in [Senders -> Nat \ {0}]
      /\ tls' \in [Senders -> BOOLEAN]
      /\ envelope' \in [Senders -> SUBSET Nat]
      /\ accepted' \in [Senders -> SUBSET Nat]
  BY DEF SMTPTypeOK
<1>2. /\ results' \in [Senders -> Seq(ResultType)]
      /\ mail' \in [Senders -> Seq(SUBSET Nat)]
  BY DEF SMTPTypeOK
<1>3. firstErr' \in [Senders -> Errors]
  BY DEF SMTPTypeOK, ResultType, FirstError
<1>4. pc' \in [Senders -> {"idle", "dial", "auth", "mail", "rcpt", "body", "quit",
                            "returned"}]
  BY DEF SMTPTypeOK, AfterMessage
<1>5. ASSUME NEW u \in Senders, pc'[u] = "idle" PROVE results'[u] = <<>>
  BY <1>5 DEF SMTPTypeOK, AfterMessage
<1>6. ASSUME NEW u \in Senders, Active(u)' PROVE Len(results'[u]) < Len(batch'[u])
  <2>1. CASE u = t
    <3>1. Len(results'[t]) = Len(results[t]) + 1
      BY DEF SMTPTypeOK
    <3>2. Len(results[t]) + 1 < Len(batch[t])
      BY <1>6, <2>1 DEF SMTPTypeOK, AfterMessage, Active
    <3> QED
      BY <2>1, <3>1, <3>2
  <2>2. CASE u # t
    BY <1>6, <2>2 DEF SMTPTypeOK, Active
  <2> QED
    BY <2>1, <2>2
<1> QED
  BY <1>1, <1>2, <1>3, <1>4, <1>5, <1>6 DEF SMTPTypeOK

\* Every error return, in particular.
LEMMA FailTypes ==
  ASSUME SMTPTypeOK, NEW t \in Senders, Active(t), NEW err \in Errors, Fail(t, err)
  PROVE  SMTPTypeOK'
<1>1. Result({}, err) \in ResultType
  BY DEF Result, ResultType
<1> QED
  BY <1>1, FinishTypes DEF Fail, SMTPTypeOK

\* A step inside a session, after which the Send is still in progress.
LEMMA MoveTypes ==
  ASSUME SMTPTypeOK, NEW t \in Senders, Active(t),
         NEW l \in {"dial", "auth", "mail", "rcpt", "body", "quit"}, Goto(t, l),
         UNCHANGED <<cfg, batch, call>>,
         next' \in [Senders -> Nat \ {0}], tls' \in [Senders -> BOOLEAN],
         envelope' \in [Senders -> SUBSET Nat], accepted' \in [Senders -> SUBSET Nat],
         exposed' \in BOOLEAN
  PROVE  SMTPTypeOK'
<1>1. pc' \in [Senders -> {"idle", "dial", "auth", "mail", "rcpt", "body", "quit",
                            "returned"}]
  BY DEF SMTPTypeOK, Goto
<1>2. ASSUME NEW u \in Senders
      PROVE  /\ pc'[u] = "idle" => results'[u] = <<>>
             /\ Active(u)' => Len(results'[u]) < Len(batch'[u])
  BY DEF SMTPTypeOK, Goto, Active, call
<1> QED
  BY <1>1, <1>2 DEF SMTPTypeOK, call

\* Every command of a session.
LEMMA StepTypes ==
  ASSUME SMTPTypeOK, NEW t \in Senders, SMTPStep(t)
  PROVE  SMTPTypeOK'
<1>0. /\ next \in [Senders -> Nat \ {0}]
      /\ tls \in [Senders -> BOOLEAN]
      /\ envelope \in [Senders -> SUBSET Nat]
      /\ accepted \in [Senders -> SUBSET Nat]
      /\ exposed \in BOOLEAN
  BY DEF SMTPTypeOK
<1>1. CASE Call(t)
  <2>1. /\ pc' \in [Senders -> {"idle", "dial", "auth", "mail", "rcpt", "body", "quit",
                                "returned"}]
        /\ batch' \in [Senders -> Batches \cup {<<>>}]
    BY <1>1 DEF Call, Goto, SMTPTypeOK
  <2>2. ASSUME NEW u \in Senders
        PROVE  /\ pc'[u] = "idle" => results'[u] = <<>>
               /\ Active(u)' => Len(results'[u]) < Len(batch'[u])
    <3>1. results' = results /\ (u # t => pc'[u] = pc[u] /\ batch'[u] = batch[u])
      BY <1>1 DEF Call, Goto, SMTPTypeOK, call
    <3>2. results[t] = <<>> /\ pc'[t] # "idle"
      BY <1>1 DEF Call, Goto, SMTPTypeOK
    <3>3. Active(t)' => batch'[t] \in Batches /\ batch'[t] # <<>>
      BY <1>1 DEF Call, Goto, SMTPTypeOK, Active
    <3>4. Active(t)' => Len(batch'[t]) > 0
      <4> DEFINE b == batch'[t]
      <4>1. CASE Active(t)'
        <5>1. b \in Seq({b[j] : j \in DOMAIN b}) /\ b # <<>>
          BY <3>3, <4>1, SMTPAssumption
        <5> QED
          BY <5>1
      <4> QED
        BY <4>1
    <3> QED
      BY <3>1, <3>2, <3>4 DEF SMTPTypeOK, Active
  <2> QED
    BY <1>1, <2>1, <2>2 DEF Call, SMTPTypeOK, session, call
<1>2. CASE Dial(t)
  <2>1. ASSUME NEW b \in BOOLEAN, Connected(t, b) PROVE SMTPTypeOK'
    BY <1>0, <1>2, <2>1, MoveTypes DEF Connected, Dial, Active
  <2> QED
    BY <1>2, <2>1, FailTypes DEF Dial, Active, Errors
<1>3. CASE Auth(t)
  <2>1. Result({}, "AUTH") \in ResultType
    BY DEF Result, ResultType, Errors
  <2>2. exposed' \in BOOLEAN
    BY <1>3 DEF Auth
  <2> QED
    BY <1>0, <1>3, <2>1, <2>2, FinishTypes, MoveTypes DEF Auth, Active, session
<1>4. CASE Mail(t)
  BY <1>0, <1>4, FailTypes, MoveTypes DEF Mail, Active, session, Errors
<1>5. CASE Rcpt(t)
  <2>1. CASE Refused(t)
    BY <1>5, <2>1, FailTypes DEF Rcpt, Refused, Active, Errors
  <2>2. CASE /\ next' = [next EXCEPT ![t] = @ + 1]
             /\ envelope' = [envelope EXCEPT ![t] = @ \cup {next[t]}]
             /\ UNCHANGED <<cfg, pc, batch, tls, accepted, call, exposed>>
    <3>1. next' \in [Senders -> Nat \ {0}] /\ envelope' \in [Senders -> SUBSET Nat]
      BY <1>0, <2>2
    <3> QED
      BY <2>2, <3>1 DEF SMTPTypeOK, call, Active
  <2> QED
    BY <1>5, <2>1, <2>2 DEF Rcpt
<1>6. CASE Data(t)
  BY <1>0, <1>6, FailTypes, MoveTypes DEF Data, Active, session, Errors
<1>7. CASE Body(t)
  <2>1. Result({}, "close") \in ResultType
    BY DEF Result, ResultType, Errors
  <2>2. envelope[t] \in SUBSET Nat
    BY <1>0
  <2>3. CASE Finish(t, Result({}, "close"), envelope[t]) /\ UNCHANGED exposed
    BY <1>0, <1>7, <2>1, <2>2, <2>3, FinishTypes DEF Body, Active
  <2>4. CASE /\ accepted' = [accepted EXCEPT ![t] = envelope[t]]
             /\ Goto(t, "quit")
             /\ UNCHANGED <<cfg, batch, next, tls, envelope, call, exposed>>
    BY <1>0, <1>7, <2>2, <2>4, MoveTypes DEF Body, Active
  <2> QED
    BY <1>7, <2>3, <2>4, FailTypes DEF Body, Active, Errors
<1>8. CASE Quit(t)
  <2>1. Active(t)
    BY <1>8 DEF Quit, Active
  <2>2. Result(Positions(Current(t)), "nil") \in ResultType
    BY <2>1, CurrentMessage DEF Result, ResultType, Errors
  <2> QED
    BY <1>0, <1>8, <2>1, <2>2, FinishTypes, FailTypes DEF Quit, Errors
<1>9. CASE Return(t)
  <2>1. /\ pc' \in [Senders -> {"idle", "dial", "auth", "mail", "rcpt", "body", "quit",
                                "returned"}]
        /\ batch' \in [Senders -> Batches \cup {<<>>}]
        /\ results' \in [Senders -> Seq(ResultType)]
        /\ firstErr' \in [Senders -> Errors]
        /\ mail' \in [Senders -> Seq(SUBSET Nat)]
    BY <1>9 DEF Return, Goto, SMTPTypeOK, Errors
  <2>2. ASSUME NEW u \in Senders
        PROVE  /\ pc'[u] = "idle" => results'[u] = <<>>
               /\ Active(u)' => Len(results'[u]) < Len(batch'[u])
    BY <1>9 DEF Return, Goto, SMTPTypeOK, Active
  <2> QED
    BY <1>9, <2>1, <2>2 DEF Return, SMTPTypeOK, session
<1> QED
  BY <1>1, <1>2, <1>3, <1>4, <1>5, <1>6, <1>7, <1>8, <1>9 DEF SMTPStep

\* Every value a variable takes has its type, whatever the callers pass.
THEOREM TypeCorrect == SMTPSpec => []SMTPTypeOK
<1>1. SMTPInit => SMTPTypeOK
  <2> SUFFICES ASSUME SMTPInit PROVE SMTPTypeOK
    OBVIOUS
  <2>1. tls \in [Senders -> BOOLEAN] /\ exposed \in BOOLEAN
    BY DEF SMTPInit
  <2>2. ASSUME NEW t \in Senders PROVE results[t] = <<>> /\ ~Active(t)
    BY DEF SMTPInit, Active
  <2> QED
    BY <2>1, <2>2 DEF SMTPInit, SMTPTypeOK, Errors
<1>2. SMTPTypeOK /\ [SMTPNext]_vars => SMTPTypeOK'
  <2> SUFFICES ASSUME SMTPTypeOK, [SMTPNext]_vars PROVE SMTPTypeOK'
    OBVIOUS
  <2>1. CASE Restart
    BY <2>1 DEF Restart, SMTPTypeOK, Active, Errors
  <2>2. CASE UNCHANGED vars
    BY <2>2 DEF vars, session, call, SMTPTypeOK, Active
  <2> QED
    BY <2>1, <2>2, StepTypes DEF SMTPNext
<1> QED
  BY <1>1, <1>2, PTL DEF SMTPSpec

-----------------------------------------------------------------------------
\* A Send that ends leaves no session, and nobody or everybody is mailed.
LEMMA FinishSafe ==
  ASSUME SMTPTypeOK, SessionInv, NEW t \in Senders, Active(t),
         NEW res, NEW took \in {{}, Positions(Current(t))},
         Finish(t, res, took), UNCHANGED exposed
  PROVE  SessionInv'
<1>1. /\ results' = [results EXCEPT ![t] = Append(@, res)]
      /\ mail' = [mail EXCEPT ![t] = Append(@, took)]
      /\ pc' = [pc EXCEPT ![t] = AfterMessage(t, res.err)]
      /\ UNCHANGED batch
      /\ next' = [next EXCEPT ![t] = 1]
      /\ tls' = [tls EXCEPT ![t] = FALSE]
      /\ envelope' = [envelope EXCEPT ![t] = {}]
      /\ accepted' = [accepted EXCEPT ![t] = {}]
  BY DEF Finish, NoSession, Goto
<1>2. /\ results[t] \in Seq(ResultType) /\ mail[t] \in Seq(SUBSET Nat)
      /\ Len(mail[t]) = Len(results[t])
  BY DEF SMTPTypeOK, SessionInv, SessionOK
<1>3. Len(results'[t]) = Len(results[t]) + 1
  <2>1. results'[t] = Append(results[t], res)
    BY <1>1 DEF SMTPTypeOK
  <2> QED
    BY <1>2, <2>1
<1>4. mail'[t] = Append(mail[t], took) /\ Len(mail'[t]) = Len(mail[t]) + 1
  BY <1>1, <1>2 DEF SMTPTypeOK
<1>5. ASSUME NEW u \in Senders PROVE SessionOK(u)'
  <2>1. CASE u = t
    BY <1>1, <1>2, <1>3, <1>4, <2>1 DEF SessionOK, AfterMessage, SMTPTypeOK
  <2>2. CASE u # t
    BY <1>1, <2>2 DEF SessionOK, SessionInv, SMTPTypeOK, Current
  <2> QED
    BY <2>1, <2>2
<1>6. AllOrNothing'
  <2> SUFFICES ASSUME NEW u \in Senders, NEW j \in DOMAIN mail'[u]
               PROVE  mail'[u][j] \in {{}, Positions(batch[u][j])}
    BY <1>1 DEF AllOrNothing, Positions, Rcpts
  <2>1. CASE u = t
    <3>1. CASE j \in DOMAIN mail[t]
      BY <1>2, <1>4, <2>1, <3>1 DEF SessionInv, AllOrNothing
    <3>2. CASE j \notin DOMAIN mail[t]
      <4>1. j = Len(results[t]) + 1 /\ mail'[t][j] = took
        BY <1>2, <1>4, <2>1, <3>2
      <4> QED
        BY <2>1, <4>1 DEF Current
    <3> QED
      BY <3>1, <3>2
  <2>2. CASE u # t
    BY <1>1, <2>2 DEF SessionInv, AllOrNothing, SMTPTypeOK
  <2> QED
    BY <2>1, <2>2
<1> QED
  BY <1>5, <1>6 DEF SessionInv, NoCleartextCredentials

\* Every error return: only QUIT fails after the relay took the mail over.
LEMMA FailSafe ==
  ASSUME SMTPTypeOK, SessionInv, NEW t \in Senders, Active(t), NEW err, Fail(t, err)
  PROVE  SessionInv'
<1>1. accepted[t] \in {{}, Positions(Current(t))}
  BY DEF SessionInv, SessionOK
<1> QED
  BY <1>1, FinishSafe DEF Fail

\* A step inside a session: only t's own session has to be looked at.
LEMMA MoveSafe ==
  ASSUME SMTPTypeOK, SessionInv, NEW t \in Senders,
         UNCHANGED <<batch, call, exposed>>,
         \A u \in Senders \ {t} :
           /\ pc'[u] = pc[u] /\ next'[u] = next[u] /\ tls'[u] = tls[u]
           /\ envelope'[u] = envelope[u] /\ accepted'[u] = accepted[u],
         SessionOK(t)'
  PROVE  SessionInv'
<1>1. NoCleartextCredentials' /\ AllOrNothing'
  BY DEF SessionInv, NoCleartextCredentials, AllOrNothing, call, Positions, Rcpts
<1>2. ASSUME NEW u \in Senders, u # t PROVE SessionOK(u)'
  <2>1. /\ SessionOK(u)
        /\ pc'[u] = pc[u] /\ next'[u] = next[u] /\ tls'[u] = tls[u]
        /\ envelope'[u] = envelope[u] /\ accepted'[u] = accepted[u]
        /\ UNCHANGED <<mail, results>>
    BY <1>2 DEF SessionInv, call
  <2>2. Positions(Current(u))' = Positions(Current(u))
    BY DEF Positions, Rcpts, Current, call
  <2> QED
    BY <2>1, <2>2 DEF SessionOK
<1> QED
  BY <1>1, <1>2 DEF SessionInv

\* Every command of a session.  AUTH is why `tls' is in the invariant, the
\* loop over the recipients why `envelope' is.
LEMMA StepSafe ==
  ASSUME SMTPTypeOK, SessionInv, NEW t \in Senders, SMTPStep(t)
  PROVE  SessionInv'
<1>0. SessionOK(t) /\ ~exposed
  BY DEF SessionInv, NoCleartextCredentials
<1>1. CASE Call(t)
  <2>1. /\ results[t] = <<>> /\ mail[t] = <<>>
        /\ pc' = [pc EXCEPT ![t] = pc'[t]] /\ pc'[t] \in {"returned", "dial"}
        /\ \A u \in Senders \ {t} : batch'[u] = batch[u]
        /\ UNCHANGED <<session, call, exposed>>
    <3>1. results[t] = <<>> /\ mail[t] \in Seq(SUBSET Nat)
      BY <1>1 DEF Call, SMTPTypeOK
    <3>2. Len(mail[t]) = 0
      BY <1>0, <3>1 DEF SessionOK
    <3> QED
      BY <1>1, <3>1, <3>2 DEF Call, Goto, SMTPTypeOK
  <2>2. AllOrNothing'
    <3> SUFFICES ASSUME NEW u \in Senders, NEW j \in DOMAIN mail[u]
                 PROVE  mail[u][j] \in {{}, Positions(batch'[u][j])}
      BY <2>1 DEF AllOrNothing, call, Positions, Rcpts
    <3>1. u # t
      BY <2>1
    <3> QED
      BY <2>1, <3>1 DEF SessionInv, AllOrNothing
  <2>3. ASSUME NEW u \in Senders PROVE SessionOK(u)'
    <3>1. CASE u = t
      <4>1. pc[t] = "idle" /\ pc'[t] \in {"returned", "dial"}
        BY <1>1, <2>1 DEF Call
      <4> QED
        BY <1>0, <2>1, <3>1, <4>1 DEF SessionOK, session, call
    <3>2. CASE u # t
      <4>1. SessionOK(u) /\ pc'[u] = pc[u] /\ UNCHANGED <<session, mail, results>>
        BY <2>1, <3>2 DEF SessionInv, SMTPTypeOK, call
      <4>2. Positions(Current(u))' = Positions(Current(u))
        BY <2>1, <3>2, <4>1 DEF Positions, Rcpts, Current
      <4> QED
        BY <4>1, <4>2 DEF SessionOK, session
    <3> QED
      BY <3>1, <3>2
  <2> QED
    BY <1>0, <2>1, <2>2, <2>3 DEF SessionInv, NoCleartextCredentials
<1>2. CASE Dial(t)
  <2>1. ASSUME NEW b \in BOOLEAN, Connected(t, b), cfg.username => b PROVE SessionInv'
    <3>1. SessionOK(t)'
      BY <1>0, <1>2, <2>1 DEF Dial, Connected, Goto, SessionOK, SMTPTypeOK, call
    <3> QED
      BY <2>1, <3>1, MoveSafe DEF Connected, Goto, SMTPTypeOK
  <2> QED
    BY <1>2, <2>1, FailSafe DEF Dial, Active, FailsClosed
<1>3. CASE Auth(t)
  <2>1. UNCHANGED exposed
    BY <1>0, <1>3 DEF Auth, SessionOK, SMTPTypeOK
  <2>2. CASE Goto(t, "mail") /\ UNCHANGED <<cfg, batch, session, call>>
    <3>1. SessionOK(t)'
      BY <1>0, <1>3, <2>2 DEF Auth, Goto, SessionOK, SMTPTypeOK, session, call
    <3> QED
      BY <2>1, <2>2, <3>1, MoveSafe DEF Goto, SMTPTypeOK, session
  <2> QED
    BY <1>3, <2>1, <2>2, FinishSafe DEF Auth, Active
<1>4. CASE Mail(t)
  <2>1. CASE Goto(t, "rcpt") /\ UNCHANGED <<cfg, batch, session, call, exposed>>
    <3>1. /\ pc'[t] = "rcpt" /\ next'[t] = 1 /\ envelope'[t] = {} /\ accepted'[t] = {}
          /\ Len(mail'[t]) = Len(results'[t])
          /\ Current(t)' = Current(t)
      BY <1>0, <1>4, <2>1 DEF Mail, Goto, SessionOK, SMTPTypeOK, session, call, Current
    <3>2. {p \in Positions(Current(t)) : p < 1} = {}
      BY <1>4, CurrentMessage DEF Mail, Active
    <3>3. SessionOK(t)'
      BY <3>1, <3>2 DEF SessionOK, Positions, Rcpts
    <3> QED
      BY <2>1, <3>3, MoveSafe DEF Goto, SMTPTypeOK, session
  <2> QED
    BY <1>4, <2>1, FailSafe DEF Mail, Active
<1>5. CASE Rcpt(t)
  <2>1. CASE Refused(t)
    BY <1>5, <2>1, FailSafe DEF Rcpt, Refused, Active
  <2>2. CASE /\ next' = [next EXCEPT ![t] = @ + 1]
             /\ envelope' = [envelope EXCEPT ![t] = @ \cup {next[t]}]
             /\ UNCHANGED <<cfg, pc, batch, tls, accepted, call, exposed>>
    <3>1. /\ pc[t] = "rcpt" /\ pc'[t] = "rcpt" /\ accepted'[t] = {}
          /\ Len(mail'[t]) = Len(results'[t])
          /\ next'[t] = next[t] + 1 /\ envelope'[t] = envelope[t] \cup {next[t]}
          /\ Current(t)' = Current(t)
      BY <1>0, <1>5, <2>2 DEF Rcpt, SessionOK, SMTPTypeOK, call, Current
    <3>2. PICK n \in Nat : Positions(Current(t)) = 1 .. n
      BY <3>1, CurrentMessage DEF Active
    <3>3. next[t] \in Positions(Current(t)) /\ next[t] \in Nat
      BY <1>5 DEF Rcpt, SMTPTypeOK
    <3>4. envelope[t] = {p \in Positions(Current(t)) : p < next[t]}
      BY <1>0, <3>1 DEF SessionOK
    <3>5. envelope'[t] = {p \in Positions(Current(t)) : p < next'[t]}
      BY <3>1, <3>2, <3>3, <3>4
    <3>6. SessionOK(t)'
      BY <3>1, <3>5 DEF SessionOK, Positions, Rcpts
    <3> QED
      BY <2>2, <3>6, MoveSafe DEF SMTPTypeOK
  <2> QED
    BY <1>5, <2>1, <2>2 DEF Rcpt
<1>6. CASE Data(t)
  <2>1. CASE Goto(t, "body") /\ UNCHANGED <<cfg, batch, session, call, exposed>>
    <3>1. /\ pc[t] = "rcpt" /\ pc'[t] = "body" /\ accepted'[t] = {}
          /\ Len(mail'[t]) = Len(results'[t])
          /\ envelope'[t] = {p \in Positions(Current(t)) : p < next[t]}
          /\ Current(t)' = Current(t)
      BY <1>0, <1>6, <2>1 DEF Data, Goto, SessionOK, SMTPTypeOK, session, call, Current
    <3>2. PICK n \in Nat : Positions(Current(t)) = 1 .. n
      BY <3>1, CurrentMessage DEF Active
    <3>3. next[t] \notin Positions(Current(t)) /\ next[t] \in Nat \ {0}
      BY <1>6 DEF Data, SMTPTypeOK
    <3>4. envelope'[t] = Positions(Current(t))
      BY <3>1, <3>2, <3>3
    <3>5. SessionOK(t)'
      BY <3>1, <3>4 DEF SessionOK, Positions, Rcpts
    <3> QED
      BY <2>1, <3>5, MoveSafe DEF Goto, SMTPTypeOK, session
  <2> QED
    BY <1>6, <2>1, FailSafe DEF Data, Active
<1>7. CASE Body(t)
  <2>1. envelope[t] = Positions(Current(t))
    BY <1>0, <1>7 DEF Body, SessionOK
  <2>2. CASE Finish(t, Result({}, "close"), envelope[t]) /\ UNCHANGED exposed
    BY <1>7, <2>1, <2>2, FinishSafe DEF Body, Active
  <2>3. CASE /\ accepted' = [accepted EXCEPT ![t] = envelope[t]]
             /\ Goto(t, "quit")
             /\ UNCHANGED <<cfg, batch, next, tls, envelope, call, exposed>>
    <3>1. /\ pc'[t] = "quit" /\ accepted'[t] = Positions(Current(t))
          /\ Len(mail'[t]) = Len(results'[t])
          /\ Current(t)' = Current(t)
      BY <1>0, <2>1, <2>3 DEF Goto, SessionOK, SMTPTypeOK, call, Current
    <3>2. SessionOK(t)'
      BY <3>1 DEF SessionOK, Positions, Rcpts
    <3> QED
      BY <2>3, <3>2, MoveSafe DEF Goto, SMTPTypeOK
  <2> QED
    BY <1>7, <2>2, <2>3, FailSafe DEF Body, Active
<1>8. CASE Quit(t)
  <2>1. accepted[t] = Positions(Current(t))
    BY <1>0, <1>8 DEF Quit, SessionOK
  <2> QED
    BY <1>8, <2>1, FinishSafe, FailSafe DEF Quit, Active
<1>9. CASE Return(t)
  <2>1. /\ pc' = [pc EXCEPT ![t] = "idle"]
        /\ batch' = [batch EXCEPT ![t] = <<>>]
        /\ results' = [results EXCEPT ![t] = <<>>]
        /\ mail' = [mail EXCEPT ![t] = <<>>]
        /\ UNCHANGED <<session, exposed>>
        /\ pc[t] = "returned"
    BY <1>9 DEF Return, Goto
  <2>2. AllOrNothing'
    <3> SUFFICES ASSUME NEW u \in Senders, NEW j \in DOMAIN mail'[u]
                 PROVE  mail'[u][j] \in {{}, Positions(batch'[u][j])}
      BY DEF AllOrNothing, Positions, Rcpts
    <3>1. u # t
      BY <2>1 DEF SMTPTypeOK
    <3> QED
      BY <2>1, <3>1 DEF SessionInv, AllOrNothing, SMTPTypeOK
  <2>3. ASSUME NEW u \in Senders PROVE SessionOK(u)'
    <3>1. CASE u = t
      BY <1>0, <2>1, <3>1 DEF SessionOK, session, SMTPTypeOK
    <3>2. CASE u # t
      BY <2>1, <3>2 DEF SessionInv, SessionOK, session, SMTPTypeOK, Current, Positions,
                        Rcpts
    <3> QED
      BY <3>1, <3>2
  <2> QED
    BY <1>0, <2>1, <2>2, <2>3 DEF SessionInv, NoCleartextCredentials
<1> QED
  BY <1>1, <1>2, <1>3, <1>4, <1>5, <1>6, <1>7, <1>8, <1>9 DEF SMTPStep

(***************************************************************************)
(* The inductive invariant: no password in the clear, all recipients or    *)
(* none, and the state of every session these two rest on.                 *)
(***************************************************************************)
THEOREM Sessions == SMTPSpec => []SessionInv
<1>1. SMTPInit => SessionInv
  BY DEF SMTPInit, SessionInv, SessionOK, NoCleartextCredentials, AllOrNothing
<1>2. SMTPTypeOK /\ SessionInv /\ [SMTPNext]_vars => SessionInv'
  <2> SUFFICES ASSUME SMTPTypeOK, SessionInv, [SMTPNext]_vars PROVE SessionInv'
    OBVIOUS
  <2>1. CASE Restart
    <3>1. NoCleartextCredentials'
      BY <2>1 DEF Restart, SessionInv, NoCleartextCredentials
    <3>2. AllOrNothing' /\ \A t \in Senders : SessionOK(t)'
      BY <2>1 DEF Restart, AllOrNothing, SessionOK
    <3> QED
      BY <3>1, <3>2 DEF SessionInv
  <2>2. CASE UNCHANGED vars
    BY <2>2 DEF vars, session, call, SessionInv, SessionOK, NoCleartextCredentials,
                AllOrNothing, Current, Positions, Rcpts
  <2> QED
    BY <2>1, <2>2, StepSafe DEF SMTPNext
<1> QED
  BY <1>1, <1>2, TypeCorrect, PTL DEF SMTPSpec

\* The password never crosses a plaintext connection, wherever a session fails.
THEOREM CredentialsSafe == SMTPSpec => []NoCleartextCredentials
<1>1. SessionInv => NoCleartextCredentials
  BY DEF SessionInv
<1> QED
  BY <1>1, Sessions, PTL

\* Every message is mailed to all of its recipients or to nobody.
THEOREM NobodyOrEverybody == SMTPSpec => []AllOrNothing
<1>1. SessionInv => AllOrNothing
  BY DEF SessionInv
<1> QED
  BY <1>1, Sessions, PTL

-----------------------------------------------------------------------------
\* A message without recipients is refused before the relay is dialled.
THEOREM SomebodyMailed == SMTPSpec => []SomebodyToMail
<1>1. SMTPInit => SomebodyToMail
  BY DEF SMTPInit, SomebodyToMail, Active
<1>2. SMTPTypeOK /\ SomebodyToMail /\ [SMTPNext]_vars => SomebodyToMail'
  <2> SUFFICES ASSUME SMTPTypeOK, SomebodyToMail, [SMTPNext]_vars,
                      NEW u \in Senders, Active(u)', pc'[u] # "dial"
               PROVE  Positions(Current(u)') # {}
    BY DEF SomebodyToMail, Positions, Rcpts
  <2>1. ASSUME NEW t \in Senders, NEW res, NEW took, Finish(t, res, took)
        PROVE  u # t /\ pc'[u] = pc[u] /\ UNCHANGED batch /\ results'[u] = results[u]
    BY <2>1 DEF Finish, Goto, AfterMessage, SMTPTypeOK, Active
  <2>2. ASSUME NEW t \in Senders, NEW l, Goto(t, l), UNCHANGED <<batch, call>>,
               Active(t), pc[t] # "dial"
        PROVE  Positions(Current(u)') # {}
    BY <2>2 DEF Goto, call, Current, SomebodyToMail, SMTPTypeOK, Active
  <2>3. ASSUME NEW t \in Senders, NEW res, NEW took, Finish(t, res, took)
        PROVE  Positions(Current(u)') # {}
    BY <2>1, <2>3 DEF SomebodyToMail, Active, Current
  <2>4. ASSUME NEW t \in Senders, SMTPStep(t) PROVE Positions(Current(u)') # {}
    <3>1. CASE Call(t)
      BY <3>1 DEF Call, Goto, call, SomebodyToMail, SMTPTypeOK, Active, Current
    <3>2. CASE Dial(t)
      <4>1. ASSUME NEW b \in BOOLEAN, Connected(t, b), Positions(Current(t)) # {}
            PROVE  Positions(Current(u)') # {}
        BY <4>1 DEF Connected, Goto, call, SomebodyToMail, SMTPTypeOK, Active, Current
      <4> QED
        BY <2>3, <3>2, <4>1 DEF Dial, Fail
    <3>3. CASE Auth(t)
      BY <2>2, <2>3, <3>3 DEF Auth, Active
    <3>4. CASE Mail(t)
      BY <2>2, <2>3, <3>4 DEF Mail, Fail, Active
    <3>5. CASE Rcpt(t)
      BY <2>3, <3>5 DEF Rcpt, Refused, Fail, call, SomebodyToMail, Active, Current
    <3>6. CASE Data(t)
      BY <2>2, <2>3, <3>6 DEF Data, Fail, Active
    <3>7. CASE Body(t)
      BY <2>2, <2>3, <3>7 DEF Body, Fail, Active
    <3>8. CASE Quit(t)
      BY <2>3, <3>8 DEF Quit, Fail
    <3>9. CASE Return(t)
      BY <3>9 DEF Return, Goto, SomebodyToMail, SMTPTypeOK, Active, Current
    <3> QED
      BY <2>4, <3>1, <3>2, <3>3, <3>4, <3>5, <3>6, <3>7, <3>8, <3>9 DEF SMTPStep
  <2>5. CASE Restart
    BY <2>5 DEF Restart, Active
  <2>6. CASE UNCHANGED vars
    BY <2>6 DEF vars, call, SomebodyToMail, Active, Current
  <2> QED
    BY <2>4, <2>5, <2>6 DEF SMTPNext
<1> QED
  BY <1>1, <1>2, TypeCorrect, PTL DEF SMTPSpec

\* The end of a Send is one attempt of a BatchSender, if its outcome is one.
LEMMA FinishAttempts ==
  ASSUME SMTPTypeOK, NEW t \in Senders, Active(t), NEW res, NEW took,
         <<res, took>> \in Sending!Outcomes(Current(t)),
         Finish(t, res, took)
  PROVE  Sending!Attempt(t)
<1> DEFINE j == Len(results[t]) + 1
<1>1. Status[t] = "running"
  BY DEF Status
<1>2. /\ results' = [results EXCEPT ![t] = Append(@, res)]
      /\ mail' = [mail EXCEPT ![t] = Append(@, took)]
      /\ firstErr' = [firstErr EXCEPT ![t] = Sending!FirstError(t, res.err)]
      /\ UNCHANGED batch
  BY DEF Finish, FirstError, Sending!FirstError
<1>3. pc' = [pc EXCEPT ![t] = IF j < Len(batch[t]) THEN "dial" ELSE "returned"]
  BY DEF Finish, Goto, AfterMessage
<1>4. Status' = [Status EXCEPT ![t] = IF j < Len(batch[t]) THEN @ ELSE "returned"]
  BY <1>1, <1>3 DEF Status, Active, SMTPTypeOK
<1>5. <<res, took>> \in Sending!Outcomes(batch[t][j])
  BY DEF Current
<1> QED
  BY <1>1, <1>2, <1>4, <1>5 DEF Sending!Attempt

\* An error is an outcome of a BatchSender if the relay took nothing over, and
\* those from the final dot on whatever it took.
LEMMA FailureAllowed ==
  ASSUME NEW m, NEW err \in Errors \ {"nil"}, NEW took \in SUBSET Positions(m),
         took = {} \/ err \in {"close", "QUIT"}
  PROVE  <<Result({}, err), took>> \in Sending!Outcomes(m)
<1>1. /\ Result({}, err) = Sending!Result({}, {}, err)
      /\ took \in SUBSET Sending!Positions(m)
      /\ err \in Errors \ {"nil", "ErrSuppressed"}
  BY DEF Result, Sending!Result, Positions, Rcpts, Sending!Positions, Errors
<1>2. <<Sending!Result({}, {}, err), took>> \in Sending!Failed \cup Sending!InDoubt(m)
  <2>1. CASE err \in {"close", "QUIT"}
    BY <1>1, <2>1 DEF Sending!InDoubt
  <2>2. CASE took = {} /\ err \notin {"close", "QUIT"}
    BY <1>1, <2>2 DEF Sending!Failed
  <2> QED
    BY <2>1, <2>2
<1> QED
  BY <1>1, <1>2 DEF Sending!Outcomes

\* Only QUIT can fail after the relay took the message over.
LEMMA FailAttempts ==
  ASSUME SMTPTypeOK, SessionInv, NEW t \in Senders, Active(t),
         NEW err \in Errors \ {"nil"}, pc[t] # "quit" \/ err = "QUIT", Fail(t, err)
  PROVE  Sending!Attempt(t)
<1>1. /\ accepted[t] \in SUBSET Positions(Current(t))
      /\ accepted[t] = {} \/ err = "QUIT"
  BY DEF SessionInv, SessionOK
<1> QED
  BY <1>1, FailureAllowed, FinishAttempts DEF Fail

\* A command inside a session is invisible to the caller.
LEMMA MoveStutters ==
  ASSUME SMTPTypeOK, NEW t \in Senders, Active(t),
         NEW l \in {"dial", "auth", "mail", "rcpt", "body", "quit"}, Goto(t, l),
         UNCHANGED <<batch, call>>
  PROVE  UNCHANGED Sending!batchVars
<1>1. Status' = Status
  BY DEF Status, Active, Goto, SMTPTypeOK
<1> QED
  BY <1>1 DEF Sending!batchVars, call

\* Every command is a step of a BatchSender or a stutter.
LEMMA StepRefines ==
  ASSUME SMTPTypeOK, SessionInv, SomebodyToMail, NEW t \in Senders, SMTPStep(t)
  PROVE  Sending!BatchNext \/ UNCHANGED Sending!batchVars
<1> DEFINE Refined == Sending!BatchNext \/ UNCHANGED Sending!batchVars
<1>0. ASSUME Sending!Attempt(t) PROVE Refined
  BY <1>0 DEF Sending!BatchNext
<1>1. CASE Call(t)
  <2>1. PICK b \in Batches : /\ batch' = [batch EXCEPT ![t] = b]
                             /\ Goto(t, IF b = <<>> THEN "returned" ELSE "dial")
    BY <1>1 DEF Call
  <2>2. Status[t] = "idle"
    BY <1>1 DEF Call, Status, Active
  <2>3. Status' = [Status EXCEPT ![t] = IF b = <<>> THEN "returned" ELSE "running"]
    BY <2>1 DEF Status, Active, Goto, SMTPTypeOK
  <2>4. Sending!Begin(t)
    BY <1>1, <2>1, <2>2, <2>3 DEF Call, call, Sending!Begin
  <2> QED
    BY <2>4 DEF Sending!BatchNext
<1>2. CASE Dial(t)
  <2>1. ASSUME NEW b \in BOOLEAN, Connected(t, b) PROVE Refined
    BY <1>2, <2>1, MoveStutters DEF Dial, Connected, Active
  <2> QED
    BY <1>0, <1>2, <2>1, FailAttempts DEF Dial, Active, Errors
<1>3. CASE Auth(t)
  BY <1>0, <1>3, FailureAllowed, FinishAttempts, MoveStutters DEF Auth, Active, Errors
<1>4. CASE Mail(t)
  BY <1>0, <1>4, FailAttempts, MoveStutters DEF Mail, Active, Errors
<1>5. CASE Rcpt(t)
  <2>1. CASE Refused(t)
    BY <1>0, <1>5, <2>1, FailAttempts DEF Rcpt, Refused, Active, Errors
  <2>2. CASE UNCHANGED <<cfg, pc, batch, tls, accepted, call, exposed>>
    BY <2>2 DEF Sending!batchVars, Status, Active, call
  <2> QED
    BY <1>5, <2>1, <2>2 DEF Rcpt
<1>6. CASE Data(t)
  BY <1>0, <1>6, FailAttempts, MoveStutters DEF Data, Active, Errors
<1>7. CASE Body(t)
  <2>1. envelope[t] \in SUBSET Positions(Current(t))
    BY <1>7 DEF Body, SessionInv, SessionOK
  <2> QED
    BY <1>0, <1>7, <2>1, FailureAllowed, FailAttempts, FinishAttempts, MoveStutters
    DEF Body, Active, Errors
<1>8. CASE Quit(t)
  <2>1. Active(t) /\ accepted[t] = Positions(Current(t)) /\ Positions(Current(t)) # {}
    BY <1>8 DEF Quit, Active, SomebodyToMail, SessionInv, SessionOK
  <2>2. <<Result(Positions(Current(t)), "nil"), accepted[t]>> \in
          Sending!Outcomes(Current(t))
    <3>1. /\ accepted[t] \in (SUBSET Sending!Positions(Current(t))) \ {{}}
          /\ Result(Positions(Current(t)), "nil") = Sending!Result(accepted[t],
                              Sending!Positions(Current(t)) \ accepted[t], "nil")
      BY <2>1 DEF Result, Positions, Rcpts, Sending!Result, Sending!Positions
    <3>2. <<Result(Positions(Current(t)), "nil"), accepted[t]>> \in
            Sending!Delivered(Current(t))
      BY <3>1 DEF Sending!Delivered
    <3> QED
      BY <3>2 DEF Sending!Outcomes
  <2> QED
    BY <1>0, <1>8, <2>1, <2>2, FailAttempts, FinishAttempts DEF Quit, Errors
<1>9. CASE Return(t)
  <2>1. Status' = [u \in Senders |-> IF u \in {t} THEN "idle" ELSE Status[u]]
    BY <1>9 DEF Return, Goto, Status, Active, SMTPTypeOK
  <2>2. /\ batch' = [u \in Senders |-> IF u \in {t} THEN <<>> ELSE batch[u]]
        /\ results' = [u \in Senders |-> IF u \in {t} THEN <<>> ELSE results[u]]
        /\ firstErr' = [u \in Senders |-> IF u \in {t} THEN "nil" ELSE firstErr[u]]
        /\ mail' = [u \in Senders |-> IF u \in {t} THEN <<>> ELSE mail[u]]
    BY <1>9 DEF Return, SMTPTypeOK
  <2>3. Sending!End({t})
    BY <2>1, <2>2 DEF Sending!End
  <2> QED
    BY <2>3 DEF Sending!BatchNext
<1> QED
  BY <1>1, <1>2, <1>3, <1>4, <1>5, <1>6, <1>7, <1>8, <1>9 DEF SMTPStep

(***************************************************************************)
(* The SMTP backend implements BatchSender, wherever a session or the      *)
(* process dies: a message without an error is mailed to everybody, and    *)
(* one with an error to nobody, unless the final dot or QUIT failed.       *)
(***************************************************************************)
THEOREM Refines == SMTPSpec => ImplementsBatchSender
<1>1. SMTPInit => Sending!BatchInit
  BY DEF SMTPInit, Sending!BatchInit, Status, Active
<1>2. SMTPTypeOK /\ SessionInv /\ SomebodyToMail /\ [SMTPNext]_vars
      => [Sending!BatchNext]_(Sending!batchVars)
  <2> SUFFICES ASSUME SMTPTypeOK, SessionInv, SomebodyToMail, [SMTPNext]_vars
               PROVE  Sending!BatchNext \/ UNCHANGED Sending!batchVars
    OBVIOUS
  <2>1. CASE Restart
    <3>1. Status' = [t \in Senders |-> IF t \in Senders THEN "idle" ELSE Status[t]]
      BY <2>1 DEF Restart, Status, Active
    <3>2. Sending!End(Senders)
      BY <2>1, <3>1 DEF Restart, Sending!End
    <3> QED
      BY <3>2 DEF Sending!BatchNext
  <2>2. CASE UNCHANGED vars
    BY <2>2 DEF vars, call, Sending!batchVars, Status, Active
  <2> QED
    BY <2>1, <2>2, StepRefines DEF SMTPNext
<1> QED
  BY <1>1, <1>2, TypeCorrect, Sessions, SomebodyMailed, PTL
  DEF SMTPSpec, ImplementsBatchSender, Sending!BatchSpec

-----------------------------------------------------------------------------
\* What SendBatch remembers of the call of one sender, as its caller sees it.
Remembers(t) ==
  /\ Status[t] = "returned" => Len(results[t]) = Len(batch[t])
  /\ \/ /\ firstErr[t] = "nil"
        /\ \A j \in DOMAIN results[t] : results[t][j].err = "nil"
     \/ \E j \in DOMAIN results[t] :
          /\ results[t][j].err # "nil"
          /\ firstErr[t] = results[t][j].err
          /\ \A k \in DOMAIN results[t] : k < j => results[t][k].err = "nil"

FirstErrorSoFar == \A t \in Senders : Remembers(t)

\* The other senders remember what they remembered.
LEMMA OthersRemember ==
  ASSUME FirstErrorSoFar, NEW t \in Senders, Remembers(t)',
         \A u \in Senders \ {t} :
           /\ Status'[u] = Status[u] /\ batch'[u] = batch[u]
           /\ results'[u] = results[u] /\ firstErr'[u] = firstErr[u]
  PROVE  FirstErrorSoFar'
<1>1. ASSUME NEW u \in Senders, u # t PROVE Remembers(u)'
  BY <1>1 DEF FirstErrorSoFar, Remembers
<1> QED
  BY <1>1 DEF FirstErrorSoFar

\* One message more: the first error stays, or is this message's.
LEMMA AttemptRemembers ==
  ASSUME SMTPTypeOK, FirstErrorSoFar, NEW t \in Senders, Sending!Attempt(t)
  PROVE  FirstErrorSoFar'
<1> DEFINE n == Len(results[t])
<1>1. PICK o \in Sending!Outcomes(batch[t][n + 1]) :
        /\ results' = [results EXCEPT ![t] = Append(@, o[1])]
        /\ firstErr' = [firstErr EXCEPT ![t] = Sending!FirstError(t, o[1].err)]
  BY DEF Sending!Attempt
<1> DEFINE err == o[1].err
<1>2. /\ Status[t] = "running" /\ batch' = batch
      /\ Status' = [Status EXCEPT ![t] = IF n + 1 < Len(batch[t]) THEN @ ELSE "returned"]
  BY DEF Sending!Attempt
<1>3. results[t] \in Seq(ResultType) /\ n \in Nat /\ DOMAIN results[t] = 1 .. n
  BY DEF SMTPTypeOK
<1>4. /\ results'[t] = Append(results[t], o[1])
      /\ firstErr'[t] = IF firstErr[t] = "nil" THEN err ELSE firstErr[t]
  BY <1>1 DEF SMTPTypeOK, Sending!FirstError
<1>5. /\ Len(results'[t]) = n + 1
      /\ DOMAIN results'[t] = 1 .. (n + 1)
      /\ results'[t][n + 1] = o[1]
      /\ \A k \in 1 .. n : results'[t][k] = results[t][k]
  BY <1>3, <1>4
<1>6. Status'[t] = "returned" => Len(results'[t]) = Len(batch'[t])
  <2>1. n < Len(batch[t]) /\ batch[t] \in Batches
    BY <1>2 DEF Status, Active, SMTPTypeOK
  <2>2. batch[t] \in Seq({batch[t][j] : j \in DOMAIN batch[t]})
    BY <2>1, SMTPAssumption
  <2>3. Len(batch[t]) \in Nat
    BY <2>2
  <2>4. Status'[t] = "returned" => ~ (n + 1 < Len(batch[t]))
    BY <1>2 DEF Status
  <2> QED
    BY <1>2, <1>3, <1>5, <2>1, <2>3, <2>4
<1>7. Remembers(t)'
  <2>1. CASE firstErr[t] = "nil" /\ \A j \in DOMAIN results[t] : results[t][j].err = "nil"
    <3>1. \A k \in 1 .. n : results'[t][k].err = "nil"
      BY <1>3, <1>5, <2>1
    <3>2. CASE err = "nil"
      <4>1. \A k \in DOMAIN results'[t] : results'[t][k].err = "nil"
        BY <1>3, <1>5, <3>1, <3>2
      <4> QED
        BY <1>4, <1>6, <2>1, <3>2, <4>1 DEF Remembers
    <3>3. CASE err # "nil"
      <4>1. /\ n + 1 \in DOMAIN results'[t]
            /\ firstErr'[t] = results'[t][n + 1].err
            /\ results'[t][n + 1].err # "nil"
            /\ \A k \in DOMAIN results'[t] : k < n + 1 => results'[t][k].err = "nil"
        BY <1>3, <1>4, <1>5, <2>1, <3>1, <3>3
      <4> QED
        BY <1>6, <4>1 DEF Remembers
    <3> QED
      BY <3>2, <3>3
  <2>2. ASSUME NEW j \in DOMAIN results[t], results[t][j].err # "nil",
               firstErr[t] = results[t][j].err,
               \A k \in DOMAIN results[t] : k < j => results[t][k].err = "nil"
        PROVE  Remembers(t)'
    <3>1. /\ j \in DOMAIN results'[t]
          /\ firstErr'[t] = results'[t][j].err
          /\ results'[t][j].err # "nil"
          /\ \A k \in DOMAIN results'[t] : k < j => results'[t][k].err = "nil"
      BY <1>3, <1>4, <1>5, <2>2
    <3> QED
      BY <1>6, <3>1 DEF Remembers
  <2> QED
    BY <2>1, <2>2 DEF FirstErrorSoFar, Remembers
<1> QED
  BY <1>1, <1>2, <1>7, OthersRemember DEF SMTPTypeOK, Status

\* Every step of a BatchSender keeps what is remembered: that the backend
\* implements one is all that is used of it.
LEMMA BatchRemembers ==
  ASSUME SMTPTypeOK, FirstErrorSoFar, [Sending!BatchNext]_(Sending!batchVars)
  PROVE  FirstErrorSoFar'
<1>1. CASE UNCHANGED Sending!batchVars
  BY <1>1 DEF Sending!batchVars, FirstErrorSoFar, Remembers
<1>2. ASSUME NEW t \in Senders, Sending!Begin(t) PROVE FirstErrorSoFar'
  <2>1. PICK b \in Batches :
          /\ batch' = [batch EXCEPT ![t] = b]
          /\ Status' = [Status EXCEPT ![t] = IF b = <<>> THEN "returned" ELSE "running"]
    BY <1>2 DEF Sending!Begin
  <2>2. results[t] = <<>> /\ UNCHANGED <<results, firstErr>>
    BY <1>2 DEF Sending!Begin, Status, SMTPTypeOK, Active
  <2>3. Status'[t] = "returned" => batch'[t] = <<>>
    BY <2>1 DEF Status, SMTPTypeOK
  <2>4. Remembers(t)'
    BY <2>2, <2>3 DEF FirstErrorSoFar, Remembers
  <2> QED
    BY <2>1, <2>2, <2>4, OthersRemember DEF SMTPTypeOK, Status
<1>3. ASSUME NEW dead \in SUBSET Senders, Sending!End(dead) PROVE FirstErrorSoFar'
  <2> SUFFICES ASSUME NEW u \in Senders PROVE Remembers(u)'
    BY DEF FirstErrorSoFar
  <2>1. CASE u \in dead
    BY <1>3, <2>1 DEF Sending!End, Remembers
  <2>2. CASE u \notin dead
    BY <1>3, <2>2 DEF Sending!End, FirstErrorSoFar, Remembers
  <2> QED
    BY <2>1, <2>2
<1> QED
  BY <1>1, <1>2, <1>3, AttemptRemembers DEF Sending!BatchNext

(***************************************************************************)
(* A call of SendBatch that returns has tried every message and returns    *)
(* the error of the first that failed (smtp.go:210-221), because the       *)
(* backend implements BatchSender.                                         *)
(***************************************************************************)
THEOREM FirstErrorSafe == SMTPSpec => []FirstErrorReturned
<1>1. SMTPInit => FirstErrorSoFar
  <2> SUFFICES ASSUME SMTPInit, NEW t \in Senders PROVE Remembers(t)
    BY DEF FirstErrorSoFar
  <2>1. Status[t] = "idle" /\ results[t] = <<>> /\ firstErr[t] = "nil"
    BY DEF SMTPInit, Status, Active
  <2> QED
    BY <2>1 DEF Remembers
<1>2. SMTPTypeOK /\ FirstErrorSoFar /\ [Sending!BatchNext]_(Sending!batchVars)
      => FirstErrorSoFar'
  BY BatchRemembers
<1>3. SMTPSpec => [][Sending!BatchNext]_(Sending!batchVars)
  BY Refines, PTL DEF ImplementsBatchSender, Sending!BatchSpec
<1>4. SMTPSpec => []FirstErrorSoFar
  BY <1>1, <1>2, <1>3, TypeCorrect, PTL DEF SMTPSpec
<1>5. SMTPTypeOK /\ FirstErrorSoFar => FirstErrorReturned
  <2> SUFFICES ASSUME SMTPTypeOK, FirstErrorSoFar, NEW t \in Senders, Status[t] = "returned"
               PROVE  /\ Len(results[t]) = Len(batch[t])
                      /\ LET Failed == {j \in DOMAIN results[t] : results[t][j].err # "nil"}
                         IN  IF Failed = {} THEN firstErr[t] = "nil"
                             ELSE \E j \in Failed :
                                    /\ \A k \in Failed : j <= k
                                    /\ firstErr[t] = results[t][j].err
    BY DEF FirstErrorReturned, Sending!FirstErrorOfBatch
  <2> DEFINE Failed == {j \in DOMAIN results[t] : results[t][j].err # "nil"}
  <2>1. Len(results[t]) = Len(batch[t])
    BY DEF FirstErrorSoFar, Remembers
  <2>2. DOMAIN results[t] \subseteq Nat
    BY DEF SMTPTypeOK
  <2>3. CASE firstErr[t] = "nil" /\ \A j \in DOMAIN results[t] : results[t][j].err = "nil"
    BY <2>1, <2>3
  <2>4. ASSUME NEW j \in DOMAIN results[t], results[t][j].err # "nil",
               firstErr[t] = results[t][j].err,
               \A k \in DOMAIN results[t] : k < j => results[t][k].err = "nil"
        PROVE  \E i \in Failed : /\ \A k \in Failed : i <= k
                                 /\ firstErr[t] = results[t][i].err
    <3>1. j \in Failed
      BY <2>4
    <3>2. \A k \in Failed : j <= k
      BY <2>2, <2>4
    <3> QED
      BY <2>4, <3>1, <3>2
  <2> QED
    BY <2>1, <2>3, <2>4 DEF FirstErrorSoFar, Remembers
<1> QED
  BY <1>4, <1>5, TypeCorrect, PTL
=============================================================================
