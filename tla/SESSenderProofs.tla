-------------------------- MODULE SESSenderProofs --------------------------
(***************************************************************************)
(* SESSender keeps its types and never mails a barred address, for every   *)
(* number of senders and processes, every batch and every kind of list.    *)
(***************************************************************************)
EXTENDS SESSender, SuppressionListProofs

\* What filterSuppressed guarantees while other goroutines change the list.
SafetyInv == KeptNotBarred /\ BarredListed

-----------------------------------------------------------------------------
\* The current message of an active sender is one the caller passed, so its
\* recipients are addresses at positions 1, 2, ...
LEMMA CurrentMessage ==
  ASSUME TypeOK, NEW t \in Senders, Active(t)
  PROVE  /\ Rcpts(Current(t)) \in Seq(Addresses)
         /\ Positions(Current(t)) \subseteq Nat
<1>1. batch[t] \in Batches
  BY DEF TypeOK, ProgressOK, Active
<1>2. batch[t] \in Seq({batch[t][j] : j \in DOMAIN batch[t]})
  BY <1>1, SenderAssumption
<1>3. Len(results[t]) \in Nat /\ Len(results[t]) < Len(batch[t])
  BY DEF TypeOK, ProgressOK
<1>4. Len(results[t]) + 1 \in DOMAIN batch[t]
  BY <1>2, <1>3
<1>5. Rcpts(Current(t)) \in Seq(Addresses)
  BY <1>1, <1>4, SenderAssumption DEF Current, Rcpts
<1> QED
  BY <1>5 DEF Positions

\* Whatever a Send returns, SendBatch is left in a well-typed state.
LEMMA FinishTypes ==
  ASSUME TypeOK, NEW t \in Senders, Active(t),
         NEW res \in ResultType, NEW accepted \in SUBSET Nat,
         Finish(t, res, accepted)
  PROVE  TypeOK'
<1> USE DEF Finish, Enter, Goto
<1>1. SuppressionTypeOK'
  BY DEF TypeOK, SuppressionTypeOK, Stores
<1>2. /\ batch' \in [Senders -> Batches \cup {<<>>}]
      /\ next' \in [Senders -> Nat \ {0}]
      /\ kept' \in [Senders -> SUBSET Nat]
  BY DEF TypeOK
<1>3. /\ results' \in [Senders -> Seq(ResultType)]
      /\ mail' \in [Senders -> Seq(SUBSET Nat)]
  BY DEF TypeOK
<1>4. pc' \in [Senders -> {"idle", "filter", "gate", "wait", "submit", "returned"}]
  BY DEF TypeOK, AfterMessage
<1>5. firstErr' \in [Senders -> Errors]
  BY DEF TypeOK, FirstError, ResultType
<1>6. barred' \in [Senders -> SUBSET Mailboxes]
  BY DEF TypeOK, Suppressed
<1>7. ASSUME NEW u \in Senders PROVE ProgressOK(u)'
  <2>1. CASE u = t
    <3>1. Len(results'[t]) = Len(results[t]) + 1
      BY DEF TypeOK
    <3>2. pc'[t] = AfterMessage(t, res.err) /\ kept'[t] = {} /\ batch'[t] = batch[t]
      BY DEF TypeOK
    <3> QED
      BY <2>1, <3>1, <3>2 DEF ProgressOK, Active, AfterMessage
  <2>2. CASE u # t
    BY <2>2 DEF TypeOK, ProgressOK, Active, Current
  <2> QED
    BY <2>1, <2>2
<1> QED
  BY <1>1, <1>2, <1>3, <1>4, <1>5, <1>6, <1>7 DEF TypeOK

\* What every error return of Send leaves behind.
LEMMA FailTypes ==
  ASSUME TypeOK, NEW t \in Senders, Active(t), NEW err \in Errors, Fail(t, err)
  PROVE  TypeOK'
<1>1. Result({}, {}, err) \in ResultType
  BY DEF Result, ResultType
<1> QED
  BY <1>1, FinishTypes DEF Fail

\* A step inside Send that returns nothing yet: only the position moves.
LEMMA MoveTypes ==
  ASSUME TypeOK, NEW t \in Senders, Active(t), NEW l \in {"gate", "wait", "submit"},
         Goto(t, l),
         UNCHANGED <<entries, batch, next, kept, results, firstErr, mail, barred>>
  PROVE  TypeOK'
<1>1. SuppressionTypeOK'
  BY DEF TypeOK, SuppressionTypeOK, Stores
<1>2. pc' \in [Senders -> {"idle", "filter", "gate", "wait", "submit", "returned"}]
  BY DEF TypeOK, Goto
<1>3. ASSUME NEW u \in Senders PROVE ProgressOK(u)'
  BY DEF TypeOK, ProgressOK, Active, Current, Goto
<1> QED
  BY <1>1, <1>2, <1>3 DEF TypeOK

\* Every step of a sender keeps the types.
LEMMA StepTypes ==
  ASSUME TypeOK, NEW t \in Senders, SenderStep(t)
  PROVE  TypeOK'
<1>1. CASE Call(t)
  <2>1. PICK b \in Batches : /\ batch' = [batch EXCEPT ![t] = b]
                             /\ Goto(t, IF b = <<>> THEN "returned" ELSE "filter")
    BY <1>1 DEF Call
  <2>2. b \in Seq({b[j] : j \in DOMAIN b})
    BY SenderAssumption
  <2>3. SuppressionTypeOK'
    BY <1>1 DEF Call, TypeOK, SuppressionTypeOK, Stores
  <2>4. /\ pc' \in [Senders -> {"idle", "filter", "gate", "wait", "submit", "returned"}]
        /\ batch' \in [Senders -> Batches \cup {<<>>}]
        /\ next' \in [Senders -> Nat \ {0}]
        /\ kept' \in [Senders -> SUBSET Nat]
        /\ barred' \in [Senders -> SUBSET Mailboxes]
    BY <1>1, <2>1 DEF Call, Enter, Goto, TypeOK, Suppressed
  <2>5. ASSUME NEW u \in Senders PROVE ProgressOK(u)'
    <3>1. CASE u = t
      <4>1. results'[t] = <<>> /\ kept'[t] = {} /\ batch'[t] = b
        BY <1>1, <2>1 DEF Call, Enter, TypeOK, ProgressOK
      <4>2. pc'[t] = IF b = <<>> THEN "returned" ELSE "filter"
        BY <2>1 DEF Goto, TypeOK
      <4> QED
        BY <2>2, <3>1, <4>1, <4>2 DEF ProgressOK, Active
    <3>2. CASE u # t
      BY <1>1, <2>1, <3>2 DEF Call, Enter, Goto, TypeOK, ProgressOK, Active, Current
    <3> QED
      BY <3>1, <3>2
  <2> QED
    BY <1>1, <2>3, <2>4, <2>5 DEF Call, TypeOK
<1>2. CASE Filter(t)
  <2>1. Active(t)
    BY <1>2 DEF Filter, Active
  <2>2. CASE Fail(t, "lookup")
    BY <2>1, <2>2, FailTypes DEF Errors
  <2>3. CASE UNCHANGED <<entries, pc, batch, results, firstErr, mail, barred>>
    <3>1. /\ next' = [next EXCEPT ![t] = @ + 1]
          /\ kept' = [kept EXCEPT ![t] =
                        IF IsSuppressed(InstanceOf[t], Rcpts(Current(t))[next[t]])
                        THEN @ ELSE @ \cup {next[t]}]
      BY <1>2, <2>3 DEF Filter, Fail, Finish, Enter, Goto, TypeOK, ProgressOK
    <3>2. next[t] \in Positions(Current(t)) /\ next[t] \in Nat
      BY <1>2 DEF Filter, TypeOK
    <3>3. SuppressionTypeOK'
      BY <2>3 DEF TypeOK, SuppressionTypeOK, Stores
    <3>4. next' \in [Senders -> Nat \ {0}] /\ kept' \in [Senders -> SUBSET Nat]
      BY <3>1, <3>2 DEF TypeOK
    <3>5. ASSUME NEW u \in Senders PROVE ProgressOK(u)'
      <4>1. CASE u = t
        <5>1. Positions(Current(t)) \subseteq Nat
          BY <2>1, CurrentMessage
        <5>2. next'[t] = next[t] + 1 /\ kept'[t] \subseteq kept[t] \cup {next[t]}
          BY <3>1 DEF TypeOK
        <5>3. Positions(Current(t))' = Positions(Current(t))
          BY <2>3 DEF Positions, Rcpts, Current
        <5>4. kept[t] \subseteq {p \in Positions(Current(t)) : p < next[t]}
          BY <2>1 DEF TypeOK, ProgressOK
        <5>5. kept'[t] \subseteq {p \in Positions(Current(t)) : p < next'[t]}
          BY <3>2, <5>1, <5>2, <5>4
        <5>6. /\ Len(results'[t]) < Len(batch'[t])
              /\ pc'[t] # "idle"
          BY <2>1, <2>3 DEF TypeOK, ProgressOK, Active
        <5> QED
          BY <4>1, <5>3, <5>5, <5>6 DEF ProgressOK
      <4>2. CASE u # t
        BY <2>3, <3>1, <4>2 DEF TypeOK, ProgressOK, Active, Current
      <4> QED
        BY <4>1, <4>2
    <3> QED
      BY <2>3, <3>3, <3>4, <3>5 DEF TypeOK
  <2> QED
    BY <1>2, <2>2, <2>3 DEF Filter
<1>3. CASE Decide(t)
  <2>1. Active(t)
    BY <1>3 DEF Decide, Active
  <2>2. Result({}, Dropped(t), "ErrSuppressed") \in ResultType
    BY <2>1, CurrentMessage DEF Dropped, Result, ResultType, Errors
  <2> QED
    BY <1>3, <2>1, <2>2, FinishTypes, MoveTypes DEF Decide
<1>4. ASSUME NEW v \in {"verified", "unverified", "error"}, Gate(t, v)
      PROVE  TypeOK'
  BY <1>4, FailTypes, MoveTypes DEF Gate, Active, Errors
<1>5. CASE Wait(t)
  BY <1>5, FailTypes, MoveTypes DEF Wait, Active, Errors
<1>6. CASE Submit(t)
  <2>1. Active(t)
    BY <1>6 DEF Submit, Active
  <2>2. Envelope(t) \subseteq Nat
    BY <2>1 DEF Envelope, TypeOK
  <2>3. Accepted(t) \in ResultType /\ Result({}, {}, "SendEmail") \in ResultType
    BY <2>1, <2>2, CurrentMessage DEF Accepted, Dropped, Result, ResultType, Errors
  <2> QED
    BY <1>6, <2>1, <2>2, <2>3, FinishTypes, FailTypes DEF Submit, Errors
<1>7. CASE Return(t)
  <2>1. SuppressionTypeOK'
    BY <1>7 DEF Return, TypeOK, SuppressionTypeOK, Stores
  <2>2. ASSUME NEW u \in Senders PROVE ProgressOK(u)'
    BY <1>7 DEF Return, Goto, TypeOK, ProgressOK, Active, Current
  <2>3. /\ pc' \in [Senders -> {"idle", "filter", "gate", "wait", "submit", "returned"}]
        /\ batch' \in [Senders -> Batches \cup {<<>>}]
        /\ results' \in [Senders -> Seq(ResultType)]
        /\ firstErr' \in [Senders -> Errors]
        /\ mail' \in [Senders -> Seq(SUBSET Nat)]
        /\ barred' \in [Senders -> SUBSET Mailboxes]
    BY <1>7 DEF Return, Goto, TypeOK, Errors
  <2> QED
    BY <1>7, <2>1, <2>2, <2>3 DEF Return, TypeOK
<1> QED
  BY <1>1, <1>2, <1>3, <1>4, <1>5, <1>6, <1>7 DEF SenderStep

\* The senders start with their types in order.
LEMMA SenderInitTypes ==
  ASSUME SuppressionInit, SenderInit
  PROVE  TypeOK
<1>1. SuppressionTypeOK
  BY DEF SuppressionInit, SuppressionTypeOK
<1> QED
  BY <1>1 DEF SenderInit, TypeOK, ProgressOK, Active, Errors

\* Every step of the senders and of what surrounds them.
LEMMA SenderStepTypes ==
  ASSUME TypeOK, [SenderNext]_vars
  PROVE  TypeOK'
<1>1. ASSUME NEW t \in Senders, SenderStep(t) PROVE TypeOK'
  BY <1>1, StepTypes
<1>2. ASSUME NEW i \in Instances, Suppress(i) PROVE TypeOK'
  <2>1. SuppressionTypeOK'
    BY <1>2, SenderAssumption, ListTypes DEF Suppress, TypeOK
  <2> QED
    BY <1>2, <2>1 DEF Suppress, senderVars, TypeOK, ProgressOK, Active, Current
<1>3. ASSUME NEW i \in Instances, Unsuppress(i) PROVE TypeOK'
  <2>1. PICK a \in Addresses, err \in BOOLEAN : Remove(i, a, err) /\ Lift(i, a)
    BY <1>3 DEF Unsuppress
  <2>2. SuppressionTypeOK'
    BY <2>1, ListTypes DEF TypeOK
  <2>3. barred' \in [Senders -> SUBSET Mailboxes]
    BY <2>1 DEF Lift, TypeOK
  <2> QED
    BY <1>3, <2>2, <2>3 DEF Unsuppress, TypeOK, ProgressOK, Active, Current
<1>4. ASSUME NEW i \in Instances, Restart(i) PROVE TypeOK'
  <2>1. SuppressionTypeOK'
    BY <1>4, ListTypes DEF Restart, TypeOK
  <2>2. /\ pc' \in [Senders -> {"idle", "filter", "gate", "wait", "submit", "returned"}]
        /\ batch' \in [Senders -> Batches \cup {<<>>}]
        /\ next' \in [Senders -> Nat \ {0}]
        /\ kept' \in [Senders -> SUBSET Nat]
    BY <1>4 DEF Restart, Reset, TypeOK
  <2>3. /\ results' \in [Senders -> Seq(ResultType)]
        /\ firstErr' \in [Senders -> Errors]
        /\ mail' \in [Senders -> Seq(SUBSET Nat)]
        /\ barred' \in [Senders -> SUBSET Mailboxes]
    BY <1>4 DEF Restart, Reset, TypeOK, Errors
  <2>4. ASSUME NEW t \in Senders PROVE ProgressOK(t)'
    BY <1>4 DEF Restart, Reset, TypeOK, ProgressOK, Active, Current
  <2> QED
    BY <2>1, <2>2, <2>3, <2>4 DEF TypeOK
<1>5. CASE UNCHANGED vars
  BY <1>5 DEF vars, senderVars, TypeOK, SuppressionTypeOK, Stores, ProgressOK, Active,
              Current
<1> QED
  BY <1>1, <1>2, <1>3, <1>4, <1>5 DEF SenderNext

\* Every value a variable takes has its type, whatever the callers pass.
THEOREM TypeCorrect == SenderSpec => []TypeOK
<1>1. SuppressionInit /\ SenderInit => TypeOK
  BY SenderInitTypes
<1>2. TypeOK /\ [SenderNext]_vars => TypeOK'
  BY SenderStepTypes
<1> QED
  BY <1>1, <1>2, PTL DEF SenderSpec, SendingInit

-----------------------------------------------------------------------------
\* What the end of a Send leaves barred is on the list right now.
LEMMA FinishSafe ==
  ASSUME TypeOK, SafetyInv, NEW t \in Senders, NEW res, NEW accepted,
         Finish(t, res, accepted)
  PROVE  SafetyInv'
<1>1. BarredListed'
  BY DEF Finish, Enter, BarredListed, SafetyInv, TypeOK, Suppressed
<1>2. KeptNotBarred'
  <2> SUFFICES ASSUME NEW u \in Senders, Active(u)', NEW p \in kept'[u]
               PROVE  Mailbox(Current(u)', p) \notin barred'[u]
    BY DEF KeptNotBarred, Mailbox, Rcpts
  <2>1. CASE u = t
    BY <2>1 DEF Finish, Enter, TypeOK
  <2>2. CASE u # t
    BY <2>2 DEF Finish, Enter, Goto, SafetyInv, KeptNotBarred, Active, Current, TypeOK
  <2> QED
    BY <2>1, <2>2
<1> QED
  BY <1>1, <1>2 DEF SafetyInv

\* A step that moves on without touching what the filter kept.
LEMMA MoveSafe ==
  ASSUME TypeOK, SafetyInv, NEW t \in Senders, Active(t), NEW l, Goto(t, l),
         UNCHANGED <<entries, batch, next, kept, results, firstErr, mail, barred>>
  PROVE  SafetyInv'
BY DEF Goto, SafetyInv, KeptNotBarred, BarredListed, Mailbox, Rcpts, Current, Active,
       Suppressed, TypeOK

\* Every step of a sender preserves the invariant; the one that matters is
\* Filter: an address it keeps is not on the list, so it is not barred.
LEMMA StepSafe ==
  ASSUME TypeOK, SafetyInv, NEW t \in Senders, SenderStep(t)
  PROVE  SafetyInv'
<1>1. CASE Call(t)
  <2>1. BarredListed'
    BY <1>1 DEF Call, Enter, BarredListed, SafetyInv, TypeOK, Suppressed
  <2>2. KeptNotBarred'
    BY <1>1 DEF Call, Enter, Goto, SafetyInv, KeptNotBarred, Mailbox, Rcpts, Current,
                Active, TypeOK
  <2> QED
    BY <2>1, <2>2 DEF SafetyInv
<1>2. CASE Filter(t)
  <2>1. CASE Fail(t, "lookup")
    BY <2>1, FinishSafe DEF Fail
  <2>2. CASE ~ Fail(t, "lookup")
    <3>1. /\ kept' = [kept EXCEPT ![t] =
                        IF IsSuppressed(InstanceOf[t], Rcpts(Current(t))[next[t]])
                        THEN @ ELSE @ \cup {next[t]}]
          /\ UNCHANGED <<entries, pc, batch, results, firstErr, mail, barred>>
      BY <1>2, <2>2 DEF Filter
    <3>2. BarredListed'
      BY <3>1 DEF SafetyInv, BarredListed, Suppressed
    <3>3. ASSUME NEW u \in Senders, Active(u), NEW p \in kept'[u]
          PROVE  Mailbox(Current(u), p) \notin barred[u]
      <4>1. CASE p \in kept[u]
        BY <3>3, <4>1 DEF SafetyInv, KeptNotBarred
      <4>2. CASE p \notin kept[u]
        <5>1. u = t /\ p = next[t] /\ ~ IsSuppressed(InstanceOf[t], Rcpts(Current(t))[p])
          BY <3>1, <3>3, <4>2 DEF TypeOK
        <5> QED
          BY <5>1 DEF IsSuppressed, Mailbox, SafetyInv, BarredListed
      <4> QED
        BY <4>1, <4>2
    <3>4. KeptNotBarred'
      BY <3>1, <3>3 DEF KeptNotBarred, Active, Current, Mailbox, Rcpts
    <3> QED
      BY <3>2, <3>4 DEF SafetyInv
  <2> QED
    BY <2>1, <2>2
<1>3. CASE Decide(t)
  BY <1>3, FinishSafe, MoveSafe DEF Decide, Active
<1>4. ASSUME NEW v \in {"verified", "unverified", "error"}, Gate(t, v)
      PROVE  SafetyInv'
  BY <1>4, FinishSafe, MoveSafe DEF Gate, Fail, Active
<1>5. CASE Wait(t)
  BY <1>5, FinishSafe, MoveSafe DEF Wait, Fail, Active
<1>6. CASE Submit(t)
  BY <1>6, FinishSafe DEF Submit, Fail
<1>7. CASE Return(t)
  BY <1>7 DEF Return, Goto, SafetyInv, KeptNotBarred, BarredListed, Mailbox, Rcpts,
              Current, Active, Suppressed, TypeOK
<1> QED
  BY <1>1, <1>2, <1>3, <1>4, <1>5, <1>6, <1>7 DEF SenderStep

\* Nor does anything the operator or a crash does break the invariant.
LEMMA EnvironmentSafe ==
  ASSUME TypeOK, SafetyInv, NEW i \in Instances,
         Suppress(i) \/ Unsuppress(i) \/ Restart(i)
  PROVE  SafetyInv'
<1>0. \A t \in Senders : InstanceOf[t] \in Instances
  BY SenderAssumption
<1>1. CASE Suppress(i)
  <2>1. ASSUME NEW t \in Senders
        PROVE  Suppressed(InstanceOf[t]) \subseteq Suppressed(InstanceOf[t])'
    BY <1>0, <1>1, SenderAssumption, AddKeeps DEF Suppress, TypeOK
  <2>2. BarredListed'
    BY <1>1, <2>1 DEF Suppress, senderVars, SafetyInv, BarredListed
  <2>3. KeptNotBarred'
    BY <1>1 DEF Suppress, senderVars, SafetyInv, KeptNotBarred, Active, Current, Mailbox,
                Rcpts
  <2> QED
    BY <2>2, <2>3 DEF SafetyInv
<1>2. CASE Unsuppress(i)
  <2>1. PICK a \in Addresses, err \in BOOLEAN : Remove(i, a, err) /\ Lift(i, a)
    BY <1>2 DEF Unsuppress
  <2>2. ASSUME NEW t \in Senders
        PROVE  barred'[t] \subseteq barred[t] \cap Suppressed(InstanceOf[t])'
    BY <1>0, <2>1, RemoveKeeps DEF Lift, SafetyInv, BarredListed, TypeOK
  <2>3. BarredListed'
    BY <2>2 DEF BarredListed
  <2>4. KeptNotBarred'
    BY <1>2, <2>2 DEF Unsuppress, SafetyInv, KeptNotBarred, Active, Current, Mailbox, Rcpts
  <2> QED
    BY <2>3, <2>4 DEF SafetyInv
<1>3. CASE Restart(i)
  <2>1. ASSUME NEW t \in Senders
        PROVE  barred'[t] \subseteq Suppressed(InstanceOf[t])'
    BY <1>0, <1>3, ReopenKeeps DEF Restart, Reset, SafetyInv, BarredListed, TypeOK
  <2>2. BarredListed'
    BY <2>1 DEF BarredListed
  <2>3. KeptNotBarred'
    BY <1>3 DEF Restart, Reset, SafetyInv, KeptNotBarred, Active, Current, Mailbox, Rcpts,
                TypeOK
  <2> QED
    BY <2>2, <2>3 DEF SafetyInv
<1> QED
  BY <1>1, <1>2, <1>3

\* The invariant holds in every reachable state.
THEOREM Safety == SenderSpec => []SafetyInv
<1>1. SuppressionInit /\ SenderInit => SafetyInv
  BY DEF SenderInit, SafetyInv, KeptNotBarred, BarredListed, Active
<1>2. TypeOK /\ SafetyInv /\ [SenderNext]_vars => SafetyInv'
  <2> SUFFICES ASSUME TypeOK, SafetyInv, [SenderNext]_vars PROVE SafetyInv'
    OBVIOUS
  <2>1. CASE UNCHANGED vars
    BY <2>1 DEF vars, senderVars, SafetyInv, KeptNotBarred, BarredListed, Active, Current,
                Mailbox, Rcpts, Suppressed
  <2> QED
    BY <2>1, StepSafe, EnvironmentSafe DEF SenderNext
<1> QED
  BY <1>1, <1>2, TypeCorrect, PTL DEF SenderSpec, SendingInit

-----------------------------------------------------------------------------
\* The end of a Send in which SES accepted only what the filter kept.
LEMMA FinishMails ==
  ASSUME TypeOK, SafetyInv, NEW t \in Senders, Active(t), NEW res,
         NEW accepted \in SUBSET kept[t], Finish(t, res, accepted)
  PROVE  MailsNobodyBarred
<1>1. ASSUME NEW u \in Senders, u # t PROVE mail'[u] = mail[u]
  BY <1>1 DEF Finish, TypeOK
<1>2. mail'[t] = Append(mail[t], accepted) /\ mail[t] \in Seq(SUBSET Nat)
  BY DEF Finish, TypeOK
<1>3. mail'[t][Len(mail'[t])] = accepted
  BY <1>2
<1> QED
  BY <1>1, <1>3 DEF MailsNobodyBarred, SafetyInv, KeptNotBarred

\* Nobody barred is ever mailed: the end-to-end promise of the filter.
THEOREM BarredSafe == SenderSpec => BarredNeverMailed
<1>1. TypeOK /\ SafetyInv /\ [SenderNext]_vars => [MailsNobodyBarred]_vars
  <2> SUFFICES ASSUME TypeOK, SafetyInv, SenderNext PROVE MailsNobodyBarred
    OBVIOUS
  <2>1. CASE UNCHANGED mail
    BY <2>1 DEF MailsNobodyBarred, TypeOK
  <2>2. ASSUME NEW t \in Senders, NEW err, Active(t), Fail(t, err)
        PROVE  MailsNobodyBarred
    BY <2>2, FinishMails DEF Fail
  <2>3. ASSUME NEW t \in Senders, SenderStep(t) PROVE MailsNobodyBarred
    <3>1. CASE Call(t)
      BY <2>1, <3>1 DEF Call
    <3>2. CASE Filter(t)
      BY <2>1, <2>2, <3>2 DEF Filter, Active
    <3>3. CASE Decide(t)
      BY <2>1, <3>3, FinishMails DEF Decide, Active
    <3>4. ASSUME NEW v \in {"verified", "unverified", "error"}, Gate(t, v)
          PROVE  MailsNobodyBarred
      BY <2>1, <2>2, <3>4 DEF Gate, Active
    <3>5. CASE Wait(t)
      BY <2>1, <2>2, <3>5 DEF Wait, Active
    <3>6. CASE Submit(t)
      BY <2>2, <3>6, FinishMails DEF Submit, Envelope, Active
    <3>7. CASE Return(t)
      BY <3>7 DEF Return, MailsNobodyBarred, TypeOK
    <3> QED
      BY <2>3, <3>1, <3>2, <3>3, <3>4, <3>5, <3>6, <3>7 DEF SenderStep
  <2>4. ASSUME NEW i \in Instances, Suppress(i) \/ Unsuppress(i)
        PROVE  MailsNobodyBarred
    BY <2>1, <2>4 DEF Suppress, Unsuppress, senderVars
  <2>5. ASSUME NEW i \in Instances, Restart(i) PROVE MailsNobodyBarred
    BY <2>5 DEF Restart, Reset, MailsNobodyBarred, TypeOK
  <2> QED
    BY <2>3, <2>4, <2>5 DEF SenderNext
<1> QED
  BY <1>1, TypeCorrect, Safety, PTL DEF SenderSpec, BarredNeverMailed

-----------------------------------------------------------------------------
\* Somebody is left when the filter lets a message through.
THEOREM SomebodyKept == SenderSpec => []KeptSomebody
<1>1. SuppressionInit /\ SenderInit => KeptSomebody
  BY DEF SenderInit, KeptSomebody
<1>2. TypeOK /\ KeptSomebody /\ [SenderNext]_vars => KeptSomebody'
  <2> SUFFICES ASSUME TypeOK, KeptSomebody, [SenderNext]_vars PROVE KeptSomebody'
    OBVIOUS
  <2> USE DEF KeptSomebody
  <2>1. ASSUME NEW t \in Senders, NEW res, NEW accepted, Finish(t, res, accepted)
        PROVE  KeptSomebody'
    BY <2>1 DEF Finish, Enter, Goto, AfterMessage, TypeOK
  <2>2. ASSUME NEW t \in Senders, SenderStep(t) PROVE KeptSomebody'
    <3>1. CASE Call(t) \/ Return(t)
      BY <3>1 DEF Call, Return, Enter, Goto, TypeOK
    <3>2. CASE Filter(t)
      BY <2>1, <3>2 DEF Filter, Fail, TypeOK
    <3>3. CASE Decide(t)
      BY <2>1, <3>3 DEF Decide, NobodyAllowed, Goto, TypeOK
    <3>4. ASSUME NEW v \in {"verified", "unverified", "error"}, Gate(t, v)
          PROVE  KeptSomebody'
      BY <2>1, <3>4 DEF Gate, Fail, Goto, TypeOK
    <3>5. CASE Wait(t)
      BY <2>1, <3>5 DEF Wait, Fail, Goto, TypeOK
    <3>6. CASE Submit(t)
      BY <2>1, <3>6 DEF Submit, Fail
    <3> QED
      BY <2>2, <3>1, <3>2, <3>3, <3>4, <3>5, <3>6 DEF SenderStep
  <2>3. ASSUME NEW i \in Instances, Suppress(i) \/ Unsuppress(i) \/ Restart(i)
        PROVE  KeptSomebody'
    BY <2>3 DEF Suppress, Unsuppress, Restart, Reset, senderVars
  <2>4. CASE UNCHANGED vars
    BY <2>4 DEF vars, senderVars
  <2> QED
    BY <2>2, <2>3, <2>4 DEF SenderNext
<1> QED
  BY <1>1, <1>2, TypeCorrect, PTL DEF SenderSpec, SendingInit

\* The end of a Send is one attempt of a BatchSender, if its outcome is one.
LEMMA FinishAttempts ==
  ASSUME TypeOK, NEW t \in Senders, Active(t), NEW res, NEW accepted,
         <<res, accepted>> \in Sending!Outcomes(Current(t)),
         Finish(t, res, accepted)
  PROVE  Sending!Attempt(t)
<1> DEFINE j == Len(results[t]) + 1
<1>1. Status[t] = "running"
  BY DEF Status
<1>2. /\ results' = [results EXCEPT ![t] = Append(@, res)]
      /\ mail' = [mail EXCEPT ![t] = Append(@, accepted)]
      /\ firstErr' = [firstErr EXCEPT ![t] = Sending!FirstError(t, res.err)]
      /\ UNCHANGED batch
  BY DEF Finish, FirstError, Sending!FirstError
<1>3. pc' = [pc EXCEPT ![t] = IF j < Len(batch[t]) THEN "filter" ELSE "returned"]
  BY DEF Finish, Goto, AfterMessage
<1>4. Status' = [Status EXCEPT ![t] = IF j < Len(batch[t]) THEN @ ELSE "returned"]
  BY <1>1, <1>3 DEF Status, Active, TypeOK
<1>5. <<res, accepted>> \in Sending!Outcomes(batch[t][j])
  BY DEF Current
<1> QED
  BY <1>1, <1>2, <1>4, <1>5 DEF Sending!Attempt

\* An error other than ErrSuppressed is an outcome of a BatchSender if nobody
\* was mailed, and the one of SendEmail whoever was.
LEMMA FailureAllowed ==
  ASSUME NEW m, NEW err \in Errors \ {"nil", "ErrSuppressed"},
         NEW accepted \in SUBSET Positions(m), accepted = {} \/ err = "SendEmail"
  PROVE  <<Result({}, {}, err), accepted>> \in Sending!Outcomes(m)
<1>1. /\ Result({}, {}, err) = Sending!Result({}, {}, err)
      /\ accepted \in SUBSET Sending!Positions(m)
  BY DEF Result, Sending!Result, Positions, Rcpts, Sending!Positions
<1>2. <<Sending!Result({}, {}, err), accepted>> \in Sending!Failed \cup Sending!InDoubt(m)
  <2>1. CASE err = "SendEmail"
    BY <1>1, <2>1 DEF Sending!InDoubt
  <2>2. CASE accepted = {} /\ err # "SendEmail"
    BY <2>2 DEF Sending!Failed
  <2> QED
    BY <2>1, <2>2
<1> QED
  BY <1>1, <1>2 DEF Sending!Outcomes

LEMMA FailAttempts ==
  ASSUME TypeOK, NEW t \in Senders, Active(t),
         NEW err \in Errors \ {"nil", "ErrSuppressed"}, Fail(t, err)
  PROVE  Sending!Attempt(t)
<1>1. <<Result({}, {}, err), {}>> \in Sending!Outcomes(Current(t))
  BY FailureAllowed
<1> QED
  BY <1>1, FinishAttempts DEF Fail

\* A step inside Send is invisible to the caller.
LEMMA MoveStutters ==
  ASSUME TypeOK, NEW t \in Senders, Active(t),
         NEW l \in {"filter", "gate", "wait", "submit"}, Goto(t, l),
         UNCHANGED <<batch, results, firstErr, mail>>
  PROVE  UNCHANGED Sending!batchVars
<1>1. Status' = Status
  BY DEF Status, Active, Goto, TypeOK
<1> QED
  BY <1>1 DEF Sending!batchVars

\* Every step of a sender is a step of a BatchSender or a stutter.
LEMMA StepRefines ==
  ASSUME TypeOK, KeptSomebody, NEW t \in Senders, SenderStep(t)
  PROVE  Sending!BatchNext \/ UNCHANGED Sending!batchVars
<1>1. CASE Call(t)
  <2>1. PICK b \in Batches : /\ batch' = [batch EXCEPT ![t] = b]
                             /\ Goto(t, IF b = <<>> THEN "returned" ELSE "filter")
    BY <1>1 DEF Call
  <2>2. Status[t] = "idle"
    BY <1>1 DEF Call, Status, Active
  <2>3. Status' = [Status EXCEPT ![t] = IF b = <<>> THEN "returned" ELSE "running"]
    BY <2>1 DEF Status, Active, Goto, TypeOK
  <2>4. Sending!Begin(t)
    BY <1>1, <2>1, <2>2, <2>3 DEF Call, Sending!Begin
  <2> QED
    BY <2>4 DEF Sending!BatchNext
<1>2. CASE Filter(t)
  <2>1. CASE Fail(t, "lookup")
    BY <1>2, <2>1, FailAttempts DEF Filter, Active, Errors, Sending!BatchNext
  <2>2. CASE UNCHANGED <<entries, pc, batch, results, firstErr, mail, barred>>
    BY <2>2 DEF Sending!batchVars, Status, Active
  <2> QED
    BY <1>2, <2>1, <2>2 DEF Filter
<1>3. CASE Decide(t)
  <2>1. CASE NobodyAllowed(t) /\ Finish(t, Result({}, Dropped(t), "ErrSuppressed"), {})
    <3>1. Dropped(t) = Positions(Current(t))
      BY <2>1 DEF NobodyAllowed, Dropped
    <3>2. <<Result({}, Dropped(t), "ErrSuppressed"), {}>> \in
            Sending!Outcomes(Current(t))
      BY <3>1 DEF Result, Positions, Rcpts, Sending!Result, Sending!Positions,
                  Sending!Outcomes, Sending!Withheld
    <3> QED
      BY <1>3, <2>1, <3>2, FinishAttempts DEF Decide, Active, Sending!BatchNext
  <2>2. CASE ~NobodyAllowed(t)
    BY <1>3, <2>2, MoveStutters DEF Decide, Active
  <2> QED
    BY <1>3, <2>1, <2>2 DEF Decide
<1>4. ASSUME NEW v \in {"verified", "unverified", "error"}, Gate(t, v)
      PROVE  Sending!BatchNext \/ UNCHANGED Sending!batchVars
  BY <1>4, FailAttempts, MoveStutters DEF Gate, Active, Errors, Sending!BatchNext
<1>5. CASE Wait(t)
  BY <1>5, FailAttempts, MoveStutters DEF Wait, Active, Errors, Sending!BatchNext
<1>6. CASE Submit(t)
  <2>1. Active(t) /\ kept[t] # {} /\ kept[t] \subseteq Positions(Current(t))
    BY <1>6 DEF Submit, Active, KeptSomebody, TypeOK, ProgressOK
  <2>2. <<Accepted(t), Envelope(t)>> \in Sending!Outcomes(Current(t))
    <3>1. /\ Envelope(t) \in (SUBSET Sending!Positions(Current(t))) \ {{}}
          /\ Accepted(t) = Sending!Result(Envelope(t),
                              Sending!Positions(Current(t)) \ Envelope(t), "nil")
      BY <2>1 DEF Accepted, Envelope, Dropped, Result, Positions, Rcpts, Sending!Result,
                  Sending!Positions
    <3>2. <<Accepted(t), Envelope(t)>> \in Sending!Delivered(Current(t))
      BY <3>1 DEF Sending!Delivered
    <3> QED
      BY <3>2 DEF Sending!Outcomes
  <2>3. <<Result({}, {}, "SendEmail"), Envelope(t)>> \in Sending!Outcomes(Current(t))
    BY <2>1, FailureAllowed DEF Envelope, Errors
  <2> QED
    BY <1>6, <2>1, <2>2, <2>3, FinishAttempts, FailAttempts
    DEF Submit, Errors, Sending!BatchNext
<1>7. CASE Return(t)
  <2>1. Status' = [u \in Senders |-> IF u \in {t} THEN "idle" ELSE Status[u]]
    BY <1>7 DEF Return, Goto, Status, Active, TypeOK
  <2>2. /\ batch' = [u \in Senders |-> IF u \in {t} THEN <<>> ELSE batch[u]]
        /\ results' = [u \in Senders |-> IF u \in {t} THEN <<>> ELSE results[u]]
        /\ firstErr' = [u \in Senders |-> IF u \in {t} THEN "nil" ELSE firstErr[u]]
        /\ mail' = [u \in Senders |-> IF u \in {t} THEN <<>> ELSE mail[u]]
    BY <1>7 DEF Return, TypeOK
  <2>3. Sending!End({t})
    BY <2>1, <2>2 DEF Sending!End
  <2> QED
    BY <2>3 DEF Sending!BatchNext
<1> QED
  BY <1>1, <1>2, <1>3, <1>4, <1>5, <1>6, <1>7 DEF SenderStep

(***************************************************************************)
(* The SES backend implements BatchSender, whatever other goroutines, the  *)
(* operator and crashes do meanwhile: receipts account for To, CC and BCC  *)
(* alike, and a message with an error is mailed to nobody, unless it is    *)
(* SendEmail whose answer was an error.                                    *)
(***************************************************************************)
THEOREM Refines == SenderSpec => ImplementsBatchSender
<1>1. SuppressionInit /\ SenderInit => Sending!BatchInit
  BY DEF SenderInit, Sending!BatchInit, Status, Active
<1>2. TypeOK /\ KeptSomebody /\ [SenderNext]_vars
      => [Sending!BatchNext]_(Sending!batchVars)
  <2> SUFFICES ASSUME TypeOK, KeptSomebody, [SenderNext]_vars
               PROVE  Sending!BatchNext \/ UNCHANGED Sending!batchVars
    OBVIOUS
  <2>1. ASSUME NEW i \in Instances, Suppress(i) \/ Unsuppress(i)
        PROVE  UNCHANGED Sending!batchVars
    BY <2>1 DEF Suppress, Unsuppress, senderVars, Sending!batchVars, Status, Active
  <2>2. ASSUME NEW i \in Instances, Restart(i) PROVE Sending!BatchNext
    <3> DEFINE dead == {t \in Senders : InstanceOf[t] = i}
    <3>1. Status' = [t \in Senders |-> IF t \in dead THEN "idle" ELSE Status[t]]
      BY <2>2 DEF Restart, Reset, Status, Active
    <3>2. Sending!End(dead)
      BY <2>2, <3>1 DEF Restart, Reset, Sending!End
    <3> QED
      BY <3>2 DEF Sending!BatchNext
  <2>3. CASE UNCHANGED vars
    BY <2>3 DEF vars, senderVars, Sending!batchVars, Status, Active
  <2> QED
    BY <2>1, <2>2, <2>3, StepRefines DEF SenderNext
<1> QED
  BY <1>1, <1>2, TypeCorrect, SomebodyKept, PTL
  DEF SenderSpec, SendingInit, ImplementsBatchSender, Sending!BatchSpec

-----------------------------------------------------------------------------
\* What SendBatch remembers of the call of one sender.
Remembers(t) ==
  /\ pc[t] = "returned" => Len(results[t]) = Len(batch[t])
  /\ \/ /\ firstErr[t] = "nil"
        /\ \A j \in DOMAIN results[t] : results[t][j].err = "nil"
     \/ \E j \in DOMAIN results[t] :
          /\ results[t][j].err # "nil"
          /\ firstErr[t] = results[t][j].err
          /\ \A k \in DOMAIN results[t] : k < j => results[t][k].err = "nil"

FirstErrorSoFar == \A t \in Senders : Remembers(t)

\* One message more: the first error stays, or is this message's.
LEMMA FinishRemembers ==
  ASSUME TypeOK, FirstErrorSoFar, NEW t \in Senders, Active(t),
         NEW res, NEW accepted, Finish(t, res, accepted)
  PROVE  FirstErrorSoFar'
<1> DEFINE n == Len(results[t])
<1>0. ASSUME Remembers(t)' PROVE FirstErrorSoFar'
  <2>1. ASSUME NEW u \in Senders, u # t PROVE Remembers(u)'
    BY <2>1 DEF FirstErrorSoFar, Remembers, Finish, Goto, TypeOK
  <2> QED
    BY <1>0, <2>1 DEF FirstErrorSoFar
<1>1. results[t] \in Seq(ResultType) /\ n \in Nat /\ DOMAIN results[t] = 1 .. n
  BY DEF TypeOK
<1>2. results'[t] = Append(results[t], res)
  BY DEF Finish, TypeOK
<1>3. /\ Len(results'[t]) = n + 1
      /\ DOMAIN results'[t] = 1 .. (n + 1)
      /\ results'[t][n + 1] = res
      /\ \A k \in 1 .. n : results'[t][k] = results[t][k]
  BY <1>1, <1>2
<1>4. firstErr'[t] = IF firstErr[t] = "nil" THEN res.err ELSE firstErr[t]
  BY DEF Finish, FirstError, TypeOK
<1>5. pc'[t] = "returned" => Len(results'[t]) = Len(batch'[t])
  <2>1. n < Len(batch[t]) /\ batch'[t] = batch[t]
    BY DEF TypeOK, ProgressOK, Finish
  <2>2. pc'[t] = "returned" => ~(n + 1 < Len(batch[t]))
    BY DEF Finish, Goto, AfterMessage, TypeOK
  <2>3. batch[t] \in Seq({batch[t][j] : j \in DOMAIN batch[t]})
    <3>1. batch[t] \in Batches
      BY <2>1 DEF TypeOK, ProgressOK, Active
    <3> QED
      BY <3>1, SenderAssumption
  <2>4. Len(batch[t]) \in Nat
    BY <2>3
  <2> QED
    BY <1>1, <1>3, <2>1, <2>2, <2>4
<1>6. CASE firstErr[t] = "nil" /\ \A j \in DOMAIN results[t] : results[t][j].err = "nil"
  <2>1. \A k \in 1 .. n : results'[t][k].err = "nil"
    BY <1>1, <1>3, <1>6
  <2>2. CASE res.err = "nil"
    <3>1. \A k \in DOMAIN results'[t] : results'[t][k].err = "nil"
      BY <1>1, <1>3, <2>1, <2>2
    <3> QED
      BY <1>0, <1>4, <1>5, <1>6, <2>2, <3>1 DEF Remembers
  <2>3. CASE res.err # "nil"
    <3>1. /\ n + 1 \in DOMAIN results'[t]
          /\ firstErr'[t] = results'[t][n + 1].err
          /\ results'[t][n + 1].err # "nil"
          /\ \A k \in DOMAIN results'[t] : k < n + 1 => results'[t][k].err = "nil"
      BY <1>1, <1>3, <1>4, <1>6, <2>1, <2>3
    <3> QED
      BY <1>0, <1>5, <3>1 DEF Remembers
  <2> QED
    BY <2>2, <2>3
<1>7. ASSUME NEW j \in DOMAIN results[t], results[t][j].err # "nil",
             firstErr[t] = results[t][j].err,
             \A k \in DOMAIN results[t] : k < j => results[t][k].err = "nil"
      PROVE  FirstErrorSoFar'
  <2>1. /\ j \in DOMAIN results'[t]
        /\ firstErr'[t] = results'[t][j].err
        /\ results'[t][j].err # "nil"
        /\ \A k \in DOMAIN results'[t] : k < j => results'[t][k].err = "nil"
    BY <1>1, <1>3, <1>4, <1>7
  <2> QED
    BY <1>0, <1>5, <2>1 DEF Remembers
<1> QED
  BY <1>6, <1>7 DEF FirstErrorSoFar, Remembers

\* A step that records no message keeps what is remembered.
LEMMA MoveRemembers ==
  ASSUME TypeOK, FirstErrorSoFar, NEW t \in Senders, Goto(t, pc'[t]),
         pc'[t] # "returned", UNCHANGED <<batch, results, firstErr>>
  PROVE  FirstErrorSoFar'
BY DEF TypeOK, FirstErrorSoFar, Remembers, Goto

\* The strengthening of FirstErrorReturned is an invariant.
LEMMA Remembered == SenderSpec => []FirstErrorSoFar
<1>1. SuppressionInit /\ SenderInit => FirstErrorSoFar
  BY DEF SenderInit, FirstErrorSoFar, Remembers
<1>2. TypeOK /\ FirstErrorSoFar /\ [SenderNext]_vars => FirstErrorSoFar'
  <2> SUFFICES ASSUME TypeOK, FirstErrorSoFar, [SenderNext]_vars PROVE FirstErrorSoFar'
    OBVIOUS
  <2>1. CASE UNCHANGED <<pc, batch, results, firstErr>>
    BY <2>1 DEF FirstErrorSoFar, Remembers
  <2>2. ASSUME NEW t \in Senders, SenderStep(t) PROVE FirstErrorSoFar'
    <3>0. \A l : Goto(t, l) => Goto(t, pc'[t]) /\ pc'[t] = l
      BY DEF Goto, TypeOK
    <3>1. CASE Call(t)
      <4>1. PICK b \in Batches : /\ batch' = [batch EXCEPT ![t] = b]
                                 /\ Goto(t, IF b = <<>> THEN "returned" ELSE "filter")
        BY <3>1 DEF Call
      <4>2. results[t] = <<>> /\ UNCHANGED <<results, firstErr>>
        BY <3>1 DEF Call, TypeOK, ProgressOK
      <4>3. pc'[t] = "returned" => batch'[t] = <<>>
        BY <4>1 DEF Goto, TypeOK
      <4> QED
        BY <4>1, <4>2, <4>3 DEF FirstErrorSoFar, Remembers, Goto, TypeOK
    <3>2. CASE Filter(t)
      BY <2>1, <3>2, FinishRemembers DEF Filter, Fail, Active
    <3>3. CASE Decide(t)
      BY <3>0, <3>3, FinishRemembers, MoveRemembers DEF Decide, Active
    <3>4. ASSUME NEW v \in {"verified", "unverified", "error"}, Gate(t, v)
          PROVE  FirstErrorSoFar'
      BY <3>0, <3>4, FinishRemembers, MoveRemembers DEF Gate, Fail, Active
    <3>5. CASE Wait(t)
      BY <3>0, <3>5, FinishRemembers, MoveRemembers DEF Wait, Fail, Active
    <3>6. CASE Submit(t)
      BY <3>6, FinishRemembers DEF Submit, Fail, Active
    <3>7. CASE Return(t)
      <4>1. Remembers(t)'
        BY <3>7 DEF Return, Goto, Remembers, TypeOK
      <4>2. ASSUME NEW u \in Senders, u # t PROVE Remembers(u)'
        BY <3>7, <4>2 DEF Return, Goto, FirstErrorSoFar, Remembers, TypeOK
      <4> QED
        BY <4>1, <4>2 DEF FirstErrorSoFar
    <3> QED
      BY <2>2, <3>1, <3>2, <3>3, <3>4, <3>5, <3>6, <3>7 DEF SenderStep
  <2>3. ASSUME NEW i \in Instances, Suppress(i) \/ Unsuppress(i) PROVE FirstErrorSoFar'
    BY <2>1, <2>3 DEF Suppress, Unsuppress, senderVars
  <2>4. ASSUME NEW i \in Instances, Restart(i) PROVE FirstErrorSoFar'
    BY <2>4 DEF Restart, Reset, FirstErrorSoFar, Remembers
  <2>5. CASE UNCHANGED vars
    BY <2>1, <2>5 DEF vars, senderVars
  <2> QED
    BY <2>2, <2>3, <2>4, <2>5 DEF SenderNext
<1> QED
  BY <1>1, <1>2, TypeCorrect, PTL DEF SenderSpec, SendingInit

\* A batch tries every message and returns the error of the first that failed.
THEOREM FirstErrorSafe == SenderSpec => []FirstErrorReturned
<1>1. TypeOK /\ FirstErrorSoFar => FirstErrorReturned
  <2> SUFFICES ASSUME TypeOK, FirstErrorSoFar, NEW t \in Senders, Status[t] = "returned"
               PROVE  /\ Len(results[t]) = Len(batch[t])
                      /\ LET Failed == {j \in DOMAIN results[t] : results[t][j].err # "nil"}
                         IN  IF Failed = {} THEN firstErr[t] = "nil"
                             ELSE \E j \in Failed :
                                    /\ \A k \in Failed : j <= k
                                    /\ firstErr[t] = results[t][j].err
    BY DEF FirstErrorReturned, Sending!FirstErrorOfBatch
  <2> DEFINE Failed == {j \in DOMAIN results[t] : results[t][j].err # "nil"}
  <2>1. pc[t] = "returned" /\ Len(results[t]) = Len(batch[t])
    BY DEF Status, Active, FirstErrorSoFar, Remembers
  <2>2. DOMAIN results[t] \subseteq Nat
    BY DEF TypeOK
  <2>3. CASE firstErr[t] = "nil" /\ \A j \in DOMAIN results[t] : results[t][j].err = "nil"
    BY <2>1, <2>3
  <2>4. ASSUME NEW j \in DOMAIN results[t], results[t][j].err # "nil",
               firstErr[t] = results[t][j].err,
               \A k \in DOMAIN results[t] : k < j => results[t][k].err = "nil"
        PROVE  \E i \in Failed : /\ \A k \in Failed : i <= k
                                 /\ firstErr[t] = results[t][i].err
    <3>1. j \in Failed
      BY <2>4
    <3>2. \A k \in Failed : j <= k
      BY <2>2, <2>4
    <3> QED
      BY <2>4, <3>1, <3>2
  <2> QED
    BY <2>1, <2>3, <2>4 DEF FirstErrorSoFar, Remembers
<1> QED
  BY <1>1, TypeCorrect, Remembered, PTL
=============================================================================
