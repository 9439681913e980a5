--------------------------- MODULE GatedSenderProofs ---------------------------
(***************************************************************************)
(* The sender behind the gate is a sender, and its manager a manager: what *)
(* was proved of either holds of the composition.  And what neither could  *)
(* promise alone: no mail from a domain SES does not vouch for.            *)
(***************************************************************************)
EXTENDS GatedSender, SESSenderProofs, IdentityManagerProofs

\* Every step is one of the sender, of its environment, or neither.
LEMMA StepOfSender ==
  ASSUME [GatedNext]_gatedVars
  PROVE  [SenderNext]_vars
<1>1. CASE UNCHANGED gatedVars
  BY <1>1 DEF gatedVars
<1>2. ASSUME NEW t \in Senders, Ungated(t)
      PROVE  SenderNext
  BY <1>2 DEF Ungated, SenderStep, SenderNext
<1>3. ASSUME NEW t \in Senders, NoSenderDomain(t)
      PROVE  SenderNext
  BY <1>3 DEF NoSenderDomain, SenderStep, SenderNext
<1>4. ASSUME NEW t \in Senders, Consult(t)
      PROVE  [SenderNext]_vars
  <2>1. Heard(t) \in {"verified", "unverified", "error"}
    BY DEF Heard, Answer
  <2> QED
    BY <1>4, <2>1 DEF Consult, SenderStep, SenderNext
<1>5. ASSUME NEW i \in Instances, Listing(i) \/ RestartGated(i)
      PROVE  SenderNext
  BY <1>5 DEF Listing, RestartGated, SenderNext
<1> QED
  BY <1>1, <1>2, <1>3, <1>4, <1>5 DEF GatedNext, Ask, Operate, Manage, Outside

\* The gate's answers are among those SESSender allows.
THEOREM GatedIsSender == GatedSpec => SenderSpec
<1>1. GatedInit => SendingInit
  BY DEF GatedInit, SendingInit
<1>2. [GatedNext]_gatedVars => [SenderNext]_vars
  BY StepOfSender
<1> QED
  BY <1>1, <1>2, PTL DEF GatedSpec, SenderSpec

\* The suppression guarantee of Send holds behind the gate.
THEOREM GatedBarredSafe == GatedSpec => BarredNeverMailed
BY GatedIsSender, BarredSafe, PTL

\* Behind the real gate, too, the SES backend is a BatchSender: a message that the
\* gate refuses is mailed to nobody.
THEOREM GatedRefines == GatedSpec => ImplementsBatchSender
BY GatedIsSender, Refines, PTL

\* And a batch reports its first error, the gate's own among them.
THEOREM GatedFirstErrorSafe == GatedSpec => []FirstErrorReturned
BY GatedIsSender, FirstErrorSafe, PTL

-----------------------------------------------------------------------------
\* The domain Send asks about is one the manager may be asked about.
LEMMA SenderDomain ==
  ASSUME TypeOK, NEW t \in Senders, Active(t), Current(t).from # NoDomain
  PROVE  Current(t).from \in Domains
<1>1. batch[t] \in Batches
  BY DEF TypeOK, ProgressOK, Active
<1>2. batch[t] \in Seq({batch[t][j] : j \in DOMAIN batch[t]})
  BY <1>1, SenderAssumption
<1>3. Len(results[t]) \in Nat /\ Len(results[t]) < Len(batch[t])
  BY DEF TypeOK, ProgressOK
<1>4. Len(results[t]) + 1 \in DOMAIN batch[t]
  BY <1>2, <1>3
<1> QED
  BY <1>1, <1>4, GateAssumption DEF Current

\* Every step is one of the manager's callers, of its environment, or neither.
LEMMA StepOfManager ==
  ASSUME TypeOK, [GatedNext]_gatedVars
  PROVE  [IdentityNext]_identityVars
<1>0. Senders \subseteq Callers /\ Operators \subseteq Callers
  BY GateAssumption DEF Operators
<1>1. CASE UNCHANGED gatedVars
  BY <1>1 DEF gatedVars
<1>2. ASSUME NEW t \in Senders, Ask(t)
      PROVE  IdentityNext
  <2>1. Current(t).from \in Domains
    BY <1>2, SenderDomain DEF Ask, Active
  <2> QED
    BY <1>0, <1>2, <2>1, GateAssumption DEF Ask, IdentityNext
<1>3. ASSUME NEW t \in Senders, Consult(t)
      PROVE  IdentityNext
  BY <1>0, <1>3 DEF Consult, CallerStep, IdentityNext
<1>4. ASSUME NEW c \in Operators, Operate(c) \/ Manage(c)
      PROVE  IdentityNext
  BY <1>0, <1>4 DEF Operate, Manage, IdentityNext
<1>5. CASE Outside
  BY <1>5 DEF Outside, IdentityNext
<1>6. ASSUME NEW i \in Instances, RestartGated(i)
      PROVE  IdentityNext
  BY <1>6 DEF RestartGated, IdentityNext
<1> QED
  BY <1>1, <1>2, <1>3, <1>4, <1>5, <1>6 DEF GatedNext, Ungated, NoSenderDomain, Listing

\* A sender is a caller of the manager like any other.
THEOREM GatedIsManager == GatedSpec => IdentitySpec
<1>1. GatedInit => IdentityInit
  BY DEF GatedInit
<1>2. TypeOK /\ [GatedNext]_gatedVars => [IdentityNext]_identityVars
  BY StepOfManager
<1>3. GatedSpec => []TypeOK
  BY GatedIsSender, TypeCorrect, PTL
<1> QED
  BY <1>1, <1>2, <1>3, PTL DEF GatedSpec, IdentitySpec

\* The verdicts the gate goes by are fresh.
THEOREM GatedVerdictSafe == GatedSpec => []VerdictFresh
BY GatedIsManager, VerdictSafe, PTL

\* And the count the operators' creates go by is the account's.
THEOREM GatedCountSafe == GatedSpec => []CountCoherent
BY GatedIsManager, CountSafe, PTL

-----------------------------------------------------------------------------
\* A sender leaves the others where they are.
LEMMA StepKeepsOthers ==
  ASSUME TypeOK, NEW t \in Senders, SenderStep(t), NEW u \in Senders, u # t
  PROVE  pc'[u] = pc[u] /\ batch'[u] = batch[u] /\ results'[u] = results[u]
<1>1. ASSUME NEW res, NEW accepted, Finish(t, res, accepted)
      PROVE  pc'[u] = pc[u] /\ batch'[u] = batch[u] /\ results'[u] = results[u]
  BY <1>1 DEF Finish, Goto, TypeOK
<1>2. ASSUME NEW l, Goto(t, l)
      PROVE  pc'[u] = pc[u]
  BY <1>2 DEF Goto, TypeOK
<1>3. CASE Call(t) \/ Return(t)
  BY <1>2, <1>3 DEF Call, Return, TypeOK
<1>4. CASE Filter(t) \/ Decide(t) \/ Wait(t) \/ Submit(t)
  BY <1>1, <1>2, <1>4 DEF Filter, Decide, Wait, Submit, Fail
<1>5. CASE \E v \in {"verified", "unverified", "error"} : Gate(t, v)
  BY <1>1, <1>2, <1>5 DEF Gate, Fail
<1> QED
  BY <1>3, <1>4, <1>5 DEF SenderStep

\* With the gate, nobody gets past it but by being verified.
LEMMA UngatedMoves ==
  ASSUME TypeOK, RequireVerified, NEW t \in Senders, Ungated(t)
  PROVE  /\ pc[t] # "gate"
         /\ \/ pc'[t] \notin {"wait", "submit"}
            \/ /\ pc[t] = "wait"
               /\ batch'[t] = batch[t] /\ results'[t] = results[t]
<1>1. ASSUME NEW res, NEW accepted, Finish(t, res, accepted)
      PROVE  pc'[t] \notin {"wait", "submit"}
  BY <1>1 DEF Finish, Goto, AfterMessage, TypeOK
<1>2. ASSUME NEW l, Goto(t, l)
      PROVE  pc'[t] = l
  BY <1>2 DEF Goto, TypeOK
<1>3. CASE Call(t) \/ Return(t)
  BY <1>2, <1>3 DEF Call, Return
<1>4. CASE Filter(t)
  BY <1>1, <1>4 DEF Filter, Fail
<1>5. CASE Decide(t)
  BY <1>1, <1>2, <1>5 DEF Decide
<1>6. CASE Wait(t) \/ Submit(t)
  BY <1>1, <1>6 DEF Wait, Submit, Fail
<1> QED
  BY <1>3, <1>4, <1>5, <1>6 DEF Ungated

\* And at the gate.
LEMMA GateMoves ==
  ASSUME TypeOK, NEW t \in Senders, NEW v, Gate(t, v)
  PROVE  /\ pc[t] = "gate"
         /\ \/ pc'[t] \notin {"wait", "submit"}
            \/ /\ v = "verified"
               /\ batch'[t] = batch[t] /\ results'[t] = results[t]
<1>1. ASSUME NEW err, Fail(t, err)
      PROVE  pc'[t] \notin {"wait", "submit"}
  BY <1>1 DEF Fail, Finish, Goto, AfterMessage, TypeOK
<1> QED
  BY <1>1 DEF Gate

\* A caller leaves the calls of others alone, and what its own is about.
LEMMA CallerKeepsOthers ==
  ASSUME IdentityTypeOK, NEW c \in Callers, CallerStep(c)
  PROVE  /\ call[c] # NoCall
         /\ \A e \in Callers \ {c} : call'[e] = call[e]
         /\ \/ call'[c] = NoCall
            \/ /\ call'[c].op = call[c].op
               /\ call'[c].domain = call[c].domain
<1>1. call[c].at # "idle"
  BY DEF CallerStep, Count, List, Create, Delete, Invalidate, PutMailFrom, Lookup, GetStatus, Store
<1>2. call[c] \in Frames
  BY <1>1, InCall
<1>3. \/ Done(c) \/ \E l \in Steps : Continue(c, l)
      \/ \E s : call' = [call EXCEPT ![c].page = @ + 1, ![c].seen = s]
      \/ \E o : call' = [call EXCEPT ![c].at = "store", ![c].ok = o]
  BY CountedMoves
  DEF CallerStep, Count, List, Create, Delete, Change, Invalidate, PutMailFrom, Lookup, GetStatus,
      Store, Steps
<1>4. ASSUME NEW l \in Steps, Continue(c, l)
      PROVE  call'[c].op = call[c].op /\ call'[c].domain = call[c].domain
  <2>1. call'[c] = [call[c] EXCEPT !.at = l]
    BY <1>1, <1>4, Continued
  <2> QED
    BY <1>2, <2>1 DEF Frames
<1>5. CASE \E s : call' = [call EXCEPT ![c].page = @ + 1, ![c].seen = s]
  BY <1>2, <1>5 DEF IdentityTypeOK, Frames, NoCall
<1>6. CASE \E o : call' = [call EXCEPT ![c].at = "store", ![c].ok = o]
  BY <1>2, <1>6 DEF IdentityTypeOK, Frames, NoCall
<1>7. call[c] # NoCall
  BY <1>1 DEF NoCall
<1>8. CASE Done(c)
  BY <1>7, <1>8, Returned
<1>9. CASE \E l \in Steps : Continue(c, l)
  BY <1>1, <1>4, <1>7, <1>9, Continued
<1> QED
  BY <1>3, <1>5, <1>6, <1>7, <1>8, <1>9

\* A domain refuted long ago stays that until it is verified again.
LEMMA AncientStays ==
  ASSUME IdentityTypeOK, [IdentityNext]_identityVars,
         NEW d \in Domains, refuted[d] = Ancient, refuted'[d] > 0
  PROVE  refuted'[d] = Ancient
<1>1. CASE UNCHANGED refuted
  BY <1>1
<1>2. CASE \E found : Freshen(identities', found)
  BY <1>2 DEF Freshen
<1>3. CASE \E found : Freshen(identities, found)
  BY <1>3 DEF Freshen
<1>4. CASE Tick
  BY <1>4, Lifetimes DEF Tick
<1>5. CASE identityVars' = identityVars
  BY <1>1, <1>5 DEF identityVars
<1>6. CASE \E c \in Callers : CallerStep(c)
  BY <1>1, <1>2, <1>6
  DEF CallerStep, Count, List, Create, Delete, Invalidate, PutMailFrom, Lookup, GetStatus, Store
<1>7. CASE \E c \in Callers, o \in Operations, d1 \in Domains : Begin(c, o, d1)
  BY <1>1, <1>7 DEF Begin
<1>8. CASE \E d1 \in Domains : Publish(d1) \/ Interfere(d1)
  BY <1>2, <1>3, <1>8 DEF Publish, Interfere
<1>9. CASE NewIdentityManager
  BY <1>1, <1>9 DEF NewIdentityManager
<1> QED
  BY <1>4, <1>5, <1>6, <1>7, <1>8, <1>9 DEF IdentityNext

-----------------------------------------------------------------------------
\* What GateInv says of one sender.
AtGate(t) ==
  call[t] # NoCall => /\ pc[t] = "gate"
                      /\ call[t].op = "IsVerified"
                      /\ call[t].domain = Current(t).from

HeldAgainst(t) == disowned[t] \subseteq {d \in Domains : refuted[d] = Ancient}

PastGate(t) == pc[t] \in {"wait", "submit"} => Current(t).from \notin disowned[t]

LEMMA GateInvParts ==
  ASSUME RequireVerified
  PROVE  GateInv <=> \A t \in Senders : AtGate(t) /\ HeldAgainst(t) /\ PastGate(t)
BY DEF GateInv, AtGate, HeldAgainst, PastGate

\* The history of the composition has the type of a function.
DisownedOK == disowned \in [Senders -> SUBSET Domains]

\* A sender that stands where it stood, and of whom no more is held against
\* the domain, is as before.
LEMMA StandsStill ==
  ASSUME NEW u \in Senders, AtGate(u), HeldAgainst(u), PastGate(u), DisownedOK,
         pc'[u] = pc[u], batch'[u] = batch[u], results'[u] = results[u],
         call'[u] # NoCall => /\ call[u] # NoCall
                              /\ call'[u].op = call[u].op
                              /\ call'[u].domain = call[u].domain,
         disowned'[u] \subseteq disowned[u],
         \A d \in disowned'[u] : refuted[d] = Ancient => refuted'[d] = Ancient
  PROVE  AtGate(u)' /\ HeldAgainst(u)' /\ PastGate(u)'
BY DEF AtGate, HeldAgainst, PastGate, Current, DisownedOK

\* A step of a sender that does not touch the manager.
LEMMA UngatedKeeps ==
  ASSUME TypeOK, IdentityTypeOK, DisownedOK, RequireVerified, GateInv,
         NEW t \in Senders, Ungated(t)
  PROVE  GateInv'
<1>1. SenderStep(t) /\ UNCHANGED <<call, refuted, disowned>>
  BY DEF Ungated, SenderStep, identityVars
<1>2. ASSUME NEW u \in Senders, u # t
      PROVE  AtGate(u)' /\ HeldAgainst(u)' /\ PastGate(u)'
  BY <1>1, <1>2, GateInvParts, StepKeepsOthers, StandsStill
<1>3. pc[t] # "gate" /\ call[t] = NoCall
  BY UngatedMoves, GateInvParts DEF AtGate
<1>4. AtGate(t)' /\ HeldAgainst(t)'
  BY <1>1, <1>3, GateInvParts DEF AtGate, HeldAgainst
<1>5. PastGate(t)'
  BY <1>1, UngatedMoves, GateInvParts DEF PastGate, Current
<1>6. \A u \in Senders : AtGate(u)' /\ HeldAgainst(u)' /\ PastGate(u)'
  BY <1>2, <1>4, <1>5
<1> QED
  BY <1>6 DEF GateInv, AtGate, HeldAgainst, PastGate

\* The gate opens only for a domain that nothing is held against.
LEMMA ConsultKeeps ==
  ASSUME TypeOK, IdentityTypeOK, VerdictInv, DisownedOK, RequireVerified, GateInv,
         NEW t \in Senders, Consult(t)
  PROVE  GateInv'
<1> DEFINE d == Current(t).from
<1>1. /\ t \in Callers /\ CallerStep(t) /\ pc[t] = "gate"
      /\ UNCHANGED <<refuted, disowned>>
  BY GateAssumption DEF Consult, CallerStep, Lookup, GetStatus, Store
<1>2. /\ call[t] # NoCall
      /\ \A e \in Callers \ {t} : call'[e] = call[e]
      /\ \/ call'[t] = NoCall
         \/ /\ call'[t].op = call[t].op
            /\ call'[t].domain = call[t].domain
  BY <1>1, CallerKeepsOthers
<1>3. call[t].domain = d /\ AtGate(t) /\ HeldAgainst(t) /\ PastGate(t)
  BY <1>2, GateInvParts DEF AtGate
<1>4. CASE call'[t] # NoCall
  <2>1. UNCHANGED vars
    BY <1>4 DEF Consult
  <2>2. \A u \in Senders : AtGate(u)' /\ HeldAgainst(u)' /\ PastGate(u)'
    BY <1>1, <1>2, <1>4, <2>1, GateInvParts, GateAssumption, StandsStill DEF vars, senderVars
  <2> QED
    BY <2>2 DEF GateInv, AtGate, HeldAgainst, PastGate
<1>5. CASE call'[t] = NoCall
  <2>1. Gate(t, Heard(t))
    BY <1>5 DEF Consult
  <2>2. SenderStep(t)
    <3>1. Heard(t) \in {"verified", "unverified", "error"}
      BY DEF Heard, Answer
    <3> QED
      BY <2>1, <3>1 DEF SenderStep
  <2>3. ASSUME NEW u \in Senders, u # t
        PROVE  AtGate(u)' /\ HeldAgainst(u)' /\ PastGate(u)'
    BY <1>1, <1>2, <2>2, <2>3, GateInvParts, GateAssumption, StepKeepsOthers, StandsStill
  <2>4. ASSUME Heard(t) = "verified"
        PROVE  d \notin disowned[t]
    <3>0. d \in Domains /\ refuted[d] \in Nat /\ verdictLeft[d] \in Nat
      <4>1. call[t].at # "idle"
        BY <1>1 DEF Consult, Lookup, GetStatus, Store
      <4> QED
        BY <1>1, <1>3, <4>1, InCall, Lifetimes DEF IdentityTypeOK
    <3>1. CASE Lookup(t)
      <4>1. verdict[d] /\ call[t].at = "lookup"
        BY <1>3, <2>4, <3>1 DEF Lookup, Heard, Answer
      <4>2. Cached(d)
        <5>1. ASSUME ~ Cached(d) PROVE FALSE
          <6>1. Continue(t, "get")
            BY <1>3, <3>1, <5>1 DEF Lookup
          <6>2. call'[t].at = "get"
            BY <1>1, <4>1, <6>1, Continued DEF Steps
          <6> QED
            BY <1>5, <6>2 DEF NoCall
        <5> QED
          BY <5>1
      <4>3. refuted[d] <= VerifyTTL - verdictLeft[d] + MaxLatency /\ verdictLeft[d] > 0
        BY <3>0, <4>1, <4>2 DEF VerdictInv, VerdictFresh, Cached
      <4>4. refuted[d] # Ancient
        BY <3>0, <4>3, Lifetimes DEF Ancient
      <4> QED
        BY <1>3, <4>4 DEF HeldAgainst
    <3>2. CASE Store(t)
      <4>1. call[t].at = "store" /\ call[t].ok
        BY <2>4, <3>2 DEF Store, Heard, Answer
      <4>2. call[t].age \in Nat /\ call[t].age <= MaxLatency
        BY <1>1, <4>1, InCall, Lifetimes DEF Frames
      <4>3. refuted[d] <= call[t].age
        BY <1>1, <1>3, <4>1 DEF VerdictInv
      <4>4. refuted[d] # Ancient
        BY <3>0, <4>2, <4>3, Lifetimes DEF Ancient
      <4> QED
        BY <1>3, <4>4 DEF HeldAgainst
    <3>3. ~ GetStatus(t)
      BY <2>4 DEF GetStatus, Heard, Answer
    <3> QED
      BY <3>1, <3>2, <3>3 DEF Consult
  <2>5. PastGate(t)'
    BY <1>1, <2>1, <2>4, GateMoves DEF PastGate, Current
  <2>6. AtGate(t)' /\ HeldAgainst(t)'
    BY <1>1, <1>3, <1>5 DEF AtGate, HeldAgainst
  <2>7. \A u \in Senders : AtGate(u)' /\ HeldAgainst(u)' /\ PastGate(u)'
    BY <2>3, <2>5, <2>6
  <2> QED
    BY <2>7 DEF GateInv, AtGate, HeldAgainst, PastGate
<1> QED
  BY <1>4, <1>5

\* A sender asks: what is held against domains is noted at this moment.
LEMMA AskKeeps ==
  ASSUME TypeOK, IdentityTypeOK, DisownedOK, RequireVerified, GateInv,
         NEW t \in Senders, Ask(t)
  PROVE  GateInv'
<1>1. /\ pc[t] = "gate" /\ UNCHANGED <<vars, refuted>>
      /\ Begin(t, "IsVerified", Current(t).from)
      /\ disowned' = [disowned EXCEPT ![t] = {d \in Domains : refuted[d] = Ancient}]
  BY DEF Ask, Begin
<1>2. UNCHANGED <<pc, batch, results>>
  BY <1>1 DEF vars, senderVars
<1>3. call' = [call EXCEPT ![t] = Frame("IsVerified", Current(t).from, "lookup")]
  BY <1>1 DEF Begin
<1>4. ASSUME NEW u \in Senders, u # t
      PROVE  AtGate(u)' /\ HeldAgainst(u)' /\ PastGate(u)'
  <2>1. call'[u] = call[u]
    BY <1>3, <1>4, GateAssumption DEF IdentityTypeOK
  <2>2. disowned'[u] = disowned[u]
    BY <1>1, <1>4 DEF DisownedOK
  <2> QED
    BY <1>1, <1>2, <2>1, <2>2, GateInvParts, StandsStill
<1>5. AtGate(t)' /\ HeldAgainst(t)' /\ PastGate(t)'
  <2>1. call'[t] = Frame("IsVerified", Current(t).from, "lookup")
    BY <1>3, GateAssumption DEF IdentityTypeOK
  <2>2. call'[t].op = "IsVerified" /\ call'[t].domain = Current(t).from
    BY <2>1 DEF Frame
  <2>3. disowned'[t] = {d \in Domains : refuted[d] = Ancient}
    BY <1>1 DEF DisownedOK
  <2> QED
    BY <1>1, <1>2, <2>2, <2>3 DEF AtGate, HeldAgainst, PastGate, Current
<1>6. \A u \in Senders : AtGate(u)' /\ HeldAgainst(u)' /\ PastGate(u)'
  BY <1>4, <1>5
<1> QED
  BY <1>6 DEF GateInv, AtGate, HeldAgainst, PastGate

\* The senders stand still while something happens to the manager or its
\* account, and their calls remain what they are about.
LEMMA ManagerKeeps ==
  ASSUME TypeOK, IdentityTypeOK, DisownedOK, RequireVerified, GateInv,
         UNCHANGED vars,
         \A t \in Senders : call'[t] # NoCall =>
           /\ call[t] # NoCall
           /\ call'[t].op = call[t].op
           /\ call'[t].domain = call[t].domain,
         [IdentityNext]_identityVars,
         Forgive \/ UNCHANGED <<refuted, disowned>>
  PROVE  GateInv'
<1>1. UNCHANGED <<pc, batch, results>>
  BY DEF vars, senderVars
<1>2. ASSUME NEW u \in Senders
      PROVE  /\ disowned'[u] \subseteq disowned[u]
             /\ \A d \in disowned'[u] : refuted[d] = Ancient => refuted'[d] = Ancient
  BY AncientStays DEF Forgive, DisownedOK
<1>3. \A u \in Senders : AtGate(u)' /\ HeldAgainst(u)' /\ PastGate(u)'
  BY <1>1, <1>2, GateInvParts, StandsStill
<1> QED
  BY <1>3 DEF GateInv, AtGate, HeldAgainst, PastGate

\* Every other step.
LEMMA EnvironmentKeeps ==
  ASSUME TypeOK, IdentityTypeOK, DisownedOK, RequireVerified, GateInv,
         \/ \E c \in Operators : Operate(c) \/ Manage(c)
         \/ Outside
         \/ \E i \in Instances : Listing(i) \/ RestartGated(i)
  PROVE  GateInv'
<1>0. Operators \subseteq Callers /\ \A t \in Senders : t \in Callers /\ t \notin Operators
  BY GateAssumption DEF Operators
<1>1. ASSUME NEW c \in Operators, Operate(c)
      PROVE  GateInv'
  <2>1. \A t \in Senders : call'[t] = call[t]
    BY <1>0, <1>1, CallerKeepsOthers DEF Operate
  <2>2. IdentityNext
    BY <1>0, <1>1 DEF Operate, IdentityNext
  <2> QED
    BY <1>1, <2>1, <2>2, ManagerKeeps DEF Operate
<1>2. ASSUME NEW c \in Operators, Manage(c)
      PROVE  GateInv'
  <2>1. PICK o \in Operations, d \in Domains : Begin(c, o, d)
    BY <1>2 DEF Manage
  <2>2. \A t \in Senders : call'[t] = call[t]
    BY <1>0, <2>1 DEF Begin, IdentityTypeOK
  <2>3. IdentityNext /\ UNCHANGED refuted
    BY <1>0, <2>1 DEF Begin, IdentityNext
  <2> QED
    BY <1>2, <2>2, <2>3, ManagerKeeps DEF Manage
<1>3. CASE Outside
  <2>1. IdentityNext /\ Forgive /\ UNCHANGED vars
    BY <1>3 DEF Outside, IdentityNext
  <2>2. CASE Tick
    <3>1. ASSUME NEW t \in Senders, call'[t] # NoCall
          PROVE  /\ call[t] # NoCall
                 /\ call'[t].op = call[t].op
                 /\ call'[t].domain = call[t].domain
      <4>1. CASE call[t].at = "store"
        <5>1. call[t] \in Frames
          BY <1>0, <4>1, InCall
        <5>2. call'[t] = [call[t] EXCEPT !.age = call[t].age + 1]
          BY <1>0, <2>2, <4>1, <5>1 DEF Tick, Frames
        <5> QED
          BY <4>1, <5>1, <5>2 DEF Frames, NoCall
      <4>2. CASE call[t].at # "store"
        BY <1>0, <2>2, <3>1, <4>2 DEF Tick
      <4> QED
        BY <4>1, <4>2
    <3> QED
      BY <2>1, <3>1, ManagerKeeps
  <2>3. CASE \E d \in Domains : Publish(d) \/ Interfere(d)
    <3>1. UNCHANGED call
      BY <2>3 DEF Publish, Interfere
    <3> QED
      BY <2>1, <3>1, ManagerKeeps
  <2> QED
    BY <1>3, <2>2, <2>3 DEF Outside
<1>4. ASSUME NEW i \in Instances, Listing(i)
      PROVE  GateInv'
  <2>1. UNCHANGED <<pc, batch, results, call, refuted, disowned>>
    BY <1>4 DEF Listing, Suppress, Unsuppress, senderVars, identityVars
  <2>2. \A u \in Senders : AtGate(u)' /\ HeldAgainst(u)' /\ PastGate(u)'
    BY <2>1, GateInvParts, StandsStill
  <2> QED
    BY <2>2 DEF GateInv, AtGate, HeldAgainst, PastGate
<1>5. ASSUME NEW i \in Instances, RestartGated(i)
      PROVE  GateInv'
  <2>1. \A t \in Senders : disowned'[t] = {} /\ call'[t] = NoCall
    BY <1>0, <1>5 DEF RestartGated, NewIdentityManager
  <2> QED
    BY <2>1 DEF GateInv
<1> QED
  BY <1>1, <1>2, <1>3, <1>4, <1>5

\* What is behind UnvouchedNeverMails is an invariant.
THEOREM GateInductive ==
  ASSUME RequireVerified
  PROVE  GatedSpec => [](GateInv /\ DisownedOK)
<1>1. GatedInit => GateInv /\ DisownedOK
  <2>1. SUFFICES ASSUME GatedInit PROVE GateInv /\ DisownedOK
    OBVIOUS
  <2>2. \A t \in Senders : pc[t] = "idle" /\ call[t] = NoCall /\ disowned[t] = {}
    BY <2>1, GateAssumption DEF GatedInit, SenderInit, IdentityInit
  <2> QED
    BY <2>1, <2>2 DEF GatedInit, GateInv, DisownedOK
<1>2. /\ TypeOK /\ IdentityTypeOK /\ VerdictInv /\ GateInv /\ DisownedOK
      /\ [GatedNext]_gatedVars
      => (GateInv /\ DisownedOK)'
  <2>1. SUFFICES ASSUME TypeOK, IdentityTypeOK, VerdictInv, GateInv, DisownedOK,
                        [GatedNext]_gatedVars
                 PROVE  GateInv' /\ DisownedOK'
    OBVIOUS
  <2>2. DisownedOK'
    BY <2>1
    DEF DisownedOK, GatedNext, gatedVars, Ungated, NoSenderDomain, Ask, Consult, Operate, Manage,
        Outside, Listing, RestartGated, Forgive
  <2>3. CASE UNCHANGED gatedVars
    <3>1. UNCHANGED <<pc, batch, results, call, refuted, disowned>>
      BY <2>3 DEF gatedVars, vars, senderVars, identityVars
    <3> QED
      BY <2>1, <2>2, <3>1 DEF GateInv, Current
  <2>4. ASSUME NEW t \in Senders, NoSenderDomain(t)
        PROVE  GateInv'
    <3>1. SenderStep(t) /\ Gate(t, "unverified") /\ UNCHANGED <<call, refuted, disowned>>
      BY <2>4 DEF NoSenderDomain, SenderStep, identityVars
    <3>2. pc'[t] \notin {"wait", "submit"} /\ Current(t).from = NoDomain
      BY <2>1, <2>4, <3>1, GateMoves DEF NoSenderDomain
    <3>3. call[t] = NoCall
      <4>1. ASSUME call[t] # NoCall PROVE FALSE
        <5>1. t \in Callers /\ call[t].domain = NoDomain
          BY <2>1, <3>2, <4>1, GateAssumption DEF GateInv
        <5>2. call[t] \in Frames
          BY <2>1, <4>1, <5>1 DEF IdentityTypeOK
        <5> QED
          BY <5>1, <5>2, GateAssumption DEF Frames
      <4> QED
        BY <4>1
    <3>4. \A u \in Senders : AtGate(u)' /\ HeldAgainst(u)' /\ PastGate(u)'
      <4>1. ASSUME NEW u \in Senders, u # t
            PROVE  AtGate(u)' /\ HeldAgainst(u)' /\ PastGate(u)'
        BY <2>1, <3>1, <4>1, GateInvParts, StepKeepsOthers, StandsStill
      <4>2. AtGate(t)' /\ HeldAgainst(t)' /\ PastGate(t)'
        BY <2>1, <3>1, <3>2, <3>3, GateInvParts DEF AtGate, HeldAgainst, PastGate
      <4> QED
        BY <4>1, <4>2
    <3> QED
      BY <3>4 DEF GateInv, AtGate, HeldAgainst, PastGate
  <2> QED
    BY <2>1, <2>2, <2>3, <2>4, UngatedKeeps, AskKeeps, ConsultKeeps, EnvironmentKeeps
    DEF GatedNext
<1>3. GatedSpec => [](TypeOK /\ IdentityTypeOK /\ VerdictInv)
  BY GatedIsSender, GatedIsManager, TypeCorrect, IdentityTypeCorrect, VerdictInductive, PTL
<1> QED
  BY <1>1, <1>2, <1>3, PTL DEF GatedSpec

\* Only a message that was handed to SES adds recipients to mail.
LEMMA OnlySubmitMails ==
  ASSUME TypeOK, [GatedNext]_gatedVars, NEW t \in Senders,
         Len(mail'[t]) > Len(mail[t]), mail'[t][Len(mail'[t])] # {}
  PROVE  pc[t] = "submit"
<1>0. mail[t] \in Seq(SUBSET Nat) /\ Len(mail[t]) \in Nat
  BY DEF TypeOK
<1>1. ~ UNCHANGED mail
  BY <1>0
<1>2. ASSUME NEW u \in Senders, NEW res, Finish(u, res, {})
      PROVE  FALSE
  <2>1. CASE u = t
    <3>1. mail'[t] = Append(mail[t], {})
      BY <1>2, <2>1 DEF Finish, TypeOK
    <3>2. mail'[t][Len(mail'[t])] = {}
      BY <1>0, <3>1
    <3> QED
      BY <3>2
  <2>2. CASE u # t
    BY <1>0, <1>2, <2>2 DEF Finish, TypeOK
  <2> QED
    BY <2>1, <2>2
<1>3. ASSUME NEW u \in Senders, SenderStep(u)
      PROVE  pc[t] = "submit"
  <2>1. CASE Call(u)
    BY <1>1, <2>1 DEF Call
  <2>2. CASE Filter(u) \/ Decide(u) \/ Wait(u)
    BY <1>1, <1>2, <2>2 DEF Filter, Decide, Wait, Fail
  <2>3. CASE \E v \in {"verified", "unverified", "error"} : Gate(u, v)
    BY <1>1, <1>2, <2>3 DEF Gate, Fail
  <2>4. CASE Submit(u)
    <3>1. CASE u = t
      BY <2>4, <3>1 DEF Submit
    <3>2. CASE u # t
      <4>1. mail'[t] = mail[t]
        BY <2>4, <3>2 DEF Submit, Fail, Finish, TypeOK
      <4> QED
        BY <1>0, <4>1
    <3> QED
      BY <3>1, <3>2
  <2>5. CASE Return(u)
    <3>1. mail'[t] \in {<<>>, mail[t]}
      BY <2>5 DEF Return, TypeOK
    <3> QED
      BY <1>0, <3>1
  <2> QED
    BY <1>3, <2>1, <2>2, <2>3, <2>4, <2>5 DEF SenderStep
<1>4. ASSUME NEW i \in Instances, Suppress(i) \/ Unsuppress(i)
      PROVE  FALSE
  BY <1>1, <1>4 DEF Suppress, Unsuppress, senderVars
<1>5. ASSUME NEW i \in Instances, Restart(i)
      PROVE  FALSE
  <2>1. mail'[t] \in {<<>>, mail[t]}
    BY <1>5 DEF Restart, Reset, TypeOK
  <2> QED
    BY <1>0, <2>1
<1>6. CASE UNCHANGED vars
  BY <1>1, <1>6 DEF vars, senderVars
<1> QED
  BY <1>3, <1>4, <1>5, <1>6, StepOfSender DEF SenderNext

(***************************************************************************)
(* With the gate, no mail leaves from a domain that SES had not vouched    *)
(* for since long before Send asked, whatever the other goroutines, other  *)
(* processes, DNS, lost replies and crashes do (ses.go:301-312).           *)
(***************************************************************************)
THEOREM UnvouchedSafe ==
  ASSUME RequireVerified
  PROVE  GatedSpec => UnvouchedNeverMails
<1> DEFINE Vouched == \A t \in Senders :
                        Len(mail'[t]) > Len(mail[t]) /\ mail'[t][Len(mail'[t])] # {} =>
                          Current(t).from \notin disowned[t]
<1>1. TypeOK /\ GateInv /\ [GatedNext]_gatedVars => [Vouched]_gatedVars
  BY OnlySubmitMails DEF GateInv
<1>2. GatedSpec => []TypeOK
  BY GatedIsSender, TypeCorrect, PTL
<1>3. GatedSpec => [](GateInv /\ DisownedOK)
  BY GateInductive
<1>4. GatedSpec => [][Vouched]_gatedVars
  BY <1>1, <1>2, <1>3, PTL DEF GatedSpec
<1> QED
  BY <1>4 DEF UnvouchedNeverMails
=============================================================================
