------------------------ MODULE IdentityManagerProofs ------------------------
(***************************************************************************)
(* The caches of IdentityManager are coherent with the account, for every  *)
(* number of callers, domains and pages and all lifetimes, also when the   *)
(* process restarts, replies are lost and others change the account.       *)
(***************************************************************************)
EXTENDS IdentityManager, TLAPS

\* The constants that are numbers.
LEMMA Lifetimes ==
  /\ CountTTL \in Nat /\ CountTTL > 0
  /\ VerifyTTL \in Nat /\ VerifyTTL > 0
  /\ MaxLatency \in Nat
  /\ Pages \in Nat /\ Pages > 0
  /\ Ancient \in Nat
BY IdentityAssumption DEF Ancient

\* The frame of a caller that is inside a call.
LEMMA InCall ==
  ASSUME IdentityTypeOK, NEW c \in Callers, call[c].at # "idle"
  PROVE  /\ call[c] \in Frames
         /\ call[c].domain \in Domains
BY DEF IdentityTypeOK, NoCall, Frames

\* The steps at which a call may be.
Steps == {"list", "create", "invalidate", "mailFrom", "get"}

\* A call that goes on is at its next step; no other call is touched.
LEMMA Continued ==
  ASSUME IdentityTypeOK, NEW c \in Callers, call[c].at # "idle",
         NEW l \in Steps, Continue(c, l)
  PROVE  /\ call' \in [Callers -> Frames \cup {NoCall}]
         /\ call'[c] = [call[c] EXCEPT !.at = l]
         /\ call'[c].at = l
         /\ \A e \in Callers \ {c} : call'[e] = call[e]
<1>1. call[c] \in Frames
  BY InCall
<1>2. [call[c] EXCEPT !.at = l] \in Frames /\ [call[c] EXCEPT !.at = l].at = l
  BY <1>1 DEF Frames, Steps
<1> QED
  BY <1>2 DEF IdentityTypeOK, Continue

\* A call that returns is gone; no other call is touched.
LEMMA Returned ==
  ASSUME IdentityTypeOK, NEW c \in Callers, Done(c)
  PROVE  /\ call' \in [Callers -> Frames \cup {NoCall}]
         /\ call'[c] = NoCall
         /\ call'[c].at = "idle"
         /\ \A e \in Callers \ {c} : call'[e] = call[e]
BY DEF IdentityTypeOK, Done, NoCall

\* A call that returns or goes on at a step other than listing, and has let go
\* of the lock, leaves the frames and the lock in order.
LEMMA MoveKeepsFrames ==
  ASSUME IdentityTypeOK, NEW c \in Callers, call[c].at # "idle",
         \/ Done(c)
         \/ \E l \in Steps \ {"list"} : Continue(c, l),
         mu' = IF call[c].at = "list" THEN NoCaller ELSE mu
  PROVE  /\ call' \in [Callers -> Frames \cup {NoCall}]
         /\ \A e \in Callers : mu' = e <=> call'[e].at = "list"
<1>1. /\ call' \in [Callers -> Frames \cup {NoCall}]
      /\ call'[c].at # "list"
      /\ \A e \in Callers \ {c} : call'[e] = call[e]
  BY Continued, Returned DEF Steps
<1>2. \A e \in Callers : e # NoCaller /\ (mu = e <=> call[e].at = "list")
  BY IdentityAssumption DEF IdentityTypeOK
<1> QED
  BY <1>1, <1>2

\* So does the end of identityCount.
LEMMA CountedMoves ==
  ASSUME NEW c \in Callers, NEW ids, Counted(c, ids)
  PROVE  Done(c) \/ \E l \in Steps \ {"list"} : Continue(c, l)
BY DEF Counted, Steps

\* What Freshen makes of the history.
LEMMA FreshenTypes ==
  ASSUME IdentityTypeOK, NEW ids, NEW found, Freshen(ids, found)
  PROVE  refuted' \in [Domains -> 0 .. Ancient]
BY Lifetimes DEF IdentityTypeOK, Freshen

\* A change at SES moves the call on, whatever becomes of the reply.
LEMMA ChangeTypes ==
  ASSUME IdentityTypeOK, NEW c \in Callers, call[c].at \in {"create", "delete"},
         NEW after \in BOOLEAN, Change(c, after), UNCHANGED mu
  PROVE  /\ call' \in [Callers -> Frames \cup {NoCall}]
         /\ \A e \in Callers : mu' = e <=> call'[e].at = "list"
         /\ doubt' \in 0 .. CountTTL
<1>1. Done(c) \/ \E l \in Steps \ {"list"} : Continue(c, l)
  BY DEF Change, Steps
<1>2. /\ call' \in [Callers -> Frames \cup {NoCall}]
      /\ \A e \in Callers : mu' = e <=> call'[e].at = "list"
  BY <1>1, MoveKeepsFrames
<1> QED
  BY <1>2, Lifetimes DEF Change, IdentityTypeOK

\* Every step of a caller.
LEMMA CallerTypes ==
  ASSUME IdentityTypeOK, NEW c \in Callers, CallerStep(c)
  PROVE  IdentityTypeOK'
<1> DEFINE FramesOK == /\ call' \in [Callers -> Frames \cup {NoCall}]
                       /\ \A e \in Callers : mu' = e <=> call'[e].at = "list"
<1>0. call[c].at # "idle" /\ c # NoCaller
  BY IdentityAssumption
  DEF CallerStep, Count, List, Create, Delete, Invalidate, PutMailFrom, Lookup, GetStatus, Store
<1>1. CASE Count(c)
  <2>1. FramesOK
    <3>1. CASE countLeft > 0
      BY <1>0, <1>1, <3>1, CountedMoves, MoveKeepsFrames DEF Count
    <3>2. CASE ~ (countLeft > 0)
      <4>1. Continue(c, "list") /\ mu' = c /\ mu = NoCaller
        BY <1>1, <3>2 DEF Count
      <4>2. /\ call' \in [Callers -> Frames \cup {NoCall}]
            /\ call'[c].at = "list"
            /\ \A e \in Callers \ {c} : call'[e] = call[e]
        BY <1>0, <4>1, Continued DEF Steps
      <4>3. \A e \in Callers : call[e].at # "list"
        BY <4>1, IdentityAssumption DEF IdentityTypeOK
      <4> QED
        BY <4>1, <4>2, <4>3
    <3> QED
      BY <3>1, <3>2
  <2> QED
    BY <1>1, <2>1 DEF Count, account, caches, IdentityTypeOK
<1>2. CASE List(c)
  <2> DEFINE f == call[c]
             now == f.seen \cup {d \in identities : PageOf[d] = f.page}
  <2>0. /\ f \in Frames /\ f.seen \in SUBSET Domains /\ f.page \in 1 .. Pages
        /\ now \in SUBSET Domains
        /\ f.at = "list" /\ mu = c
    BY <1>0, <1>2, InCall DEF List, Frames, IdentityTypeOK
  <2>1. CASE Done(c) /\ Unlock /\ UNCHANGED <<counted, countLeft>>
    <3>1. FramesOK
      BY <1>0, <2>0, <2>1, MoveKeepsFrames DEF Unlock
    <3> QED
      BY <1>2, <2>1, <3>1 DEF List, account, Unlock, IdentityTypeOK
  <2>2. CASE /\ f.page < Pages
             /\ call' = [call EXCEPT ![c].page = @ + 1, ![c].seen = now]
             /\ UNCHANGED <<mu, counted, countLeft>>
    <3>1. f.page + 1 \in 1 .. Pages
      BY <2>0, <2>2, Lifetimes
    <3>2. call' = [call EXCEPT ![c] = [f EXCEPT !.page = f.page + 1, !.seen = now]]
      BY <2>0, <2>2 DEF IdentityTypeOK, Frames
    <3>3. /\ [f EXCEPT !.page = f.page + 1, !.seen = now] \in Frames
          /\ [f EXCEPT !.page = f.page + 1, !.seen = now].at = "list"
      BY <2>0, <3>1 DEF Frames
    <3>4. FramesOK
      BY <2>0, <2>2, <3>2, <3>3 DEF IdentityTypeOK
    <3> QED
      BY <1>2, <2>2, <3>4 DEF List, account, IdentityTypeOK
  <2>3. CASE counted' = now /\ countLeft' = CountTTL /\ Counted(c, now) /\ Unlock
    <3>1. FramesOK
      BY <1>0, <2>0, <2>3, CountedMoves, MoveKeepsFrames DEF Unlock
    <3> QED
      BY <1>2, <2>0, <2>3, <3>1, Lifetimes DEF List, account, Unlock, IdentityTypeOK
  <2> QED
    BY <1>2, <2>1, <2>2, <2>3 DEF List
<1>3. CASE Create(c)
  <2> DEFINE ids == identities \cup {call[c].domain}
  <2>1. ids \in SUBSET Domains /\ mailFrom \in SUBSET ids
    BY <1>0, InCall DEF IdentityTypeOK
  <2>2. \/ UNCHANGED <<identities, mailFrom>>
        \/ identities' = ids /\ mailFrom' = mailFrom
    BY <1>3 DEF Create, Change
  <2>3. refuted' \in [Domains -> 0 .. Ancient]
    BY <1>3, FreshenTypes DEF Create
  <2>4. FramesOK /\ doubt' \in 0 .. CountTTL
    BY <1>3, ChangeTypes DEF Create
  <2> QED
    BY <1>3, <2>1, <2>2, <2>3, <2>4 DEF Create, caches, IdentityTypeOK
<1>4. CASE Delete(c)
  <2>1. \/ UNCHANGED <<identities, mailFrom>>
        \/ /\ identities' = identities \ {call[c].domain}
           /\ mailFrom' = mailFrom \ {call[c].domain}
    BY <1>4 DEF Delete, Change
  <2>2. FramesOK /\ doubt' \in 0 .. CountTTL
    BY <1>4, ChangeTypes DEF Delete
  <2> QED
    BY <1>4, <2>1, <2>2 DEF Delete, caches, IdentityTypeOK
<1>5. CASE Invalidate(c)
  <2>1. FramesOK
    BY <1>0, <1>5, MoveKeepsFrames DEF Invalidate, Steps
  <2> QED
    BY <1>5, <2>1, Lifetimes DEF Invalidate, account, IdentityTypeOK
<1>6. CASE PutMailFrom(c)
  <2>1. FramesOK
    BY <1>0, <1>6, MoveKeepsFrames DEF PutMailFrom
  <2>2. mailFrom' \subseteq identities /\ UNCHANGED <<identities, dkim, caches, refuted, doubt>>
    BY <1>6 DEF PutMailFrom, IdentityTypeOK
  <2> QED
    BY <2>1, <2>2, <1>6 DEF PutMailFrom, caches, IdentityTypeOK
<1>7. CASE Lookup(c)
  <2>1. FramesOK
    BY <1>0, <1>7, MoveKeepsFrames DEF Lookup, Steps
  <2> QED
    BY <1>7, <2>1 DEF Lookup, account, caches, IdentityTypeOK
<1>8. CASE GetStatus(c)
  <2>1. CASE Done(c)
    <3>1. FramesOK
      BY <1>0, <1>8, <2>1, MoveKeepsFrames DEF GetStatus
    <3> QED
      BY <1>8, <3>1 DEF GetStatus, account, caches, IdentityTypeOK
  <2>2. CASE call' = [call EXCEPT ![c].at = "store", ![c].ok = Verified(call[c].domain)]
    <3> DEFINE g == [call[c] EXCEPT !.at = "store", !.ok = Verified(call[c].domain)]
    <3>1. call[c] \in Frames /\ Verified(call[c].domain) \in BOOLEAN
      BY <1>0, InCall DEF Verified
    <3>2. call' = [call EXCEPT ![c] = g]
      BY <2>2, <3>1 DEF IdentityTypeOK, Frames
    <3>3. g \in Frames /\ g.at = "store"
      BY <3>1 DEF Frames
    <3>4. FramesOK
      BY <1>8, <3>2, <3>3 DEF GetStatus, IdentityTypeOK
    <3> QED
      BY <1>8, <3>4 DEF GetStatus, account, caches, IdentityTypeOK
  <2> QED
    BY <1>8, <2>1, <2>2 DEF GetStatus
<1>9. CASE Store(c)
  <2>1. FramesOK
    BY <1>0, <1>9, MoveKeepsFrames DEF Store
  <2>2. call[c].domain \in Domains /\ call[c].ok \in BOOLEAN
    BY <1>0, InCall DEF Frames
  <2> QED
    BY <1>9, <2>1, <2>2, Lifetimes DEF Store, account, IdentityTypeOK
<1> QED
  BY <1>1, <1>2, <1>3, <1>4, <1>5, <1>6, <1>7, <1>8, <1>9 DEF CallerStep

\* Every step of the environment, and the beginning of a call.
LEMMA EnvironmentTypes ==
  ASSUME IdentityTypeOK,
         \/ \E c \in Callers, o \in Operations, d \in Domains : Begin(c, o, d)
         \/ \E d \in Domains : Publish(d) \/ Interfere(d)
         \/ NewIdentityManager
         \/ Tick
  PROVE  IdentityTypeOK'
<1>1. CASE \E c \in Callers, o \in Operations, d \in Domains : Begin(c, o, d)
  <2>1. PICK c \in Callers, o \in Operations, d \in Domains : Begin(c, o, d)
    BY <1>1
  <2>2. PICK l \in {"lookup", "get", "delete", "count"} :
          call' = [call EXCEPT ![c] = Frame(o, d, l)]
    BY <2>1 DEF Begin
  <2>3. Frame(o, d, l) \in Frames /\ Frame(o, d, l).at # "list"
    BY <2>2, Lifetimes DEF Frame, Frames
  <2>4. call[c].at # "list"
    BY <2>1 DEF Begin
  <2>5. /\ call' \in [Callers -> Frames \cup {NoCall}]
        /\ \A e \in Callers : mu = e <=> call'[e].at = "list"
    BY <2>2, <2>3, <2>4 DEF IdentityTypeOK
  <2> QED
    BY <2>1, <2>5 DEF Begin, account, caches, IdentityTypeOK
<1>2. CASE \E d \in Domains : Publish(d) \/ Interfere(d)
  <2>1. PICK d \in Domains : Publish(d) \/ Interfere(d)
    BY <1>2
  <2>2. refuted' \in [Domains -> 0 .. Ancient]
    BY <2>1, FreshenTypes DEF Publish, Interfere
  <2>3. CASE Publish(d)
    BY <2>2, <2>3 DEF Publish, caches, IdentityTypeOK
  <2>4. CASE Interfere(d)
    BY <2>2, <2>4, Lifetimes DEF Interfere, caches, IdentityTypeOK
  <2> QED
    BY <2>1, <2>3, <2>4
<1>3. CASE NewIdentityManager
  BY <1>3, Lifetimes, IdentityAssumption
  DEF NewIdentityManager, NoCall, account, IdentityTypeOK
<1>4. CASE Tick
  <2>1. \A c \in Callers : /\ call'[c] \in Frames \cup {NoCall}
                          /\ call'[c].at = call[c].at
    <3>1. SUFFICES ASSUME NEW c \in Callers
                   PROVE  call'[c] \in Frames \cup {NoCall} /\ call'[c].at = call[c].at
      OBVIOUS
    <3>2. CASE call[c].at = "store"
      <4>1. call[c] \in Frames /\ call[c].age < MaxLatency /\ call[c].age \in 0 .. MaxLatency
        BY <1>4, <3>2, InCall DEF Tick, Frames
      <4>2. call[c].age + 1 \in 0 .. MaxLatency
        BY <4>1, Lifetimes
      <4>3. call'[c] = [call[c] EXCEPT !.age = call[c].age + 1]
        BY <1>4, <3>2, <4>1 DEF Tick, Frames
      <4> QED
        BY <4>1, <4>2, <4>3 DEF Frames
    <3>3. CASE call[c].at # "store"
      BY <1>4, <3>3 DEF Tick, IdentityTypeOK
    <3> QED
      BY <3>2, <3>3
  <2>2. call' \in [Callers -> Frames \cup {NoCall}]
    BY <1>4, <2>1 DEF Tick
  <2>3. countLeft' \in 0 .. CountTTL /\ doubt' \in 0 .. CountTTL
    BY <1>4, Lifetimes DEF Tick, Less, IdentityTypeOK
  <2>4. verdictLeft' \in [Domains -> 0 .. VerifyTTL]
    BY <1>4, Lifetimes DEF Tick, Less, IdentityTypeOK
  <2>5. refuted' \in [Domains -> 0 .. Ancient]
    BY <1>4, Lifetimes DEF Tick, IdentityTypeOK
  <2> QED
    BY <1>4, <2>1, <2>2, <2>3, <2>4, <2>5 DEF Tick, account, IdentityTypeOK
<1> QED
  BY <1>1, <1>2, <1>3, <1>4

(***************************************************************************)
(* Type correctness; m.mu is held by exactly the caller that lists pages.  *)
(***************************************************************************)
THEOREM IdentityTypeCorrect == IdentitySpec => []IdentityTypeOK
<1>1. IdentityInit => IdentityTypeOK
  BY Lifetimes, IdentityAssumption DEF IdentityInit, NoCall, IdentityTypeOK
<1>2. IdentityTypeOK /\ [IdentityNext]_identityVars => IdentityTypeOK'
  <2>1. SUFFICES ASSUME IdentityTypeOK, [IdentityNext]_identityVars
                 PROVE  IdentityTypeOK'
    OBVIOUS
  <2>2. CASE IdentityNext
    BY <2>1, <2>2, CallerTypes, EnvironmentTypes DEF IdentityNext
  <2>3. CASE UNCHANGED identityVars
    BY <2>1, <2>3 DEF identityVars, account, caches, IdentityTypeOK
  <2> QED
    BY <2>1, <2>2, <2>3
<1> QED
  BY <1>1, <1>2, PTL DEF IdentitySpec

-----------------------------------------------------------------------------
\* Nothing that CountInv is about has changed but the frame of c, which neither
\* listed nor was to invalidate, and does neither now.
LEMMA CountUnmoved ==
  ASSUME IdentityTypeOK, CountInv, NEW c \in Callers,
         UNCHANGED <<identities, mu, counted, countLeft, doubt>>,
         call[c].at \notin {"list", "invalidate"},
         call'[c].at \notin {"list", "invalidate"},
         call'[c].at = "count" => call'[c].seen = {} /\ call'[c].page = 1,
         \A e \in Callers \ {c} : call'[e] = call[e]
  PROVE  CountInv'
<1>1. Invalidating' <=> Invalidating
  BY DEF Invalidating
<1> QED
  BY <1>1 DEF CountInv

\* A listing ends with everything there is, unless it will be thrown away.
LEMMA CountList ==
  ASSUME IdentityTypeOK, CountInv, NEW c \in Callers, List(c)
  PROVE  CountInv'
<1> DEFINE f == call[c]
           now == f.seen \cup {d \in identities : PageOf[d] = f.page}
<1>1. /\ f \in Frames /\ f.page \in 1 .. Pages /\ f.at = "list" /\ mu = c
      /\ c # NoCaller /\ countLeft = 0 /\ \A e \in Callers \ {c} : call[e].at # "list"
  BY InCall, IdentityAssumption DEF List, Frames, CountInv, IdentityTypeOK
<1>2. \A d \in identities : PageOf[d] \in Nat /\ PageOf[d] <= Pages
  BY Lifetimes, IdentityAssumption DEF IdentityTypeOK
<1>3. doubt < CountTTL /\ ~ Invalidating =>
        now = {d \in identities : PageOf[d] < f.page + 1}
  BY <1>1, <1>2, Lifetimes DEF CountInv
<1>4. CASE Done(c) /\ Unlock /\ UNCHANGED <<counted, countLeft>>
  <2>1. /\ call'[c].at = "idle"
        /\ \A e \in Callers \ {c} : call'[e] = call[e]
    BY <1>4, Returned
  <2>2. Invalidating' <=> Invalidating
    BY <1>1, <2>1 DEF Invalidating
  <2> QED
    BY <1>1, <1>4, <2>1, <2>2 DEF List, Unlock, account, CountInv
<1>5. CASE /\ f.page < Pages
           /\ call' = [call EXCEPT ![c].page = @ + 1, ![c].seen = now]
           /\ UNCHANGED <<mu, counted, countLeft>>
  <2>1. /\ call'[c].at = "list" /\ call'[c].page = f.page + 1 /\ call'[c].seen = now
        /\ \A e \in Callers \ {c} : call'[e] = call[e]
    BY <1>1, <1>5 DEF IdentityTypeOK, Frames
  <2>2. Invalidating' <=> Invalidating
    BY <1>1, <2>1 DEF Invalidating
  <2>3. UNCHANGED <<identities, mu, counted, countLeft, doubt>>
    BY <1>5 DEF List, account
  <2>4. doubt' < CountTTL /\ ~ Invalidating' =>
          call'[c].seen = {d \in identities' : PageOf[d] < call'[c].page}
    BY <1>3, <2>1, <2>2, <2>3
  <2> QED
    BY <1>1, <2>1, <2>2, <2>3, <2>4 DEF CountInv
<1>6. CASE f.page = Pages /\ counted' = now /\ countLeft' = CountTTL /\ Counted(c, now) /\ Unlock
  <2>1. /\ call'[c].at \in {"idle", "create"}
        /\ \A e \in Callers \ {c} : call'[e] = call[e]
    BY <1>1, <1>6, Continued, Returned DEF Counted, Steps
  <2>2. Invalidating' <=> Invalidating
    BY <1>1, <2>1 DEF Invalidating
  <2>3. {d \in identities : PageOf[d] < f.page + 1} = identities
    BY <1>2, <1>6, Lifetimes
  <2>4. doubt < CountTTL /\ ~ Invalidating => counted' = identities
    BY <1>3, <1>6, <2>3
  <2> QED
    BY <1>1, <1>6, <2>1, <2>2, <2>4 DEF List, Unlock, account, CountInv
<1> QED
  BY <1>4, <1>5, <1>6 DEF List

\* A change is announced by its caller, or doubt takes its place.
LEMMA CountChange ==
  ASSUME IdentityTypeOK, CountInv, NEW c \in Callers, Create(c) \/ Delete(c)
  PROVE  CountInv'
<1>1. call[c].at \in {"create", "delete"} /\ UNCHANGED <<mu, counted, countLeft>>
  BY DEF Create, Delete, caches
<1>2. CASE Done(c) /\ UNCHANGED <<identities, doubt>>
  BY <1>1, <1>2, Returned, CountUnmoved
<1>3. CASE Continue(c, "invalidate") /\ UNCHANGED doubt
  <2>1. /\ call'[c].at = "invalidate"
        /\ \A e \in Callers \ {c} : call'[e] = call[e]
    BY <1>1, <1>3, Continued DEF Steps
  <2> QED
    BY <1>1, <2>1 DEF Invalidating, CountInv
<1>4. CASE Done(c) /\ doubt' = CountTTL
  <2>1. /\ call'[c].at = "idle"
        /\ \A e \in Callers \ {c} : call'[e] = call[e]
    BY <1>4, Returned
  <2> QED
    BY <1>1, <1>4, <2>1, Lifetimes DEF CountInv, IdentityTypeOK
<1> QED
  BY <1>2, <1>3, <1>4 DEF Create, Delete, Change

\* Every step of a caller.
LEMMA CountCaller ==
  ASSUME IdentityTypeOK, CountInv, NEW c \in Callers, CallerStep(c)
  PROVE  CountInv'
<1>1. CASE Count(c)
  <2>1. mu = NoCaller /\ call[c].at = "count" /\ UNCHANGED <<identities, counted, countLeft, doubt>>
    BY <1>1 DEF Count, account, caches
  <2>2. CASE countLeft > 0
    <3>1. /\ call'[c].at \in {"idle", "create"} /\ UNCHANGED mu
          /\ \A e \in Callers \ {c} : call'[e] = call[e]
      BY <1>1, <2>1, <2>2, Continued, Returned DEF Count, Counted, Steps
    <3> QED
      BY <2>1, <3>1, CountUnmoved
  <2>3. CASE ~ (countLeft > 0)
    <3>1. Continue(c, "list")
      BY <1>1, <2>3 DEF Count
    <3>2. /\ call'[c] = [call[c] EXCEPT !.at = "list"]
          /\ call'[c].at = "list"
          /\ \A e \in Callers \ {c} : call'[e] = call[e]
      BY <2>1, <3>1, Continued DEF Steps
    <3>3. call[c] \in Frames /\ call[c].seen = {} /\ call[c].page = 1
      BY <2>1, InCall DEF CountInv
    <3>4. call'[c].seen = {} /\ call'[c].page = 1
      BY <3>2, <3>3 DEF Frames
    <3>5. {d \in identities : PageOf[d] < 1} = {}
      BY IdentityAssumption, Lifetimes DEF IdentityTypeOK
    <3>6. countLeft' = 0 /\ doubt' \in Nat
      BY <2>1, <2>3, Lifetimes DEF IdentityTypeOK
    <3>7. Invalidating' <=> Invalidating
      BY <2>1, <3>2 DEF Invalidating
    <3>8. \A e \in Callers : call'[e].at = "list" /\ doubt' < CountTTL /\ ~ Invalidating' =>
            call'[e].seen = {d \in identities' : PageOf[d] < call'[e].page}
      BY <2>1, <3>2, <3>4, <3>5, <3>7 DEF CountInv
    <3>9. \A e \in Callers : call'[e].at = "count" => call'[e].seen = {} /\ call'[e].page = 1
      BY <3>2 DEF CountInv
    <3> QED
      BY <3>6, <3>8, <3>9 DEF CountInv
  <2> QED
    BY <2>2, <2>3
<1>2. CASE Invalidate(c)
  <2>1. /\ call'[c].at \in {"idle", "mailFrom"}
        /\ \A e \in Callers \ {c} : call'[e] = call[e]
    BY <1>2, Continued, Returned DEF Invalidate, Steps
  <2>2. CASE MayLock
    <3>1. mu = NoCaller /\ countLeft' = 0 /\ UNCHANGED <<identities, mu, doubt>>
      BY <1>2, <2>2 DEF Invalidate, MayLock, account
    <3>2. \A e \in Callers : call[e].at # "list"
      BY <3>1, IdentityAssumption DEF IdentityTypeOK
    <3> QED
      BY <2>1, <3>1, <3>2, Lifetimes DEF CountInv, IdentityTypeOK
  <2> QED
    BY <1>2, <2>2 DEF Invalidate
<1>3. CASE PutMailFrom(c)
  BY <1>3, Returned, CountUnmoved DEF PutMailFrom, caches
<1>4. CASE Lookup(c)
  <2>1. /\ call'[c].at \in {"idle", "get"}
        /\ \A e \in Callers \ {c} : call'[e] = call[e]
    BY <1>4, Continued, Returned DEF Lookup, Steps
  <2> QED
    BY <1>4, <2>1, CountUnmoved DEF Lookup, account, caches
<1>5. CASE GetStatus(c)
  <2>1. /\ call'[c].at \in {"idle", "store"}
        /\ \A e \in Callers \ {c} : call'[e] = call[e]
    <3>1. CASE Done(c)
      BY <3>1, Returned
    <3>2. CASE call' = [call EXCEPT ![c].at = "store", ![c].ok = Verified(call[c].domain)]
      <4>1. call[c] \in Frames
        BY <1>5, InCall DEF GetStatus
      <4> QED
        BY <3>2, <4>1 DEF IdentityTypeOK, Frames
    <3> QED
      BY <1>5, <3>1, <3>2 DEF GetStatus
  <2> QED
    BY <1>5, <2>1, CountUnmoved DEF GetStatus, account, caches
<1>6. CASE Store(c)
  BY <1>6, Returned, CountUnmoved DEF Store, account
<1> QED
  BY <1>1, <1>2, <1>3, <1>4, <1>5, <1>6, CountList, CountChange DEF CallerStep

\* Every step of the environment, and the beginning of a call.
LEMMA CountEnvironment ==
  ASSUME IdentityTypeOK, CountInv,
         \/ \E c \in Callers, o \in Operations, d \in Domains : Begin(c, o, d)
         \/ \E d \in Domains : Publish(d) \/ Interfere(d)
         \/ NewIdentityManager
         \/ Tick
  PROVE  CountInv'
<1>1. ASSUME NEW c \in Callers, NEW o \in Operations, NEW d \in Domains, Begin(c, o, d)
      PROVE  CountInv'
  <2>1. PICK l \in {"lookup", "get", "delete", "count"} :
          call' = [call EXCEPT ![c] = Frame(o, d, l)]
    BY <1>1 DEF Begin
  <2>2. /\ call'[c] = Frame(o, d, l)
        /\ \A e \in Callers \ {c} : call'[e] = call[e]
    BY <2>1 DEF IdentityTypeOK
  <2>3. call'[c].at = l /\ call'[c].seen = {} /\ call'[c].page = 1
    BY <2>2 DEF Frame
  <2> QED
    BY <1>1, <2>1, <2>2, <2>3, CountUnmoved DEF Begin, account, caches
<1>2. ASSUME NEW d \in Domains, Publish(d)
      PROVE  CountInv'
  BY <1>2 DEF Publish, caches, CountInv, Invalidating
<1>3. ASSUME NEW d \in Domains, Interfere(d)
      PROVE  CountInv'
  BY <1>3, Lifetimes DEF Interfere, caches, CountInv, IdentityTypeOK
<1>4. CASE NewIdentityManager
  BY <1>4, Lifetimes DEF NewIdentityManager, NoCall, CountInv, IdentityTypeOK
<1>5. CASE Tick
  <2>1. \A c \in Callers :
          /\ call'[c].at = call[c].at
          /\ call[c].at \in {"list", "count"} => call'[c] = call[c]
    <3>1. \A c \in Callers : call[c].at = "store" => call[c] \in Frames
      BY InCall
    <3> QED
      BY <1>5, <3>1 DEF Tick, Frames
  <2>2. Invalidating' <=> Invalidating
    BY <2>1 DEF Invalidating
  <2>3. countLeft' > doubt' => countLeft > doubt
    BY <1>5, Lifetimes DEF Tick, Less, CountInv, IdentityTypeOK
  <2>4. mu # NoCaller => countLeft' = 0 /\ doubt' = doubt
    BY <1>5 DEF Tick, Less, CountInv
  <2>5. \A c \in Callers : call[c].at = "list" => mu # NoCaller
    BY IdentityAssumption DEF IdentityTypeOK
  <2> QED
    BY <1>5, <2>1, <2>2, <2>3, <2>4, <2>5 DEF Tick, account, CountInv
<1> QED
  BY <1>1, <1>2, <1>3, <1>4, <1>5

(***************************************************************************)
(* A trusted count is the account's: the listing is consistent although it *)
(* takes several requests, because whoever changes the account meanwhile   *)
(* waits for its end to invalidate what it found (identity.go:155-197,     *)
(* 231-241, 392-400).                                                      *)
(***************************************************************************)
THEOREM CountSafe == IdentitySpec => []CountCoherent
<1>1. IdentityInit => CountInv
  BY IdentityAssumption, Lifetimes DEF IdentityInit, NoCall, CountInv
<1>2. IdentityTypeOK /\ CountInv /\ [IdentityNext]_identityVars => CountInv'
  <2>1. SUFFICES ASSUME IdentityTypeOK, CountInv, [IdentityNext]_identityVars
                 PROVE  CountInv'
    OBVIOUS
  <2>2. CASE IdentityNext
    BY <2>1, <2>2, CountCaller, CountEnvironment DEF IdentityNext
  <2>3. CASE UNCHANGED identityVars
    BY <2>1, <2>3 DEF identityVars, account, caches, CountInv, Invalidating
  <2> QED
    BY <2>1, <2>2, <2>3
<1>3. CountInv => CountCoherent
  BY DEF CountInv, CountCoherent, Invalidating
<1> QED
  BY <1>1, <1>2, <1>3, IdentityTypeCorrect, PTL DEF IdentitySpec

-----------------------------------------------------------------------------
\* Nobody has learned a verdict, and no domain was refuted.
LEMMA VerdictUnmoved ==
  ASSUME IdentityTypeOK, VerdictInv,
         UNCHANGED <<verdict, verdictLeft>>,
         \A d \in Domains : refuted'[d] = refuted[d] \/ refuted'[d] = 0,
         \A d \in Domains : Verified(d)' /\ ~ Verified(d) => refuted'[d] = 0,
         \A c \in Callers : call'[c] = call[c] \/ call'[c].at # "store"
  PROVE  VerdictInv'
<1>1. \A d \in Domains : refuted[d] \in Nat /\ refuted'[d] \in Nat /\ refuted'[d] <= refuted[d]
  BY Lifetimes DEF IdentityTypeOK
<1>2. \A d \in Domains : verdictLeft[d] \in Nat
  BY DEF IdentityTypeOK
<1>3. VerdictFresh'
  BY <1>1, <1>2, Lifetimes DEF VerdictInv, VerdictFresh, Cached
<1>4. \A d \in Domains : Verified(d)' => refuted'[d] = 0
  BY <1>1 DEF VerdictInv
<1>5. ASSUME NEW c \in Callers, call'[c].at = "store", call'[c].ok
      PROVE  refuted'[call'[c].domain] <= call'[c].age
  <2>1. call'[c] = call[c] /\ call[c].at = "store" /\ call[c].ok
    BY <1>5
  <2>2. call[c].domain \in Domains /\ call[c].age \in Nat
    BY <2>1, InCall, Lifetimes DEF Frames
  <2> QED
    BY <1>1, <2>1, <2>2 DEF VerdictInv
<1> QED
  BY <1>3, <1>4, <1>5 DEF VerdictInv

\* A domain that becomes verified is at once no longer held to be refuted.
LEMMA FreshenMoves ==
  ASSUME IdentityTypeOK, Freshen(identities', dkim')
  PROVE  /\ \A d \in Domains : refuted'[d] = refuted[d] \/ refuted'[d] = 0
         /\ \A d \in Domains : Verified(d)' => refuted'[d] = 0
BY DEF Freshen, Verified

\* Every step of a caller.
LEMMA VerdictCaller ==
  ASSUME IdentityTypeOK, VerdictInv, NEW c \in Callers, CallerStep(c)
  PROVE  VerdictInv'
<1>0. call[c].at # "idle"
  BY DEF CallerStep, Count, List, Create, Delete, Invalidate, PutMailFrom, Lookup, GetStatus, Store
<1>1. ASSUME \/ Done(c) \/ \E l \in Steps : Continue(c, l)
      PROVE  \A e \in Callers : call'[e] = call[e] \/ call'[e].at # "store"
  <2>1. call'[c].at # "store"
    BY <1>0, <1>1, Continued, Returned DEF Steps
  <2> QED
    BY <1>0, <1>1, <2>1, Continued, Returned
<1>2. CASE Count(c)
  <2>1. Done(c) \/ \E l \in Steps : Continue(c, l)
    BY <1>2, CountedMoves DEF Count, Steps
  <2>2. UNCHANGED <<identities, dkim, verdict, verdictLeft, refuted>>
    BY <1>2 DEF Count, account, caches
  <2> QED
    BY <1>1, <2>1, <2>2, VerdictUnmoved DEF Verified
<1>3. CASE List(c)
  <2>1. \A e \in Callers : call'[e] = call[e] \/ call'[e].at # "store"
    <3>1. \/ Done(c) \/ \E l \in Steps : Continue(c, l)
          \/ call' = [call EXCEPT ![c].page = @ + 1,
                ![c].seen = call[c].seen \cup {d \in identities : PageOf[d] = call[c].page}]
      BY <1>3, CountedMoves DEF List
    <3>2. call[c] \in Frames /\ call[c].at = "list"
      BY <1>3, InCall DEF List
    <3> QED
      BY <1>1, <3>1, <3>2 DEF IdentityTypeOK, Frames
  <2>2. UNCHANGED <<identities, dkim, verdict, verdictLeft, refuted>>
    BY <1>3 DEF List, account
  <2> QED
    BY <2>1, <2>2, VerdictUnmoved DEF Verified
<1>4. CASE Create(c)
  <2>1. Done(c) \/ \E l \in Steps : Continue(c, l)
    BY <1>4 DEF Create, Change, Steps
  <2>2. UNCHANGED <<verdict, verdictLeft>> /\ Freshen(identities', dkim')
    BY <1>4 DEF Create, caches
  <2> QED
    BY <1>1, <2>1, <2>2, FreshenMoves, VerdictUnmoved
<1>5. CASE Delete(c)
  <2>1. Done(c) \/ \E l \in Steps : Continue(c, l)
    BY <1>5 DEF Delete, Change, Steps
  <2>2. UNCHANGED <<dkim, verdict, verdictLeft, refuted>> /\ identities' \subseteq identities
    BY <1>5 DEF Delete, Change, caches
  <2> QED
    BY <1>1, <2>1, <2>2, VerdictUnmoved DEF Verified
<1>6. CASE Invalidate(c)
  <2>1. Done(c) \/ \E l \in Steps : Continue(c, l)
    BY <1>6 DEF Invalidate, Steps
  <2>2. UNCHANGED <<identities, dkim, verdict, verdictLeft, refuted>>
    BY <1>6 DEF Invalidate, account
  <2> QED
    BY <1>1, <2>1, <2>2, VerdictUnmoved DEF Verified
<1>7. CASE PutMailFrom(c)
  <2>1. Done(c) /\ UNCHANGED <<identities, dkim, verdict, verdictLeft, refuted>>
    BY <1>7 DEF PutMailFrom, caches
  <2> QED
    BY <1>1, <2>1, VerdictUnmoved DEF Verified
<1>8. CASE Lookup(c)
  <2>1. Done(c) \/ \E l \in Steps : Continue(c, l)
    BY <1>8 DEF Lookup, Steps
  <2>2. UNCHANGED <<identities, dkim, verdict, verdictLeft, refuted>>
    BY <1>8 DEF Lookup, account, caches
  <2> QED
    BY <1>1, <2>1, <2>2, VerdictUnmoved DEF Verified
<1>9. CASE GetStatus(c)
  <2>1. UNCHANGED <<identities, dkim, verdict, verdictLeft, refuted>>
    BY <1>9 DEF GetStatus, account, caches
  <2>2. CASE Done(c)
    BY <1>1, <2>1, <2>2, VerdictUnmoved DEF Verified
  <2>3. CASE call' = [call EXCEPT ![c].at = "store", ![c].ok = Verified(call[c].domain)]
    <3>1. call[c] \in Frames /\ call[c].domain \in Domains /\ call[c].age \in Nat
      BY <1>0, InCall, Lifetimes DEF Frames
    <3>2. /\ call'[c].ok = Verified(call[c].domain)
          /\ call'[c].domain = call[c].domain /\ call'[c].age = call[c].age
          /\ \A e \in Callers \ {c} : call'[e] = call[e]
      BY <2>3, <3>1 DEF IdentityTypeOK, Frames
    <3>3. ASSUME call'[c].ok
          PROVE  refuted'[call'[c].domain] <= call'[c].age
      <4>1. Verified(call[c].domain)
        BY <3>2, <3>3
      <4>2. refuted[call[c].domain] = 0
        BY <3>1, <4>1 DEF VerdictInv
      <4> QED
        BY <2>1, <3>1, <3>2, <4>2
    <3>4. VerdictFresh'
      BY <2>1 DEF VerdictInv, VerdictFresh, Cached
    <3> QED
      BY <2>1, <3>2, <3>3, <3>4 DEF VerdictInv, Verified
  <2> QED
    BY <1>9, <2>2, <2>3 DEF GetStatus
<1>10. CASE Store(c)
  <2> DEFINE d == call[c].domain
  <2>1. /\ d \in Domains /\ call[c].age \in Nat /\ call[c].age <= MaxLatency
        /\ call[c].at = "store"
    BY <1>0, <1>10, InCall, Lifetimes DEF Store, Frames
  <2>2. /\ verdict' = [verdict EXCEPT ![d] = call[c].ok]
        /\ verdictLeft' = [verdictLeft EXCEPT ![d] = VerifyTTL]
        /\ UNCHANGED <<identities, dkim, refuted>>
    BY <1>10 DEF Store, account
  <2>3. ASSUME NEW e \in Domains, Cached(e)', verdict'[e]
        PROVE  refuted'[e] <= VerifyTTL - verdictLeft'[e] + MaxLatency
    <3>1. CASE e = d
      <4>1. refuted[d] <= call[c].age
        BY <2>1, <2>2, <2>3, <3>1 DEF VerdictInv, IdentityTypeOK
      <4>2. refuted[d] \in Nat
        BY <2>1, Lifetimes DEF IdentityTypeOK
      <4>3. verdictLeft'[e] = VerifyTTL
        BY <2>2, <3>1 DEF IdentityTypeOK
      <4> QED
        BY <2>1, <2>2, <3>1, <4>1, <4>2, <4>3, Lifetimes
    <3>2. CASE e # d
      BY <2>1, <2>2, <2>3, <3>2 DEF VerdictInv, VerdictFresh, Cached, IdentityTypeOK
    <3> QED
      BY <3>1, <3>2
  <2>4. VerdictFresh'
    BY <2>3 DEF VerdictFresh
  <2>5. \A e \in Callers : call'[e] = call[e] \/ call'[e].at # "store"
    BY <1>1, <1>10 DEF Store
  <2>6. \A e \in Callers : call'[e].at = "store" /\ call'[e].ok =>
          refuted'[call'[e].domain] <= call'[e].age
    BY <2>2, <2>5 DEF VerdictInv
  <2> QED
    BY <2>2, <2>4, <2>6 DEF VerdictInv, Verified
<1> QED
  BY <1>2, <1>3, <1>4, <1>5, <1>6, <1>7, <1>8, <1>9, <1>10 DEF CallerStep

\* Every step of the environment, and the beginning of a call.
LEMMA VerdictEnvironment ==
  ASSUME IdentityTypeOK, VerdictInv,
         \/ \E c \in Callers, o \in Operations, d \in Domains : Begin(c, o, d)
         \/ \E d \in Domains : Publish(d) \/ Interfere(d)
         \/ NewIdentityManager
         \/ Tick
  PROVE  VerdictInv'
<1>1. ASSUME NEW c \in Callers, NEW o \in Operations, NEW d \in Domains, Begin(c, o, d)
      PROVE  VerdictInv'
  <2>1. PICK l \in {"lookup", "get", "delete", "count"} :
          call' = [call EXCEPT ![c] = Frame(o, d, l)]
    BY <1>1 DEF Begin
  <2>2. \A e \in Callers : call'[e] = call[e] \/ call'[e].at # "store"
    BY <2>1 DEF IdentityTypeOK, Frame
  <2>3. UNCHANGED <<identities, dkim, verdict, verdictLeft, refuted>>
    BY <1>1 DEF Begin, account, caches
  <2> QED
    BY <2>2, <2>3, VerdictUnmoved DEF Verified
<1>2. ASSUME NEW d \in Domains, Publish(d) \/ Interfere(d)
      PROVE  VerdictInv'
  <2>1. Freshen(identities', dkim') /\ UNCHANGED <<call, verdict, verdictLeft>>
    BY <1>2 DEF Publish, Interfere, caches
  <2> QED
    BY <2>1, FreshenMoves, VerdictUnmoved
<1>3. CASE NewIdentityManager
  <2>1. /\ \A d \in Domains : verdict'[d] = FALSE
        /\ \A c \in Callers : call'[c].at = "idle"
        /\ UNCHANGED <<identities, dkim, refuted>>
    BY <1>3 DEF NewIdentityManager, NoCall, account
  <2> QED
    BY <2>1 DEF VerdictInv, VerdictFresh, Verified
<1>4. CASE Tick
  <2>1. UNCHANGED <<identities, dkim, verdict>>
    BY <1>4 DEF Tick, account
  <2>2. \A d \in Domains : /\ refuted[d] \in Nat /\ refuted'[d] \in Nat
                          /\ refuted'[d] <= refuted[d] + 1
    BY <1>4, Lifetimes DEF Tick, IdentityTypeOK
  <2>3. \A d \in Domains : Verified(d) => refuted'[d] = 0
    BY <1>4 DEF Tick
  <2>4. \A d \in Domains : /\ verdictLeft[d] \in Nat
                          /\ verdictLeft'[d] = Less(verdictLeft[d])
    BY <1>4 DEF Tick, IdentityTypeOK
  <2>5. VerdictFresh'
    <3>1. SUFFICES ASSUME NEW d \in Domains, verdictLeft'[d] > 0, verdict'[d]
                   PROVE  refuted'[d] <= VerifyTTL - verdictLeft'[d] + MaxLatency
      BY DEF VerdictFresh, Cached
    <3>2. verdictLeft[d] > 0 /\ verdictLeft'[d] = verdictLeft[d] - 1
      BY <2>4, <3>1 DEF Less
    <3>3. refuted[d] <= VerifyTTL - verdictLeft[d] + MaxLatency
      BY <2>1, <3>1, <3>2 DEF VerdictInv, VerdictFresh, Cached
    <3>4. /\ refuted[d] \in Nat /\ refuted'[d] \in Nat /\ verdictLeft[d] \in Nat
          /\ refuted'[d] <= refuted[d] + 1
      BY <2>2, <2>4
    <3> QED
      BY <3>2, <3>3, <3>4, Lifetimes
  <2>6. ASSUME NEW c \in Callers, call'[c].at = "store", call'[c].ok
        PROVE  refuted'[call'[c].domain] <= call'[c].age
    <3>1. call[c].at = "store" /\ call[c] \in Frames
      <4>1. call[c].at # "store" => call'[c] = call[c]
        BY <1>4 DEF Tick
      <4> QED
        BY <2>6, <4>1, InCall
    <3>2. call'[c] = [call[c] EXCEPT !.age = call[c].age + 1]
      BY <1>4, <3>1 DEF Tick, Frames
    <3>3. /\ call[c].domain \in Domains /\ call[c].age \in Nat /\ call[c].ok
          /\ call'[c].domain = call[c].domain /\ call'[c].age = call[c].age + 1
      BY <2>6, <3>1, <3>2, Lifetimes DEF Frames
    <3>4. refuted[call[c].domain] <= call[c].age
      BY <3>1, <3>3 DEF VerdictInv
    <3>5. /\ refuted[call[c].domain] \in Nat /\ refuted'[call[c].domain] \in Nat
          /\ refuted'[call[c].domain] <= refuted[call[c].domain] + 1
      BY <2>2, <3>3
    <3> QED
      BY <3>3, <3>4, <3>5
  <2> QED
    BY <2>1, <2>5, <2>6, <2>3 DEF VerdictInv, Verified
<1> QED
  BY <1>1, <1>2, <1>3, <1>4

\* The invariant behind VerdictFresh.
THEOREM VerdictInductive == IdentitySpec => []VerdictInv
<1>1. IdentityInit => VerdictInv
  <2>1. SUFFICES ASSUME IdentityInit PROVE VerdictInv
    OBVIOUS
  <2>2. \A d \in Domains : ~ Verified(d) /\ verdict[d] = FALSE
    BY <2>1 DEF IdentityInit, Verified
  <2>3. \A c \in Callers : call[c].at = "idle"
    BY <2>1 DEF IdentityInit, NoCall
  <2> QED
    BY <2>2, <2>3 DEF VerdictInv, VerdictFresh
<1>2. IdentityTypeOK /\ VerdictInv /\ [IdentityNext]_identityVars => VerdictInv'
  <2>1. SUFFICES ASSUME IdentityTypeOK, VerdictInv, [IdentityNext]_identityVars
                 PROVE  VerdictInv'
    OBVIOUS
  <2>2. CASE IdentityNext
    BY <2>1, <2>2, VerdictCaller, VerdictEnvironment DEF IdentityNext
  <2>3. CASE UNCHANGED identityVars
    BY <2>1, <2>3 DEF identityVars, account, caches, VerdictInv, VerdictFresh, Verified, Cached
  <2> QED
    BY <2>1, <2>2, <2>3
<1> QED
  BY <1>1, <1>2, IdentityTypeCorrect, PTL DEF IdentitySpec

(***************************************************************************)
(* No domain passes the gate on a verdict that SES withdrew longer ago     *)
(* than its lifetime and its way to the cache (identity.go:370-388).       *)
(***************************************************************************)
THEOREM VerdictSafe == IdentitySpec => []VerdictFresh
<1>1. VerdictInv => VerdictFresh
  BY DEF VerdictInv
<1> QED
  BY <1>1, VerdictInductive, PTL
=============================================================================
