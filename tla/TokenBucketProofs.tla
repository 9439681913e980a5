-------------------------- MODULE TokenBucketProofs --------------------------
(***************************************************************************)
(* The limiter keeps its rate and wakes its sleepers in time, for every    *)
(* rate (whole, fractional, below one per second), every clock resolution  *)
(* and every number of goroutines.                                         *)
(***************************************************************************)
EXTENDS TokenBucket, TLAPS

\* The conversion to time.Duration rounds down.
LEMMA DivisionRoundsDown ==
  ASSUME NEW n \in Nat, NEW d \in Nat \ {0}
  PROVE  n \div d \in Nat /\ d * (n \div d) <= n
OBVIOUS

\* One tick more is at most one Rate more.
LEMMA ProductGrows ==
  ASSUME NEW m \in Nat, NEW n \in Nat, NEW r \in Nat, n <= m + 1
  PROVE  /\ m * r \in Nat
         /\ n * r \in Nat
         /\ n * r <= m * r + r
<1>1. (m + 1) * r = m * r + r
  OBVIOUS
<1>2. PICK d \in Nat : m + 1 = n + d
  <2>1. (m + 1) - n \in Nat /\ m + 1 = n + ((m + 1) - n)
    OBVIOUS
  <2> QED
    BY <2>1
<1>3. (n + d) * r = n * r + d * r /\ d * r \in Nat /\ n * r \in Nat /\ m * r \in Nat
  OBVIOUS
<1> QED
  BY <1>1, <1>2, <1>3

LEMMA CapNat == Cap \in Nat
BY BucketAssumption DEF Cap

\* The shorter of two lengths, as arithmetic sees it.
LEMMA LeastProperties ==
  ASSUME NEW m \in Nat, NEW n \in Nat
  PROVE  /\ Least(m, n) \in Nat
         /\ Least(m, n) <= m
         /\ Least(m, n) <= n
         /\ n <= m => Least(m, n) = n
BY DEF Least

\* The bucket after the next refill, in the next state.
LEMMA RefilledNext == Refilled' = Least(Cap, tokens' + age' * Rate)
BY DEF Refilled, Least, Cap

\* refill() leaves between nothing and Cap tokens in the bucket, never less
\* than it found, and everything that has arrived if there is room.
LEMMA RefilledBounds ==
  ASSUME TypeOK
  PROVE  /\ Refilled \in 0 .. Cap
         /\ tokens <= Refilled
         /\ Refilled <= tokens + age * Rate
<1>1. age * Rate \in Nat /\ tokens \in Nat /\ tokens <= Cap
  BY BucketAssumption, CapNat DEF TypeOK
<1>2. tokens + age * Rate \in Nat
  BY <1>1
<1> QED
  BY <1>1, <1>2, CapNat DEF Refilled, Least

\* A tick brings at most Rate.
LEMMA TickBrings ==
  ASSUME TypeOK, Tick
  PROVE  Refilled' \in 0 .. Cap /\ Refilled' <= Refilled + Rate
<1>1. age' <= age + 1 /\ age' \in Nat /\ age \in Nat
  BY BucketAssumption DEF TypeOK, Tick, Least
<1>2. Rate \in Nat
  BY BucketAssumption
<1>3. /\ age' * Rate <= age * Rate + Rate
      /\ age * Rate \in Nat
      /\ age' * Rate \in Nat
  BY <1>1, <1>2, ProductGrows
<1>4. tokens \in Nat /\ tokens' = tokens
  BY CapNat DEF Tick, TypeOK
<1> DEFINE before == tokens + age * Rate
           after == tokens + age' * Rate
<1>5. before \in Nat /\ after \in Nat /\ after <= before + Rate
  BY <1>2, <1>3, <1>4
<1>6. Refilled = Least(Cap, before) /\ Refilled' = Least(Cap, after)
  BY <1>4, RefilledNext DEF Refilled
<1> HIDE DEF before, after
<1> QED
  BY <1>2, <1>5, <1>6, CapNat DEF Least

\* And it brings Rate, if there is room: a bucket nobody looked at for
\* Horizon ticks is full.
LEMMA TickBringsAll ==
  ASSUME TypeOK, Tick
  PROVE  Refilled' = Cap \/ Refilled' >= Refilled + Rate
<1>1. age \in Nat /\ tokens \in Nat /\ tokens' = tokens /\ Horizon \in Nat /\ Rate \in Nat
  BY CapNat, BucketAssumption DEF Tick, TypeOK
<1>2. Refilled' = Least(Cap, tokens + age' * Rate)
  BY <1>1, RefilledNext
<1>3. CASE age' = Horizon
  <2>1. Horizon * Rate \in Nat /\ Horizon * Rate >= Cap
    BY BucketAssumption
  <2>2. tokens + Horizon * Rate >= Cap /\ tokens + Horizon * Rate \in Nat
    BY <1>1, <2>1, CapNat
  <2> QED
    BY <1>2, <1>3, <2>2, CapNat DEF Least
<1>4. CASE age' = age + 1
  <2>1. (age + 1) * Rate = age * Rate + Rate /\ age * Rate \in Nat
    BY <1>1
  <2> DEFINE before == tokens + age * Rate
  <2>2. before \in Nat /\ tokens + age' * Rate = before + Rate
    BY <1>1, <1>4, <2>1
  <2>3. Refilled = Least(Cap, before) /\ Refilled' = Least(Cap, before + Rate)
    BY <1>2, <2>2 DEF Refilled
  <2> HIDE DEF before
  <2> QED
    BY <1>1, <2>2, <2>3, CapNat DEF Least
<1>5. age' = Horizon \/ age' = age + 1
  BY DEF Tick, Least
<1> QED
  BY <1>3, <1>4, <1>5

\* After refill() nothing more is due until time passes.
LEMMA RefillOnce ==
  ASSUME TypeOK, age' = 0, tokens' \in 0 .. Cap
  PROVE  Refilled' = tokens'
<1>1. age' * Rate = 0
  BY BucketAssumption
<1> QED
  BY <1>1, CapNat, RefilledNext DEF Least

\* The steps that touch neither the bucket nor the clock.
LEMMA BucketUntouched ==
  ASSUME UNCHANGED <<tokens, age>>
  PROVE  Refilled' = Refilled
BY RefilledNext DEF Refilled

\* What the critical section leaves in the bucket, with and without a token.
LEMMA TryBucket ==
  ASSUME TypeOK, NEW w \in Waiters, Try(w)
  PROVE  \/ /\ HasToken(Refilled)
            /\ tokens' = Refilled - Unit
            /\ tokens' \in 0 .. Cap
            /\ Refilled' = Refilled - Unit
            /\ recent' = [k \in 0 .. Window |-> recent[k] + 1]
            /\ UNCHANGED timer
         \/ /\ ~ HasToken(Refilled)
            /\ tokens' = Refilled
            /\ tokens' \in 0 .. Cap
            /\ Refilled' = Refilled
            /\ timer' = [timer EXCEPT ![w] = WaitDur(Refilled)]
            /\ UNCHANGED recent
<1>1. Refilled \in 0 .. Cap /\ Unit \in Nat /\ Cap \in Nat
  BY RefilledBounds, CapNat, BucketAssumption
<1>2. age' = 0
  BY DEF Try
<1>3. CASE HasToken(Refilled) /\ tokens' = Refilled - Unit
  <2>1. tokens' \in 0 .. Cap
    BY <1>1, <1>3 DEF HasToken
  <2> QED
    BY <1>2, <1>3, <2>1, RefillOnce DEF Try
<1>4. CASE ~ HasToken(Refilled) /\ tokens' = Refilled
  <2>1. tokens' \in 0 .. Cap
    BY <1>1, <1>4
  <2> QED
    BY <1>2, <1>4, <2>1, RefillOnce DEF Try
<1> QED
  BY <1>3, <1>4 DEF Try

\* How long a waiter sleeps: a natural number of ticks, and not too many.
LEMMA WaitDurBounds ==
  ASSUME TypeOK, ~ HasToken(Refilled)
  PROVE  WaitDur(Refilled) \in Nat /\ Refilled + Rate * WaitDur(Refilled) <= Unit
<1> DEFINE held == Refilled
           deficit == Unit - held
<1>1. held \in Nat /\ deficit \in Nat /\ held + deficit = Unit
  BY RefilledBounds, CapNat, BucketAssumption DEF HasToken
<1>2. deficit \div Rate \in Nat /\ Rate * (deficit \div Rate) <= deficit
  BY <1>1, DivisionRoundsDown, BucketAssumption
<1>3. Rate \in Nat /\ Rate * (deficit \div Rate) \in Nat
  BY <1>2, BucketAssumption
<1>4. WaitDur(Refilled) = deficit \div Rate
  BY DEF WaitDur
<1> DEFINE product == Rate * (deficit \div Rate)
<1>5. held + product <= held + deficit
  BY <1>1, <1>2, <1>3
<1> QED
  BY <1>1, <1>2, <1>4, <1>5

-----------------------------------------------------------------------------
\* The bucket never overflows or goes negative, whatever the waiters do.
THEOREM TypeCorrect == Spec => []TypeOK
<1>1. Init => TypeOK
  BY CapNat, BucketAssumption DEF Init, TypeOK
<1>2. TypeOK /\ [Next]_vars => TypeOK'
  <2> SUFFICES ASSUME TypeOK, [Next]_vars PROVE TypeOK'
    OBVIOUS
  <2>1. ASSUME NEW w \in Waiters, Try(w) PROVE TypeOK'
    <3>1. tokens' \in 0 .. Cap
      BY <2>1, TryBucket
    <3>2. age' \in 0 .. Horizon
      BY <2>1, BucketAssumption DEF Try
    <3>3. timer' \in [Waiters -> Nat]
      BY <2>1, TryBucket, WaitDurBounds DEF TypeOK
    <3>4. recent' \in [0 .. Window -> Nat]
      BY <2>1, TryBucket DEF TypeOK
    <3>5. /\ pc' \in [Waiters -> {"idle", "try", "sleep", "granted", "failed"}]
          /\ ctxDone' \in [Waiters -> BOOLEAN]
      BY <2>1 DEF Try, TypeOK
    <3> QED
      BY <3>1, <3>2, <3>3, <3>4, <3>5, CapNat DEF TypeOK, Cap
  <2>2. ASSUME NEW w \in Waiters, Call(w) \/ Wake(w) \/ Abort(w) \/ Return(w) \/ Cancel(w)
        PROVE  TypeOK'
    <3>1. tokens' \in 0 .. Cap /\ age' \in 0 .. Horizon /\ recent' \in [0 .. Window -> Nat]
      BY <2>2 DEF Call, Wake, Abort, Return, Cancel, TypeOK
    <3>2. pc' \in [Waiters -> {"idle", "try", "sleep", "granted", "failed"}]
      BY <2>2 DEF Call, Wake, Abort, Return, Cancel, TypeOK
    <3>3. timer' \in [Waiters -> Nat]
      BY <2>2 DEF Call, Wake, Abort, Return, Cancel, TypeOK
    <3>4. ctxDone' \in [Waiters -> BOOLEAN]
      BY <2>2 DEF Call, Wake, Abort, Return, Cancel, TypeOK
    <3> QED
      BY <3>1, <3>2, <3>3, <3>4 DEF TypeOK, Cap
  <2>3. CASE Available
    <3>1. tokens' \in 0 .. Cap
      BY <2>3, RefilledBounds DEF Available
    <3> QED
      BY <2>3, <3>1, BucketAssumption DEF Available, TypeOK, Cap
  <2>4. CASE Tick
    <3>1. age' \in 0 .. Horizon
      BY <2>4, BucketAssumption DEF Tick, TypeOK, Least
    <3>2. timer' \in [Waiters -> Nat]
      BY <2>4 DEF Tick, TypeOK
    <3>3. recent' \in [0 .. Window -> Nat]
      BY <2>4, BucketAssumption DEF Tick, TypeOK
    <3> QED
      BY <2>4, <3>1, <3>2, <3>3 DEF Tick, TypeOK, Cap
  <2>5. CASE UNCHANGED vars
    BY <2>5 DEF vars, TypeOK, Cap
  <2> QED
    BY <2>1, <2>2, <2>3, <2>4, <2>5 DEF Next
<1> QED
  BY <1>1, <1>2, PTL DEF Spec

\* In every window, however the waiters are scheduled.
THEOREM RateKept == Spec => []RateBound
<1>1. Init => RateBound
  <2> SUFFICES ASSUME Init, NEW k \in 0 .. Window
               PROVE  Unit * recent[k] + Refilled <= Cap + Rate * k
    BY DEF RateBound
  <2>1. recent[k] = 0 /\ Unit * 0 = 0
    BY BucketAssumption DEF Init
  <2>2. TypeOK
    BY CapNat, BucketAssumption DEF Init, TypeOK
  <2>3. Refilled \in Nat /\ Refilled <= Cap
    BY <2>2, RefilledBounds, CapNat
  <2>4. Rate * k \in Nat
    BY BucketAssumption
  <2> QED
    BY <2>1, <2>3, <2>4, CapNat
<1>2. TypeOK /\ RateBound /\ [Next]_vars => RateBound'
  <2> SUFFICES ASSUME TypeOK, RateBound, [Next]_vars, NEW k \in 0 .. Window
               PROVE  Unit * recent'[k] + Refilled' <= Cap + Rate * k
    BY DEF RateBound, Cap
  <2>0. /\ Unit * recent[k] + Refilled <= Cap + Rate * k
        /\ recent[k] \in Nat
        /\ Refilled \in Nat
        /\ Rate * k \in Nat
    <3>1. Unit * recent[k] + Refilled <= Cap + Rate * k
      BY DEF RateBound
    <3>2. recent[k] \in Nat
      BY DEF TypeOK
    <3>3. Refilled \in Nat
      BY RefilledBounds, CapNat
    <3>4. k \in Nat /\ Rate \in Nat
      BY BucketAssumption
    <3>5. Rate * k \in Nat
      BY <3>4
    <3> QED
      BY <3>1, <3>2, <3>3, <3>5
  <2>1. ASSUME NEW w \in Waiters, Try(w)
        PROVE  Unit * recent'[k] + Refilled' <= Cap + Rate * k
    <3>1. CASE recent'[k] = recent[k] + 1 /\ Refilled' = Refilled - Unit
      <4>1. Unit * (recent[k] + 1) = Unit * recent[k] + Unit /\ Unit * recent[k] \in Nat
        BY <2>0, BucketAssumption
      <4> QED
        BY <2>0, <3>1, <4>1, CapNat, BucketAssumption
    <3>2. CASE UNCHANGED recent /\ Refilled' = Refilled
      BY <2>0, <3>2
    <3> QED
      BY <2>1, <3>1, <3>2, TryBucket
  <2>2. ASSUME NEW w \in Waiters, Call(w) \/ Wake(w) \/ Abort(w) \/ Return(w) \/ Cancel(w)
        PROVE  Unit * recent'[k] + Refilled' <= Cap + Rate * k
    BY <2>0, <2>2, BucketUntouched DEF Call, Wake, Abort, Return, Cancel
  <2>3. CASE Available
    BY <2>0, <2>3, RefillOnce, RefilledBounds DEF Available
  <2>4. CASE Tick
    <3>1. CASE k = 0
      <4>1. recent'[k] = 0 /\ Unit * 0 = 0 /\ Rate * 0 = 0
        BY <2>4, <3>1, BucketAssumption DEF Tick
      <4>2. Refilled' <= Cap /\ Refilled' \in Nat
        BY <2>4, TickBrings, CapNat
      <4> QED
        BY <3>1, <4>1, <4>2, CapNat
    <3>2. CASE k # 0
      <4>1. k - 1 \in 0 .. Window /\ recent'[k] = recent[k - 1]
        BY <2>4, <3>2, BucketAssumption DEF Tick
      <4>2. Unit * recent[k - 1] + Refilled <= Cap + Rate * (k - 1)
        BY <4>1 DEF RateBound
      <4>3. Unit * recent[k - 1] \in Nat
        BY <4>1, BucketAssumption DEF TypeOK
      <4>4. Rate * (k - 1) = Rate * k - Rate /\ Rate \in Nat
        BY BucketAssumption
      <4>5. Refilled' <= Refilled + Rate /\ Refilled' \in Int
        BY <2>4, TickBrings, CapNat
      <4> QED
        BY <2>0, <4>1, <4>2, <4>3, <4>4, <4>5, CapNat
    <3> QED
      BY <3>1, <3>2
  <2>5. CASE UNCHANGED vars
    BY <2>0, <2>5, BucketUntouched DEF vars
  <2> QED
    BY <2>1, <2>2, <2>3, <2>4, <2>5 DEF Next
<1> QED
  BY <1>1, <1>2, TypeCorrect, PTL DEF Spec

\* Nobody sleeps on a token that is there.
THEOREM NobodyOversleeps == Spec => []NoOversleep
<1>1. Init => NoOversleep
  BY DEF Init, NoOversleep
<1>2. TypeOK /\ NoOversleep /\ [Next]_vars => NoOversleep'
  <2> SUFFICES ASSUME TypeOK, NoOversleep, [Next]_vars, NEW u \in Waiters, timer'[u] > 0
               PROVE  Refilled' + Rate * timer'[u] <= Unit
    BY DEF NoOversleep
  <2>0. /\ timer[u] \in Nat
        /\ timer[u] > 0 => Refilled + Rate * timer[u] <= Unit
        /\ Refilled \in Nat
        /\ Rate * timer[u] \in Nat
        /\ Unit \in Nat
        /\ Rate \in Nat
    BY RefilledBounds, CapNat, BucketAssumption DEF NoOversleep, TypeOK
  <2>1. ASSUME NEW w \in Waiters, Try(w)
        PROVE  Refilled' + Rate * timer'[u] <= Unit
    <3>1. CASE UNCHANGED timer /\ Refilled' = Refilled - Unit
      BY <2>0, <3>1
    <3>2. CASE /\ ~ HasToken(Refilled)
               /\ Refilled' = Refilled
               /\ timer' = [timer EXCEPT ![w] = WaitDur(Refilled)]
      <4>1. CASE u = w
        BY <3>2, <4>1, WaitDurBounds DEF TypeOK
      <4>2. CASE u # w
        BY <2>0, <3>2, <4>2 DEF TypeOK
      <4> QED
        BY <4>1, <4>2
    <3> QED
      BY <2>1, <3>1, <3>2, TryBucket
  <2>2. ASSUME NEW w \in Waiters, Call(w) \/ Wake(w) \/ Abort(w) \/ Return(w) \/ Cancel(w)
        PROVE  Refilled' + Rate * timer'[u] <= Unit
    <3>1. Refilled' = Refilled
      BY <2>2, BucketUntouched DEF Call, Wake, Abort, Return, Cancel
    <3>2. timer'[u] = timer[u]
      BY <2>2 DEF Call, Wake, Abort, Return, Cancel, TypeOK
    <3> QED
      BY <2>0, <3>1, <3>2
  <2>3. CASE Available
    BY <2>0, <2>3, RefillOnce, RefilledBounds DEF Available
  <2>4. CASE Tick
    <3>1. timer[u] > 0 /\ timer'[u] = timer[u] - 1
      BY <2>0, <2>4 DEF Tick
    <3>2. Rate * (timer[u] - 1) = Rate * timer[u] - Rate
      BY <2>0
    <3>3. Refilled' <= Refilled + Rate /\ Refilled' \in Int
      BY <2>4, TickBrings, CapNat
    <3> QED
      BY <2>0, <3>1, <3>2, <3>3
  <2>5. CASE UNCHANGED vars
    BY <2>0, <2>5, BucketUntouched DEF vars
  <2> QED
    BY <2>1, <2>2, <2>3, <2>4, <2>5 DEF Next
<1> QED
  BY <1>1, <1>2, TypeCorrect, PTL DEF Spec

-----------------------------------------------------------------------------
\* What one more tick may leave undone is at most Rate.
LEMMA ShareGrows ==
  ASSUME NEW k \in Nat, k # 0
  PROVE  /\ Least(Cap, Rate * k) <= Least(Cap, Rate * (k - 1)) + Rate
         /\ Least(Cap, Rate * k) \in Nat /\ Least(Cap, Rate * (k - 1)) \in Nat
         /\ Least(Cap, Rate * k) <= Cap
<1>1. /\ Rate * (k - 1) + Rate = Rate * k
      /\ k - 1 \in Nat
      /\ Rate \in Nat
  BY BucketAssumption
<1>2. Rate * (k - 1) \in Nat /\ Rate * k \in Nat
  BY <1>1
<1> DEFINE less == Rate * (k - 1)
           more == Rate * k
<1> HIDE DEF less, more
<1>3. less + Rate = more /\ less \in Nat /\ more \in Nat
  BY <1>1, <1>2 DEF less, more
<1>4. Least(Cap, more) <= Least(Cap, less) + Rate
  BY <1>1, <1>3, CapNat DEF Least
<1> QED
  BY <1>3, <1>4, CapNat, LeastProperties DEF less, more

(***************************************************************************)
(* No refill loses anything: the counterpart of RateKept.  The two pin     *)
(* down what a window of k ticks grants to within what the bucket holds.   *)
(***************************************************************************)
THEOREM NothingLost == Spec => []NothingWasted
<1> DEFINE Share(k) == Least(Cap, Rate * k)
<1>0. ASSUME NEW k \in 0 .. Window PROVE Share(k) \in Nat /\ Share(k) <= Cap
  <2>1. Rate * k \in Nat
    BY BucketAssumption
  <2> QED
    BY <2>1, CapNat, LeastProperties
<1>1. Init => NothingWasted
  <2> SUFFICES ASSUME Init, NEW k \in 0 .. Window
               PROVE  Unit * recent[k] + Refilled >= Share(k)
    BY DEF NothingWasted
  <2>1. recent[k] = 0 /\ Unit * 0 = 0
    BY BucketAssumption DEF Init
  <2>2. TypeOK
    BY CapNat, BucketAssumption DEF Init, TypeOK
  <2>3. Refilled = Cap
    BY <2>2, RefilledBounds, CapNat DEF Init
  <2> HIDE DEF Share
  <2> QED
    BY <1>0, <2>1, <2>3, CapNat
<1>2. TypeOK /\ NothingWasted /\ [Next]_vars => NothingWasted'
  <2> SUFFICES ASSUME TypeOK, NothingWasted, [Next]_vars, NEW k \in 0 .. Window
               PROVE  Unit * recent'[k] + Refilled' >= Share(k)
    BY DEF NothingWasted, Cap, Least
  <2>0. /\ Unit * recent[k] + Refilled >= Share(k)
        /\ recent[k] \in Nat
        /\ Refilled \in Nat
        /\ Unit * recent[k] \in Nat
    <3>1. Unit * recent[k] + Refilled >= Share(k)
      BY DEF NothingWasted
    <3>2. recent[k] \in Nat /\ Unit \in Nat
      BY BucketAssumption DEF TypeOK
    <3>3. Refilled \in Nat
      BY RefilledBounds, CapNat
    <3>4. Unit * recent[k] \in Nat
      BY <3>2
    <3> HIDE DEF Share
    <3> QED
      BY <3>1, <3>2, <3>3, <3>4
  <2>1. ASSUME NEW w \in Waiters, Try(w)
        PROVE  Unit * recent'[k] + Refilled' >= Share(k)
    <3>1. CASE recent'[k] = recent[k] + 1 /\ Refilled' = Refilled - Unit
      <4>1. Unit * (recent[k] + 1) = Unit * recent[k] + Unit
        BY <2>0, BucketAssumption
      <4>2. Unit * recent'[k] + Refilled' = Unit * recent[k] + Refilled
        BY <2>0, <3>1, <4>1, BucketAssumption
      <4> QED
        BY <2>0, <4>2
    <3>2. CASE UNCHANGED recent /\ Refilled' = Refilled
      BY <2>0, <3>2
    <3> QED
      BY <2>1, <3>1, <3>2, TryBucket
  <2>2. ASSUME NEW w \in Waiters, Call(w) \/ Wake(w) \/ Abort(w) \/ Return(w) \/ Cancel(w)
        PROVE  Unit * recent'[k] + Refilled' >= Share(k)
    BY <2>0, <2>2, BucketUntouched DEF Call, Wake, Abort, Return, Cancel
  <2>3. CASE Available
    BY <2>0, <2>3, RefillOnce, RefilledBounds DEF Available
  <2>4. CASE Tick
    <3>1. CASE k = 0
      <4>1. recent'[k] = 0 /\ Unit * 0 = 0 /\ Rate * 0 = 0
        BY <2>4, <3>1, BucketAssumption DEF Tick
      <4>2. Refilled' \in Nat
        BY <2>4, TickBrings, CapNat
      <4>3. Share(k) = 0
        BY <3>1, <4>1, CapNat DEF Least
      <4> QED
        BY <4>1, <4>2, <4>3
    <3>2. CASE k # 0
      <4>1. k - 1 \in 0 .. Window /\ recent'[k] = recent[k - 1]
        BY <2>4, <3>2, BucketAssumption DEF Tick
      <4>2. Unit * recent[k - 1] + Refilled >= Share(k - 1)
        BY <4>1 DEF NothingWasted
      <4>3. Unit * recent[k - 1] \in Nat
        BY <4>1, BucketAssumption DEF TypeOK
      <4>4. /\ Share(k) <= Share(k - 1) + Rate
            /\ Share(k) \in Nat /\ Share(k - 1) \in Nat
            /\ Share(k) <= Cap
        BY <3>2, ShareGrows
      <4>5. Refilled' \in Nat /\ (Refilled' = Cap \/ Refilled' >= Refilled + Rate)
        BY <2>4, TickBrings, TickBringsAll, CapNat
      <4> HIDE DEF Share
      <4>6. Unit * recent[k - 1] + Refilled' >= Share(k)
        BY <2>0, <4>2, <4>3, <4>4, <4>5, CapNat, BucketAssumption
      <4> QED
        BY <4>1, <4>6
    <3> QED
      BY <3>1, <3>2
  <2>5. CASE UNCHANGED vars
    BY <2>0, <2>5, BucketUntouched DEF vars
  <2> QED
    BY <2>1, <2>2, <2>3, <2>4, <2>5 DEF Next
<1> QED
  BY <1>1, <1>2, TypeCorrect, PTL DEF Spec

\* After k ticks without a grant, with Rate * k worth a token, one is there.
TokenAfterQuiet ==
  \A k \in 0 .. Window : recent[k] = 0 /\ Rate * k >= Unit => HasToken(Refilled)

(***************************************************************************)
(* From one send per second upwards nobody can be kept waiting by an empty *)
(* bucket: if nothing was granted for as long as a token takes to arrive,  *)
(* whoever looks next finds one.  It is the reason why KeepsGranting holds *)
(* once the scheduler lets somebody look.                                  *)
(***************************************************************************)
THEOREM TokenArrives ==
  ASSUME Cap >= Unit
  PROVE  Spec => []TokenAfterQuiet
<1>1. TypeOK /\ NothingWasted => TokenAfterQuiet
  <2> SUFFICES ASSUME TypeOK, NothingWasted, NEW k \in 0 .. Window,
                      recent[k] = 0, Rate * k >= Unit
               PROVE  HasToken(Refilled)
    BY DEF TokenAfterQuiet
  <2>1. Unit * recent[k] = 0 /\ Rate * k \in Nat /\ Unit \in Nat
    BY BucketAssumption
  <2>2. Least(Cap, Rate * k) >= Unit
    BY <2>1, CapNat DEF Least
  <2>3. Unit * recent[k] + Refilled >= Least(Cap, Rate * k)
    BY DEF NothingWasted
  <2>4. Refilled \in Nat /\ Least(Cap, Rate * k) \in Nat
    BY <2>1, RefilledBounds, CapNat, LeastProperties
  <2> QED
    BY <2>1, <2>2, <2>3, <2>4 DEF HasToken
<1> QED
  BY <1>1, NothingLost, TypeCorrect, PTL

\* No waiter has ever been granted a token.
NothingGranted ==
  (\A w \in Waiters : pc[w] # "granted") /\ (\A k \in 0 .. Window : recent[k] = 0)

(***************************************************************************)
(* The finding about slow rates for every rate below one per second, not   *)
(* only the one TokenBucketSlow runs: no Wait ever gets a token            *)
(* (ratelimit.go:24-31, 51).                                               *)
(***************************************************************************)
THEOREM SlowGrantsNothing ==
  ASSUME Cap < Unit
  PROVE  Spec => []NothingGranted
<1>1. Init => NothingGranted
  BY DEF Init, NothingGranted
<1>2. TypeOK /\ NothingGranted /\ [Next]_vars => NothingGranted'
  <2> SUFFICES ASSUME TypeOK, NothingGranted, [Next]_vars PROVE NothingGranted'
    OBVIOUS
  <2>1. ~ HasToken(Refilled)
    BY RefilledBounds, CapNat, BucketAssumption DEF HasToken
  <2>2. ASSUME NEW w \in Waiters, Try(w) PROVE NothingGranted'
    BY <2>1, <2>2 DEF Try, NothingGranted, TypeOK
  <2>3. ASSUME NEW w \in Waiters, Call(w) \/ Wake(w) \/ Abort(w) \/ Return(w) \/ Cancel(w)
        PROVE  NothingGranted'
    BY <2>3 DEF Call, Wake, Abort, Return, Cancel, NothingGranted, TypeOK
  <2>4. CASE Available
    BY <2>4 DEF Available, NothingGranted
  <2>5. CASE Tick
    <3>1. ASSUME NEW k \in 0 .. Window PROVE recent'[k] = 0
      <4>1. CASE k = 0
        BY <2>5, <4>1 DEF Tick
      <4>2. CASE k # 0
        <5>1. k - 1 \in 0 .. Window
          BY <4>2, BucketAssumption
        <5> QED
          BY <2>5, <4>2, <5>1 DEF Tick, NothingGranted
      <4> QED
        BY <4>1, <4>2
    <3> QED
      BY <2>5, <3>1 DEF Tick, NothingGranted
  <2>6. CASE UNCHANGED vars
    BY <2>6 DEF vars, NothingGranted
  <2> QED
    BY <2>2, <2>3, <2>4, <2>5, <2>6 DEF Next
<1> QED
  BY <1>1, <1>2, TypeCorrect, PTL DEF Spec
=============================================================================
