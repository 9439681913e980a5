----------------------------- MODULE TokenBucket -----------------------------
(***************************************************************************)
(* The send-rate limiter (backend/ses/ratelimit.go): any number of         *)
(* goroutines in Wait over one bucket of `tokens'.                         *)
(*                                                                         *)
(* Time is discrete and relative.  A tick is the resolution of the clock   *)
(* and of time.Duration; tokens are counted in parts of which `Unit' make  *)
(* one token and `Rate' arrive per tick, so the SendRate is                *)
(* Rate * TicksPerSecond \div Unit sends per second.  The lock is held for *)
(* one step: what happens under it is one action.                          *)
(***************************************************************************)
EXTENDS Integers

CONSTANTS
  Waiters,         \* goroutines that call Wait
  Rate,            \* parts of a token that arrive per tick
  Unit,            \* parts that make one token
  TicksPerSecond,
  Horizon,         \* bound of age: after so long the bucket is full anyway
  Window           \* longest window in which grants are counted, in ticks

Cap == Rate * TicksPerSecond  \* one second worth of tokens

ASSUME BucketAssumption ==
  /\ Rate \in Nat \ {0}
  /\ Unit \in Nat \ {0}
  /\ TicksPerSecond \in Nat \ {0}
  /\ Horizon \in Nat
  /\ Rate * Horizon >= Cap
  /\ Window \in Nat

VARIABLES
  tokens,  \* tb.tokens, in parts
  age,     \* time since tb.lastTime
  pc,      \* where each waiter is in Wait
  timer,   \* what is left of each waiter's waitDur
  ctxDone, \* whether each waiter's context is cancelled
  recent   \* history: recent[k] grants were made since k ticks ago

vars == <<tokens, age, pc, timer, ctxDone, recent>>

Least(m, n) == IF m < n THEN m ELSE n

\* Mutant: the elapsed time is credited in whole tokens and the rest is lost.
WholeTokens == Least(Cap, tokens + ((age * Rate) \div Unit) * Unit)

\* Mutant: what arrives is added without regard to the capacity.
Uncapped == tokens + age * Rate

\* tb.tokens after refill().
Refilled == Least(Cap, tokens + age * Rate)

\* Mutant: the next token is waited for one tick too long.
RoundedUp(held) == (Unit - held) \div Rate + 1

\* deficit / rate, truncated by the conversion to time.Duration.
WaitDur(held) == (Unit - held) \div Rate

Init ==
  /\ tokens = Cap
  /\ age = 0
  /\ pc = [w \in Waiters |-> "idle"]
  /\ timer = [w \in Waiters |-> 0]
  /\ ctxDone = [w \in Waiters |-> FALSE]
  /\ recent = [k \in 0 .. Window |-> 0]

Call(w) ==
  /\ pc[w] = "idle"
  /\ pc' = [pc EXCEPT ![w] = "try"]
  /\ UNCHANGED <<tokens, age, timer, ctxDone, recent>>

\* Mutant: the first token is granted on credit.
EnoughForOne(held) == held > 0

HasToken(held) == held >= Unit

\* The critical section of Wait: refill, then take a token or set the timer.
Try(w) ==
  /\ pc[w] = "try"
  /\ age' = 0
  /\ \/ /\ HasToken(Refilled)
        /\ tokens' = Refilled - Unit
        /\ pc' = [pc EXCEPT ![w] = "granted"]
        /\ recent' = [k \in 0 .. Window |-> recent[k] + 1]
        /\ UNCHANGED timer
     \/ /\ ~ HasToken(Refilled)
        /\ tokens' = Refilled
        /\ pc' = [pc EXCEPT ![w] = "sleep"]
        /\ timer' = [timer EXCEPT ![w] = WaitDur(Refilled)]
        /\ UNCHANGED recent
  /\ UNCHANGED ctxDone

\* <-time.After(waitDur); also when the context is cancelled, since select
\* chooses among the cases that are ready.
Wake(w) ==
  /\ pc[w] = "sleep"
  /\ timer[w] = 0
  /\ pc' = [pc EXCEPT ![w] = "try"]
  /\ UNCHANGED <<tokens, age, timer, ctxDone, recent>>

\* <-ctx.Done()
Abort(w) ==
  /\ pc[w] = "sleep"
  /\ ctxDone[w]
  /\ pc' = [pc EXCEPT ![w] = "failed"]
  /\ timer' = [timer EXCEPT ![w] = 0]
  /\ UNCHANGED <<tokens, age, ctxDone, recent>>

\* The caller has its answer; its next call brings a fresh context.
Return(w) ==
  /\ pc[w] \in {"granted", "failed"}
  /\ pc' = [pc EXCEPT ![w] = "idle"]
  /\ ctxDone' = [ctxDone EXCEPT ![w] = FALSE]
  /\ UNCHANGED <<tokens, age, timer, recent>>

\* The context of waiter w is cancelled, or its deadline passes.
Cancel(w) ==
  /\ ~ ctxDone[w]
  /\ ctxDone' = [ctxDone EXCEPT ![w] = TRUE]
  /\ UNCHANGED <<tokens, age, pc, timer, recent>>

\* Available() refills too.
Available ==
  /\ tokens' = Refilled
  /\ age' = 0
  /\ UNCHANGED <<pc, timer, ctxDone, recent>>

\* One tick passes; a goroutine may be scheduled any time after its timer.
Tick ==
  /\ age' = Least(Horizon, age + 1)
  /\ timer' = [w \in Waiters |-> IF timer[w] > 0 THEN timer[w] - 1 ELSE 0]
  /\ recent' = [k \in 0 .. Window |-> IF k = 0 THEN 0 ELSE recent[k - 1]]
  /\ UNCHANGED <<tokens, pc, ctxDone>>

Next ==
  \/ \E w \in Waiters : \/ Call(w) \/ Try(w) \/ Wake(w) \/ Abort(w) \/ Return(w)
                        \/ Cancel(w)
  \/ Available
  \/ Tick

Spec == Init /\ [][Next]_vars

(***************************************************************************)
(* Time passes, and the Go scheduler runs every goroutine that can run.    *)
(* A waiter whose context is done does not go round the loop for ever:     *)
(* its select finds ctx.Done() ready every time, alone or together with    *)
(* the timer, and chooses evenly among the cases that are ready.           *)
(***************************************************************************)
FairSpec ==
  /\ Spec
  /\ WF_vars(Tick)
  /\ \A w \in Waiters : WF_vars(Try(w)) /\ WF_vars(Wake(w)) /\ SF_vars(Abort(w))

-----------------------------------------------------------------------------
TypeOK ==
  /\ tokens \in 0 .. Cap
  /\ age \in 0 .. Horizon
  /\ pc \in [Waiters -> {"idle", "try", "sleep", "granted", "failed"}]
  /\ timer \in [Waiters -> Nat]
  /\ ctxDone \in [Waiters -> BOOLEAN]
  /\ recent \in [0 .. Window -> Nat]

(***************************************************************************)
(* However many goroutines wait and whenever they wake up, the grants of   *)
(* any k consecutive ticks are at most the burst plus what arrived in      *)
(* those k ticks; what is still in the bucket counts against it too.       *)
(***************************************************************************)
RateBound ==
  \A k \in 0 .. Window : Unit * recent[k] + Refilled <= Cap + Rate * k

(***************************************************************************)
(* No capacity is lost: what any k consecutive ticks brought, as far as it *)
(* fits into the bucket, has been granted since or is still there, however *)
(* often waiters and Available refill in between and whatever fractions    *)
(* of a token they find (ratelimit.go:34-43, 49-53, 71-76).                *)
(***************************************************************************)
NothingWasted ==
  \A k \in 0 .. Window : Unit * recent[k] + Refilled >= Least(Cap, Rate * k)

(***************************************************************************)
(* No goroutine oversleeps: a timer that still runs ends no later than the *)
(* first whole token arrives, although others refill and empty the bucket  *)
(* while it sleeps, so nobody sleeps on a token that is there.             *)
(***************************************************************************)
NoOversleep ==
  \A w \in Waiters : timer[w] > 0 => Refilled + Rate * timer[w] <= Unit

Waiting(w) == pc[w] \in {"try", "sleep"}

(***************************************************************************)
(* As long as somebody waits, tokens keep being granted: the limiter slows *)
(* callers down but never stops them all.                                  *)
(***************************************************************************)
KeepsGranting ==
  (\E w \in Waiters : Waiting(w)) ~> (recent[0] > 0 \/ ~ \E w \in Waiters : Waiting(w))

-----------------------------------------------------------------------------
(***************************************************************************)
(* ratelimit.go:45 says that Wait "blocks until a send token is available  *)
(* or ctx is cancelled".  Below one send per second the capacity is less   *)
(* than one token, and no token ever becomes available.                    *)
(***************************************************************************)
WaitEnds == \A w \in Waiters : Waiting(w) ~> ~ Waiting(w)
=============================================================================
