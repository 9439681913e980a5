--------------------------- MODULE IdentityManager ---------------------------
(***************************************************************************)
(* Domain identities in one SES region (backend/ses/identity.go): the      *)
(* identity count and the verification verdicts, which IdentityManager     *)
(* caches, and the SES account behind them (external).                     *)
(*                                                                         *)
(* The manager is one of one process.  Managers of other processes and the *)
(* SES console may work on the same account and tell it nothing.           *)
(*                                                                         *)
(* mu is held while the count is listed page by page; verdicts are looked  *)
(* up and stored under mu but fetched without it.  A critical section that *)
(* calls nothing is one step.  Time is counted in ticks; a cached value is *)
(* trusted while some of its lifetime is left.                             *)
(***************************************************************************)
EXTENDS Integers, FiniteSets

CONSTANTS
  Callers,                 \* goroutines that call the manager
  Operations,              \* what they call
  Domains,
  PageOf,                  \* the page ListEmailIdentities returns a domain on
  Pages,                   \* the number of pages
  MaxIdentitiesPerRegion,
  CountTTL,                \* identityCacheTTL, in ticks
  VerifyTTL,               \* verifyCacheTTL, in ticks
  MaxLatency,              \* bound: ticks from SES's verdict to its storing
  LostReplies,             \* TRUE: a change may be made and reported as failed
  SharedAccount,           \* TRUE: others change the account as well
  NoCaller

ASSUME IdentityAssumption ==
  /\ Operations \subseteq {"Usage", "Create", "Delete", "IsVerified", "Status"}
  /\ IsFiniteSet(Domains)
  /\ Pages \in Nat \ {0}
  /\ PageOf \in [Domains -> 1 .. Pages]
  /\ {MaxIdentitiesPerRegion, MaxLatency} \subseteq Nat
  /\ {CountTTL, VerifyTTL} \subseteq Nat \ {0}
  /\ {LostReplies, SharedAccount} \subseteq BOOLEAN
  /\ NoCaller \notin Callers

VARIABLES
  identities,  \* external: the domains registered with SES
  dkim,        \* external: the domains whose DKIM records resolve
  mailFrom,    \* external: the identities with a custom MAIL FROM
  mu,          \* the caller that holds m.mu, or NoCaller
  counted,     \* the identities behind m.cachedCount
  countLeft,   \* what is left until m.cacheExpiry
  verdict,     \* m.verifiedCache: the last verdict for each domain
  verdictLeft, \* what is left until its expiry
  call,        \* the frame of every caller
  refuted,     \* history: ticks since a domain was last verified at SES
  doubt        \* history: for how long the count may lack a change that the
               \* manager was not told of

account == <<identities, dkim, mailFrom>>
caches == <<counted, countLeft, verdict, verdictLeft>>
identityVars == <<account, mu, caches, call, refuted, doubt>>

\* at: the next step; seen: the identities counted so far; ok, age: SES's
\* verdict and its age.
Frames == [at : {"lookup", "get", "store", "count", "list", "create", "delete",
                 "invalidate", "mailFrom"},
           op : Operations, domain : Domains, page : 1 .. Pages,
           seen : SUBSET Domains, ok : BOOLEAN, age : 0 .. MaxLatency]
NoCall == [at |-> "idle"]

\* A call of o on d that begins at l.
Frame(o, d, l) ==
  [at |-> l, op |-> o, domain |-> d, page |-> 1, seen |-> {}, ok |-> FALSE, age |-> 0]

\* A domain that was refuted so long ago is as good as never verified.
Ancient == VerifyTTL + MaxLatency + 1

Verified(d) == d \in identities \cap dkim

IdentityInit ==
  /\ identities = {}
  /\ dkim \in SUBSET Domains
  /\ mailFrom = {}
  /\ mu = NoCaller
  /\ counted = {}
  /\ countLeft = 0
  /\ verdict = [d \in Domains |-> FALSE]
  /\ verdictLeft = [d \in Domains |-> 0]
  /\ call = [c \in Callers |-> NoCall]
  /\ refuted = [d \in Domains |-> Ancient]
  /\ doubt = 0

\* Caller c goes on at l.
Continue(c, l) == call' = [call EXCEPT ![c].at = l]

\* Its call returns, with an error or a result.
Done(c) == call' = [call EXCEPT ![c] = NoCall]

Begin(c, o, d) ==
  /\ call[c].at = "idle"
  /\ call' = [call EXCEPT ![c] =
       Frame(o, d, CASE o = "IsVerified" -> "lookup" [] o = "Status" -> "get"
                     [] o = "Delete" -> "delete" [] OTHER -> "count")]
  /\ UNCHANGED <<account, mu, caches, refuted, doubt>>

-----------------------------------------------------------------------------
\* Mutant: a return leaves m.mu locked.
KeepLock == UNCHANGED mu

\* The deferred m.mu.Unlock().
Unlock == mu' = NoCaller

\* The end of identityCount: a Create goes on unless the region is full.
Counted(c, ids) ==
  IF call[c].op = "Create" /\ Cardinality(ids) < MaxIdentitiesPerRegion
  THEN Continue(c, "create")
  ELSE Done(c)

\* identityCount takes the lock and finds a count it may trust, or does not.
Count(c) ==
  /\ call[c].at = "count"
  /\ mu = NoCaller
  /\ IF countLeft > 0
     THEN Counted(c, counted) /\ UNCHANGED mu
     ELSE Continue(c, "list") /\ mu' = c
  /\ UNCHANGED <<account, caches, refuted, doubt>>

\* fetchIdentityCount: one page of ListEmailIdentities, under the lock.
List(c) ==
  LET f == call[c]
      now == f.seen \cup {d \in identities : PageOf[d] = f.page}
  IN /\ f.at = "list"
     /\ \/ /\ Done(c)
           /\ Unlock
           /\ UNCHANGED <<counted, countLeft>>
        \/ /\ f.page < Pages
           /\ call' = [call EXCEPT ![c].page = @ + 1, ![c].seen = now]
           /\ UNCHANGED <<mu, counted, countLeft>>
        \/ /\ f.page = Pages
           /\ counted' = now
           /\ countLeft' = CountTTL
           /\ Counted(c, now)
           /\ Unlock
     /\ UNCHANGED <<account, verdict, verdictLeft, refuted, doubt>>

\* The domains in ids whose records resolve are verified from now on.
Freshen(ids, found) ==
  refuted' = [d \in Domains |-> IF d \in ids \cap found THEN 0 ELSE refuted[d]]

\* SES is asked for a change.  It refuses; or makes it and says so; or makes
\* it and the reply is lost, so that the caller sees an error.
Change(c, after) ==
  \/ /\ Done(c)
     /\ UNCHANGED <<identities, mailFrom, doubt>>
  \/ /\ after
     /\ Continue(c, "invalidate")
     /\ UNCHANGED doubt
  \/ /\ after
     /\ LostReplies
     /\ Done(c)
     /\ doubt' = CountTTL

\* CreateEmailIdentity: SES refuses an identity it has or has no room for.
Create(c) ==
  LET d == call[c].domain IN
  /\ call[c].at = "create"
  /\ Change(c, /\ d \notin identities
               /\ Cardinality(identities) < MaxIdentitiesPerRegion
               /\ identities' = identities \cup {d}
               /\ mailFrom' = mailFrom)
  /\ Freshen(identities', dkim)
  /\ UNCHANGED <<dkim, mu, caches>>

\* DeleteEmailIdentity.
Delete(c) ==
  LET d == call[c].domain IN
  /\ call[c].at = "delete"
  /\ Change(c, /\ d \in identities
               /\ identities' = identities \ {d}
               /\ mailFrom' = mailFrom \ {d})
  /\ UNCHANGED <<dkim, mu, caches, refuted>>

\* Mutant: the count is invalidated without waiting for the lock.
Unlocked == TRUE

MayLock == mu = NoCaller

\* invalidateCache, then the rest of the operation.
Invalidate(c) ==
  /\ call[c].at = "invalidate"
  /\ MayLock
  /\ countLeft' = 0
  /\ IF call[c].op = "Create" THEN Continue(c, "mailFrom") ELSE Done(c)
  /\ UNCHANGED <<account, mu, counted, verdict, verdictLeft, refuted, doubt>>

\* PutEmailIdentityMailFromAttributes; its failure is logged, not returned.
PutMailFrom(c) ==
  /\ call[c].at = "mailFrom"
  /\ \/ call[c].domain \in identities /\ mailFrom' = mailFrom \cup {call[c].domain}
     \/ UNCHANGED mailFrom
  /\ Done(c)
  /\ UNCHANGED <<identities, dkim, mu, caches, refuted, doubt>>

-----------------------------------------------------------------------------
\* Mutant: a verdict, once cached, is trusted for ever.
EverCached(d) == verdict[d]

\* A cached verdict may be used.
Cached(d) == verdictLeft[d] > 0

\* IsVerified looks in the cache.
Lookup(c) ==
  /\ call[c].at = "lookup"
  /\ mu = NoCaller
  /\ IF Cached(call[c].domain) THEN Done(c) ELSE Continue(c, "get")
  /\ UNCHANGED <<account, mu, caches, refuted, doubt>>

\* GetDomainVerificationStatus, by itself or on behalf of IsVerified: an error
\* (also for an unknown domain) ends either, a status only the former.
GetStatus(c) ==
  LET d == call[c].domain IN
  /\ call[c].at = "get"
  /\ \/ Done(c)
     \/ /\ d \in identities
        /\ IF call[c].op = "Status" THEN Done(c)
           ELSE call' = [call EXCEPT ![c].at = "store", ![c].ok = Verified(d)]
  /\ UNCHANGED <<account, mu, caches, refuted, doubt>>

\* The verdict is cached, over any newer one another caller stored meanwhile.
Store(c) ==
  LET d == call[c].domain IN
  /\ call[c].at = "store"
  /\ mu = NoCaller
  /\ verdict' = [verdict EXCEPT ![d] = call[c].ok]
  /\ verdictLeft' = [verdictLeft EXCEPT ![d] = VerifyTTL]
  /\ Done(c)
  /\ UNCHANGED <<account, mu, counted, countLeft, refuted, doubt>>

\* The customer publishes the DKIM records of d, or takes them down.
Publish(d) ==
  /\ dkim' = IF d \in dkim THEN dkim \ {d} ELSE dkim \cup {d}
  /\ Freshen(identities, dkim')
  /\ UNCHANGED <<identities, mailFrom, mu, caches, call, doubt>>

\* Another process, or the operator at the SES console, creates or deletes d.
Interfere(d) ==
  /\ SharedAccount
  /\ identities' = IF d \in identities THEN identities \ {d} ELSE identities \cup {d}
  /\ mailFrom' = mailFrom \ {d}
  /\ Freshen(identities', dkim)
  /\ doubt' = CountTTL
  /\ UNCHANGED <<dkim, mu, caches, call>>

\* The process starts again: its calls are gone, New makes a new manager.
NewIdentityManager ==
  /\ mu' = NoCaller
  /\ counted' = {}
  /\ countLeft' = 0
  /\ verdict' = [d \in Domains |-> FALSE]
  /\ verdictLeft' = [d \in Domains |-> 0]
  /\ call' = [c \in Callers |-> NoCall]
  /\ UNCHANGED <<account, refuted, doubt>>

Less(n) == IF n > 0 THEN n - 1 ELSE 0

\* One tick passes.  MaxLatency bounds how long a verdict is on its way.
Tick ==
  /\ \A c \in Callers : call[c].at = "store" => call[c].age < MaxLatency
  /\ call' = [c \in Callers |-> IF call[c].at = "store"
                                THEN [call[c] EXCEPT !.age = @ + 1] ELSE call[c]]
  /\ countLeft' = Less(countLeft)
  /\ verdictLeft' = [d \in Domains |-> Less(verdictLeft[d])]
  /\ refuted' = [d \in Domains |-> IF Verified(d) THEN 0
                                   ELSE IF refuted[d] < Ancient THEN refuted[d] + 1
                                   ELSE Ancient]
  /\ doubt' = IF mu = NoCaller THEN Less(doubt) ELSE doubt
  /\ UNCHANGED <<account, mu, counted, verdict>>

CallerStep(c) ==
  \/ Count(c) \/ List(c) \/ Create(c) \/ Delete(c) \/ Invalidate(c) \/ PutMailFrom(c)
  \/ Lookup(c) \/ GetStatus(c) \/ Store(c)

IdentityNext ==
  \/ \E c \in Callers : CallerStep(c) \/ \E o \in Operations, d \in Domains : Begin(c, o, d)
  \/ \E d \in Domains : Publish(d) \/ Interfere(d)
  \/ NewIdentityManager
  \/ Tick

IdentitySpec == IdentityInit /\ [][IdentityNext]_identityVars

(***************************************************************************)
(* SES answers every request (a deadline makes it an error), and sync.Mutex*)
(* hands itself over to a waiter that has waited for long.                 *)
(***************************************************************************)
IdentityFairSpec == IdentitySpec /\ \A c \in Callers : SF_identityVars(CallerStep(c))

-----------------------------------------------------------------------------
IdentityTypeOK ==
  /\ identities \subseteq Domains
  /\ dkim \subseteq Domains
  /\ mailFrom \subseteq identities
  /\ mu \in Callers \cup {NoCaller}
  /\ counted \subseteq Domains
  /\ countLeft \in 0 .. CountTTL
  /\ verdict \in [Domains -> BOOLEAN]
  /\ verdictLeft \in [Domains -> 0 .. VerifyTTL]
  /\ call \in [Callers -> Frames \cup {NoCall}]
  /\ refuted \in [Domains -> 0 .. Ancient]
  /\ doubt \in 0 .. CountTTL
  /\ \A c \in Callers : mu = c <=> call[c].at = "list"

(***************************************************************************)
(* A count that is still trusted is the account's count, unless a change   *)
(* is on its way to invalidating it: although the pages are listed while   *)
(* others create and delete, no torn or outdated count survives.  A change *)
(* whose reply is lost, or that others make, is missed no longer than the  *)
(* count's lifetime (identity.go:155-197, 231-241, 392-400).               *)
(***************************************************************************)
CountCoherent ==
  countLeft > 0 /\ doubt = 0 /\ (\A c \in Callers : call[c].at # "invalidate")
    => counted = identities

(***************************************************************************)
(* A domain that the send gate lets through was verified at SES no longer  *)
(* ago than the verdict's lifetime and its way from SES to the cache, also *)
(* when callers store their verdicts in another order than SES gave them   *)
(* (identity.go:370-388).                                                  *)
(***************************************************************************)
VerdictFresh ==
  \A d \in Domains : Cached(d) /\ verdict[d] =>
    refuted[d] <= VerifyTTL - verdictLeft[d] + MaxLatency

\* Somebody has made a change and is about to invalidate the count.
Invalidating == \E c \in Callers : call[c].at = "invalidate"

\* CountCoherent with the state of the listings it rests on: what a listing has
\* seen so far is what is on the pages before it, unless it will be thrown away.
CountInv ==
  /\ countLeft > doubt /\ ~ Invalidating => counted = identities
  /\ mu # NoCaller => countLeft = 0
  /\ \A c \in Callers : call[c].at = "list" /\ doubt < CountTTL /\ ~ Invalidating =>
       call[c].seen = {d \in identities : PageOf[d] < call[c].page}
  /\ \A c \in Callers : call[c].at = "count" => call[c].seen = {} /\ call[c].page = 1

\* VerdictFresh with the verdicts that are on their way.
VerdictInv ==
  /\ VerdictFresh
  /\ \A d \in Domains : Verified(d) => refuted[d] = 0
  /\ \A c \in Callers : call[c].at = "store" /\ call[c].ok =>
       refuted[call[c].domain] <= call[c].age

\* Every call returns, although one may list pages under the lock all the
\* others need, the send path included.
CallsReturn == \A c \in Callers : call[c].at # "idle" ~> call[c].at = "idle"
=============================================================================
