# Verification of vulos-deliver

TLA+ models of the deliverability library `vulos-deliver` (Go), model-checked
with TLC, with theorems checked by TLAPS. Paths are relative to the repository;
`ses.go` is `backend/ses/ses.go` and so on.

## 1. Inventory of the system

The library sends mail through Amazon SES or an SMTP relay and protects the
reputation of one SES account that all tenants share. It is a library: callers
bring goroutines, an HTTP server and, if they like, a database, and run it in
as many processes as they like.

| Part | State | Operations | Interacts with | Hard behaviour | What makes it correct |
|---|---|---|---|---|---|
| `deliver.Sender` (`deliver.go`) | none | `Send`, `SendBatch` | callers | what an error means | receipts tell the truth; an error means that nobody was mailed, as far as that can be known; a batch tries every message and returns the first error |
| SES sender (`ses.go`) | none of its own | `Send`, `SendBatch` | list, gate, limiter, SES | the list is read before calls that block; any step may fail | nobody who was suppressed when `Send` began is mailed; receipts and errors as above |
| Suppression list (`suppression.go`, `suppression_sql.go`) | map under a lock, or a table | `Add`, `IsSuppressed`, `Remove`, `Count` | sender, webhook, operator | shared by processes, or lost with one; failing statements | entries are found under every spelling and survive what they should survive |
| Rate limiter (`ratelimit.go`) | `tokens`, `lastTime` under a lock | `Wait`, `Available` | every `Send` | several sleepers on one token, rounding, cancellation | bounded rate, no oversleeping, progress |
| Bounce webhook (`bounce.go`, `sns_verify.go`) | certificate cache | `ServeHTTP` | SNS, list | redelivery, crashes inside a loop, `Add` failing, forged posts | what is answered with 200 is suppressed; only genuine feedback suppresses, only genuine requests are confirmed; all feedback is processed in the end |
| Identity manager (`identity.go`) | cached count, cached verdicts, one lock | `Usage`, `CreateDomainIdentity`, `DeleteDomainIdentity`, `GetDomainVerificationStatus`, `IsVerified` | SES, send gate | listing in pages while others change, changes whose reply is lost or that others make, verdicts fetched without the lock | trusted counts are right, verdicts are no older than their lifetime, calls return |
| Send gate (`ses.go:298-313`) | none of its own | part of `Send` | identity manager | a verdict is read before calls that block, and may be outdated already | no mail from a domain SES has not vouched for lately; no verdict, no mail |
| SMTP sender (`backend/smtp/smtp.go`) | a connection per `Send` | `Send`, `SendBatch` | relay | any command fails, lost replies, STARTTLS withheld | no password in the clear; all recipients or none; receipts and errors as above |
| Provider factory (`provider/provider.go`) | none | `New` | backends | – | – |
| Self-hosted domain setup (`domain/domain.go`) | none | key generation, DNS record text | – | – | text of the records |
| Sandbox flag (`ses.go:213-243`) | one boolean | `DetectSandbox`, `IsSandbox` | SES | unsynchronised | – |

The loop that matters most goes through four of them: a sender filters its
recipients against the list and hands the rest to SES; SES reports bounces and
complaints to an SNS topic; SNS posts them, at least once, to the webhook of
some process; the webhook adds the addresses to the list.

The hazards, each at its line and with the properties that watch it, are listed
under `hazards` in `PROJECT.json`.

## 2. Plan

In the order of importance; all steps are done.

1. `SuppressionList` and `SESSender`: the filter and everything `Send` does
   after it, with proofs.
2. `TokenBucket`, with proofs.
3. `BounceWebhook`: SNS, crashes, redelivery, with proofs.
4. `SESDelivery`: composition of 1 and 3, the loop as a whole.
5. `IdentityManager`.
6. `BatchSender`: the abstract specification of what a caller sees of a backend;
   `SESSender` refines it.
7. `SMTPSender`, which refines it too, with proofs of both refinements.
8. `IdentityManager` with lost replies, other managers of the same account and
   restarts; proofs of `CountCoherent` and `VerdictFresh`.
9. `GatedSender`: composition of 1 and 8, with proofs.
10. Proofs about `SESDelivery`: the theorems of 1 and 3 carried over to the loop.
11. What the loop promises as a whole, `AckedNeverMailed` and `WithheldForCause`, and
    what the limiter never loses, `NothingWasted`, with proofs.

What could follow: the limiter composed with the senders (a bound on what SES
sees from a process whose sends fail or are cancelled), and fairness among senders.

## 3. The modules

**SuppressionList** (`suppression.go`, `suppression_sql.go`). One variable,
`entries[store][mailbox]`, the reason or `NoEntry`. With `Durable` there is one
store, the table every process shares; without, one per process, empty after
`Reopen`. `normalize` is a function from spellings to mailboxes and
`Blank`; that it is applied by every operation is what the mutant
`IsSuppressedVerbatim` removes. Each operation is one critical section or one
statement in the code and one action here. With `DBFaults` a statement may report
an error, whether or not it took effect. The module is extended by the next two.

**SESSender** (`ses.go`). One sender per goroutine; `Send` is a batch of one.
`Filter` is one iteration of `filterSuppressed`, so lists may change between two
addresses of a message; `Decide`, `Gate`, `Wait` and `Submit` are the code
between two calls that may block. Recipients are positions in To, Cc and Bcc
together. `Fail` is every error return (the zero receipt), `Finish` includes what
`SendBatch` does with it. `mail` (what SES accepted) and `barred` (mailboxes on the
list since before this `Send`, and not lifted) are history. `ListedFor` are the
reasons for which the environment lists addresses meanwhile, a bound: `Send` does
not look at the reason, so `SESSender` runs with all three, the compositions with
those they need.

**BatchSender** (`ses.go`, `smtp.go`). What a caller sees of either backend: `Begin`,
`Attempt` for the next message, `End`. An attempt has one of four outcomes:
`Delivered` (exactly the recipients the receipt lists as sent are mailed, the others
are listed as suppressed), `Withheld` (`ErrSuppressed`, everybody is listed as
suppressed), `Failed` (an error, an empty receipt, and nobody is mailed) and `InDoubt`
(an error in `Unsure`, which leaves open who was mailed). `Unsure` is as small as the
code allows: `SendEmail`'s own error for SES; for SMTP the errors of closing the
body's writer (the final dot) and of QUIT. The module describes the code, not the
comments of the interface in `deliver.go`, which differ in three places:

- "an error only when the message could not be dispatched to *any* recipient"
  (deliver.go:101-102): false of the errors in `Unsure`. A lost answer is nobody's
  fault, a failing QUIT is the code's; `SMTPQuit` shows it.
- per-message errors in `Recipients[].Err` of a batch's receipts (deliver.go:90-91,
  107-108): both backends return empty receipts with an error (ses.go:253-356,
  smtp.go:94-191), so a caller learns of failures after the first only from their
  receipts being empty, and not what they were.
- `ErrSuppressed` when every To address is suppressed (deliver.go:115-116): the code
  asks for To, Cc and Bcc (ses.go:294); otherwise the Cc or Bcc is mailed.

**SMTPSender** (`smtp.go`). A step per SMTP command. `envelope` is what the relay
accepted on the connection, `accepted` what it took responsibility for. The
configuration is chosen in `SMTPInit`. A command fails when the relay refuses
it or the connection breaks. With `LostAnswers`, a bound on the environment, the
answer to the final dot may be lost; without it the connection holds until then.

**TokenBucket** (`ratelimit.go`). Time advances in ticks, which are also the
resolution of `time.Duration`; a token has `Unit` parts and `Rate` parts arrive per
tick, so fractions of tokens and the truncation of `waitDur` are there.
`Try` is the critical section of `Wait`, `Wake` and `Abort` are the branches of
`select`. `recent[k]` (history) counts the grants since `k` ticks ago.
Floating-point rounding is not modelled.

**BounceWebhook** (`bounce.go`, `sns_verify.go`). `Post` puts an envelope before
a handler: a published one, as often as SNS likes, or one that is not from AWS.
`Verify`/`CannotVerify` are `VerifySNSMessage` with and without a
certificate, `Dispatch` the two switches, `AddRecipient` one iteration of a
loop, `Answer` the 200 at its end. A 200 takes the envelope from SNS's `pending`.
`due` (history) is what 200s were given for. `settled` bounds the environment in
liveness properties: after `Settle` no process dies and nobody lifts anything.
(The action formula of a restart could not serve: a `Return` in a quiet process
looks just like one.) `confirmed` are the requests for confirmation whose
SubscribeURL answered that they are; the code does not look at the answer.

**SESDelivery**. Extends both; `SubmitAndReport` makes SES publish what
`FeedbackOn` says for the mailboxes it mails, `RestartProcess` kills senders and
handlers of a process together. Addresses are listed by the webhook only here; what
an operator adds by hand changes nothing for the loop and is covered by `SESSender`.
`known[t]` (history, `Learn`) are the mailboxes whose feedback some process had answered
with 200 when the current `Send` of `t` began, less those lifted since; `Condemned` are
the mailboxes AWS published a permanent bounce or a complaint of.

**IdentityManager** (`identity.go`). `call[c]` is the frame of a caller, `mu` the
mutex: held over `List`, the pages of `ListEmailIdentities`; taken and released
within one step elsewhere. The cached count is kept as the set of identities
that were counted. Lifetimes count down in ticks. `identities`, `dkim` and
`mailFrom` are SES's; SES refuses to exceed the cap. With `LostReplies` a change may
be made and reported as failed (`Change`); with `SharedAccount` managers of other
processes and the SES console change the account too (`Interfere`), and this manager
is not told. `NewIdentityManager` is a restart: calls and caches are gone, the
account is not. History: `refuted[d]`, the time since `d` was last verified, and
`doubt`, for how long the count may still lack a change nobody told the manager of
(it stands still while pages are listed, since a listing may be as old as it is long).

**GatedSender** (`ses.go:298-313`, `identity.go`). Extends `SESSender` and
`IdentityManager`, adds no behaviour and takes one choice away: `Gate(t, v)` is only
taken with the `v` that `IsVerified` returned to `t` (`Answer`), in the step in which it
returns (`Consult`). Senders are callers of the manager; the `Operators` are its
other callers. `disowned[t]` (history) are the domains SES had not vouched for, when
`t` asked, for as long as a verdict lives and travels, and has not vouched for since.

## 4. What the runs show

| Run | Instance | Shows |
|---|---|---|
| `SESSender` | a sender, two processes that both suppress and lift, a failing SQL list, the gate; messages with two spellings of a mailbox in To and Bcc, without a domain, an empty batch | `BarredNeverMailed`, `FirstErrorReturned`, `ImplementsBatchSender` |
| `SMTPSession` | one sender, all eight configurations, a batch with a message without recipients | `NoCleartextCredentials`, `AllOrNothing`, `FirstErrorReturned`, `ImplementsBatchSender` |
| `TokenBucketRate` | two waiters, two tokens per second of three ticks | `RateBound` and its counterpart `NothingWasted`, `NoOversleep`, `KeepsGranting` |
| `BounceWebhookFeedback` | two processes, one table, a bounce and a complaint on the same mailbox, a blank address | `AckedIsSuppressed`, `FeedbackProcessed` |
| `BounceWebhookEveryPost` | one handler, an in-memory list, ten kinds of envelope | `EntriesBacked`, `ConfirmsOnlyPublished` |
| `SESDelivery` | two senders in two processes, the webhook in one, a mailbox that bounces, one that does not, of which a bounce is forged | `BarredNeverMailed`; `AckedNeverMailed`: a bounce that any process acknowledged is respected by every later `Send`; `WithheldForCause`: mail is withheld only from mailboxes that did bounce; `HostileLeftAlone` |
| `IdentityCount` | two callers, two domains on two pages, a cap of two, lost replies, a shared account, restarts | `CountCoherent` |
| `GatedSender` | a sender behind the gate, a caller that creates and deletes its domain, a shared account, lost replies, restarts | `UnvouchedNeverMails`, `VerdictFresh`, `CallsReturn` |

Every passing run also has the type invariant of its modules once. Every property
has a mutant in `PROJECT.json`: a plausible slip in the code that breaks it.

Bounds, and why they are enough. Senders only interact through the list, which
they read, so one of them and an environment that writes the list at any time
shows every interleaving `BarredNeverMailed` distinguishes; `SESDelivery` has
two. Two mailboxes, one with two spellings, give a message that is partly
suppressed; three positions cover To, Cc and Bcc. Two messages show that a
failure does not end the batch. The limiter's `Window` is a second and a tick,
enough for a burst and what follows; `Horizon` caps `age` where the bucket is full
anyway (assumed, `BucketAssumption`). Three ticks and thirds of a token make the
truncation bite. Two handlers in two processes, each of which may die, show
redelivery to another process. `MaxLatency` bounds how long a verdict may
be on its way from SES to the cache; `VerdictFresh` and `UnvouchedNeverMails` name
it. A count has two pages and a lifetime of two ticks in `IdentityCount`, so that a
change can fall between the pages and a doubt can be half over; two callers are a
lister and one who changes something. Records come and go for one of its two domains
only (`OneDomainPublishes`): the count does not depend on them. In `GatedSender` the sender and the operator
may both fetch a verdict and store it in the other order; verdicts live for one tick,
and one more tick makes them outdated.

Fairness. `TokenBucket`: time passes and goroutines that can run do run; and a waiter
whose context is done and who goes round the loop again and again takes the `ctx.Done()`
branch some time (strong fairness of `Abort`), since `select` chooses evenly among the
branches that are ready (ratelimit.go:61; ratelimit_test.go:49-68 relies on it).
`BounceWebhook`: SNS posts what it has no 2xx for again (its documented delivery
policy, an assumption about AWS; SNS gives up after a configured number of
attempts, which is not modelled), handlers are run by `net/http`, and a certificate
that is needed can be fetched now and then (strong fairness of `Verify`).
`GatedSender`: SES answers (a deadline makes silence an error), and `sync.Mutex`
serves a waiter that has waited for long (its starvation mode). Nothing is assumed of senders in `HostileLeftAlone`.
Where processes may die for ever nothing can be promised, hence `<>settled`.

`CHECK_DEADLOCK` is on in every run.

### Where code and documents disagree

Four runs must fail; each has a finding in `PROJECT.json`.

- `SESSenderLateEntry`: an address that is suppressed after the filter and before
  `SendEmail` is mailed (docs/SES.md:144-145).
- `TokenBucketSlow`: with `SendRate` below 1 the bucket never holds a whole token
  and `Wait` never returns unless its context is cancelled (ratelimit.go:45). In the
  counterexample nobody cancels: the waiter sleeps, finds too little, and sleeps again.
- `BounceWebhookFaults`: a failing `Add` is logged and the notification is answered
  with 200, so the address is lost (docs/SES.md:140).
- `SMTPQuit`: the relay has accepted the message, QUIT fails, and `Send` returns an
  error and an empty receipt for mail that everybody gets (deliver.go:101-102,
  smtp.go:190). `LostAnswers` is off, so that the error is not one nobody could avoid.

Others that were met and have no run: the other two departures from `deliver.go` listed
under `BatchSender` in section 3; the status of the GET that confirms a subscription is
not looked at, so one that SNS refused is answered with 200 and logged as confirmed
(bounce.go:65, 166-174); a burst and what arrives behind it exceed the rate within one second
(ratelimit.go:23), `RateBound` is what holds; a waiter with a cancelled context may be
granted a token (ratelimit.go:46); `CreateDomainIdentity` only warns near the cap
(identity.go:202-203); a cached verdict outlives its identity for up to a minute, also
after `DeleteDomainIdentity` (ses.go:89-91), which is why `UnvouchedNeverMails` speaks of
a verdict's lifetime; `Config.Regions` beyond the first is ignored although a second
region is what the cap's error recommends (identity.go:216, ses.go:196-200); the webhook
does verify signatures (docs/SES.md:149) and the DMARC record is `p=none`
(docs/SES.md:89, identity.go:279); `ErrSandboxMode` is never returned (deliver.go:120).

## 5. What is proved

All proofs hold for every value of the constants that satisfies the modules' named
assumptions. Safety only. Each component's type correctness comes first and is used in
all the others; where it says more than types, that is mentioned.

**SuppressionListProofs**, from `SuppressionAssumption` (spellings normalize to
mailboxes or to `Blank`, which is no mailbox): lemmas on the operations of a list,
used by the next two. An addition removes nobody (`AddKeeps`) and, without an
error, adds its mailbox (`AddAdds`); a removal takes away its own mailbox, on its
own list (`RemoveKeeps`); a restart empties no other process's list
(`ReopenKeeps`).

**SESSenderProofs**, from `SenderAssumption` (every sender runs in a process;
batches are sequences, recipients are addresses).

- `TypeCorrect`: `SenderSpec => []TypeOK`. `ProgressOK` is the part that is more than
  a type: inside `Send` there is a current message, and what was kept are
  recipients before `next`. `FinishTypes`, `MoveTypes` and `FailTypes` are the three
  shapes of a sender's step, `StepTypes` puts them together.
- `Safety`: `SenderSpec => []SafetyInv`, with `SafetyInv == KeptNotBarred /\
  BarredListed`. `KeptNotBarred` (what the filter kept is not barred) is what the
  promise needs at `SendEmail`, and is not inductive: in `Filter` nothing connects
  a mailbox that is not listed with one that is not barred. `BarredListed` (what is
  barred is still on the list) does, and it is inductive because additions
  remove nobody (`AddKeeps`), a removal takes away its own mailbox only, which
  `Lift` takes out of `barred` too (`RemoveKeeps`), and a restart empties no other
  process's list (`ReopenKeeps`) and ends all calls of its own.
- `BarredSafe`: `SenderSpec => BarredNeverMailed`, for any number of senders,
  processes, addresses and messages, with either kind of list and with failing
  statements.
- `Refines`: `SenderSpec => ImplementsBatchSender`. A caller sees `Status`, which is
  "running" from `Call` to the last `Finish`. `Call` maps to `Begin`, every
  `Finish` to `Attempt`, `Return` and `Restart` to `End`, everything else stutters.
  That an accepted message has somebody to mail, as `Delivered` asks, is the
  invariant `KeptSomebody` (theorem `SomebodyKept`); that every error but
  `SendEmail`'s mails nobody is `FailureAllowed`.
- `FirstErrorSafe`: `SenderSpec => []FirstErrorReturned`, from `FirstErrorSoFar`, which
  says of a call in progress what the property says of its end.

**SMTPSenderProofs**, from `SMTPAssumption` (batches and recipients are sequences).

- `CredentialsSafe` and `NobodyOrEverybody`, from the inductive invariant
  `SessionInv` (theorem `Sessions`). `NoCleartextCredentials` rests on AUTH being
  reached on an encrypted connection only, `AllOrNothing` on the envelope being
  exactly the recipients before `next`, complete when the body is written, and
  on the relay having taken over nothing before.
- `Refines`: `SMTPSpec => ImplementsBatchSender`, as above; here it needs
  `SomebodyToMail` (theorem `SomebodyMailed`) and `SessionInv`: before QUIT the relay has
  taken nothing over, so only an error of the final dot or of QUIT can come with mail
  (`FailAttempts`), and what it took over is the whole envelope.
- `FirstErrorSafe`: `SMTPSpec => []FirstErrorReturned`. The proof looks at the steps of
  `BatchSender` only, not at those of the SMTP session: `Refines` makes every step one
  of `Begin`, `Attempt`, `End` or a stutter, and each of them preserves
  `FirstErrorSoFar` (`BatchRemembers`), so whatever implements `BatchSender` has it.

**BounceWebhookProofs**, from `WebhookAssumption` (handlers run in processes, an empty
address is blank, envelopes have a kind and recipients).

- `Backed`: `WebhookSpec => []EntriesBacked`, and `ConfirmsSafe`: `WebhookSpec =>
  []ConfirmsOnlyPublished`, for any envelopes that anyone may post. The inductive
  invariant `BackedInv` (theorem `RequestsBacked`) adds `RequestBacked`: a signed request
  was published by AWS, and what reaches the confirmation, or the loop over the
  recipients, was published and is of the kind that is confirmed, or suppresses.
- `AckedSafe`: `WebhookSpec => []AckedIsSuppressed`, if the list is durable and no
  statement fails; both are needed (entries die with an in-memory list, and
  `BounceWebhookFaults` shows the other). The inductive invariant `AckedInv` adds
  `LoopProgress`: the recipients before the cursor are listed, blank, or were lifted
  in the meantime.

**TokenBucketProofs**, from `BucketAssumption` (rate, unit and resolution are positive
integers; `Horizon` ticks fill the bucket).

- `TypeCorrect`: the bucket neither overflows nor goes negative.
- `RateKept`: `Spec => []RateBound`. The bound counts what is in the bucket
  (`Refilled`) with the grants and so is inductive as it stands: a grant moves
  `Unit` from one term to the other, a tick shifts the window by one and brings at
  most `Rate` (`TickBrings`), and `refill()` at any moment changes nothing
  (`RefillOnce`), which is where `Horizon` is needed.
- `NobodyOversleeps`: `Spec => []NoOversleep`, from the rounding of `WaitDur`
  (`WaitDurBounds`); others can only take from the bucket while somebody sleeps.
- `NothingLost`: `Spec => []NothingWasted`, for every window and rate: grants and bucket
  together make up for what arrived, up to a full bucket. Inductive as it stands, like
  `RateBound`, with the opposite fact about ticks: one brings all of `Rate` or fills the
  bucket (`TickBringsAll`, which also needs `Horizon` to fill the bucket).
- `TokenArrives`: if `Cap >= Unit` (at least one send per second), a bucket that granted
  nothing for as long as a token takes to arrive holds one for whoever looks next. It
  is `NothingWasted` for a window without grants, and the safety half of `KeepsGranting`:
  what is left is that somebody looks, which is scheduling.
- `SlowGrantsNothing`: if `Cap < Unit`, nothing is ever granted. `TokenBucketSlow` shows one
  such rate, this is all of them; with `TokenArrives` it draws the line at one per second.

**IdentityManagerProofs**, from `IdentityAssumption` (domains are finitely many, each on
one page; the lifetimes are positive).

- `IdentityTypeCorrect`: also that the caller that lists pages is the one that holds
  the lock, which both proofs below need.
- `CountSafe`: `IdentitySpec => []CountCoherent`, from `CountInv`. The property says
  nothing of a listing that is still going on; `CountInv` adds that what it has seen is
  what is on the pages before it, unless somebody is about to invalidate the count or
  made a change in silence since it began, and that no count is trusted while one
  is listed (so an invalidation that waits for the lock comes after the store).
- `VerdictSafe`: `IdentitySpec => []VerdictFresh`, from `VerdictInv`
  (theorem `VerdictInductive`), which adds the verdicts on their way: each is no older
  than its age, and `MaxLatency` bounds that when it is stored.

**GatedSenderProofs**, from the assumptions of both parts and `GateAssumption` (one
process, whose senders are callers of its manager).

- `GatedIsSender` and `GatedIsManager`: the composition implements `SenderSpec` and
  `IdentitySpec`, both under the identity mapping: each of its steps is a step or a
  stutter of either (`StepOfSender`, `StepOfManager`). What is proved of the parts
  therefore holds of the whole: `GatedBarredSafe`, `GatedRefines`,
  `GatedFirstErrorSafe`, `GatedVerdictSafe`, `GatedCountSafe`.
- `UnvouchedSafe`: `GatedSpec => UnvouchedNeverMails`, if `RequireVerified`. It belongs
  to neither part. `GateInv` (theorem `GateInductive`) carries it from the cache to
  `SendEmail`: a sender's call on the manager is about the message at the gate; a
  domain in `disowned` has not been verified for `Ancient` ticks (`AncientStays`: it
  leaves the set when it is), so by `VerdictInv` no positive verdict on it is cached or
  on its way; hence a sender past the gate is not about to mail from one.

**SESDeliveryProofs**, from the assumptions of both parts and `FeedbackAssumption`.

- `DeliveryIsSender`: `DeliverySpec => SenderSpec`. A step of the webhook maps to
  `Suppress` of the list it writes to (`ServeSuppresses`), everything else to itself.
  `DeliveryBarredSafe`, `DeliveryRefines` and `DeliveryFirstErrorSafe` follow.
- `DeliveryBackedSafe` and `DeliveryAckedSafe`: the loop does not implement
  `WebhookSpec`, since SES publishes feedback in a step of the sender. A step is one of
  the webhook's or a report (`StepOfWebhook`); the webhook's own lemmas, stated for
  a step, cover the first, and a report only adds to `published` and `pending`
  (`ReportBacked`, `ReportAcked`).
- `DeliveryKnownSafe`: `DeliverySpec => AckedNeverMailed`, under the hypotheses of
  `AckedSafe`, needed for the same reasons. It joins the guarantees of
  both halves: what a webhook acknowledged is listed (`AckedIsSuppressed`), a `Send` bars
  what is listed when it begins (`StepBars`), hence what is known is barred (`KnownBarred`,
  inductive given `AckedIsSuppressed` and `BarredListed`; `LearnBarred` for the step of the
  sender itself, `StepKnown` for all others), and by `BarredSafe` nobody barred is mailed.
- `DeliveryCauseSafe`: `DeliverySpec => []WithheldForCause`, with either kind of list and
  whatever fails. Receipts say what the filter saw, and the entry it saw may be gone,
  so `EntriesBacked` at the end says nothing about them. `CauseInv` adds
  `FilteredForCause`: whom the filter has left out so far is condemned. An entry that is
  found is backed (`ListedCondemned`, by `DeliveryBackedSafe`) and what was published stays
  published (`CondemnedStay`), so it is inductive; `FilterForCause` is the filter's step,
  `DroppedForCause` what `Decide` and `Submit` make a receipt of.

Only model-checked: the liveness properties, since neither fairness nor `ENABLED` can be
reasoned about here. These are `FeedbackProcessed` (it needs strong fairness of SNS and of
certificates), `HostileLeftAlone`, `CallsReturn` and `KeepsGranting`. Where a safety fact
carries the weight of one of them it is proved: `TokenArrives` for `KeepsGranting`,
`DeliveryKnownSafe` for `HostileLeftAlone`, and for `CallsReturn` that only the caller that
lists pages holds the lock (`IdentityTypeCorrect`). Every invariant and every safety action
property of a passing run is stated by a theorem. The negative results (section 4) are TLC's
counterexamples, except that `SlowGrantsNothing` covers every slow rate.

## 6. Not modelled

- The text of DNS records, MIME bodies, headers, and of addresses beyond `normalize`.
- Signature arithmetic: an envelope is genuine or not.
- Several regions: `ses.New` uses the first one only, and each `IdentityManager`
  has one.
- `NearCap`, which makes `CreateDomainIdentity` log a warning.
- `DetectSandbox` and `IsSandbox`, `Count`, `Close`, `Rate`: no decision depends on
  them. `DetectSandbox` writes its flag without a lock, a data race with `IsSandbox`.
- `provider.New`: a switch over a name. What `ses.New` and `smtp.New` make of a
  configuration is in the initial states of the backends' modules.
- `domain/`: one call generates an RSA key, the others format it and DNS records;
  nothing is kept, and no other package reads the result.
- Floating-point error in the limiter; clocks that jump (Go's are monotonic).

## 7. Running

    tlc -config SESSender.cfg MCSESSender.tla
    tlapm SESSenderProofs.tla

`PROJECT.json` lists which module goes with which configuration.
