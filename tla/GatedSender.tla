----------------------------- MODULE GatedSender -----------------------------
(***************************************************************************)
(* The send gate (backend/ses/ses.go:298-312, Config.RequireVerified-      *)
(* Identity): Send asks the process's IdentityManager for the From domain, *)
(* while other goroutines of the process create and delete identities,     *)
(* others change the account, DNS records come and go, verdicts expire and *)
(* the process crashes.                                                    *)
(*                                                                         *)
(* SESSender and IdentityManager are composed as they are: a sender is one *)
(* of the manager's callers and dies with it.  Send's answer from the gate *)
(* is what IsVerified returned, where SESSender allows any.                *)
(***************************************************************************)
EXTENDS SESSender, IdentityManager

ASSUME GateAssumption ==
  /\ \A i, j \in Instances : i = j
  /\ Senders \subseteq Callers
  /\ "IsVerified" \in Operations
  /\ NoDomain \notin Domains
  /\ \A b \in Batches : \A j \in DOMAIN b : b[j].from \in Domains \cup {NoDomain}

VARIABLE
  disowned  \* history: the domains SES had not vouched for, for so long that no
            \* verdict can be due to it, when the sender asked; and not since

gatedVars == <<vars, identityVars, disowned>>

GatedInit ==
  /\ SuppressionInit
  /\ SenderInit
  /\ IdentityInit
  /\ disowned = [t \in Senders |-> {}]

\* Once a domain is verified again, nothing is held against it.
Forgive == disowned' = [t \in Senders |-> {d \in disowned[t] : refuted'[d] > 0}]

\* Everything before and after the gate.
Ungated(t) ==
  /\ Call(t) \/ Filter(t) \/ Decide(t) \/ Wait(t) \/ Submit(t) \/ Return(t)
  /\ UNCHANGED <<identityVars, disowned>>

\* A From address without a domain is refused without asking anybody.
NoSenderDomain(t) ==
  /\ pc[t] = "gate"
  /\ Current(t).from = NoDomain
  /\ Gate(t, "unverified")
  /\ UNCHANGED <<identityVars, disowned>>

\* s.identity.IsVerified(ctx, domain) is called.
Ask(t) ==
  /\ pc[t] = "gate"
  /\ Current(t).from # NoDomain
  /\ Begin(t, "IsVerified", Current(t).from)
  /\ disowned' = [disowned EXCEPT ![t] = {d \in Domains : refuted[d] = Ancient}]
  /\ UNCHANGED vars

\* What a step at which IsVerified returns to t answers.
Answer(t) ==
  LET f == call[t]
      Says(ok) == IF ok THEN "verified" ELSE "unverified"
  IN CASE f.at = "lookup" -> Says(verdict[f.domain])
       [] f.at = "store" -> Says(f.ok)
       [] OTHER -> "error"

\* Mutant: a verdict that cannot be had is no obstacle.
FailsOpen(t) == IF call[t].at = "get" THEN "verified" ELSE Answer(t)

\* The gate decides on the answer: an error keeps the message back as well.
Heard(t) == Answer(t)

\* A step of IsVerified on behalf of t; when it returns, Send goes on.
Consult(t) ==
  /\ pc[t] = "gate"
  /\ Lookup(t) \/ GetStatus(t) \/ Store(t)
  /\ IF call'[t] = NoCall THEN Gate(t, Heard(t)) ELSE UNCHANGED vars
  /\ UNCHANGED disowned

Operators == Callers \ Senders

\* A goroutine that manages identities works on its call.
Operate(c) ==
  /\ CallerStep(c)
  /\ Forgive
  /\ UNCHANGED vars

\* It calls the manager.
Manage(c) ==
  /\ \E o \in Operations, d \in Domains : Begin(c, o, d)
  /\ UNCHANGED <<vars, disowned>>

\* DNS, the account and the clock change without the process.
Outside ==
  /\ Tick \/ \E d \in Domains : Publish(d) \/ Interfere(d)
  /\ Forgive
  /\ UNCHANGED vars

\* The suppression list changes.
Listing(i) ==
  /\ Suppress(i) \/ Unsuppress(i)
  /\ UNCHANGED <<identityVars, disowned>>

\* The process dies and starts again.
RestartGated(i) ==
  /\ Restart(i)
  /\ NewIdentityManager
  /\ disowned' = [t \in Senders |-> {}]

GatedNext ==
  \/ \E t \in Senders : Ungated(t) \/ NoSenderDomain(t) \/ Ask(t) \/ Consult(t)
  \/ \E c \in Operators : Operate(c) \/ Manage(c)
  \/ Outside
  \/ \E i \in Instances : Listing(i) \/ RestartGated(i)

GatedSpec == GatedInit /\ [][GatedNext]_gatedVars

\* As in IdentityFairSpec; nothing is asked of the limiter or of SendEmail.
GatedFairSpec ==
  /\ GatedSpec
  /\ \A t \in Senders : SF_gatedVars(Consult(t))
  /\ \A c \in Operators : SF_gatedVars(Operate(c))

-----------------------------------------------------------------------------
(***************************************************************************)
(* With the gate, SES accepts no mail from a domain it had not vouched for *)
(* within the lifetime of a verdict (and its way to the cache) before Send *)
(* asked, and has not since: whatever other senders stored meanwhile, the  *)
(* identity was deleted, here or elsewhere, the lookup failed or the       *)
(* process restarted (ses.go:301-312, identity.go:370-388).                *)
(***************************************************************************)
UnvouchedNeverMails ==
  [][\A t \in Senders :
       Len(mail'[t]) > Len(mail[t]) /\ mail'[t][Len(mail'[t])] # {} =>
         Current(t).from \notin disowned[t]]_gatedVars

(***************************************************************************)
(* A sender has a call on the manager only while it stands at the gate,    *)
(* and the call is about the message it is about to send.                  *)
(***************************************************************************)
GateInv ==
  /\ \A t \in Senders : call[t] # NoCall =>
       /\ pc[t] = "gate"
       /\ call[t].op = "IsVerified"
       /\ call[t].domain = Current(t).from
  /\ \A t \in Senders : disowned[t] \subseteq {d \in Domains : refuted[d] = Ancient}
  /\ RequireVerified =>
       \A t \in Senders : pc[t] \in {"wait", "submit"} => Current(t).from \notin disowned[t]
=============================================================================
