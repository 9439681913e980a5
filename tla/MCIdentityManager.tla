-------------------------- MODULE MCIdentityManager --------------------------
(***************************************************************************)
(* A small instance of IdentityManager: the identities are listed on two   *)
(* pages.                                                                  *)
(***************************************************************************)
EXTENDS IdentityManager, TLC

CONSTANTS d1, d2

MCPageOf == [d \in Domains |-> IF d = d1 THEN 1 ELSE 2]
\* Bound: records are published for one of the domains only; the count, which
\* both are there for, does not depend on them.
OneDomainPublishes == dkim \subseteq {d1}

CallerSymmetry == Permutations(Callers)
=============================================================================
