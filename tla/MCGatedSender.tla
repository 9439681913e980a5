---------------------------- MODULE MCGatedSender ----------------------------
(***************************************************************************)
(* A small instance of GatedSender: one process, one domain, a sender and  *)
(* an operator.                                                            *)
(***************************************************************************)
EXTENDS GatedSender

CONSTANTS x, mx, i1, s1, d1

MCAddresses == {x}
MCMailboxes == {mx}
MCnormalize == [y \in MCAddresses |-> mx]
OneProcess == [t \in Senders |-> i1]

Letter == [from |-> d1, to |-> <<x>>, cc |-> <<>>, bcc |-> <<>>]
Anonymous == [Letter EXCEPT !.from = NoDomain]
MCBatches == {<<Anonymous>>, <<Letter>>}

MCPageOf == [d \in Domains |-> 1]
=============================================================================
