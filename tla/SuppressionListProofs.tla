------------------------ MODULE SuppressionListProofs ------------------------
(***************************************************************************)
(* What the operations of a suppression list leave alone, for every list,  *)
(* every set of processes and every way of spelling addresses.             *)
(***************************************************************************)
EXTENDS SuppressionList, TLAPS

\* No operation of the list stores anything but a reason.
LEMMA ListTypes ==
  ASSUME SuppressionTypeOK, NEW i \in Instances
  PROVE  /\ \A a \in Addresses, r \in Reasons, err \in BOOLEAN :
              Add(i, a, r, err) => SuppressionTypeOK'
         /\ \A a \in Addresses, err \in BOOLEAN : Remove(i, a, err) => SuppressionTypeOK'
         /\ Reopen(i) => SuppressionTypeOK'
<1>1. ASSUME NEW a \in Addresses, NEW r \in Reasons, NEW err \in BOOLEAN,
             Add(i, a, r, err)
      PROVE  SuppressionTypeOK'
  BY <1>1, SuppressionAssumption DEF SuppressionTypeOK, Add, Upsert, Stores
<1>2. ASSUME NEW a \in Addresses, NEW err \in BOOLEAN, Remove(i, a, err)
      PROVE  SuppressionTypeOK'
  BY <1>2 DEF SuppressionTypeOK, Remove, Stores
<1>3. ASSUME Reopen(i) PROVE SuppressionTypeOK'
  BY <1>3 DEF SuppressionTypeOK, Reopen, Stores
<1> QED
  BY <1>1, <1>2, <1>3

\* An addition removes nobody from any list.
LEMMA AddKeeps ==
  ASSUME SuppressionTypeOK, NEW i \in Instances, NEW j \in Instances,
         NEW a \in Addresses, NEW r \in Reasons, NEW err \in BOOLEAN, Add(i, a, r, err)
  PROVE  Suppressed(j) \subseteq Suppressed(j)'
<1>1. CASE UNCHANGED entries
  BY <1>1 DEF Suppressed
<1>2. CASE normalize[a] # Blank /\ Upsert(i, a, r)
  <2>1. r # NoEntry
    BY DEF Reasons, NoEntry
  <2>2. normalize[a] \in Mailboxes
    BY <1>2, SuppressionAssumption
  <2> QED
    BY <1>2, <2>1, <2>2 DEF Upsert, Suppressed, SuppressionTypeOK, Stores
<1> QED
  BY <1>1, <1>2 DEF Add

\* A removal takes its own mailbox off the list it is made on.
LEMMA RemoveKeeps ==
  ASSUME SuppressionTypeOK, NEW i \in Instances, NEW j \in Instances,
         NEW a \in Addresses, NEW err \in BOOLEAN, Remove(i, a, err)
  PROVE  /\ Suppressed(j) \ {normalize[a]} \subseteq Suppressed(j)'
         /\ StoreOf(j) # StoreOf(i) => Suppressed(j) \subseteq Suppressed(j)'
<1>1. CASE UNCHANGED entries
  BY <1>1 DEF Suppressed
<1>2. CASE entries' = [entries EXCEPT ![StoreOf(i)] =
             [m \in Mailboxes |-> IF m = normalize[a] THEN NoEntry ELSE @[m]]]
  BY <1>2 DEF Suppressed, SuppressionTypeOK, Stores
<1> QED
  BY <1>1, <1>2 DEF Remove

\* The restart of a process empties no other process's list.
LEMMA ReopenKeeps ==
  ASSUME SuppressionTypeOK, NEW i \in Instances, NEW j \in Instances, j # i, Reopen(i)
  PROVE  Suppressed(j) \subseteq Suppressed(j)'
BY DEF Reopen, Suppressed, SuppressionTypeOK, Stores, StoreOf

\* What is added without an error is on the list.
LEMMA AddAdds ==
  ASSUME SuppressionTypeOK, NEW i \in Instances, NEW a \in Addresses,
         NEW r \in Reasons, NEW err \in BOOLEAN, Add(i, a, r, err), ~err
  PROVE  normalize[a] \in Suppressed(i)'
<1>1. normalize[a] \in Mailboxes /\ Upsert(i, a, r)
  BY SuppressionAssumption DEF Add
<1>2. r # NoEntry
  BY DEF Reasons, NoEntry
<1> QED
  BY <1>1, <1>2 DEF Upsert, Suppressed, SuppressionTypeOK, Stores
=============================================================================
