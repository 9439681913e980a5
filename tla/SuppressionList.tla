--------------------------- MODULE SuppressionList ---------------------------
(***************************************************************************)
(* The addresses that must never receive outbound mail                     *)
(* (backend/ses/suppression.go, backend/ses/suppression_sql.go).           *)
(*                                                                         *)
(* A list belongs to one process (MemorySuppressionList) or is a database  *)
(* table that every process shares and that outlives them                  *)
(* (SQLSuppressionList).  Each operation is one critical section or one    *)
(* SQL statement, hence one action.  The module has no specification of    *)
(* its own: the sender and the webhook extend it and share `entries'.      *)
(***************************************************************************)
CONSTANTS
  Instances,  \* the processes that run the library
  Addresses,  \* address strings, as callers and SES spell them
  Mailboxes,  \* what normalize maps the non-blank ones to
  Blank,      \* what normalize maps a blank string to
  normalize,  \* strings.ToLower(strings.TrimSpace(email))
  Durable,    \* TRUE: SQLSuppressionList, FALSE: MemorySuppressionList
  DBFaults    \* TRUE: a SQL statement may report an error

ASSUME SuppressionAssumption ==
  /\ normalize \in [Addresses -> Mailboxes \cup {Blank}]
  /\ Blank \notin Mailboxes
  /\ Durable \in BOOLEAN
  /\ DBFaults \in BOOLEAN
  /\ DBFaults => Durable

VARIABLE
  entries     \* the reason each list holds for each mailbox, or NoEntry

Reasons == {"bounce", "complaint", "manual"}
NoEntry == "none"

\* The list instance i was built with (Config.Suppression).
StoreOf(i) == IF Durable THEN "db" ELSE i
Stores == {StoreOf(i) : i \in Instances}

SuppressionTypeOK == entries \in [Stores -> [Mailboxes -> Reasons \cup {NoEntry}]]

SuppressionInit == entries = [s \in Stores |-> [m \in Mailboxes |-> NoEntry]]

Suppressed(i) == {m \in Mailboxes : entries[StoreOf(i)][m] # NoEntry}

\* Mutant: look the address up as it is spelled, not in canonical form.
IsSuppressedVerbatim(i, a) == a \in Suppressed(i)

IsSuppressed(i, a) == normalize[a] \in Suppressed(i)

Upsert(i, a, reason) ==
  entries' = [entries EXCEPT ![StoreOf(i)][normalize[a]] = reason]

(***************************************************************************)
(* Add a to the list of instance i.  err says whether the call returned an *)
(* error.  A blank address is always refused.  A SQL statement that        *)
(* reports an error may or may not have been committed.                    *)
(***************************************************************************)
Add(i, a, reason, err) ==
  \/ /\ normalize[a] = Blank
     /\ err
     /\ UNCHANGED entries
  \/ /\ normalize[a] # Blank
     /\ err => DBFaults
     /\ \/ Upsert(i, a, reason)
        \/ err /\ UNCHANGED entries

\* Remove lifts the suppression of a; it is a no-op for an unknown address.
Remove(i, a, err) ==
  /\ err => DBFaults
  /\ \/ entries' = [entries EXCEPT ![StoreOf(i)] =
                      [m \in Mailboxes |-> IF m = normalize[a] THEN NoEntry ELSE @[m]]]
     \/ err /\ UNCHANGED entries

(***************************************************************************)
(* Instance i starts again: New allocates an empty MemorySuppressionList,  *)
(* or NewSQLSuppressionList finds the table it left (CREATE TABLE IF NOT   *)
(* EXISTS).                                                                *)
(***************************************************************************)
Reopen(i) ==
  entries' = IF Durable THEN entries
             ELSE [entries EXCEPT ![StoreOf(i)] = [m \in Mailboxes |-> NoEntry]]
=============================================================================
