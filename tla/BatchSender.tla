----------------------------- MODULE BatchSender -----------------------------
(***************************************************************************)
(* What a caller of SendBatch sees of both backends, ses.go and smtp.go:   *)
(* every message is tried, in order, whatever became of the ones before;   *)
(* each has its receipt, and the call returns the first error.  SESSender  *)
(* and SMTPSender implement it.                                            *)
(*                                                                         *)
(* It describes what the code does.  The interface in deliver.go says      *)
(* something else in three places:                                         *)
(*  - an error only if a message could not be dispatched to any recipient  *)
(*    (:101-102); here the errors in Unsure say nothing about that;        *)
(*  - the errors of a batch in Recipients[].Err of its receipts (:90-91,   *)
(*    :107-108); here a failed message has an empty receipt;               *)
(*  - ErrSuppressed if every To address is suppressed (:115-116); here if  *)
(*    every address of To, CC and BCC is.                                  *)
(***************************************************************************)
EXTENDS Integers, Sequences

CONSTANTS
  Senders,  \* goroutines that call SendBatch
  Batches,  \* the batches they may pass, sequences of messages
  Errors,   \* what Send may return; "nil" and "ErrSuppressed" among them
  Unsure    \* the errors after which a message may have been mailed

VARIABLES
  status,   \* whether the sender is inside a call
  batch,    \* the messages of the call
  results,  \* receipt and error of every message tried so far
  firstErr, \* the error the call will return
  mail      \* external: the recipients that are really mailed, per message

batchVars == <<status, batch, results, firstErr, mail>>

\* Recipients are named by their positions in To, CC and BCC together.
Positions(m) == DOMAIN (m.to \o m.cc \o m.bcc)

Result(sent, suppressed, err) == [sent |-> sent, suppressed |-> suppressed, err |-> err]

(***************************************************************************)
(* What may become of message m: the answer to the caller, and who is      *)
(* really mailed.  Without an error somebody is mailed, the receipt lists  *)
(* exactly them, and everybody else as suppressed.                         *)
(***************************************************************************)
Delivered(m) ==
  {<<Result(s, Positions(m) \ s, "nil"), s>> : s \in (SUBSET Positions(m)) \ {{}}}

\* Everybody is suppressed, and the receipt lists them with the error.
Withheld(m) == {<<Result({}, Positions(m), "ErrSuppressed"), {}>>}

\* An error before anything is handed over: nobody is mailed.
Failed == {<<Result({}, {}, e), {}>> : e \in Errors \ ({"nil", "ErrSuppressed"} \cup Unsure)}

\* An error while the message is handed over, or after it.
InDoubt(m) == {<<Result({}, {}, e), s>> : e \in Unsure, s \in SUBSET Positions(m)}

Outcomes(m) == Delivered(m) \cup Withheld(m) \cup Failed \cup InDoubt(m)

BatchInit ==
  /\ status = [t \in Senders |-> "idle"]
  /\ batch = [t \in Senders |-> <<>>]
  /\ results = [t \in Senders |-> <<>>]
  /\ firstErr = [t \in Senders |-> "nil"]
  /\ mail = [t \in Senders |-> <<>>]

\* SendBatch is called.
Begin(t) ==
  /\ status[t] = "idle"
  /\ \E b \in Batches :
       /\ batch' = [batch EXCEPT ![t] = b]
       /\ status' = [status EXCEPT ![t] = IF b = <<>> THEN "returned" ELSE "running"]
  /\ UNCHANGED <<results, firstErr, mail>>

FirstError(t, err) == IF firstErr[t] = "nil" THEN err ELSE firstErr[t]

\* The next message is tried.
Attempt(t) ==
  LET j == Len(results[t]) + 1 IN
  /\ status[t] = "running"
  /\ \E o \in Outcomes(batch[t][j]) :
       /\ results' = [results EXCEPT ![t] = Append(@, o[1])]
       /\ mail' = [mail EXCEPT ![t] = Append(@, o[2])]
       /\ firstErr' = [firstErr EXCEPT ![t] = FirstError(t, o[1].err)]
  /\ status' = [status EXCEPT ![t] = IF j < Len(batch[t]) THEN @ ELSE "returned"]
  /\ UNCHANGED batch

\* The calls of the senders in dead end: taken back by the caller, or lost
\* with their process.
End(dead) ==
  LET Clear(f, zero) == [t \in Senders |-> IF t \in dead THEN zero ELSE f[t]] IN
  /\ status' = Clear(status, "idle")
  /\ batch' = Clear(batch, <<>>)
  /\ results' = Clear(results, <<>>)
  /\ firstErr' = Clear(firstErr, "nil")
  /\ mail' = Clear(mail, <<>>)

BatchNext ==
  \/ \E t \in Senders : Begin(t) \/ Attempt(t)
  \/ \E dead \in SUBSET Senders : End(dead)

BatchSpec == BatchInit /\ [][BatchNext]_batchVars

-----------------------------------------------------------------------------
(***************************************************************************)
(* A call that returns has tried every message, and returns the error of   *)
(* the first one that failed, or none if none failed (ses.go:384-395,      *)
(* smtp.go:210-221).                                                       *)
(***************************************************************************)
FirstErrorOfBatch ==
  \A t \in Senders : status[t] = "returned" =>
    /\ Len(results[t]) = Len(batch[t])
    /\ LET Erred == {j \in DOMAIN results[t] : results[t][j].err # "nil"}
       IN IF Erred = {} THEN firstErr[t] = "nil"
          ELSE \E j \in Erred : /\ \A k \in Erred : j <= k
                                /\ firstErr[t] = results[t][j].err
=============================================================================
