---------------------------- MODULE MCTokenBucket ----------------------------
(***************************************************************************)
(* A small instance of TokenBucket.  A bucket that nobody looks at for a   *)
(* second is full; the window covers a burst and what arrives after it.    *)
(***************************************************************************)
EXTENDS TokenBucket

MCHorizon == TicksPerSecond
MCWindow == TicksPerSecond + 1
=============================================================================
