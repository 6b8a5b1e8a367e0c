------------------------------- MODULE MCRetry -------------------------------
(***************************************************************************)
(* Retry for TLC: two callers of one decorated function, and limits that   *)
(* differ, so that either can be reached first, or both at once.           *)
(***************************************************************************)
EXTENDS Retry

CONSTANTS c1, c2

MCCallers == {c1, c2}
=============================================================================
