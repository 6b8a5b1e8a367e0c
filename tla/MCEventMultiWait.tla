-------------------------- MODULE MCEventMultiWait --------------------------
(***************************************************************************)
(* EventMultiWait for TLC: one thread in event_multi_wait, one that waits  *)
(* on the same two events directly.  a is the plain event, waited for to   *)
(* be set; b is inverted (it counts when it is clear), its wait() returns  *)
(* on any change, and it does not notify when it is cleared.               *)
(***************************************************************************)
EXTENDS EventMultiWait, TLC

CONSTANTS m, t1, a, b

MCThreads   == {m, t1}
MCEvents    == {a, b}
MCWaitOn    == a :> "set" @@ b :> "both"
MCOrder     == <<a, b>>
MCSignalled == a :> TRUE @@ b :> FALSE
=============================================================================
