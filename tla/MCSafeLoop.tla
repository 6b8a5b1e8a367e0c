----------------------------- MODULE MCSafeLoop -----------------------------
(***************************************************************************)
(* SafeLoop for TLC: the thread's own events and one extra event of each   *)
(* kind, so that a reading of several flags can be torn.                   *)
(***************************************************************************)
EXTENDS SafeLoop

CONSTANTS ev_stop, ev_pause, stop2, pause2

MCStopEvents  == <<ev_stop, stop2>>
MCPauseEvents == <<ev_pause, pause2>>
=============================================================================
