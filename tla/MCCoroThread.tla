---------------------------- MODULE MCCoroThread ----------------------------
(***************************************************************************)
(* CoroThread for TLC.  Two overlapping calls mix up results; the third is *)
(* the bystander that inherits what they leave behind.                     *)
(***************************************************************************)
EXTENDS CoroThread, TLC

CONSTANTS c1, c2, c3

MCCalls == {c1, c2, c3}
=============================================================================
