---------------------------- MODULE MCFastLock ----------------------------
(***************************************************************************)
(* FastLock for TLC.  Three threads are the least with which a writer can  *)
(* miscount: one that waits, one inside a section and one that registers   *)
(* and arrives between the two loads of the waiting writer.                *)
(***************************************************************************)
EXTENDS FastLock
============================================================================
