--------------------------- MODULE MCTracePhases ----------------------------
(***************************************************************************)
(* One worker, its collector and the exiting thread. Two blocks to empty   *)
(* is the least that lets the collector be in the middle of copying, and   *)
(* lets the program move objects out of a block the collector has not      *)
(* reached.                                                                *)
(***************************************************************************)
EXTENDS TracePhases
=============================================================================
