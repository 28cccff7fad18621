---------------------------- MODULE MCSharedFlag ----------------------------
(***************************************************************************)
(* Two workers and three threads on both aggregates: a third thread is     *)
(* what lets a call wait behind a transition while another one starts.     *)
(***************************************************************************)
EXTENDS SharedFlag
=============================================================================
