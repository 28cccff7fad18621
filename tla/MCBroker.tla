------------------------------- MODULE MCBroker ------------------------------
(***************************************************************************)
(* One topic, of two partitions or (asked for none) of one; two keys that  *)
(* go apart; one group; two consumers: one can die with messages in hand   *)
(* and the other take its place, or both can read at once.                 *)
(***************************************************************************)
EXTENDS Broker, TLC

CONSTANTS k1, k2

\* With two partitions k1 goes to the second and k2 to the first.
Hashes == (k1 :> 3) @@ (k2 :> 6)
=============================================================================
