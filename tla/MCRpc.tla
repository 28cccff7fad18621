-------------------------------- MODULE MCRpc --------------------------------
(***************************************************************************)
(* The thread of main and two workers: enough for a call made on behalf of *)
(* a call, two callers of one worker, a call that races a join, two joins  *)
(* of one worker, and a daemon next to a worker that serves.  The liveness *)
(* run adds a third worker, so that a daemon stands beside two that serve. *)
(***************************************************************************)
EXTENDS Rpc, TLC

CONSTANTS w1, w2, w3

\* Everybody has everybody else's handle.
Everybody == {a \in Threads \X Workers : a[1] # a[2]}

\* main calls w1, w1 calls w2, and the daemon w3 calls w1: nobody calls in a
\* circle, and nobody calls the daemon.
Chain == {<<Main, w1>>, <<w1, w2>>, <<w3, w1>>}

\* main calls w1, and so does w2.
Served == {<<Main, w1>>, <<w2, w1>>}

\* w2 calls w1, which calls w2 back.
Callback == {<<w2, w1>>, <<w1, w2>>}

\* main joins w2, which w1 calls; main joins w1; w2 joins w1.
MainJoins == {<<Main, w2>>}
MainJoinsOne == {<<Main, w1>>}
Watcher == {<<w2, w1>>}

\* How many calls and joins each makes: two; or main two and the others one.
Two == [t \in Threads |-> 2]
MainMore == [t \in Threads |-> IF t = Main THEN 2 ELSE 1]
=============================================================================
