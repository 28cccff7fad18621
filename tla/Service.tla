------------------------------- MODULE Service -------------------------------
(***************************************************************************)
(* What calling a worker promises, whatever queues are behind it. A worker *)
(* runs one call at a time. A call is run at most once: it is answered     *)
(* after it has run, or refused and never run; it is refused only because  *)
(* the worker has gone, and a worker that has gone keeps nobody waiting.   *)
(***************************************************************************)
CONSTANTS Threads, Workers, Nobody

VARIABLES
  call, \* what has become of each thread's call
  to,   \* the worker it is for
  gone  \* the workers that have gone

serviceVars == <<call, to, gone>>

SInit ==
  /\ call = [t \in Threads |-> "none"]
  /\ to = [t \in Threads |-> Nobody]
  /\ gone = {}

\* A call to a worker that has gone is refused at once.
Ask(t, w) ==
  /\ call[t] = "none"
  /\ call' = [call EXCEPT ![t] = IF w \in gone THEN "refused" ELSE "asked"]
  /\ to' = [to EXCEPT ![t] = w]
  /\ UNCHANGED gone

RunsFor(w, t) == call[t] = "running" /\ to[t] = w

Begin(t) ==
  /\ call[t] = "asked" /\ to[t] \notin gone
  /\ \A u \in Threads : ~RunsFor(to[t], u)
  /\ call' = [call EXCEPT ![t] = "running"]
  /\ UNCHANGED <<to, gone>>

Finish(t) ==
  /\ call[t] = "running"
  /\ call' = [call EXCEPT ![t] = "done"]
  /\ UNCHANGED <<to, gone>>

\* A worker goes between two calls, and refuses those it will not get to.
Go(w) ==
  /\ \A t \in Threads : ~RunsFor(w, t)
  /\ call' = [t \in Threads |->
       IF call[t] = "asked" /\ to[t] = w THEN "refused" ELSE call[t]]
  /\ gone' = gone \cup {w}
  /\ UNCHANGED to

Answer(t) ==
  /\ call[t] \in {"done", "refused"}
  /\ call' = [call EXCEPT ![t] = "none"]
  /\ to' = [to EXCEPT ![t] = Nobody]
  /\ UNCHANGED gone

SNext ==
  \/ \E t \in Threads : Begin(t) \/ Finish(t) \/ Answer(t)
  \/ \E t \in Threads, w \in Workers : Ask(t, w)
  \/ \E w \in Workers : Go(w)

SSpec == SInit /\ [][SNext]_serviceVars
=============================================================================
