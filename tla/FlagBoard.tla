----------------------------- MODULE FlagBoard ------------------------------
(***************************************************************************)
(* What the shared words of worker.rs promise the code that reads them:    *)
(* workers raise and lower their request one at a time, and the byte shown *)
(* is raised exactly while somebody's request is.                          *)
(***************************************************************************)
CONSTANTS Workers, Flags

VARIABLES raised,  \* raised[f]: the workers whose request is announced
          shown    \* shown[f]: the byte generated code loads

Init ==
  /\ raised = [f \in Flags |-> {}]
  /\ shown = [f \in Flags |-> FALSE]

Raise(f, w) ==
  /\ w \notin raised[f]
  /\ raised' = [raised EXCEPT ![f] = @ \cup {w}]
  /\ shown' = [shown EXCEPT ![f] = TRUE]

Lower(f, w) ==
  /\ w \in raised[f]
  /\ raised' = [raised EXCEPT ![f] = @ \ {w}]
  /\ shown' = [shown EXCEPT ![f] = (raised[f] # {w})]

Next == \E f \in Flags, w \in Workers : Raise(f, w) \/ Lower(f, w)

Spec == Init /\ [][Next]_<<raised, shown>>
=============================================================================
