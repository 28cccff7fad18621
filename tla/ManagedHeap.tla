----------------------------- MODULE ManagedHeap -----------------------------
(***************************************************************************)
(* What a garbage-collected heap promises the program, whatever collector  *)
(* is behind it: objects come into being empty, change only when the       *)
(* program stores into them, and go away only when the program can no      *)
(* longer reach them.                                                      *)
(***************************************************************************)
CONSTANTS Objects, Fields, Locals, Null

VARIABLES
  local,   \* what each local variable of the program refers to
  hand,    \* a new object, on its way from the allocator to a local variable
  field,   \* what each field of each object refers to
  live     \* the objects that exist

heapVars == <<local, hand, field, live>>

Held == ({local[x] : x \in Locals} \cup {hand}) \ {Null}

Closed(S) == \A o \in S : \A f \in Fields : field[o][f] # Null => field[o][f] \in S

\* What S leads to: the smallest set that has it all and is closed.
ReachableFrom(S) ==
  {o \in Objects : \A T \in SUBSET Objects : S \subseteq T /\ Closed(T) => o \in T}

Reachable == ReachableFrom(Held)

Empty == [f \in Fields |-> Null]

HInit ==
  /\ local = [x \in Locals |-> Null]
  /\ hand = Null
  /\ field = [o \in Objects |-> Empty]
  /\ live = {}

New(o) ==
  /\ o \notin live /\ hand = Null
  /\ hand' = o
  /\ live' = live \cup {o}
  /\ UNCHANGED <<local, field>>

Take(x) ==
  /\ hand # Null
  /\ local' = [local EXCEPT ![x] = hand]
  /\ hand' = Null
  /\ UNCHANGED <<field, live>>

Load(x, y, f) ==
  /\ local[y] # Null
  /\ local' = [local EXCEPT ![x] = field[local[y]][f]]
  /\ UNCHANGED <<hand, field, live>>

Copy(x, y) ==
  /\ local' = [local EXCEPT ![x] = local[y]]
  /\ UNCHANGED <<hand, field, live>>

Forget(x) ==
  /\ local' = [local EXCEPT ![x] = Null]
  /\ UNCHANGED <<hand, field, live>>

Write(x, f, v) ==
  /\ local[x] # Null
  /\ field' = [field EXCEPT ![local[x]][f] = v]
  /\ UNCHANGED <<local, hand, live>>

\* The one thing the collector may do.
Reclaim(S) ==
  /\ S # {} /\ live' = live \ S
  /\ S \cap Reachable = {}
  /\ field' = [o \in Objects |-> IF o \in S THEN Empty ELSE field[o]]
  /\ UNCHANGED <<local, hand>>

HNext ==
  \/ \E o \in Objects : New(o)
  \/ \E x \in Locals : Take(x) \/ Forget(x)
  \/ \E x, y \in Locals : Copy(x, y)
  \/ \E x, y \in Locals, f \in Fields : Load(x, y, f) \/ Write(x, f, local[y])
  \/ \E x \in Locals, f \in Fields : Write(x, f, Null)
  \/ \E S \in SUBSET live : Reclaim(S)

HSpec == HInit /\ [][HNext]_heapVars
=============================================================================
