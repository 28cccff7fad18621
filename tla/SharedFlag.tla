----------------------------- MODULE SharedFlag -----------------------------
(***************************************************************************)
(* The two words generated code reads (worker.rs): a byte that says "some  *)
(* worker wants a pause" and a byte that says "some worker is moving       *)
(* objects". Each byte is kept by set_shared from one boolean per worker   *)
(* and a count of the workers whose boolean is true. Writers hold the      *)
(* SHARED_TRANSITION mutex; readers load the byte without it, so every     *)
(* intermediate state of a writer is visible to them.                      *)
(***************************************************************************)
EXTENDS Integers, FiniteSets

CONSTANTS Workers,   \* the workers of the process
          Threads,   \* mutators, collectors and the exiting thread
          Flags,     \* the aggregates: the poll byte and the evacuating byte
          NoThread,  \* nobody holds the mutex
          NoCall     \* a thread outside set_shared

ASSUME SharedFlagAssumption ==
  /\ IsFiniteSet(Workers)
  /\ NoThread \notin Threads
  /\ NoCall \notin [flag : Flags, worker : Workers, on : BOOLEAN]

VARIABLES
  own,     \* own[f][w]: worker w's contribution (mark.wanted, mark.evacuating)
  count,   \* count[f]: POLL_COUNT, EVACUATING_COUNT
  flag,    \* flag[f]: ws_gc_poll_flag, ws_gc_evacuating_flag
  holder,  \* the thread inside SHARED_TRANSITION
  pc,      \* where each thread is in set_shared
  call,    \* the arguments of the call each thread is making
  now      \* set_shared's local of the same name

vars == <<own, count, flag, holder, pc, call, now>>

Calls == [flag : Flags, worker : Workers, on : BOOLEAN]

-----------------------------------------------------------------------------
Init ==
  /\ own = [f \in Flags |-> [w \in Workers |-> FALSE]]
  /\ count = [f \in Flags |-> 0]
  /\ flag = [f \in Flags |-> FALSE]
  /\ holder = NoThread
  /\ pc = [t \in Threads |-> "out"]
  /\ call = [t \in Threads |-> NoCall]
  /\ now = [t \in Threads |-> 0]

\* A transition that forgets the mutex.
EnterUnlocked(t, c) ==
  /\ pc[t] = "out"
  /\ holder' = t
  /\ pc' = [pc EXCEPT ![t] = "swap"]
  /\ call' = [call EXCEPT ![t] = c]
  /\ UNCHANGED <<own, count, flag, now>>

\* request_safepoint, clear_poll or set_evacuating is called and gets the lock.
Enter(t, c) ==
  /\ pc[t] = "out"
  /\ holder = NoThread
  /\ holder' = t
  /\ pc' = [pc EXCEPT ![t] = "swap"]
  /\ call' = [call EXCEPT ![t] = c]
  /\ UNCHANGED <<own, count, flag, now>>

\* The unlock at the end of set_shared, and on its early return.
Leave(t) ==
  /\ holder' = NoThread
  /\ pc' = [pc EXCEPT ![t] = "out"]
  /\ call' = [call EXCEPT ![t] = NoCall]
  /\ now' = [now EXCEPT ![t] = 0]

\* The early return is forgotten: a repeated request is counted twice.
SwapAndGoOn(t) ==
  LET c == call[t]
  IN  /\ pc[t] = "swap"
      /\ own' = [own EXCEPT ![c.flag][c.worker] = c.on]
      /\ pc' = [pc EXCEPT ![t] = "count"]
      /\ UNCHANGED <<count, flag, holder, call, now>>

\* own.swap(on): a call that changes nothing returns at once.
Swap(t) ==
  LET c == call[t]
  IN  /\ pc[t] = "swap"
      /\ own' = [own EXCEPT ![c.flag][c.worker] = c.on]
      /\ IF own[c.flag][c.worker] = c.on
         THEN Leave(t)
         ELSE pc' = [pc EXCEPT ![t] = "count"] /\ UNCHANGED <<holder, call, now>>
      /\ UNCHANGED <<count, flag>>

\* fetch_add or fetch_sub, and the value it leaves behind.
Count(t) ==
  LET c == call[t]
      n == IF c.on THEN count[c.flag] + 1 ELSE count[c.flag] - 1
  IN  /\ pc[t] = "count"
      /\ count' = [count EXCEPT ![c.flag] = n]
      /\ now' = [now EXCEPT ![t] = n]
      /\ pc' = [pc EXCEPT ![t] = "store"]
      /\ UNCHANGED <<own, flag, holder, call>>

\* The count is not consulted: the last caller's wish becomes the byte.
StoreOwnWish(t) ==
  /\ pc[t] = "store"
  /\ flag' = [flag EXCEPT ![call[t].flag] = call[t].on]
  /\ Leave(t)
  /\ UNCHANGED <<own, count>>

\* flag.store(now != 0), and the unlock at the end of the function.
Store(t) ==
  /\ pc[t] = "store"
  /\ flag' = [flag EXCEPT ![call[t].flag] = (now[t] # 0)]
  /\ Leave(t)
  /\ UNCHANGED <<own, count>>

Next == \E t \in Threads :
          \/ \E c \in Calls : Enter(t, c)
          \/ Swap(t)
          \/ Count(t)
          \/ Store(t)

Spec == Init /\ [][Next]_vars

-----------------------------------------------------------------------------
Contributors(f) == {w \in Workers : own[f][w]}

\* Every variable has its type, and a thread is inside set_shared exactly
\* while it holds the mutex (the guard `_transition` of set_shared).
TypeOK ==
  /\ own \in [Flags -> [Workers -> BOOLEAN]]
  /\ count \in [Flags -> Int]
  /\ flag \in [Flags -> BOOLEAN]
  /\ holder \in Threads \cup {NoThread}
  /\ pc \in [Threads -> {"out", "swap", "count", "store"}]
  /\ call \in [Threads -> Calls \cup {NoCall}]
  /\ now \in [Threads -> Int]
  /\ \A t \in Threads : pc[t] # "out" <=> holder = t

\* worker.rs above SHARED_TRANSITION: "At every unlock, count equals the
\* number of true contributions and the flag equals (count != 0)."
ConsistentAtUnlock ==
  holder = NoThread =>
    \A f \in Flags : /\ count[f] = Cardinality(Contributors(f))
                     /\ flag[f] = (count[f] # 0)

\* Thread t has changed worker w's contribution to f and not yet stored the byte.
InTransition(t, f, w) ==
  /\ pc[t] \in {"count", "store"}
  /\ call[t].flag = f
  /\ call[t].worker = w

\* One worker finishing its pause never silences another's request: whatever
\* any thread is in the middle of, a worker whose request has been announced
\* (nobody is still announcing it) finds the byte raised. worker.rs, the
\* comment on POLL_COUNT.
NeverSilenced ==
  \A f \in Flags, w \in Workers :
    (own[f][w] /\ \A t \in Threads : ~InTransition(t, f, w)) => flag[f]

-----------------------------------------------------------------------------
(***************************************************************************)
(* Refinement: to a reader, set_shared is atomic at the instant it stores  *)
(* the byte. A contribution whose transition is under way counts as not    *)
(* yet made.                                                               *)
(***************************************************************************)
Pending(f, w) == \E t \in Threads : InTransition(t, f, w)

announced == [f \in Flags |->
                {w \in Workers : own[f][w] <=> ~Pending(f, w)}]

Board == INSTANCE FlagBoard WITH raised <- announced, shown <- flag

\* set_shared, run a step at a time by any number of threads, implements an
\* atomic update of a set of requesters and of the byte shown to generated code.
ImplementsBoard == Board!Spec
=============================================================================
