-------------------------- MODULE SharedFlagProofs --------------------------
(***************************************************************************)
(* For every finite set of workers and every set of threads: the bytes     *)
(* generated code reads are exact at every unlock, no request is ever      *)
(* silenced, and set_shared implements an atomic update of the board.      *)
(*                                                                         *)
(* What makes the claims inductive is saying what the count and the byte   *)
(* are while somebody is between two of set_shared's steps: the count is   *)
(* that of the contributors except the one not yet counted, the byte that  *)
(* of the contributors except the one not yet stored.                      *)
(***************************************************************************)
EXTENDS SharedFlag, FiniteSetTheorems, TLAPS

\* Worker w has changed its contribution to f, and the count has not followed.
Uncounted(f, w) ==
  \E t \in Threads : pc[t] = "count" /\ call[t].flag = f /\ call[t].worker = w

CountedWorkers(f) == {w \in Workers : own[f][w] <=> ~Uncounted(f, w)}

CallsInside == \A t \in Threads : pc[t] # "out" => call[t] \in Calls

SwapDone == \A t \in Threads : pc[t] \in {"count", "store"} =>
              own[call[t].flag][call[t].worker] = call[t].on

NowIsCount == \A t \in Threads : pc[t] = "store" => now[t] = count[call[t].flag]

CountExact == \A f \in Flags : count[f] = Cardinality(CountedWorkers(f))

FlagExact == \A f \in Flags : flag[f] = (announced[f] # {})

IInv == TypeOK /\ CallsInside /\ SwapDone /\ NowIsCount /\ CountExact /\ FlagExact

-----------------------------------------------------------------------------
\* At most one thread is inside set_shared.
LEMMA OneInside ==
  ASSUME TypeOK, NEW t \in Threads, NEW u \in Threads, pc[t] # "out", pc[u] # "out"
  PROVE  t = u
  BY DEF TypeOK

LEMMA InitInvariant == Init => IInv
<1> SUFFICES ASSUME Init PROVE IInv
  OBVIOUS
<1>1. TypeOK
  BY SharedFlagAssumption DEF Init, TypeOK
<1>2. CallsInside /\ SwapDone /\ NowIsCount
  BY DEF Init, CallsInside, SwapDone, NowIsCount
<1>3. CountExact
  <2> SUFFICES ASSUME NEW f \in Flags PROVE count[f] = Cardinality(CountedWorkers(f))
    BY DEF CountExact
  <2>1. CountedWorkers(f) = {}
    BY DEF Init, CountedWorkers, Uncounted
  <2> QED
    BY <2>1, FS_EmptySet DEF Init
<1>4. FlagExact
  BY DEF Init, FlagExact, announced, Pending, InTransition
<1> QED
  BY <1>1, <1>2, <1>3, <1>4 DEF IInv

-----------------------------------------------------------------------------
LEMMA EnterPreserves ==
  ASSUME IInv, NEW t \in Threads, NEW c \in Calls, Enter(t, c)
  PROVE  IInv' /\ UNCHANGED <<announced, flag>>
<1>1. TypeOK'
  BY SharedFlagAssumption DEF IInv, TypeOK, Enter
<1>2. CallsInside' /\ SwapDone' /\ NowIsCount'
  BY DEF IInv, TypeOK, Enter, CallsInside, SwapDone, NowIsCount
<1>3. ASSUME NEW f \in Flags, NEW w \in Workers
      PROVE  /\ Uncounted(f, w)' = Uncounted(f, w)
             /\ Pending(f, w)' = Pending(f, w)
  BY DEF IInv, TypeOK, Enter, Uncounted, Pending, InTransition
<1>4. CountExact'
  <2>1. ASSUME NEW f \in Flags PROVE CountedWorkers(f)' = CountedWorkers(f)
    BY <1>3 DEF CountedWorkers, Enter
  <2> QED
    BY <2>1 DEF IInv, CountExact, Enter
<1>5. UNCHANGED <<announced, flag>>
  BY <1>3 DEF announced, Enter
<1>6. FlagExact'
  BY <1>5 DEF IInv, FlagExact
<1> QED
  BY <1>1, <1>2, <1>4, <1>5, <1>6 DEF IInv

\* Only the worker and the aggregate named by the call change.
LEMMA OwnAfterSwap ==
  ASSUME TypeOK, NEW c \in Calls, own' = [own EXCEPT ![c.flag][c.worker] = c.on]
  PROVE  /\ own' \in [Flags -> [Workers -> BOOLEAN]]
         /\ \A f \in Flags, w \in Workers :
              own'[f][w] = IF f = c.flag /\ w = c.worker THEN c.on ELSE own[f][w]
<1>1. c.flag \in Flags /\ c.worker \in Workers /\ c.on \in BOOLEAN
  BY DEF Calls
<1>2. own' = [f \in Flags |-> IF f = c.flag
                              THEN [own[f] EXCEPT ![c.worker] = c.on] ELSE own[f]]
  BY <1>1 DEF TypeOK
<1>3. ASSUME NEW f \in Flags
      PROVE  /\ own[f] \in [Workers -> BOOLEAN]
             /\ [own[f] EXCEPT ![c.worker] = c.on] \in [Workers -> BOOLEAN]
             /\ \A w \in Workers : [own[f] EXCEPT ![c.worker] = c.on][w]
                                     = IF w = c.worker THEN c.on ELSE own[f][w]
  BY <1>1 DEF TypeOK
<1>4. own' \in [Flags -> [Workers -> BOOLEAN]]
  <2> DEFINE row(f) == IF f = c.flag THEN [own[f] EXCEPT ![c.worker] = c.on] ELSE own[f]
  <2>1. \A f \in Flags : row(f) \in [Workers -> BOOLEAN]
    BY <1>3
  <2>2. own' = [f \in Flags |-> row(f)]
    BY <1>2
  <2> HIDE DEF row
  <2> QED
    BY <2>1, <2>2
<1>5. ASSUME NEW f \in Flags, NEW w \in Workers
      PROVE  own'[f][w] = IF f = c.flag /\ w = c.worker THEN c.on ELSE own[f][w]
  BY <1>2, <1>3
<1> QED
  BY <1>4, <1>5

\* swap finds the value it stores: nothing changes, and the call returns.
LEMMA SwapSamePreserves ==
  ASSUME IInv, NEW t \in Threads, Swap(t), own[call[t].flag][call[t].worker] = call[t].on
  PROVE  IInv' /\ UNCHANGED <<announced, flag>>
<1>0. /\ pc[t] = "swap" /\ holder = t /\ call[t] \in Calls
      /\ \A u \in Threads : u # t => pc[u] = "out"
  BY OneInside DEF IInv, CallsInside, Swap, TypeOK
<1>1. own' = own
  <2>1. call[t].flag \in Flags /\ call[t].worker \in Workers
    BY <1>0 DEF Calls
  <2>2. own' = [own EXCEPT ![call[t].flag][call[t].worker] = call[t].on]
    BY DEF Swap
  <2>3. [own[call[t].flag] EXCEPT ![call[t].worker] = call[t].on] = own[call[t].flag]
    BY <2>1 DEF IInv, TypeOK
  <2> QED
    BY <2>1, <2>2, <2>3 DEF IInv, TypeOK
<1>2. Leave(t) /\ count' = count /\ flag' = flag
  BY DEF Swap
<1>3. \A u \in Threads : pc'[u] = "out"
  BY <1>0, <1>2 DEF Leave, IInv, TypeOK
<1>4. TypeOK'
  BY <1>0, <1>1, <1>2, <1>3, SharedFlagAssumption DEF IInv, TypeOK, Leave
<1>5. CallsInside' /\ SwapDone' /\ NowIsCount'
  BY <1>3 DEF CallsInside, SwapDone, NowIsCount
<1>6. ASSUME NEW f \in Flags, NEW w \in Workers
      PROVE  ~Uncounted(f, w) /\ ~Pending(f, w) /\ ~Uncounted(f, w)' /\ ~Pending(f, w)'
  BY <1>0, <1>3 DEF Uncounted, Pending, InTransition
<1>7. CountExact'
  <2>1. ASSUME NEW f \in Flags PROVE CountedWorkers(f)' = CountedWorkers(f)
    BY <1>1, <1>6 DEF CountedWorkers
  <2> QED
    BY <1>2, <2>1 DEF IInv, CountExact
<1>8. UNCHANGED <<announced, flag>>
  BY <1>1, <1>2, <1>6 DEF announced
<1>9. FlagExact'
  BY <1>8 DEF IInv, FlagExact
<1> QED
  BY <1>4, <1>5, <1>7, <1>8, <1>9 DEF IInv

\* swap changes a contribution: it is neither counted nor announced yet.
LEMMA SwapOtherPreserves ==
  ASSUME IInv, NEW t \in Threads, Swap(t), own[call[t].flag][call[t].worker] # call[t].on
  PROVE  IInv' /\ UNCHANGED <<announced, flag>>
<1> DEFINE cf == call[t].flag
           cw == call[t].worker
           on == call[t].on
<1>0. /\ pc[t] = "swap" /\ holder = t /\ call[t] \in Calls
      /\ \A u \in Threads : u # t => pc[u] = "out"
  BY OneInside DEF IInv, CallsInside, Swap, TypeOK
<1>1. /\ cf \in Flags /\ cw \in Workers /\ on \in BOOLEAN
      /\ call[t] = [flag |-> cf, worker |-> cw, on |-> on]
  BY <1>0 DEF Calls
<1>2. /\ pc' = [pc EXCEPT ![t] = "count"]
      /\ holder' = holder /\ call' = call /\ now' = now /\ count' = count /\ flag' = flag
  BY DEF Swap
<1>3. /\ own' \in [Flags -> [Workers -> BOOLEAN]]
      /\ \A f \in Flags, w \in Workers :
           own'[f][w] = IF f = cf /\ w = cw THEN on ELSE own[f][w]
  BY <1>0, OwnAfterSwap DEF Swap, IInv
<1>4. pc'[t] = "count" /\ \A u \in Threads : u # t => pc'[u] = "out"
  BY <1>0, <1>2 DEF IInv, TypeOK
<1>5. TypeOK'
  BY <1>0, <1>2, <1>3, <1>4, SharedFlagAssumption DEF IInv, TypeOK
<1>6. CallsInside' /\ NowIsCount'
  BY <1>0, <1>2, <1>4 DEF CallsInside, NowIsCount
<1>7. SwapDone'
  BY <1>1, <1>2, <1>3, <1>4 DEF SwapDone
<1>8. ASSUME NEW f \in Flags, NEW w \in Workers
      PROVE  /\ ~Uncounted(f, w) /\ ~Pending(f, w)
             /\ Uncounted(f, w)' <=> (f = cf /\ w = cw)
             /\ Pending(f, w)' <=> (f = cf /\ w = cw)
  <2>1. ~Uncounted(f, w) /\ ~Pending(f, w)
    BY <1>0 DEF Uncounted, Pending, InTransition
  <2>2. Uncounted(f, w)' <=> (f = cf /\ w = cw)
    BY <1>2, <1>4 DEF Uncounted
  <2>3. Pending(f, w)' <=> (f = cf /\ w = cw)
    BY <1>1, <1>2, <1>4 DEF Pending, InTransition
  <2> QED
    BY <2>1, <2>2, <2>3
<1>9. ASSUME NEW f \in Flags, NEW w \in Workers
      PROVE  /\ (own'[f][w] <=> ~Uncounted(f, w)') <=> (own[f][w] <=> ~Uncounted(f, w))
             /\ (own'[f][w] <=> ~Pending(f, w)') <=> (own[f][w] <=> ~Pending(f, w))
  <2>1. CASE f = cf /\ w = cw
    <3>1. own'[f][w] = on /\ own[f][w] # on /\ own[f][w] \in BOOLEAN
      BY <1>1, <1>3, <2>1 DEF IInv, TypeOK
    <3> QED
      BY <1>1, <1>8, <2>1, <3>1
  <2>2. CASE ~(f = cf /\ w = cw)
    BY <1>3, <1>8, <2>2
  <2> QED
    BY <2>1, <2>2
<1>10. CountExact'
  <2>1. ASSUME NEW f \in Flags PROVE CountedWorkers(f)' = CountedWorkers(f)
    BY <1>9 DEF CountedWorkers
  <2> QED
    BY <1>2, <2>1 DEF IInv, CountExact
<1>11. UNCHANGED <<announced, flag>>
  BY <1>2, <1>9 DEF announced
<1>12. FlagExact'
  BY <1>11 DEF IInv, FlagExact
<1> QED
  BY <1>5, <1>6, <1>7, <1>10, <1>11, <1>12 DEF IInv

\* The count follows the contribution; nothing is announced yet.
LEMMA CountPreserves ==
  ASSUME IInv, NEW t \in Threads, Count(t)
  PROVE  IInv' /\ UNCHANGED <<announced, flag>>
<1> DEFINE cf == call[t].flag
           cw == call[t].worker
           on == call[t].on
           n  == IF on THEN count[cf] + 1 ELSE count[cf] - 1
<1>0. /\ pc[t] = "count" /\ holder = t /\ call[t] \in Calls
      /\ \A u \in Threads : u # t => pc[u] = "out"
  BY OneInside DEF IInv, CallsInside, Count, TypeOK
<1>1. cf \in Flags /\ cw \in Workers /\ on \in BOOLEAN
  BY <1>0 DEF Calls
<1>2. /\ count' = [count EXCEPT ![cf] = n]
      /\ now' = [now EXCEPT ![t] = n]
      /\ pc' = [pc EXCEPT ![t] = "store"]
      /\ own' = own /\ flag' = flag /\ holder' = holder /\ call' = call
  BY DEF Count
<1>3. n \in Int
  BY <1>1 DEF IInv, TypeOK
<1>4. pc'[t] = "store" /\ \A u \in Threads : u # t => pc'[u] = "out"
  BY <1>0, <1>2 DEF IInv, TypeOK
<1>5. TypeOK'
  BY <1>0, <1>2, <1>3, <1>4, SharedFlagAssumption DEF IInv, TypeOK
<1>6. CallsInside' /\ SwapDone'
  BY <1>0, <1>2, <1>4 DEF IInv, CallsInside, SwapDone
<1>7. NowIsCount'
  <2>1. now'[t] = n /\ count'[cf] = n
    BY <1>1, <1>2 DEF IInv, TypeOK
  <2> QED
    BY <1>2, <1>4, <2>1 DEF NowIsCount
<1>8. own[cf][cw] = on
  BY <1>0 DEF IInv, SwapDone
<1>9. ASSUME NEW f \in Flags, NEW w \in Workers
      PROVE  /\ Uncounted(f, w) <=> (f = cf /\ w = cw)
             /\ ~Uncounted(f, w)'
             /\ Pending(f, w)' <=> Pending(f, w)
  BY <1>0, <1>2, <1>4 DEF Uncounted, Pending, InTransition
<1>10. CountExact'
  <2> SUFFICES ASSUME NEW f \in Flags PROVE count'[f] = Cardinality(CountedWorkers(f)')
    BY DEF CountExact
  <2>1. CASE f # cf
    <3>1. CountedWorkers(f)' = CountedWorkers(f)
      BY <1>2, <1>9, <2>1 DEF CountedWorkers
    <3>2. count'[f] = count[f]
      BY <1>1, <1>2, <2>1 DEF IInv, TypeOK
    <3> QED
      BY <3>1, <3>2 DEF IInv, CountExact
  <2>2. CASE f = cf
    <3>1. IsFiniteSet(CountedWorkers(f))
      BY SharedFlagAssumption, FS_Subset DEF CountedWorkers
    <3>2. count[f] = Cardinality(CountedWorkers(f)) /\ count'[f] = n
      BY <1>1, <1>2, <2>2 DEF IInv, TypeOK, CountExact
    <3>3. CASE on
      <4>1. cw \notin CountedWorkers(f)
        BY <1>8, <1>9, <2>2, <3>3 DEF CountedWorkers
      <4>2. CountedWorkers(f)' = CountedWorkers(f) \cup {cw}
        BY <1>1, <1>2, <1>8, <1>9, <2>2, <3>3 DEF CountedWorkers
      <4>3. Cardinality(CountedWorkers(f) \cup {cw}) = Cardinality(CountedWorkers(f)) + 1
        BY <3>1, <4>1, FS_AddElement
      <4> QED
        BY <2>2, <3>2, <3>3, <4>2, <4>3
    <3>4. CASE ~on
      <4>1. cw \in CountedWorkers(f)
        BY <1>1, <1>8, <1>9, <2>2, <3>4 DEF CountedWorkers
      <4>2. CountedWorkers(f)' = CountedWorkers(f) \ {cw}
        BY <1>1, <1>2, <1>8, <1>9, <2>2, <3>4 DEF CountedWorkers
      <4>3. Cardinality(CountedWorkers(f) \ {cw}) = Cardinality(CountedWorkers(f)) - 1
        BY <3>1, <4>1, FS_RemoveElement
      <4> QED
        BY <2>2, <3>2, <3>4, <4>2, <4>3
    <3> QED
      BY <1>1, <3>3, <3>4
  <2> QED
    BY <2>1, <2>2
<1>11. UNCHANGED <<announced, flag>>
  BY <1>2, <1>9 DEF announced
<1>12. FlagExact'
  BY <1>11 DEF IInv, FlagExact
<1> QED
  BY <1>5, <1>6, <1>7, <1>10, <1>11, <1>12 DEF IInv

\* The byte follows the count: this is where the change is announced.
LEMMA StorePreserves ==
  ASSUME IInv, NEW t \in Threads, Store(t)
  PROVE  /\ IInv'
         /\ call[t] \in Calls
         /\ announced' = [announced EXCEPT ![call[t].flag] =
                            IF call[t].on THEN @ \cup {call[t].worker}
                                          ELSE @ \ {call[t].worker}]
         /\ (call[t].worker \in announced[call[t].flag]) <=> ~call[t].on
<1> DEFINE cf == call[t].flag
           cw == call[t].worker
           on == call[t].on
<1>0. /\ pc[t] = "store" /\ holder = t /\ call[t] \in Calls
      /\ \A u \in Threads : u # t => pc[u] = "out"
  BY OneInside DEF IInv, CallsInside, Store, TypeOK
<1>1. cf \in Flags /\ cw \in Workers /\ on \in BOOLEAN
  BY <1>0 DEF Calls
<1>2. /\ flag' = [flag EXCEPT ![cf] = (now[t] # 0)]
      /\ Leave(t) /\ own' = own /\ count' = count
  BY DEF Store
<1>3. \A u \in Threads : pc'[u] = "out"
  BY <1>0, <1>2 DEF Leave, IInv, TypeOK
<1>4. TypeOK'
  <2>1. flag' \in [Flags -> BOOLEAN]
    BY <1>1, <1>2 DEF IInv, TypeOK
  <2> QED
    BY <1>2, <1>3, <2>1, SharedFlagAssumption DEF IInv, TypeOK, Leave
<1>5. CallsInside' /\ SwapDone' /\ NowIsCount'
  BY <1>3 DEF CallsInside, SwapDone, NowIsCount
<1>6. own[cf][cw] = on
  BY <1>0 DEF IInv, SwapDone
<1>7. ASSUME NEW f \in Flags, NEW w \in Workers
      PROVE  /\ ~Uncounted(f, w) /\ ~Uncounted(f, w)'
             /\ Pending(f, w) <=> (f = cf /\ w = cw)
             /\ ~Pending(f, w)'
  BY <1>0, <1>3 DEF Uncounted, Pending, InTransition
<1>8. CountExact'
  <2>1. ASSUME NEW f \in Flags PROVE CountedWorkers(f)' = CountedWorkers(f)
    BY <1>2, <1>7 DEF CountedWorkers
  <2> QED
    BY <1>2, <2>1 DEF IInv, CountExact
<1>9. ASSUME NEW f \in Flags, f # cf PROVE announced'[f] = announced[f]
  BY <1>2, <1>7, <1>9 DEF announced
<1>10. announced'[cf] = IF on THEN announced[cf] \cup {cw} ELSE announced[cf] \ {cw}
  BY <1>1, <1>2, <1>6, <1>7 DEF announced
<1>11. cw \in announced[cf] <=> ~on
  BY <1>1, <1>6, <1>7 DEF announced
<1>12. announced'[cf] = CountedWorkers(cf)
  BY <1>1, <1>2, <1>7 DEF announced, CountedWorkers
<1>13. FlagExact'
  <2>1. IsFiniteSet(CountedWorkers(cf))
    BY SharedFlagAssumption, FS_Subset DEF CountedWorkers
  <2>2. (count[cf] # 0) <=> (announced'[cf] # {})
    BY <1>1, <1>12, <2>1, FS_EmptySet DEF IInv, CountExact
  <2>3. flag'[cf] = (announced'[cf] # {})
    BY <1>0, <1>1, <1>2, <2>2 DEF IInv, TypeOK, NowIsCount
  <2>4. ASSUME NEW f \in Flags, f # cf PROVE flag'[f] = flag[f]
    BY <1>1, <1>2, <2>4 DEF IInv, TypeOK
  <2> QED
    BY <1>9, <2>3, <2>4 DEF IInv, FlagExact
<1>14. announced' = [announced EXCEPT ![cf] = IF on THEN @ \cup {cw} ELSE @ \ {cw}]
  BY <1>1, <1>9, <1>10 DEF announced
<1> QED
  BY <1>0, <1>4, <1>5, <1>8, <1>11, <1>13, <1>14 DEF IInv

-----------------------------------------------------------------------------
LEMMA StepPreserves == IInv /\ [Next]_vars => IInv'
<1> SUFFICES ASSUME IInv, [Next]_vars PROVE IInv'
  OBVIOUS
<1>1. ASSUME NEW t \in Threads, NEW c \in Calls, Enter(t, c) PROVE IInv'
  BY <1>1, EnterPreserves
<1>2. ASSUME NEW t \in Threads, Swap(t) PROVE IInv'
  BY <1>2, SwapSamePreserves, SwapOtherPreserves
<1>3. ASSUME NEW t \in Threads, Count(t) PROVE IInv'
  BY <1>3, CountPreserves
<1>4. ASSUME NEW t \in Threads, Store(t) PROVE IInv'
  BY <1>4, StorePreserves
<1>5. CASE UNCHANGED vars
  BY <1>5 DEF vars, IInv, TypeOK, CallsInside, SwapDone, NowIsCount, CountExact,
              CountedWorkers, Uncounted, FlagExact, announced, Pending, InTransition
<1> QED
  BY <1>1, <1>2, <1>3, <1>4, <1>5 DEF Next

LEMMA Inductive == Spec => []IInv
BY InitInvariant, StepPreserves, PTL DEF Spec

\* Type correctness of set_shared's state, and mutual exclusion inside it.
THEOREM TypeCorrect == Spec => []TypeOK
<1>1. IInv => TypeOK
  BY DEF IInv
<1> QED
  BY <1>1, Inductive, PTL

\* The comment on SHARED_TRANSITION, for any number of workers and threads.
THEOREM UnlockConsistent == Spec => []ConsistentAtUnlock
<1>1. IInv => ConsistentAtUnlock
  <2> SUFFICES ASSUME IInv, holder = NoThread, NEW f \in Flags
               PROVE  /\ count[f] = Cardinality(Contributors(f))
                      /\ flag[f] = (count[f] # 0)
    BY DEF ConsistentAtUnlock
  <2>1. \A t \in Threads : pc[t] = "out"
    BY SharedFlagAssumption DEF IInv, TypeOK
  <2>2. ASSUME NEW w \in Workers PROVE ~Uncounted(f, w) /\ ~Pending(f, w)
    BY <2>1 DEF Uncounted, Pending, InTransition
  <2>3. CountedWorkers(f) = Contributors(f) /\ announced[f] = Contributors(f)
    BY <2>2 DEF CountedWorkers, announced, Contributors
  <2>4. IsFiniteSet(Contributors(f))
    BY SharedFlagAssumption, FS_Subset DEF Contributors
  <2>5. Cardinality(Contributors(f)) = 0 <=> Contributors(f) = {}
    BY <2>4, FS_EmptySet
  <2> QED
    BY <2>3, <2>5 DEF IInv, CountExact, FlagExact
<1> QED
  BY <1>1, Inductive, PTL

\* One worker finishing its pause never silences another's announced request.
THEOREM RequestsNeverSilenced == Spec => []NeverSilenced
<1>1. IInv => NeverSilenced
  <2> SUFFICES ASSUME IInv, NEW f \in Flags, NEW w \in Workers, own[f][w],
                      \A t \in Threads : ~InTransition(t, f, w)
               PROVE  flag[f]
    BY DEF NeverSilenced
  <2>1. w \in announced[f]
    BY DEF announced, Pending
  <2> QED
    BY <2>1 DEF IInv, FlagExact
<1> QED
  BY <1>1, Inductive, PTL

\* set_shared implements the board: a step of it is an atomic raise, an atomic
\* lower, or invisible.
THEOREM SharedFlagImplementsBoard == Spec => ImplementsBoard
<1>1. Init => Board!Init
  BY DEF Init, Board!Init, announced, Pending, InTransition
<1>2. IInv /\ [Next]_vars => [Board!Next]_<<announced, flag>>
  <2> SUFFICES ASSUME IInv, [Next]_vars PROVE [Board!Next]_<<announced, flag>>
    OBVIOUS
  <2>1. ASSUME NEW t \in Threads, NEW c \in Calls, Enter(t, c)
        PROVE  UNCHANGED <<announced, flag>>
    BY <2>1, EnterPreserves
  <2>2. ASSUME NEW t \in Threads, Swap(t) PROVE UNCHANGED <<announced, flag>>
    BY <2>2, SwapSamePreserves, SwapOtherPreserves
  <2>3. ASSUME NEW t \in Threads, Count(t) PROVE UNCHANGED <<announced, flag>>
    BY <2>3, CountPreserves
  <2>4. ASSUME NEW t \in Threads, Store(t) PROVE Board!Next
    <3> DEFINE cf == call[t].flag
               cw == call[t].worker
               new == IF call[t].on THEN announced[cf] \cup {cw} ELSE announced[cf] \ {cw}
    <3>1. /\ IInv'
          /\ cf \in Flags /\ cw \in Workers
          /\ announced' = [announced EXCEPT ![cf] = new]
          /\ (cw \in announced[cf]) <=> ~call[t].on
      BY <2>4, StorePreserves DEF Calls
    <3>2. announced'[cf] = new
      BY <3>1 DEF announced
    <3>3. flag' = [flag EXCEPT ![cf] = (new # {})]
      <4>1. flag'[cf] = (new # {})
        BY <3>1, <3>2 DEF IInv, FlagExact
      <4> QED
        BY <2>4, <3>1, <4>1 DEF Store, IInv, TypeOK
    <3>4. CASE call[t].on
      <4>1. new = announced[cf] \cup {cw} /\ new # {}
        BY <3>4
      <4> QED
        BY <3>1, <3>3, <3>4, <4>1 DEF Board!Next, Board!Raise
    <3>5. CASE ~call[t].on
      <4>1. new = announced[cf] \ {cw} /\ (new # {}) = (announced[cf] # {cw})
        BY <3>1, <3>5
      <4> QED
        BY <3>1, <3>3, <3>5, <4>1 DEF Board!Next, Board!Lower
    <3> QED
      BY <3>4, <3>5
  <2>5. CASE UNCHANGED vars
    BY <2>5 DEF vars, announced, Pending, InTransition
  <2> QED
    BY <2>1, <2>2, <2>3, <2>4, <2>5 DEF Next
<1> QED
  BY <1>1, <1>2, Inductive, PTL DEF Spec, ImplementsBoard, Board!Spec
=============================================================================
