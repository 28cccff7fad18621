------------------------------ MODULE RpcProofs ------------------------------
(***************************************************************************)
(* Calls keep the promise of Service, for any workers, whoever calls, joins*)
(* and spawns whom. The inductive invariant says where a call can be: a    *)
(* caller that waits is, once, in the queue of the worker it waits for, or *)
(* it is the caller that worker is running for, and a worker that has gone *)
(* has neither. At the end of the file, stop_all waits for whoever can be  *)
(* waited for.                                                             *)
(***************************************************************************)
EXTENDS Rpc, TLAPS

AboutAWorker == {"spawn", "store", "tell", "recv", "tellStop", "take", "join"}

\* A call into the runtime is about a worker.
OnAWorker == \A t \in Threads : op[t] \in AboutAWorker => on[t] \in Workers

\* A worker whose thread is about to be made has a handle, and one maker.
Spawning ==
  /\ \A t \in Threads : op[t] = "spawn" =>
       at[on[t]] = "unborn" /\ \E i \in DOMAIN handles : handles[i] = on[t]
  /\ \A t, u \in Threads : op[t] = "spawn" /\ op[u] = "spawn" /\ on[t] = on[u] => t = u

Waiting(t) == Calling(t) /\ reply[t] = "none"

\* What is in a queue is a call that waits and is not being run, ...
Queued ==
  \A w \in Workers : \A i \in DOMAIN queue[w] : queue[w][i] \in Threads =>
    /\ Waiting(queue[w][i]) /\ on[queue[w][i]] = w
    /\ caller[w] # queue[w][i]

\* ... and is there once.
Once ==
  \A w \in Workers : \A i, j \in DOMAIN queue[w] :
    queue[w][i] = queue[w][j] /\ queue[w][i] \in Threads => i = j

\* What is being run is a call that waits.
Run == \A w \in Workers : caller[w] \in Threads => Waiting(caller[w]) /\ on[caller[w]] = w

NoReply == \A t \in Threads : ~Calling(t) => reply[t] = "none"

CallInv == Answerable /\ Queued /\ Once /\ Run /\ NoReply

\* A worker that refuses calls has left its loop.
Left == \A w \in Workers : w \notin alive => at[w] \in {"quiesce", "ended"}

IInv == TypeOK /\ OnAWorker /\ Spawning /\ Left /\ CallInv

-----------------------------------------------------------------------------
\* A function that differs from another at one place.
LEMMA OneChanged ==
  ASSUME NEW dom, NEW f, f = [x \in dom |-> f[x]], NEW g, g = [x \in dom |-> g[x]],
         NEW a \in dom, NEW v, \A x \in dom : g[x] = IF x = a THEN v ELSE f[x]
  PROVE  g = [f EXCEPT ![a] = v]
OBVIOUS

\* Calls that are neither made, nor moved, nor answered.
CallsKept ==
  /\ \A t \in Threads : /\ Calling(t)' <=> Calling(t)
                        /\ Calling(t) => on'[t] = on[t]
  /\ UNCHANGED <<reply, caller, alive>>

LEMMA KeptService ==
  ASSUME TypeOK, CallsKept
  PROVE  UNCHANGED <<CallState, [t \in Threads |-> IF Calling(t) THEN on[t] ELSE Nobody],
                     Workers \ alive>>
<1>1. \A t \in Threads : CallState'[t] = CallState[t]
  BY DEF CallsKept, CallState
<1>2. CallState' = CallState
  BY <1>1 DEF CallState
<1> QED
  BY <1>2 DEF CallsKept

LEMMA KeptInv ==
  ASSUME TypeOK, CallInv, CallsKept, UNCHANGED queue
  PROVE  CallInv'
<1>1. \A t \in Threads : /\ Waiting(t)' <=> Waiting(t)
                         /\ Waiting(t) => on'[t] = on[t]
  BY DEF CallsKept, Waiting
<1>2. UNCHANGED <<reply, caller, alive, queue>>
  BY DEF CallsKept
<1>3. Answerable'
  BY <1>1, <1>2 DEF CallInv, Answerable, Waiting
<1>4. Queued' /\ Once' /\ Run'
  BY <1>1, <1>2 DEF CallInv, Queued, Once, Run, Waiting
<1>5. NoReply'
  BY <1>2 DEF CallsKept, CallInv, NoReply
<1> QED
  BY <1>3, <1>4, <1>5 DEF CallInv

LEMMA InitInv == Init => IInv
<1> SUFFICES ASSUME Init PROVE IInv
  OBVIOUS
<1>1. TypeOK
  <2>1. ProgramOK /\ LifecycleOK
    BY RpcAssumption DEF Init, ProgramOK, LifecycleOK, Places, RuntimeCalls
  <2>2. MailboxOK
    BY DEF Init, MailboxOK
  <2>3. CallsOK
    BY RpcAssumption DEF Init, CallsOK, Threads
  <2>4. CountsOK
    BY RpcAssumption DEF Init, CountsOK
  <2> QED
    BY <2>1, <2>2, <2>3, <2>4 DEF TypeOK
<1>2. OnAWorker /\ Spawning /\ Left
  BY DEF Init, OnAWorker, Spawning, Left, AboutAWorker
<1>3. \A t \in Threads : ~Calling(t)
  BY DEF Init, Calling
<1>4. \A w \in Workers : caller[w] \notin Threads /\ DOMAIN queue[w] = {}
  <2>1. \A w \in Workers : caller[w] = Nobody /\ queue[w] = <<>>
    BY DEF Init
  <2>2. DOMAIN <<>> = {}
    OBVIOUS
  <2> QED
    BY <2>1, <2>2, RpcAssumption
<1>5. CallInv
  BY <1>3, <1>4 DEF Init, CallInv, Answerable, Queued, Once, Run, NoReply
<1> QED
  BY <1>1, <1>2, <1>5 DEF IInv

-----------------------------------------------------------------------------
(* Spawning.                                                                *)

LEMMA SpawnHandleInv ==
  ASSUME IInv, NEW t \in Threads, NEW w \in Workers, SpawnHandle(t, w)
  PROVE  IInv' /\ CallsKept
<1> USE DEF IInv, SpawnHandle, Enter, Running, lifecycle, mailbox, calls
<1>1. /\ op' = [op EXCEPT ![t] = "spawn"] /\ on' = [on EXCEPT ![t] = w]
      /\ handles' = Append(handles, w) /\ op[t] = "none"
  OBVIOUS
<1>2. op \in [Threads -> RuntimeCalls] /\ on \in [Threads -> Workers \cup {Nobody}]
      /\ handles \in Seq(Workers)
  BY DEF TypeOK, ProgramOK, LifecycleOK
<1>3. TypeOK'
  <2>1. ProgramOK'
    BY <1>1 DEF TypeOK, ProgramOK, Places, RuntimeCalls
  <2>2. LifecycleOK' /\ MailboxOK' /\ CountsOK'
    BY <1>1 DEF TypeOK, LifecycleOK, MailboxOK, CountsOK
  <2>3. CallsOK'
    BY <1>1 DEF TypeOK, ProgramOK, CallsOK
  <2> QED
    BY <2>1, <2>2, <2>3 DEF TypeOK
<1>4. OnAWorker'
  BY <1>1, <1>2 DEF OnAWorker
<1>5. Spawning'
  <2>1. handles'[Len(handles) + 1] = w /\ Len(handles) + 1 \in DOMAIN handles'
    BY <1>1, <1>2
  <2>2. \A i \in DOMAIN handles : i \in DOMAIN handles' /\ handles'[i] = handles[i]
    BY <1>1, <1>2
  <2>3. \A u \in Threads : u # t => op'[u] = op[u] /\ on'[u] = on[u]
    BY <1>1, <1>2
  <2>4. op'[t] = "spawn" /\ on'[t] = w
    BY <1>1, <1>2
  <2>5. \A u \in Threads : op[u] = "spawn" => on[u] # w
    BY DEF Spawning
  <2>6. at[w] = "unborn" /\ at' = at
    OBVIOUS
  <2> QED
    BY <2>1, <2>2, <2>3, <2>4, <2>5, <2>6 DEF Spawning
<1>6. Left'
  BY DEF Left
<1>7. CallsKept
  BY <1>1, <1>2 DEF CallsKept, Calling
<1>8. CallInv'
  BY <1>7, KeptInv
<1> QED
  BY <1>3, <1>4, <1>5, <1>6, <1>7, <1>8

\* A call into the runtime that is over.
LEMMA SpawnFailsInv ==
  ASSUME IInv, NEW t \in Threads, SpawnFails(t)
  PROVE  IInv' /\ CallsKept
<1> USE DEF IInv, SpawnFails, In, lifecycle, mailbox, calls
<1>1. TypeOK'
  <2>1. ProgramOK'
    BY DEF TypeOK, ProgramOK, Places, RuntimeCalls
  <2>2. LifecycleOK' /\ MailboxOK' /\ CountsOK'
    BY DEF TypeOK, LifecycleOK, MailboxOK, CountsOK
  <2>3. CallsOK'
    BY DEF TypeOK, ProgramOK, CallsOK
  <2> QED
    BY <2>1, <2>2, <2>3 DEF TypeOK
<1>2. op \in [Threads -> RuntimeCalls] /\ on \in [Threads -> Workers \cup {Nobody}]
  BY DEF TypeOK, ProgramOK
<1>3. OnAWorker'
  BY <1>2 DEF OnAWorker, AboutAWorker
<1>4. Spawning'
  BY <1>2 DEF Spawning
<1>5. Left'
  BY DEF Left
<1>6. CallsKept
  BY <1>2 DEF CallsKept, Calling
<1> QED
  BY <1>1, <1>3, <1>4, <1>5, <1>6, KeptInv

LEMMA SpawnThreadInv ==
  ASSUME IInv, NEW t \in Threads, SpawnThread(t)
  PROVE  IInv' /\ CallsKept
<1> USE DEF IInv, SpawnThread, Proceed, lifecycle, mailbox, calls
<1>1. on[t] \in Workers /\ at[on[t]] = "unborn"
  BY DEF OnAWorker, AboutAWorker, Spawning
<1>2. TypeOK'
  <2>1. ProgramOK'
    BY <1>1 DEF TypeOK, ProgramOK, Places, RuntimeCalls
  <2>2. LifecycleOK' /\ MailboxOK' /\ CountsOK'
    BY <1>1 DEF TypeOK, LifecycleOK, MailboxOK, CountsOK
  <2>3. CallsOK'
    BY <1>1 DEF TypeOK, ProgramOK, CallsOK
  <2> QED
    BY <2>1, <2>2, <2>3 DEF TypeOK
<1>3. /\ op \in [Threads -> RuntimeCalls] /\ on \in [Threads -> Workers \cup {Nobody}]
      /\ at \in [Threads -> Places]
  BY DEF TypeOK, ProgramOK
<1>4. OnAWorker'
  BY <1>3 DEF OnAWorker, AboutAWorker
<1>5. Spawning'
  BY <1>1, <1>3 DEF Spawning, Threads
<1>6. Left'
  BY <1>1, <1>3 DEF Left, Threads
<1>7. CallsKept
  BY <1>3 DEF CallsKept, Calling
<1> QED
  BY <1>2, <1>4, <1>5, <1>6, <1>7, KeptInv

LEMMA StoreThreadInv ==
  ASSUME IInv, NEW t \in Threads, StoreThread(t)
  PROVE  IInv' /\ CallsKept
<1> USE DEF IInv, StoreThread, In, mailbox, calls
<1>1. on[t] \in Workers
  BY DEF OnAWorker, AboutAWorker
<1>2. TypeOK'
  <2>1. ProgramOK'
    BY <1>1 DEF TypeOK, ProgramOK, Places, RuntimeCalls
  <2>2. LifecycleOK' /\ MailboxOK' /\ CountsOK'
    BY <1>1 DEF TypeOK, LifecycleOK, MailboxOK, CountsOK
  <2>3. CallsOK'
    BY <1>1 DEF TypeOK, ProgramOK, CallsOK
  <2> QED
    BY <2>1, <2>2, <2>3 DEF TypeOK
<1>3. op \in [Threads -> RuntimeCalls] /\ on \in [Threads -> Workers \cup {Nobody}]
  BY DEF TypeOK, ProgramOK
<1>4. OnAWorker'
  BY <1>3 DEF OnAWorker, AboutAWorker
<1>5. Spawning'
  BY <1>3 DEF Spawning
<1>6. Left'
  BY DEF Left
<1>7. CallsKept
  BY <1>3 DEF CallsKept, Calling
<1> QED
  BY <1>2, <1>4, <1>5, <1>6, <1>7, KeptInv

-----------------------------------------------------------------------------
(* Joining.                                                                 *)

\* A Stop at the end of a queue moves no call.
LEMMA StopPushed ==
  ASSUME TypeOK, CallInv, CallsKept, NEW w, Push(w, Stop)
  PROVE  CallInv'
<1>1. Stop \notin Threads
  BY RpcAssumption
<1>2. queue \in [Workers -> Seq(Threads \cup {Stop})]
  BY DEF TypeOK, MailboxOK
<1>3. \A v \in Workers : \A i \in DOMAIN queue[v] :
        i \in DOMAIN queue'[v] /\ queue'[v][i] = queue[v][i]
  BY <1>2 DEF Push
<1>4. \A v \in Workers : \A i \in DOMAIN queue'[v] :
        queue'[v][i] \in Threads => i \in DOMAIN queue[v] /\ queue'[v][i] = queue[v][i]
  <2> SUFFICES ASSUME NEW v \in Workers, NEW i \in DOMAIN queue'[v], queue'[v][i] \in Threads
               PROVE  i \in DOMAIN queue[v] /\ queue'[v][i] = queue[v][i]
    OBVIOUS
  <2>1. CASE v = w
    <3>1. queue'[w] = Append(queue[w], Stop) /\ queue[w] \in Seq(Threads \cup {Stop})
      BY <1>2, <2>1 DEF Push
    <3> QED
      BY <2>1, <3>1, <1>1
  <2>2. CASE v # w
    BY <2>2, <1>2 DEF Push
  <2> QED
    BY <2>1, <2>2
<1>5. \A t \in Threads : /\ Waiting(t)' <=> Waiting(t)
                         /\ Waiting(t) => on'[t] = on[t]
  BY DEF CallsKept, Waiting
<1>6. UNCHANGED <<reply, caller, alive>>
  BY DEF CallsKept
<1>7. \A t \in Threads : Waiting(t) => on[t] \in Workers
  BY DEF CallInv, Answerable, Waiting, TypeOK, MailboxOK
<1>8. Answerable'
  BY <1>3, <1>5, <1>6, <1>7 DEF CallInv, Answerable, Waiting
<1>9. Queued'
  BY <1>4, <1>5, <1>6 DEF CallInv, Queued
<1>10. Once'
  BY <1>4 DEF CallInv, Once
<1>11. Run' /\ NoReply'
  BY <1>5, <1>6 DEF CallsKept, CallInv, Run, NoReply
<1> QED
  BY <1>8, <1>9, <1>10, <1>11 DEF CallInv

LEMMA PushStopInv ==
  ASSUME IInv, NEW t \in Threads, NEW w \in Workers, PushStop(t, w)
  PROVE  IInv' /\ CallsKept
<1> USE DEF IInv, PushStop, Enter, Running, CountOp, lifecycle, calls
<1>1. op[t] = "none" /\ op' = [op EXCEPT ![t] = "tellStop"] /\ on' = [on EXCEPT ![t] = w]
  OBVIOUS
<1>2. op \in [Threads -> RuntimeCalls] /\ on \in [Threads -> Workers \cup {Nobody}]
  BY DEF TypeOK, ProgramOK
<1>3. queue' \in [Workers -> Seq(Threads \cup {Stop})]
  BY DEF TypeOK, MailboxOK, Push
<1>4. ops' \in [Threads -> Nat] /\ \A u \in Threads : ops'[u] <= MaxOps[u]
  <2>1. ops[t] < MaxOps[t] /\ ops' = [ops EXCEPT ![t] = @ + 1]
    OBVIOUS
  <2>2. ops \in [Threads -> Nat] /\ \A u \in Threads : ops[u] <= MaxOps[u]
    BY DEF TypeOK, CountsOK
  <2>3. MaxOps[t] \in Nat
    BY RpcAssumption
  <2> QED
    BY <2>1, <2>2, <2>3
<1>5. TypeOK'
  <2>1. ProgramOK'
    BY <1>1, <1>3, <1>4 DEF TypeOK, ProgramOK, Places, RuntimeCalls
  <2>2. LifecycleOK' /\ MailboxOK' /\ CountsOK'
    BY <1>1, <1>3, <1>4 DEF TypeOK, LifecycleOK, MailboxOK, CountsOK
  <2>3. CallsOK'
    BY <1>1, <1>3, <1>4 DEF TypeOK, ProgramOK, CallsOK
  <2> QED
    BY <2>1, <2>2, <2>3 DEF TypeOK
<1>6. OnAWorker'
  BY <1>1, <1>2 DEF OnAWorker
<1>7. Spawning'
  BY <1>1, <1>2 DEF Spawning
<1>8. Left'
  BY DEF Left
<1>9. CallsKept
  BY <1>1, <1>2 DEF CallsKept, Calling
<1>10. CallInv'
  BY <1>9, StopPushed
<1> QED
  BY <1>5, <1>6, <1>7, <1>8, <1>9, <1>10

LEMMA TakeThreadInv ==
  ASSUME IInv, NEW t \in Threads, TakeThread(t)
  PROVE  IInv' /\ CallsKept
<1> USE DEF IInv, TakeThread, In, Proceed, mailbox, calls
<1>1. on[t] \in Workers
  BY DEF OnAWorker, AboutAWorker
<1>2. TypeOK'
  <2>1. ProgramOK'
    BY <1>1 DEF TypeOK, ProgramOK, Places, RuntimeCalls
  <2>2. LifecycleOK' /\ MailboxOK' /\ CountsOK'
    BY <1>1 DEF TypeOK, LifecycleOK, MailboxOK, CountsOK
  <2>3. CallsOK'
    BY <1>1 DEF TypeOK, ProgramOK, CallsOK
  <2> QED
    BY <2>1, <2>2, <2>3 DEF TypeOK
<1>3. op \in [Threads -> RuntimeCalls] /\ on \in [Threads -> Workers \cup {Nobody}]
  BY DEF TypeOK, ProgramOK
<1>4. OnAWorker'
  BY <1>3 DEF OnAWorker, AboutAWorker
<1>5. Spawning'
  BY <1>3 DEF Spawning
<1>6. Left'
  BY DEF Left
<1>7. CallsKept
  BY <1>3 DEF CallsKept, Calling
<1> QED
  BY <1>2, <1>4, <1>5, <1>6, <1>7, KeptInv

LEMMA JoinedInv ==
  ASSUME IInv, NEW t \in Threads, Joined(t)
  PROVE  IInv' /\ CallsKept
<1> USE DEF IInv, Joined, In, lifecycle, mailbox, calls
<1>1. TypeOK'
  <2>1. ProgramOK'
    BY DEF TypeOK, ProgramOK, Places, RuntimeCalls
  <2>2. LifecycleOK' /\ MailboxOK' /\ CountsOK'
    BY DEF TypeOK, LifecycleOK, MailboxOK, CountsOK
  <2>3. CallsOK'
    BY DEF TypeOK, ProgramOK, CallsOK
  <2> QED
    BY <2>1, <2>2, <2>3 DEF TypeOK
<1>2. op \in [Threads -> RuntimeCalls] /\ on \in [Threads -> Workers \cup {Nobody}]
  BY DEF TypeOK, ProgramOK
<1>3. OnAWorker'
  BY <1>2 DEF OnAWorker, AboutAWorker
<1>4. Spawning'
  BY <1>2 DEF Spawning
<1>5. Left'
  BY DEF Left
<1>6. CallsKept
  BY <1>2 DEF CallsKept, Calling
<1> QED
  BY <1>1, <1>3, <1>4, <1>5, <1>6, KeptInv

\* The notification that follows a push.
LEMMA TellInv ==
  ASSUME IInv, NEW t \in Threads,
         Tell(t, "tell", "recv") \/ Tell(t, "tellStop", "take")
  PROVE  IInv' /\ CallsKept
<1> USE DEF IInv, Tell, Proceed, lifecycle, calls
<1>1. TypeOK'
  <2>1. ProgramOK'
    BY DEF TypeOK, ProgramOK, Places, RuntimeCalls
  <2>2. LifecycleOK' /\ MailboxOK' /\ CountsOK'
    BY DEF TypeOK, LifecycleOK, MailboxOK, CountsOK
  <2>3. CallsOK'
    BY DEF TypeOK, ProgramOK, CallsOK
  <2> QED
    BY <2>1, <2>2, <2>3 DEF TypeOK
<1>2. op \in [Threads -> RuntimeCalls] /\ on \in [Threads -> Workers \cup {Nobody}]
  BY DEF TypeOK, ProgramOK
<1>3. OnAWorker'
  BY <1>2 DEF OnAWorker, AboutAWorker
<1>4. Spawning'
  BY <1>2 DEF Spawning
<1>5. Left'
  BY DEF Left
<1>6. CallsKept
  BY <1>2 DEF CallsKept, Calling
<1> QED
  BY <1>1, <1>3, <1>4, <1>5, <1>6, KeptInv

-----------------------------------------------------------------------------
(* A worker between its calls, and main.                                    *)

LEMMA InitReturnsInv ==
  ASSUME IInv, NEW w \in Workers, InitReturns(w)
  PROVE  IInv' /\ CallsKept
<1> USE DEF IInv, InitReturns, mailbox, calls
<1>1. TypeOK'
  <2>1. ProgramOK'
    BY DEF TypeOK, ProgramOK, Places, Threads
  <2>2. LifecycleOK' /\ MailboxOK' /\ CountsOK'
    BY DEF TypeOK, LifecycleOK, MailboxOK, CountsOK
  <2>3. CallsOK'
    BY DEF TypeOK, ProgramOK, CallsOK, Threads
  <2> QED
    BY <2>1, <2>2, <2>3 DEF TypeOK
<1>2. at \in [Threads -> Places] /\ w \in Threads
  BY DEF TypeOK, ProgramOK, Threads
<1>3. OnAWorker'
  BY DEF OnAWorker
<1>4. Spawning'
  BY <1>2 DEF Spawning
<1>5. Left'
  BY <1>2 DEF Left
<1>6. CallsKept
  BY DEF CallsKept, Calling
<1> QED
  BY <1>1, <1>3, <1>4, <1>5, <1>6, KeptInv

LEMMA QuiesceInv ==
  ASSUME IInv, NEW w \in Workers, Quiesce(w)
  PROVE  IInv' /\ CallsKept
<1> USE DEF IInv, Quiesce, lifecycle, mailbox, calls
<1>1. TypeOK'
  <2>1. ProgramOK'
    BY DEF TypeOK, ProgramOK, Places, Threads
  <2>2. LifecycleOK' /\ MailboxOK' /\ CountsOK'
    BY DEF TypeOK, LifecycleOK, MailboxOK, CountsOK
  <2>3. CallsOK'
    BY DEF TypeOK, ProgramOK, CallsOK, Threads
  <2> QED
    BY <2>1, <2>2, <2>3 DEF TypeOK
<1>2. at \in [Threads -> Places] /\ w \in Threads
  BY DEF TypeOK, ProgramOK, Threads
<1>3. OnAWorker'
  BY DEF OnAWorker
<1>4. Spawning'
  BY <1>2 DEF Spawning
<1>5. Left'
  BY <1>2 DEF Left
<1>6. CallsKept
  BY DEF CallsKept, Calling
<1> QED
  BY <1>1, <1>3, <1>4, <1>5, <1>6, KeptInv

LEMMA SpuriousInv ==
  ASSUME IInv, NEW w \in Workers, Spurious(w)
  PROVE  IInv' /\ CallsKept
<1> USE DEF IInv, Spurious, program, lifecycle, calls
<1>1. TypeOK'
  <2>1. MailboxOK'
    BY DEF TypeOK, MailboxOK
  <2> QED
    BY <2>1 DEF TypeOK, ProgramOK, LifecycleOK, CallsOK, CountsOK
<1>2. OnAWorker' /\ Spawning' /\ Left'
  BY DEF OnAWorker, Spawning, Left
<1>3. CallsKept
  BY DEF CallsKept, Calling
<1> QED
  BY <1>1, <1>2, <1>3, KeptInv

\* The steps of stop_all that leave every queue alone.
MainSteps == MainReturns \/ StopTell \/ StopTake \/ StopJoin \/ ProcessEnds

LEMMA MainFrame ==
  ASSUME IInv, MainSteps \/ StopPush
  PROVE  /\ UNCHANGED <<on, handles, known, serving, alive, calls, ops>>
         /\ \A t \in Threads : t # Main => op'[t] = op[t]
         /\ op[Main] \in {"none", "stop", "stopTell", "stopTake", "stopJoin"}
         /\ op'[Main] \in {"none", "stop", "stopTell", "stopTake", "stopJoin"}
         /\ op' \in [Threads -> RuntimeCalls]
         /\ at' \in [Threads -> Places]
         /\ \A w \in Workers : at'[w] = at[w]
<1>1. /\ op \in [Threads -> RuntimeCalls] /\ at \in [Threads -> Places]
      /\ Main \in Threads /\ Main \notin Workers /\ Workers \subseteq Threads
  BY RpcAssumption DEF IInv, TypeOK, ProgramOK, Threads
<1> USE DEF lifecycle, mailbox, calls, Proceed, RuntimeCalls
<1>2. CASE MainReturns
  BY <1>1, <1>2 DEF MainReturns, Places
<1>3. CASE StopPush
  BY <1>1, <1>3 DEF StopPush
<1>4. CASE StopTell
  BY <1>1, <1>4 DEF StopTell
<1>5. CASE StopTake
  BY <1>1, <1>5 DEF StopTake, WaitForServing
<1>6. CASE StopJoin
  BY <1>1, <1>6 DEF StopJoin
<1>7. CASE ProcessEnds
  BY <1>1, <1>7 DEF ProcessEnds, Places
<1> QED
  BY <1>2, <1>3, <1>4, <1>5, <1>6, <1>7 DEF MainSteps

LEMMA MainTypes ==
  ASSUME IInv, MainSteps \/ StopPush
  PROVE  TypeOK'
<1> USE DEF lifecycle, mailbox, calls, Proceed
<1>1. ProgramOK'
  BY MainFrame DEF IInv, TypeOK, ProgramOK
<1>2. CallsOK'
  BY MainFrame DEF IInv, TypeOK, CallsOK
<1>3. /\ exit \in [seen : Nat, next : Nat, heard : SUBSET Workers]
      /\ handles \in Seq(Workers) /\ serving \subseteq Workers
      /\ thread \in [Workers -> {"none", "held", "taken"}]
      /\ queue \in [Workers -> Seq(Threads \cup {Stop})]
      /\ asleep \subseteq Workers
  BY DEF IInv, TypeOK, CountsOK, LifecycleOK, MailboxOK
<1>4. exit' \in [seen : Nat, next : Nat, heard : SUBSET Workers]
  <2>1. CASE MainReturns
    BY <2>1, <1>3 DEF MainReturns
  <2>2. CASE StopPush
    BY <2>2, <1>3 DEF StopPush
  <2> DEFINE onwards == [exit EXCEPT !.next = @ + 1]
  <2>0. onwards \in [seen : Nat, next : Nat, heard : SUBSET Workers]
    <3>1. exit \in [seen : Nat, next : Nat, heard : SUBSET Workers]
      BY <1>3
    <3>2. exit.next + 1 \in Nat
      BY <3>1
    <3> QED
      BY <3>1, <3>2
  <2> HIDE DEF onwards
  <2>3. CASE StopTell
    BY <2>0, <2>3 DEF StopTell, onwards
  <2>4. CASE StopTake
    <3>1. exit' = onwards \/ exit' = exit
      BY <2>4 DEF StopTake, WaitForServing, onwards
    <3> QED
      BY <3>1, <2>0, <1>3
  <2>5. CASE StopJoin
    BY <2>0, <2>5 DEF StopJoin, onwards
  <2>6. CASE ProcessEnds
    BY <2>6, <1>3 DEF ProcessEnds
  <2> QED
    BY <2>1, <2>2, <2>3, <2>4, <2>5, <2>6 DEF MainSteps
<1>5. thread' \in [Workers -> {"none", "held", "taken"}]
  <2>1. CASE StopTake
    BY <2>1, <1>3 DEF StopTake, WaitForServing
  <2>2. CASE MainReturns \/ StopPush \/ StopTell \/ StopJoin \/ ProcessEnds
    BY <2>2, <1>3 DEF MainReturns, StopPush, StopTell, StopJoin, ProcessEnds
  <2> QED
    BY <2>1, <2>2 DEF MainSteps
<1>6. asleep' \subseteq Workers
  BY <1>3 DEF MainSteps, MainReturns, StopPush, StopTell, StopTake, StopJoin, ProcessEnds
<1>7. queue' \in [Workers -> Seq(Threads \cup {Stop})]
  <2>1. CASE StopPush
    <3>1. queue' = [queue EXCEPT ![Current] = Append(@, Stop)] \/ queue' = queue
      BY <2>1 DEF StopPush, Push
    <3>2. CASE Current \in Workers
      <4>1. Append(queue[Current], Stop) \in Seq(Threads \cup {Stop})
        BY <3>2, <1>3
      <4> QED
        BY <3>1, <3>2, <4>1, <1>3
    <3>3. CASE Current \notin Workers
      BY <3>1, <3>3, <1>3
    <3> QED
      BY <3>2, <3>3
  <2>2. CASE MainSteps
    BY <2>2, <1>3 DEF MainSteps, MainReturns, StopTell, StopTake, StopJoin, ProcessEnds
  <2> QED
    BY <2>1, <2>2
<1>8. UNCHANGED <<handles, known, serving, alive, ops>>
  BY MainFrame
<1> QED
  BY <1>1, <1>2, <1>4, <1>5, <1>6, <1>7, <1>8
  DEF IInv, TypeOK, CountsOK, LifecycleOK, MailboxOK

LEMMA MainInv ==
  ASSUME IInv, MainSteps \/ StopPush
  PROVE  IInv' /\ CallsKept
<1> USE DEF lifecycle, mailbox, calls
<1>1. /\ Main \in Threads /\ Main \notin Workers
  BY RpcAssumption DEF Threads
<1>2. OnAWorker'
  BY MainFrame DEF IInv, OnAWorker, AboutAWorker
<1>3. Spawning'
  <2>1. \A t \in Threads : op'[t] = "spawn" => op[t] = "spawn" /\ on[t] \in Workers
    BY MainFrame DEF IInv, OnAWorker, AboutAWorker
  <2> QED
    BY <2>1, MainFrame DEF IInv, Spawning
<1>4. Left'
  BY MainFrame DEF IInv, Left
<1>5. CallsKept
  BY MainFrame DEF CallsKept, Calling
<1>6. CASE MainSteps
  <2>1. UNCHANGED queue
    BY <1>6 DEF MainSteps, MainReturns, StopTell, StopTake, StopJoin, ProcessEnds
  <2> QED
    BY <2>1, <1>2, <1>3, <1>4, <1>5, MainTypes, KeptInv DEF IInv
<1>7. CASE StopPush
  <2>1. Push(Current, Stop) \/ UNCHANGED queue
    BY <1>7 DEF StopPush
  <2>2. CallInv'
    BY <2>1, <1>5, KeptInv, StopPushed DEF IInv
  <2> QED
    BY <2>2, <1>2, <1>3, <1>4, <1>5, MainTypes DEF IInv
<1> QED
  BY <1>6, <1>7

-----------------------------------------------------------------------------
(* The steps of a call.                                                     *)

To == [t \in Threads |-> IF Calling(t) THEN on[t] ELSE Nobody]

LEMMA Shapes ==
  ASSUME IInv
  PROVE  /\ at \in [Threads -> Places] /\ op \in [Threads -> RuntimeCalls]
         /\ on \in [Threads -> Workers \cup {Nobody}]
         /\ queue \in [Workers -> Seq(Threads \cup {Stop})]
         /\ caller \in [Workers -> Threads \cup {Nobody}]
         /\ reply \in [Threads -> {"none", "ok", "died"}]
         /\ Workers \subseteq Threads /\ Nobody \notin Threads /\ Stop \notin Threads
         /\ \A t \in Threads : Calling(t) => on[t] \in Workers
BY RpcAssumption
DEF IInv, TypeOK, ProgramOK, MailboxOK, CallsOK, Threads, OnAWorker, AboutAWorker, Calling

\* What the calls look like to a caller.
LEMMA States ==
  ASSUME IInv, NEW t \in Threads
  PROVE  /\ ~Calling(t) => CallState[t] = "none" /\ To[t] = Nobody
         /\ Calling(t) => To[t] = on[t] /\ on[t] \in Workers
         /\ Waiting(t) /\ caller[on[t]] = t => CallState[t] = "running"
         /\ Waiting(t) /\ caller[on[t]] # t => CallState[t] = "asked"
         /\ Calling(t) /\ reply[t] = "ok" => CallState[t] = "done"
         /\ Calling(t) /\ reply[t] = "died" => CallState[t] = "refused"
BY Shapes DEF CallState, To, Waiting, Answers

\* A call that is running is the one its worker is running.
LEMMA Running1 ==
  ASSUME IInv, NEW t \in Threads, CallState[t] = "running"
  PROVE  Waiting(t) /\ caller[on[t]] = t /\ To[t] = on[t]
BY Shapes DEF CallState, To, Waiting, Answers

LEMMA WaitingKept ==
  ASSUME IInv, UNCHANGED <<queue, caller, alive>>,
         \A t \in Threads : /\ Waiting(t)' <=> Waiting(t)
                            /\ Waiting(t) => on'[t] = on[t],
         NoReply'
  PROVE  CallInv'
<1>1. Answerable'
  BY DEF IInv, CallInv, Answerable, Waiting
<1>2. Queued' /\ Once' /\ Run'
  BY DEF IInv, CallInv, Queued, Once, Run
<1> QED
  BY <1>1, <1>2 DEF CallInv

LEMMA ReceiveStep ==
  ASSUME IInv, NEW t \in Threads, Receive(t)
  PROVE  IInv' /\ S!Answer(t)
<1> USE DEF lifecycle, mailbox
<1>1. /\ reply[t] # "none" /\ op[t] = "recv"
      /\ op' = [op EXCEPT ![t] = "none"] /\ on' = [on EXCEPT ![t] = Nobody]
      /\ reply' = [reply EXCEPT ![t] = "none"]
      /\ UNCHANGED <<at, handles, known, thread, serving, queue, alive, asleep, caller, ops, exit>>
  BY DEF Receive, In
<1>2. TypeOK'
  <2>1. ProgramOK'
    BY <1>1 DEF IInv, TypeOK, ProgramOK, Places, RuntimeCalls
  <2>2. LifecycleOK' /\ MailboxOK' /\ CountsOK'
    BY <1>1 DEF IInv, TypeOK, LifecycleOK, MailboxOK, CountsOK
  <2>3. CallsOK'
    BY <1>1 DEF IInv, TypeOK, CallsOK
  <2> QED
    BY <2>1, <2>2, <2>3 DEF TypeOK
<1>3. OnAWorker'
  BY <1>1, Shapes DEF IInv, OnAWorker, AboutAWorker
<1>4. Spawning'
  BY <1>1, Shapes DEF IInv, Spawning
<1>5. Left'
  BY <1>1 DEF IInv, Left
<1>6. /\ Calling(t) /\ ~Calling(t)' /\ reply'[t] = "none"
      /\ \A u \in Threads : u # t => /\ Calling(u)' <=> Calling(u)
                                    /\ reply'[u] = reply[u] /\ on'[u] = on[u]
  BY <1>1, Shapes DEF Calling
<1>7. NoReply'
  BY <1>6 DEF IInv, CallInv, NoReply
<1>8. CallInv'
  BY <1>1, <1>6, <1>7, WaitingKept DEF Waiting
<1>9. IInv'
  BY <1>2, <1>3, <1>4, <1>5, <1>8 DEF IInv
<1>10. \A u \in Threads : /\ CallState'[u] = IF u = t THEN "none" ELSE CallState[u]
                          /\ To'[u] = IF u = t THEN Nobody ELSE To[u]
  BY <1>1, <1>6 DEF CallState, To
<1>11. CallState' = [CallState EXCEPT ![t] = "none"] /\ To' = [To EXCEPT ![t] = Nobody]
  BY <1>10 DEF CallState, To
<1>12. CallState[t] \in {"done", "refused"}
  BY <1>1, <1>6, Shapes, States
<1> QED
  BY <1>1, <1>9, <1>11, <1>12 DEF S!Answer, To

\* A call that is refused at once.
LEMMA RefusedStep ==
  ASSUME IInv, NEW t \in Threads, NEW w \in Workers, Call(t, w), w \notin alive
  PROVE  IInv' /\ S!Ask(t, w)
<1> USE DEF lifecycle
<1>1. /\ op[t] = "none" /\ op' = [op EXCEPT ![t] = "recv"] /\ on' = [on EXCEPT ![t] = w]
      /\ reply' = [reply EXCEPT ![t] = "died"]
      /\ ops[t] < MaxOps[t] /\ ops' = [ops EXCEPT ![t] = @ + 1]
      /\ UNCHANGED <<at, handles, known, thread, serving, queue, alive, asleep, caller, exit>>
  BY DEF Call, PushCall, Enter, Running, CountOp
<1>2. TypeOK'
  <2>1. ProgramOK'
    BY <1>1 DEF IInv, TypeOK, ProgramOK, Places, RuntimeCalls
  <2>2. LifecycleOK' /\ MailboxOK'
    BY <1>1 DEF IInv, TypeOK, LifecycleOK, MailboxOK
  <2>3. CountsOK'
    <3>1. MaxOps[t] \in Nat
      BY RpcAssumption
    <3>2. ops \in [Threads -> Nat] /\ \A u \in Threads : ops[u] <= MaxOps[u]
      BY DEF IInv, TypeOK, CountsOK
    <3>3. ops' \in [Threads -> Nat] /\ \A u \in Threads : ops'[u] <= MaxOps[u]
      BY <1>1, <3>1, <3>2
    <3> QED
      BY <1>1, <3>3 DEF IInv, TypeOK, CountsOK
  <2>4. CallsOK'
    BY <1>1 DEF IInv, TypeOK, CallsOK
  <2> QED
    BY <2>1, <2>2, <2>3, <2>4 DEF TypeOK
<1>3. OnAWorker'
  BY <1>1, Shapes DEF IInv, OnAWorker
<1>4. Spawning'
  BY <1>1, Shapes DEF IInv, Spawning
<1>5. Left'
  BY <1>1 DEF IInv, Left
<1>6. /\ ~Calling(t) /\ Calling(t)' /\ reply'[t] = "died" /\ on'[t] = w
      /\ \A u \in Threads : u # t => /\ Calling(u)' <=> Calling(u)
                                    /\ reply'[u] = reply[u] /\ on'[u] = on[u]
  BY <1>1, Shapes DEF Calling
<1>7. NoReply'
  BY <1>6 DEF IInv, CallInv, NoReply
<1>8. CallInv'
  BY <1>1, <1>6, <1>7, WaitingKept DEF Waiting
<1>9. IInv'
  BY <1>2, <1>3, <1>4, <1>5, <1>8 DEF IInv
<1>10. \A u \in Threads : /\ CallState'[u] = IF u = t THEN "refused" ELSE CallState[u]
                          /\ To'[u] = IF u = t THEN w ELSE To[u]
  BY <1>1, <1>6 DEF CallState, To, Answers
<1>11. CallState' = [CallState EXCEPT ![t] = "refused"] /\ To' = [To EXCEPT ![t] = w]
  BY <1>10 DEF CallState, To
<1>12. CallState[t] = "none"
  BY <1>6, States
<1> QED
  BY <1>1, <1>9, <1>11, <1>12 DEF S!Ask, To

\* A call that gets into the queue of a worker that is there.
LEMMA AskedStep ==
  ASSUME IInv, NEW t \in Threads, NEW w \in Workers, Call(t, w), w \in alive
  PROVE  IInv' /\ S!Ask(t, w)
<1> USE DEF lifecycle
<1>1. /\ op[t] = "none" /\ op' = [op EXCEPT ![t] = "tell"] /\ on' = [on EXCEPT ![t] = w]
      /\ queue' = [queue EXCEPT ![w] = Append(@, t)]
      /\ ops[t] < MaxOps[t] /\ ops' = [ops EXCEPT ![t] = @ + 1]
      /\ UNCHANGED <<at, handles, known, thread, serving, reply, alive, asleep, caller, exit>>
  BY DEF Call, PushCall, Enter, Push, Running, CountOp
<1>2. TypeOK'
  <2>1. ProgramOK'
    BY <1>1 DEF IInv, TypeOK, ProgramOK, Places, RuntimeCalls
  <2>2. LifecycleOK' /\ MailboxOK'
    BY <1>1 DEF IInv, TypeOK, LifecycleOK, MailboxOK
  <2>3. CountsOK'
    <3>1. MaxOps[t] \in Nat
      BY RpcAssumption
    <3>2. ops \in [Threads -> Nat] /\ \A u \in Threads : ops[u] <= MaxOps[u]
      BY DEF IInv, TypeOK, CountsOK
    <3>3. ops' \in [Threads -> Nat] /\ \A u \in Threads : ops'[u] <= MaxOps[u]
      BY <1>1, <3>1, <3>2
    <3> QED
      BY <1>1, <3>3 DEF IInv, TypeOK, CountsOK
  <2>4. CallsOK'
    BY <1>1 DEF IInv, TypeOK, CallsOK
  <2> QED
    BY <2>1, <2>2, <2>3, <2>4 DEF TypeOK
<1>3. OnAWorker'
  BY <1>1, Shapes DEF IInv, OnAWorker
<1>4. Spawning'
  BY <1>1, Shapes DEF IInv, Spawning
<1>5. Left'
  BY <1>1 DEF IInv, Left
<1>6. /\ ~Calling(t) /\ Calling(t)' /\ reply[t] = "none" /\ on'[t] = w
      /\ \A u \in Threads : u # t => /\ Calling(u)' <=> Calling(u)
                                    /\ on'[u] = on[u]
  BY <1>1, Shapes DEF Calling, IInv, CallInv, NoReply
<1>7. /\ ~Waiting(t) /\ Waiting(t)'
      /\ \A u \in Threads : u # t => (Waiting(u)' <=> Waiting(u))
  BY <1>1, <1>6 DEF Waiting
<1>8. \A v \in Workers : caller[v] # t /\ \A i \in DOMAIN queue[v] : queue[v][i] # t
  BY <1>7 DEF IInv, CallInv, Run, Queued
<1>9. /\ \A v \in Workers : v # w => queue'[v] = queue[v]
      /\ queue'[w] = Append(queue[w], t) /\ queue[w] \in Seq(Threads \cup {Stop})
  BY <1>1, Shapes
<1>10. /\ DOMAIN queue[w] = 1 .. Len(queue[w]) /\ Len(queue[w]) \in Nat
       /\ DOMAIN queue'[w] = 1 .. Len(queue[w]) + 1
       /\ \A i \in DOMAIN queue[w] : queue'[w][i] = queue[w][i]
       /\ queue'[w][Len(queue[w]) + 1] = t
  BY <1>9
<1>11. \A i \in DOMAIN queue'[w] : i \in DOMAIN queue[w] \/ i = Len(queue[w]) + 1
  BY <1>10
<1>12. Answerable'
  <2> SUFFICES ASSUME NEW u \in Threads, Waiting(u)'
               PROVE  /\ on'[u] \in alive
                      /\ \/ caller[on'[u]] = u
                         \/ \E i \in DOMAIN queue'[on'[u]] : queue'[on'[u]][i] = u
    BY <1>1 DEF Answerable, Waiting
  <2>1. CASE u = t
    <3>1. Len(queue[w]) + 1 \in DOMAIN queue'[w] /\ queue'[w][Len(queue[w]) + 1] = t
      BY <1>10
    <3>2. on'[t] = w /\ w \in Workers /\ w \in alive
      BY <1>6
    <3> QED
      BY <2>1, <3>1, <3>2, Zenon
  <2>2. CASE u # t
    <3>1. /\ on'[u] = on[u] /\ on[u] \in Workers /\ on[u] \in alive
          /\ caller[on[u]] = u \/ \E i \in DOMAIN queue[on[u]] : queue[on[u]][i] = u
      BY <2>2, <1>6, <1>7, Shapes DEF IInv, CallInv, Answerable, Waiting
    <3>2. \A i \in DOMAIN queue[on[u]] : i \in DOMAIN queue'[on[u]] /\ queue'[on[u]][i] = queue[on[u]][i]
      BY <3>1, <1>9, <1>10
    <3> QED
      BY <3>1, <3>2
  <2> QED
    BY <2>1, <2>2
<1>13. Queued'
  <2> SUFFICES ASSUME NEW v \in Workers, NEW i \in DOMAIN queue'[v],
                      NEW x \in Threads, queue'[v][i] = x
               PROVE  Waiting(x)' /\ on'[x] = v /\ caller[v] # x
    BY <1>1 DEF Queued
  <2>1. CASE v = w /\ i = Len(queue[w]) + 1
    BY <2>1, <1>6, <1>7, <1>8, <1>10
  <2>2. CASE i \in DOMAIN queue[v] /\ queue'[v][i] = queue[v][i]
    <3>1. x # t
      BY <1>8, <2>2
    <3> QED
      BY <3>1, <2>2, <1>6, <1>7 DEF IInv, CallInv, Queued
  <2>3. CASE v # w
    BY <2>2, <2>3, <1>9
  <2>4. CASE v = w
    <3>1. i \in DOMAIN queue'[w]
      BY <2>4
    <3>2. CASE i \in DOMAIN queue[w]
      BY <3>2, <2>2, <2>4, <1>10
    <3>3. CASE i = Len(queue[w]) + 1
      BY <3>3, <2>1, <2>4
    <3> QED
      BY <3>1, <3>2, <3>3, <1>11
  <2> QED
    BY <2>3, <2>4
<1>14. Once'
  <2> SUFFICES ASSUME NEW v \in Workers, NEW i \in DOMAIN queue'[v], NEW j \in DOMAIN queue'[v],
                      queue'[v][i] = queue'[v][j], queue'[v][i] \in Threads
               PROVE  i = j
    BY DEF Once
  <2>1. CASE v # w
    BY <2>1, <1>9 DEF IInv, CallInv, Once
  <2>2. CASE v = w
    <3>1. /\ i \in DOMAIN queue[w] => queue'[w][i] = queue[w][i] /\ queue'[w][i] # t
          /\ j \in DOMAIN queue[w] => queue'[w][j] = queue[w][j] /\ queue'[w][j] # t
          /\ i \notin DOMAIN queue[w] => i = Len(queue[w]) + 1 /\ queue'[w][i] = t
          /\ j \notin DOMAIN queue[w] => j = Len(queue[w]) + 1 /\ queue'[w][j] = t
      BY <2>2, <1>8, <1>10, <1>11
    <3> QED
      BY <2>2, <3>1 DEF IInv, CallInv, Once
  <2> QED
    BY <2>1, <2>2
<1>15. Run'
  BY <1>1, <1>6, <1>7, <1>8 DEF IInv, CallInv, Run
<1>16. NoReply'
  BY <1>1, <1>6 DEF IInv, CallInv, NoReply
<1>17. IInv'
  BY <1>2, <1>3, <1>4, <1>5, <1>12, <1>13, <1>14, <1>15, <1>16 DEF IInv, CallInv
<1>18. \A u \in Threads : /\ CallState'[u] = IF u = t THEN "asked" ELSE CallState[u]
                          /\ To'[u] = IF u = t THEN w ELSE To[u]
  BY <1>1, <1>6, <1>8 DEF CallState, To, Answers
<1>19. CallState' = [CallState EXCEPT ![t] = "asked"] /\ To' = [To EXCEPT ![t] = w]
  BY <1>18 DEF CallState, To
<1>20. CallState[t] = "none"
  BY <1>6, States
<1> QED
  BY <1>1, <1>17, <1>19, <1>20 DEF S!Ask, To

-----------------------------------------------------------------------------
(* The worker's end of a call.                                              *)

\* What a worker that goes for a message does not disturb.
LEMMA DequeueFrame ==
  ASSUME IInv, NEW w \in Workers, at[w] = "loop", caller[w] = Nobody,
         UNCHANGED <<op, on, handles, known, thread, serving, alive, reply, ops, exit>>,
         NEW p \in {"loop", "stop", "method"}, at' = [at EXCEPT ![w] = p],
         NEW u \in Threads \cup {Nobody}, caller' = [caller EXCEPT ![w] = u],
         u # Nobody <=> p = "method",
         queue' \in [Workers -> Seq(Threads \cup {Stop})], asleep' \subseteq Workers
  PROVE  TypeOK' /\ OnAWorker' /\ Spawning' /\ Left'
<1>1. /\ w \in Threads
      /\ at' \in [Threads -> Places] /\ at'[w] = p
      /\ \A v \in Threads : v # w => at'[v] = at[v]
  BY Shapes DEF Places
<1>2. /\ caller' \in [Workers -> Threads \cup {Nobody}] /\ caller'[w] = u
      /\ \A v \in Workers : v # w => caller'[v] = caller[v]
  BY Shapes
<1>3. \A v \in Workers : caller'[v] # Nobody <=> at'[v] = "method"
  BY <1>1, <1>2, Shapes DEF IInv, TypeOK, CallsOK
<1>4. ProgramOK' /\ LifecycleOK' /\ CountsOK'
  BY <1>1 DEF IInv, TypeOK, ProgramOK, LifecycleOK, CountsOK
<1>5. MailboxOK'
  BY DEF IInv, TypeOK, MailboxOK
<1>6. CallsOK'
  BY <1>2, <1>3, Shapes DEF CallsOK
<1>7. TypeOK'
  BY <1>4, <1>5, <1>6 DEF TypeOK
<1>8. OnAWorker'
  BY DEF IInv, OnAWorker
<1>9. Spawning'
  <2>1. \A t \in Threads : op[t] = "spawn" => on[t] \in Threads /\ on[t] # w
    BY Shapes DEF IInv, OnAWorker, AboutAWorker, Spawning
  <2> QED
    BY <2>1, <1>1 DEF IInv, Spawning
<1>10. Left'
  BY <1>1, Shapes DEF IInv, Left
<1> QED
  BY <1>7, <1>8, <1>9, <1>10

\* What is left of a queue when its head is taken off.
LEMMA TailOf ==
  ASSUME NEW T, NEW q \in Seq(T), q # <<>>
  PROVE  /\ Tail(q) \in Seq(T)
         /\ 1 \in DOMAIN q /\ Head(q) = q[1] /\ Head(q) \in T
         /\ \A i \in DOMAIN Tail(q) : i + 1 \in DOMAIN q /\ Tail(q)[i] = q[i + 1] /\ i + 1 # 1
         /\ \A i \in DOMAIN q : i # 1 => i - 1 \in DOMAIN Tail(q) /\ Tail(q)[i - 1] = q[i]
         /\ \A i, j \in DOMAIN Tail(q) : i + 1 = j + 1 => i = j
OBVIOUS

\* A worker goes to sleep, takes a Stop, or takes a call.
LEMMA DequeueCases ==
  ASSUME IInv, NEW w \in Workers, Dequeue(w)
  PROVE  /\ at[w] = "loop" /\ caller[w] = Nobody
         /\ UNCHANGED <<op, on, handles, known, thread, serving, alive, reply, ops, exit>>
         /\ \/ /\ asleep' = asleep \cup {w}
               /\ UNCHANGED <<at, queue, caller>>
            \/ /\ queue[w] # <<>> /\ queue' = [queue EXCEPT ![w] = Tail(@)]
               /\ Head(queue[w]) = Stop /\ at' = [at EXCEPT ![w] = "stop"]
               /\ UNCHANGED <<caller, asleep>>
            \/ /\ queue[w] # <<>> /\ queue' = [queue EXCEPT ![w] = Tail(@)]
               /\ Head(queue[w]) \in Threads /\ at' = [at EXCEPT ![w] = "method"]
               /\ caller' = [caller EXCEPT ![w] = Head(queue[w])]
               /\ UNCHANGED asleep
<1>1. /\ at[w] = "loop"
      /\ UNCHANGED <<op, on, handles, known, thread, serving, alive, reply, ops, exit>>
  BY DEF Dequeue, lifecycle
<1>2. caller[w] = Nobody
  BY <1>1 DEF IInv, TypeOK, CallsOK
<1>3. queue[w] \in Seq(Threads \cup {Stop})
  BY Shapes
<1>4. queue[w] # <<>> => Head(queue[w]) \in Threads \cup {Stop}
  BY <1>3, TailOf
<1> QED
  BY <1>1, <1>2, <1>4 DEF Dequeue

\* The queues after a worker has taken a message out of its own.
LEMMA TailQueues ==
  ASSUME IInv, NEW w \in Workers, queue[w] # <<>>, queue' = [queue EXCEPT ![w] = Tail(@)]
  PROVE  /\ queue' \in [Workers -> Seq(Threads \cup {Stop})]
         /\ \A v \in Workers : v # w => queue'[v] = queue[v]
         /\ \A i \in DOMAIN queue'[w] :
              i + 1 \in DOMAIN queue[w] /\ queue'[w][i] = queue[w][i + 1] /\ i + 1 # 1
         /\ \A i \in DOMAIN queue[w] :
              i # 1 => i - 1 \in DOMAIN queue'[w] /\ queue'[w][i - 1] = queue[w][i]
         /\ Head(queue[w]) = queue[w][1] /\ 1 \in DOMAIN queue[w]
         /\ Once'
<1>1. queue[w] \in Seq(Threads \cup {Stop}) /\ queue'[w] = Tail(queue[w])
  BY Shapes
<1>2. /\ queue'[w] \in Seq(Threads \cup {Stop})
      /\ \A v \in Workers : v # w => queue'[v] = queue[v]
      /\ \A i \in DOMAIN queue'[w] :
           i + 1 \in DOMAIN queue[w] /\ queue'[w][i] = queue[w][i + 1] /\ i + 1 # 1
      /\ \A i \in DOMAIN queue[w] :
           i # 1 => i - 1 \in DOMAIN queue'[w] /\ queue'[w][i - 1] = queue[w][i]
      /\ \A i, j \in DOMAIN queue'[w] : i + 1 = j + 1 => i = j
      /\ Head(queue[w]) = queue[w][1] /\ 1 \in DOMAIN queue[w]
  BY <1>1, TailOf, Shapes
<1>3. queue' \in [Workers -> Seq(Threads \cup {Stop})]
  BY <1>2, Shapes
<1>4. Once'
  <2> SUFFICES ASSUME NEW v \in Workers, NEW i \in DOMAIN queue'[v], NEW j \in DOMAIN queue'[v],
                      queue'[v][i] = queue'[v][j], queue'[v][i] \in Threads
               PROVE  i = j
    BY DEF Once
  <2>1. CASE v = w
    <3>1. queue[w][i + 1] = queue[w][j + 1] /\ queue[w][i + 1] \in Threads
          /\ i + 1 \in DOMAIN queue[w] /\ j + 1 \in DOMAIN queue[w]
      BY <2>1, <1>2
    <3>2. i + 1 = j + 1
      BY <3>1 DEF IInv, CallInv, Once
    <3> QED
      BY <3>2, <2>1, <1>2
  <2>2. CASE v # w
    BY <2>2, <1>2 DEF IInv, CallInv, Once
  <2> QED
    BY <2>1, <2>2
<1> QED
  BY <1>2, <1>3, <1>4

\* A Stop is taken, and the calls behind it are where they were.
LEMMA StopTakenInv ==
  ASSUME IInv, NEW w \in Workers, queue[w] # <<>>, queue' = [queue EXCEPT ![w] = Tail(@)],
         Head(queue[w]) = Stop, UNCHANGED <<op, on, alive, reply, caller>>
  PROVE  CallInv'
<1>1. \A t \in Threads : Waiting(t)' <=> Waiting(t)
  BY DEF Waiting, Calling
<1>2. Answerable'
  <2> SUFFICES ASSUME NEW t \in Threads, Waiting(t)
               PROVE  /\ on[t] \in alive
                      /\ \/ caller[on[t]] = t
                         \/ \E i \in DOMAIN queue'[on[t]] : queue'[on[t]][i] = t
    BY <1>1 DEF Answerable, Waiting
  <2>1. /\ on[t] \in alive /\ on[t] \in Workers
        /\ caller[on[t]] = t \/ \E i \in DOMAIN queue[on[t]] : queue[on[t]][i] = t
    BY Shapes DEF IInv, CallInv, Answerable, Waiting
  <2>2. ASSUME NEW i \in DOMAIN queue[on[t]], queue[on[t]][i] = t
        PROVE  \E j \in DOMAIN queue'[on[t]] : queue'[on[t]][j] = t
    <3>1. CASE on[t] = w
      <4>1. i # 1 /\ i \in DOMAIN queue[w]
        BY <3>1, <2>2, TailQueues, Shapes
      <4>2. i - 1 \in DOMAIN queue'[w] /\ queue'[w][i - 1] = t
        BY <4>1, <3>1, <2>2, TailQueues
      <4> QED
        BY <4>2, <3>1
    <3>2. CASE on[t] # w
      BY <3>2, <2>1, <2>2, TailQueues
    <3> QED
      BY <3>1, <3>2
  <2> QED
    BY <2>1, <2>2
<1>3. Queued'
  <2> SUFFICES ASSUME NEW v \in Workers, NEW i \in DOMAIN queue'[v], queue'[v][i] \in Threads
               PROVE  /\ Waiting(queue'[v][i]) /\ on[queue'[v][i]] = v
                      /\ caller[v] # queue'[v][i]
    BY <1>1 DEF Queued
  <2>1. \E j \in DOMAIN queue[v] : queue'[v][i] = queue[v][j]
    <3>1. CASE v = w
      <4>1. i \in DOMAIN queue'[w]
        BY <3>1
      <4>2. i + 1 \in DOMAIN queue[w] /\ queue'[w][i] = queue[w][i + 1] /\ i + 1 # 1
        BY <4>1, TailQueues
      <4> QED
        BY <4>2, <3>1
    <3>2. CASE v # w
      BY <3>2, TailQueues
    <3> QED
      BY <3>1, <3>2
  <2> QED
    BY <2>1, <1>1 DEF IInv, CallInv, Queued
<1>4. Once'
  BY TailQueues
<1>5. Run' /\ NoReply'
  BY <1>1 DEF IInv, CallInv, Run, NoReply, Calling
<1> QED
  BY <1>2, <1>3, <1>4, <1>5 DEF CallInv

\* A call is taken, and it is the one that runs.
LEMMA CallTakenStep ==
  ASSUME IInv, NEW w \in Workers, queue[w] # <<>>, queue' = [queue EXCEPT ![w] = Tail(@)],
         NEW u \in Threads, Head(queue[w]) = u, caller[w] = Nobody,
         caller' = [caller EXCEPT ![w] = u], UNCHANGED <<op, on, alive, reply>>
  PROVE  CallInv' /\ S!Begin(u)
<1>1. \A t \in Threads : Waiting(t)' <=> Waiting(t)
  BY DEF Waiting, Calling
<1>2. /\ caller'[w] = u /\ \A v \in Workers : v # w => caller'[v] = caller[v]
      /\ caller[w] \notin Threads /\ u # Nobody
  BY Shapes
<1>3. /\ 1 \in DOMAIN queue[w] /\ queue[w][1] = u
      /\ Waiting(u) /\ on[u] = w /\ w \in alive
  <2>1. 1 \in DOMAIN queue[w] /\ queue[w][1] = u
    BY TailQueues
  <2>2. Waiting(u) /\ on[u] = w
    BY <2>1 DEF IInv, CallInv, Queued
  <2> QED
    BY <2>1, <2>2 DEF IInv, CallInv, Answerable, Waiting
<1>4. Answerable'
  <2> SUFFICES ASSUME NEW t \in Threads, Waiting(t), t # u
               PROVE  /\ on[t] \in alive
                      /\ \/ caller'[on[t]] = t
                         \/ \E i \in DOMAIN queue'[on[t]] : queue'[on[t]][i] = t
    BY <1>1, <1>2, <1>3 DEF Answerable, Waiting
  <2>1. /\ on[t] \in alive /\ on[t] \in Workers
        /\ caller[on[t]] = t \/ \E i \in DOMAIN queue[on[t]] : queue[on[t]][i] = t
    BY Shapes DEF IInv, CallInv, Answerable, Waiting
  <2>2. ASSUME NEW i \in DOMAIN queue[on[t]], queue[on[t]][i] = t
        PROVE  \E j \in DOMAIN queue'[on[t]] : queue'[on[t]][j] = t
    <3>1. CASE on[t] = w
      <4>1. i # 1 /\ i \in DOMAIN queue[w]
        BY <3>1, <2>2, <1>3
      <4>2. i - 1 \in DOMAIN queue'[w] /\ queue'[w][i - 1] = t
        BY <4>1, <3>1, <2>2, TailQueues
      <4> QED
        BY <4>2, <3>1
    <3>2. CASE on[t] # w
      BY <3>2, <2>1, <2>2, TailQueues
    <3> QED
      BY <3>1, <3>2
  <2> QED
    BY <2>1, <2>2, <1>2
<1>5. Queued'
  <2> SUFFICES ASSUME NEW v \in Workers, NEW i \in DOMAIN queue'[v], queue'[v][i] \in Threads
               PROVE  /\ Waiting(queue'[v][i]) /\ on[queue'[v][i]] = v
                      /\ caller'[v] # queue'[v][i]
    BY <1>1 DEF Queued
  <2>1. PICK j \in DOMAIN queue[v] : queue'[v][i] = queue[v][j] /\ (v = w => j # 1)
    <3>1. CASE v = w
      <4>1. i \in DOMAIN queue'[w]
        BY <3>1
      <4>2. i + 1 \in DOMAIN queue[w] /\ queue'[w][i] = queue[w][i + 1] /\ i + 1 # 1
        BY <4>1, TailQueues
      <4> QED
        BY <4>2, <3>1
    <3>2. CASE v # w
      BY <3>2, TailQueues
    <3> QED
      BY <3>1, <3>2
  <2>2. /\ Waiting(queue'[v][i]) /\ on[queue'[v][i]] = v /\ caller[v] # queue'[v][i]
    BY <2>1 DEF IInv, CallInv, Queued
  <2>3. v = w => queue'[v][i] # u
    BY <2>1, <1>3 DEF IInv, CallInv, Once
  <2> QED
    BY <2>2, <2>3, <1>2
<1>6. Once'
  BY TailQueues
<1>7. Run' /\ NoReply'
  BY <1>1, <1>2, <1>3 DEF IInv, CallInv, Run, NoReply, Calling
<1>8. CallInv'
  BY <1>4, <1>5, <1>6, <1>7 DEF CallInv
<1>9. /\ CallState[u] = "asked" /\ To[u] = w
  BY <1>2, <1>3, States DEF Waiting
<1>10. \A t \in Threads : ~(CallState[t] = "running" /\ To[t] = w)
  BY <1>2, Running1
<1>11. To' = To
  BY DEF To, Calling
<1>12. CallState' = [CallState EXCEPT ![u] = "running"]
  <2>1. \A t \in Threads : t # u => CallState'[t] = CallState[t]
    BY <1>2, <1>3, Shapes DEF CallState, Calling
  <2>2. CallState'[u] = "running"
    <3>1. Calling(u)' /\ reply'[u] = "none" /\ caller'[on'[u]] = u
      BY <1>2, <1>3 DEF Waiting, Calling
    <3> QED
      BY <3>1 DEF CallState
  <2>3. \A t \in Threads : CallState'[t] = IF t = u THEN "running" ELSE CallState[t]
    BY <2>1, <2>2
  <2>4. /\ CallState = [t \in Threads |-> CallState[t]]
        /\ CallState' = [t \in Threads |-> CallState'[t]]
    BY DEF CallState
  <2> QED
    BY <2>3, <2>4, OneChanged
<1> QED
  BY <1>3, <1>8, <1>9, <1>10, <1>11, <1>12 DEF S!Begin, S!RunsFor, To

LEMMA DequeueStep ==
  ASSUME IInv, NEW w \in Workers, Dequeue(w)
  PROVE  IInv' /\ (UNCHANGED S!serviceVars \/ \E t \in Threads : S!Begin(t))
<1>1. /\ at[w] = "loop" /\ caller[w] = Nobody
      /\ UNCHANGED <<op, on, handles, known, thread, serving, alive, reply, ops, exit>>
  BY DequeueCases
<1>2. /\ asleep \subseteq Workers /\ at \in [Threads -> Places] /\ w \in Threads
      /\ queue \in [Workers -> Seq(Threads \cup {Stop})]
      /\ caller \in [Workers -> Threads \cup {Nobody}] /\ Nobody \notin Threads
  BY Shapes DEF IInv, TypeOK, MailboxOK
<1>3. CASE asleep' = asleep \cup {w} /\ UNCHANGED <<at, queue, caller>>
  <2>1. CallsKept
    BY <1>1, <1>3 DEF CallsKept, Calling
  <2>2. CallInv'
    BY <2>1, <1>3, KeptInv DEF IInv
  <2>3. /\ at' = [at EXCEPT ![w] = "loop"] /\ caller' = [caller EXCEPT ![w] = Nobody]
        /\ asleep' \subseteq Workers /\ queue' \in [Workers -> Seq(Threads \cup {Stop})]
    BY <1>1, <1>2, <1>3
  <2>4. TypeOK' /\ OnAWorker' /\ Spawning' /\ Left'
    BY <1>1, <2>3, DequeueFrame
  <2> QED
    BY <2>1, <2>2, <2>4, KeptService DEF IInv, S!serviceVars
<1>4. CASE /\ queue[w] # <<>> /\ queue' = [queue EXCEPT ![w] = Tail(@)]
           /\ Head(queue[w]) = Stop /\ at' = [at EXCEPT ![w] = "stop"]
           /\ UNCHANGED <<caller, asleep>>
  <2>1. CallsKept
    BY <1>1, <1>4 DEF CallsKept, Calling
  <2>2. CallInv'
    BY <1>1, <1>4, StopTakenInv
  <2>3. /\ caller' = [caller EXCEPT ![w] = Nobody]
        /\ asleep' \subseteq Workers /\ queue' \in [Workers -> Seq(Threads \cup {Stop})]
    BY <1>1, <1>2, <1>4, TailQueues
  <2>4. TypeOK' /\ OnAWorker' /\ Spawning' /\ Left'
    BY <1>1, <1>4, <2>3, DequeueFrame
  <2> QED
    BY <2>1, <2>2, <2>4, KeptService DEF IInv, S!serviceVars
<1>5. CASE /\ queue[w] # <<>> /\ queue' = [queue EXCEPT ![w] = Tail(@)]
           /\ Head(queue[w]) \in Threads /\ at' = [at EXCEPT ![w] = "method"]
           /\ caller' = [caller EXCEPT ![w] = Head(queue[w])]
           /\ UNCHANGED asleep
  <2>1. CallInv' /\ S!Begin(Head(queue[w]))
    BY <1>1, <1>5, CallTakenStep
  <2>2. asleep' \subseteq Workers /\ queue' \in [Workers -> Seq(Threads \cup {Stop})]
    BY <1>2, <1>5, TailQueues
  <2>3. TypeOK' /\ OnAWorker' /\ Spawning' /\ Left'
    BY <1>1, <1>2, <1>5, <2>2, DequeueFrame
  <2> QED
    BY <1>5, <2>1, <2>3 DEF IInv
<1> QED
  BY <1>3, <1>4, <1>5, DequeueCases

LEMMA MethodReturnsStep ==
  ASSUME IInv, NEW w \in Workers, MethodReturns(w)
  PROVE  IInv' /\ \E t \in Threads : S!Finish(t)
<1> DEFINE t == caller[w]
<1> USE DEF lifecycle, mailbox
<1>1. /\ at[w] = "method" /\ at' = [at EXCEPT ![w] = "loop"]
      /\ reply' = [reply EXCEPT ![t] = "ok"]
      /\ caller' = [caller EXCEPT ![w] = Nobody]
      /\ UNCHANGED <<op, on, handles, known, thread, serving, queue, alive, asleep, ops, exit>>
  BY DEF MethodReturns
<1>2. t \in Threads /\ Waiting(t) /\ on[t] = w
  BY <1>1, Shapes DEF IInv, TypeOK, CallsOK, CallInv, Run
<1>3. /\ w \in Threads /\ at' \in [Threads -> Places] /\ at'[w] = "loop"
      /\ \A v \in Threads : v # w => at'[v] = at[v]
  BY <1>1, Shapes DEF Places
<1>4. /\ caller' \in [Workers -> Threads \cup {Nobody}] /\ caller'[w] = Nobody
      /\ \A v \in Workers : v # w => caller'[v] = caller[v]
  BY <1>1, Shapes
<1>5. /\ reply' \in [Threads -> {"none", "ok", "died"}] /\ reply'[t] = "ok"
      /\ \A u \in Threads : u # t => reply'[u] = reply[u]
  BY <1>1, <1>2, Shapes
<1>6. \A v \in Workers : caller'[v] # Nobody <=> at'[v] = "method"
  BY <1>3, <1>4, Shapes DEF IInv, TypeOK, CallsOK
<1>7. TypeOK'
  <2>1. ProgramOK' /\ LifecycleOK' /\ MailboxOK' /\ CountsOK'
    BY <1>1, <1>3 DEF IInv, TypeOK, ProgramOK, LifecycleOK, MailboxOK, CountsOK
  <2>2. CallsOK'
    BY <1>4, <1>5, <1>6 DEF CallsOK
  <2> QED
    BY <2>1, <2>2 DEF TypeOK
<1>8. OnAWorker'
  BY <1>1 DEF IInv, OnAWorker
<1>9. Spawning'
  <2>1. \A u \in Threads : op[u] = "spawn" => on[u] \in Threads /\ on[u] # w
    BY <1>1, Shapes DEF IInv, OnAWorker, AboutAWorker, Spawning
  <2> QED
    BY <2>1, <1>1, <1>3 DEF IInv, Spawning
<1>10. Left'
  BY <1>1, <1>3, Shapes DEF IInv, Left
<1>11. /\ \A u \in Threads : Calling(u)' <=> Calling(u)
       /\ \A u \in Threads : Waiting(u)' <=> Waiting(u) /\ u # t
       /\ Calling(t)
  BY <1>1, <1>2, <1>5 DEF Waiting, Calling
<1>12. Answerable'
  <2> SUFFICES ASSUME NEW u \in Threads, Waiting(u), u # t
               PROVE  /\ on[u] \in alive
                      /\ \/ caller'[on[u]] = u
                         \/ \E i \in DOMAIN queue[on[u]] : queue[on[u]][i] = u
    BY <1>1, <1>11 DEF Answerable, Waiting
  <2>1. /\ on[u] \in alive /\ on[u] \in Workers
        /\ caller[on[u]] = u \/ \E i \in DOMAIN queue[on[u]] : queue[on[u]][i] = u
    BY Shapes DEF IInv, CallInv, Answerable, Waiting
  <2> QED
    BY <2>1, <1>4
<1>13. Queued'
  <2> SUFFICES ASSUME NEW v \in Workers, NEW i \in DOMAIN queue[v],
                      NEW x \in Threads, queue[v][i] = x
               PROVE  Waiting(x)' /\ on[x] = v /\ caller'[v] # x
    BY <1>1 DEF Queued
  <2>1. Waiting(x) /\ on[x] = v /\ caller[v] # x
    BY DEF IInv, CallInv, Queued
  <2> QED
    BY <2>1, <1>2, <1>4, <1>11, Shapes
<1>14. Once'
  BY <1>1 DEF IInv, CallInv, Once
<1>15. Run'
  <2> SUFFICES ASSUME NEW v \in Workers, NEW x \in Threads, caller'[v] = x
               PROVE  Waiting(x)' /\ on[x] = v
    BY <1>1 DEF Run
  <2>1. v # w /\ caller[v] = x
    BY <1>4, Shapes
  <2>2. Waiting(x) /\ on[x] = v /\ x # t
    BY <2>1, <1>2 DEF IInv, CallInv, Run
  <2> QED
    BY <2>2, <1>11
<1>16. NoReply'
  BY <1>5, <1>11 DEF IInv, CallInv, NoReply
<1>17. IInv'
  BY <1>7, <1>8, <1>9, <1>10, <1>12, <1>13, <1>14, <1>15, <1>16 DEF IInv, CallInv
<1>18. CallState' = [CallState EXCEPT ![t] = "done"]
  <2>1. \A u \in Threads : u # t => CallState'[u] = CallState[u]
    <3> SUFFICES ASSUME NEW u \in Threads, u # t PROVE CallState'[u] = CallState[u]
      OBVIOUS
    <3>1. Calling(u) => (caller'[on[u]] = u <=> caller[on[u]] = u)
      BY <1>4, Shapes
    <3> QED
      BY <3>1, <1>1, <1>5, <1>11 DEF CallState
  <2>2. CallState'[t] = "done"
    BY <1>2, <1>5, <1>11 DEF CallState, Answers
  <2>3. \A u \in Threads : CallState'[u] = IF u = t THEN "done" ELSE CallState[u]
    BY <2>1, <2>2
  <2>4. /\ CallState = [u \in Threads |-> CallState[u]]
        /\ CallState' = [u \in Threads |-> CallState'[u]]
    BY DEF CallState
  <2> QED
    BY <2>3, <2>4, OneChanged
<1>19. To' = To
  BY <1>1 DEF To, Calling
<1>20. CallState[t] = "running"
  BY <1>2, States
<1> QED
  BY <1>1, <1>2, <1>17, <1>18, <1>19, <1>20 DEF S!Finish, To

LEMMA StopServingStep ==
  ASSUME IInv, NEW w \in Workers, StopServing(w)
  PROVE  IInv' /\ S!Go(w)
<1> USE DEF lifecycle
<1>1. /\ at[w] = "stop" /\ at' = [at EXCEPT ![w] = "quiesce"]
      /\ alive' = alive \ {w}
      /\ reply' = [t \in Threads |-> IF t \in Pending(w) THEN "died" ELSE reply[t]]
      /\ queue' = [queue EXCEPT ![w] = <<>>]
      /\ UNCHANGED <<op, on, handles, known, thread, serving, asleep, caller, ops, exit>>
  BY DEF StopServing
<1>2. /\ caller[w] = Nobody
      /\ w \in Threads /\ at' \in [Threads -> Places] /\ at'[w] = "quiesce"
      /\ \A v \in Threads : v # w => at'[v] = at[v]
  BY <1>1, Shapes DEF Places, IInv, TypeOK, CallsOK
<1>3. /\ queue' \in [Workers -> Seq(Threads \cup {Stop})] /\ DOMAIN queue'[w] = {}
      /\ \A v \in Workers : v # w => queue'[v] = queue[v]
  <2>1. <<>> \in Seq(Threads \cup {Stop}) /\ DOMAIN <<>> = {}
    OBVIOUS
  <2> QED
    BY <2>1, <1>1, Shapes
\* The calls that are refused are those that wait for this worker.
<1>4. \A t \in Threads : t \in Pending(w) <=> Waiting(t) /\ on[t] = w
  <2> SUFFICES ASSUME NEW t \in Threads PROVE t \in Pending(w) <=> Waiting(t) /\ on[t] = w
    OBVIOUS
  <2>1. ASSUME t \in Pending(w) PROVE Waiting(t) /\ on[t] = w
    BY <2>1 DEF Pending, IInv, CallInv, Queued
  <2>2. ASSUME Waiting(t), on[t] = w PROVE t \in Pending(w)
    <3>1. \E i \in DOMAIN queue[w] : queue[w][i] = t
      BY <2>2, <1>2, Shapes DEF IInv, CallInv, Answerable, Waiting
    <3> QED
      BY <3>1 DEF Pending
  <2> QED
    BY <2>1, <2>2
<1>5. /\ reply' \in [Threads -> {"none", "ok", "died"}]
      /\ \A t \in Threads : reply'[t] = IF Waiting(t) /\ on[t] = w THEN "died" ELSE reply[t]
  BY <1>1, <1>4, Shapes
<1>6. TypeOK'
  <2>1. ProgramOK' /\ LifecycleOK' /\ CountsOK'
    BY <1>1, <1>2 DEF IInv, TypeOK, ProgramOK, LifecycleOK, CountsOK
  <2>2. MailboxOK'
    BY <1>1, <1>3 DEF IInv, TypeOK, MailboxOK
  <2>3. \A v \in Workers : caller'[v] # Nobody <=> at'[v] = "method"
    BY <1>1, <1>2, Shapes DEF IInv, TypeOK, CallsOK
  <2>4. CallsOK'
    BY <1>1, <1>5, <2>3, Shapes DEF CallsOK
  <2> QED
    BY <2>1, <2>2, <2>4 DEF TypeOK
<1>7. OnAWorker'
  BY <1>1 DEF IInv, OnAWorker
<1>8. Spawning'
  <2>1. \A t \in Threads : op[t] = "spawn" => on[t] \in Threads /\ on[t] # w
    BY <1>1, Shapes DEF IInv, OnAWorker, AboutAWorker, Spawning
  <2> QED
    BY <2>1, <1>1, <1>2 DEF IInv, Spawning
<1>9. Left'
  BY <1>1, <1>2, Shapes DEF IInv, Left
<1>10. /\ \A t \in Threads : Calling(t)' <=> Calling(t)
       /\ \A t \in Threads : Waiting(t)' <=> Waiting(t) /\ on[t] # w
  BY <1>1, <1>5 DEF Waiting, Calling
<1>11. Answerable'
  <2> SUFFICES ASSUME NEW t \in Threads, Waiting(t), on[t] # w
               PROVE  /\ on[t] \in alive'
                      /\ \/ caller[on[t]] = t
                         \/ \E i \in DOMAIN queue'[on[t]] : queue'[on[t]][i] = t
    BY <1>1, <1>10 DEF Answerable, Waiting
  <2>1. /\ on[t] \in alive /\ on[t] \in Workers
        /\ caller[on[t]] = t \/ \E i \in DOMAIN queue[on[t]] : queue[on[t]][i] = t
    BY Shapes DEF IInv, CallInv, Answerable, Waiting
  <2> QED
    BY <2>1, <1>1, <1>3
<1>12. Queued'
  <2> SUFFICES ASSUME NEW v \in Workers, NEW i \in DOMAIN queue'[v],
                      NEW x \in Threads, queue'[v][i] = x
               PROVE  Waiting(x)' /\ on[x] = v /\ caller[v] # x
    BY <1>1 DEF Queued
  <2>1. v # w /\ queue'[v] = queue[v]
    BY <1>3
  <2>2. Waiting(x) /\ on[x] = v /\ caller[v] # x
    BY <2>1 DEF IInv, CallInv, Queued
  <2> QED
    BY <2>1, <2>2, <1>10
<1>13. Once'
  BY <1>3 DEF IInv, CallInv, Once
<1>14. Run'
  <2> SUFFICES ASSUME NEW v \in Workers, NEW x \in Threads, caller[v] = x
               PROVE  Waiting(x)' /\ on[x] = v
    BY <1>1 DEF Run
  <2>1. Waiting(x) /\ on[x] = v /\ v # w
    BY <1>2, Shapes DEF IInv, CallInv, Run
  <2> QED
    BY <2>1, <1>10
<1>15. NoReply'
  BY <1>5, <1>10 DEF IInv, CallInv, NoReply, Waiting
<1>16. IInv'
  BY <1>6, <1>7, <1>8, <1>9, <1>11, <1>12, <1>13, <1>14, <1>15 DEF IInv, CallInv
<1>17. \A t \in Threads : CallState[t] = "asked" /\ To[t] = w <=> Waiting(t) /\ on[t] = w
  <2> SUFFICES ASSUME NEW t \in Threads
               PROVE  CallState[t] = "asked" /\ To[t] = w <=> Waiting(t) /\ on[t] = w
    OBVIOUS
  <2>1. ASSUME CallState[t] = "asked", To[t] = w PROVE Waiting(t) /\ on[t] = w
    BY <2>1, Shapes DEF CallState, To, Waiting, Answers
  <2>2. ASSUME Waiting(t), on[t] = w PROVE CallState[t] = "asked" /\ To[t] = w
    BY <2>2, <1>2, Shapes, States DEF Waiting
  <2> QED
    BY <2>1, <2>2
<1>18. CallState' = [t \in Threads |->
         IF CallState[t] = "asked" /\ To[t] = w THEN "refused" ELSE CallState[t]]
  <2>1. \A t \in Threads : Waiting(t) /\ on[t] = w => CallState'[t] = "refused"
    BY <1>5, <1>10 DEF CallState, Answers, Waiting
  <2>2. \A t \in Threads : ~(Waiting(t) /\ on[t] = w) => CallState'[t] = CallState[t]
    BY <1>1, <1>5, <1>10 DEF CallState
  <2>3. \A t \in Threads : CallState'[t] =
          IF CallState[t] = "asked" /\ To[t] = w THEN "refused" ELSE CallState[t]
    BY <2>1, <2>2, <1>17
  <2> QED
    BY <2>3 DEF CallState
<1>19. To' = To /\ Workers \ alive' = (Workers \ alive) \cup {w}
  BY <1>1 DEF To, Calling
<1>20. \A t \in Threads : ~(CallState[t] = "running" /\ To[t] = w)
  BY <1>2, Running1, Shapes
<1> QED
  BY <1>16, <1>18, <1>19, <1>20 DEF S!Go, S!RunsFor, To

-----------------------------------------------------------------------------
(* All of it.                                                               *)

StepOfService == S!SNext \/ UNCHANGED S!serviceVars

LEMMA KeptStep ==
  ASSUME TypeOK, CallsKept
  PROVE  StepOfService
BY KeptService DEF StepOfService, S!serviceVars

LEMMA ClientStep ==
  ASSUME IInv, NEW t \in Threads, Client(t)
  PROVE  IInv' /\ StepOfService
<1>1. TypeOK
  BY DEF IInv
<1>2. ASSUME NEW w \in Workers, SpawnHandle(t, w) PROVE IInv' /\ StepOfService
  BY <1>1, <1>2, SpawnHandleInv, KeptStep
<1>3. ASSUME NEW w \in Workers, Call(t, w) PROVE IInv' /\ StepOfService
  <2>1. IInv' /\ S!Ask(t, w)
    BY <1>3, RefusedStep, AskedStep
  <2> QED
    BY <2>1 DEF StepOfService, S!SNext
<1>4. ASSUME NEW w \in Workers, PushStop(t, w) PROVE IInv' /\ StepOfService
  BY <1>1, <1>4, PushStopInv, KeptStep
<1>5. CASE SpawnFails(t)
  BY <1>1, <1>5, SpawnFailsInv, KeptStep
<1>6. CASE SpawnThread(t)
  BY <1>1, <1>6, SpawnThreadInv, KeptStep
<1>7. CASE StoreThread(t)
  BY <1>1, <1>7, StoreThreadInv, KeptStep
<1>8. CASE Tell(t, "tell", "recv") \/ Tell(t, "tellStop", "take")
  BY <1>1, <1>8, TellInv, KeptStep
<1>9. CASE Receive(t)
  BY <1>9, ReceiveStep DEF StepOfService, S!SNext
<1>10. CASE TakeThread(t)
  BY <1>1, <1>10, TakeThreadInv, KeptStep
<1>11. CASE Joined(t)
  BY <1>1, <1>11, JoinedInv, KeptStep
<1> QED
  BY <1>2, <1>3, <1>4, <1>5, <1>6, <1>7, <1>8, <1>9, <1>10, <1>11 DEF Client

LEMMA WorkerStep ==
  ASSUME IInv, NEW w \in Workers, Worker(w) \/ Spurious(w)
  PROVE  IInv' /\ StepOfService
<1>1. TypeOK
  BY DEF IInv
<1>2. CASE InitReturns(w)
  BY <1>1, <1>2, InitReturnsInv, KeptStep
<1>3. CASE Dequeue(w)
  BY <1>3, DequeueStep DEF StepOfService, S!SNext
<1>4. CASE MethodReturns(w)
  BY <1>4, MethodReturnsStep DEF StepOfService, S!SNext
<1>5. CASE StopServing(w)
  BY <1>5, StopServingStep DEF StepOfService, S!SNext
<1>6. CASE Quiesce(w)
  BY <1>1, <1>6, QuiesceInv, KeptStep
<1>7. CASE Spurious(w)
  BY <1>1, <1>7, SpuriousInv, KeptStep
<1> QED
  BY <1>2, <1>3, <1>4, <1>5, <1>6, <1>7 DEF Worker

LEMMA StutterStep ==
  ASSUME IInv, UNCHANGED vars
  PROVE  IInv' /\ StepOfService
<1>1. CallsKept
  BY DEF vars, CallsKept, Calling
<1>2. TypeOK'
  BY DEF vars, IInv, TypeOK, ProgramOK, LifecycleOK, MailboxOK, CallsOK, CountsOK
<1>3. OnAWorker' /\ Spawning' /\ Left' /\ UNCHANGED queue
  BY DEF vars, IInv, OnAWorker, Spawning, Left
<1>4. CallInv'
  BY <1>1, <1>3, KeptInv DEF IInv
<1> QED
  BY <1>1, <1>2, <1>3, <1>4, KeptStep DEF IInv

LEMMA NextStep ==
  ASSUME IInv, [Next]_vars
  PROVE  IInv' /\ StepOfService
<1>1. TypeOK
  BY DEF IInv
<1>2. ASSUME NEW t \in Threads, Client(t) PROVE IInv' /\ StepOfService
  BY <1>2, ClientStep
<1>3. ASSUME NEW w \in Workers, Worker(w) \/ Spurious(w) PROVE IInv' /\ StepOfService
  BY <1>3, WorkerStep
<1>4. ASSUME NEW w \in Workers, DaemonWorks(w) PROVE IInv' /\ StepOfService
  BY <1>4, StutterStep DEF DaemonWorks
<1>5. CASE MainSteps \/ StopPush
  BY <1>1, <1>5, MainInv, KeptStep
<1>6. CASE UNCHANGED vars
  BY <1>6, StutterStep
<1> QED
  BY <1>2, <1>3, <1>4, <1>5, <1>6 DEF Next, MainSteps, StopAll

THEOREM Inductive == Spec => []IInv
<1>1. IInv /\ [Next]_vars => IInv'
  BY NextStep
<1> QED
  BY InitInv, <1>1, PTL DEF Spec

\* Every part of the runtime's bookkeeping has the shape it is read with; in
\* particular a worker has a caller exactly while it is in a method.
THEOREM TypeCorrect == Spec => []TypeOK
<1>1. IInv => TypeOK
  BY DEF IInv
<1> QED
  BY <1>1, Inductive, PTL

\* rpc.rs: a call into a worker that has gone, or goes, is not left waiting for
\* a reply that nobody can send.
THEOREM NobodyWaitsForNobody == Spec => []Answerable
<1>1. IInv => Answerable
  BY DEF IInv, CallInv
<1> QED
  BY <1>1, Inductive, PTL

\* ws_rpc_call and worker_main keep the promise of Service: a call is run at
\* most once, by the worker it was made to, one call at a time; one that is
\* refused was never run, and the worker that refused it has gone.
THEOREM RpcImplementsService == Spec => ImplementsService
<1>1. Init => S!SInit
  <2> SUFFICES ASSUME Init PROVE S!SInit
    OBVIOUS
  <2>1. \A t \in Threads : ~Calling(t)
    BY DEF Init, Calling
  <2>2. Workers \ alive = {}
    BY DEF Init
  <2> QED
    BY <2>1, <2>2 DEF S!SInit, CallState
<1>2. IInv /\ [Next]_vars => [S!SNext]_(S!serviceVars)
  BY NextStep DEF StepOfService
<1> QED
  BY <1>1, <1>2, Inductive, PTL DEF Spec, ImplementsService, S!SSpec

-----------------------------------------------------------------------------
(* The exit. A worker that joins another, or whose spawn is not over, keeps  *)
(* stop_all from waiting (the counterexample is in the README); so let main  *)
(* be the only one that spawns and joins.                                    *)

OnlyMain == Spawners \subseteq {Main} /\ Joins \subseteq {Main} \X Workers

ClientOps == {"none", "spawn", "store", "tell", "recv", "tellStop", "take", "join"}
ExitOps == {"stop", "stopTell", "stopTake", "stopJoin"}

\* Where main can be, and what the workers never are in the middle of.
OneMain ==
  /\ \A w \in Workers : op[w] \in {"none", "tell", "recv"}
  /\ at[Main] \in {"run", "exit", "ended"}
  /\ at[Main] = "run" => op[Main] \in ClientOps
  /\ at[Main] = "exit" => op[Main] \in ExitOps

\* Whoever runs has a handle, and a thread that is or was there to be taken.
Kept ==
  \A w \in Workers : at[w] # "unborn" =>
    /\ \E i \in DOMAIN handles : handles[i] = w
    /\ thread[w] # "none" \/ (op[Main] = "store" /\ on[Main] = w)

\* Whoever's thread is taken is over, or being waited for.
TakenInTime ==
  /\ at[Main] = "run" => \A w \in Workers : thread[w] = "taken" =>
       at[w] = "ended" \/ (op[Main] = "join" /\ on[Main] = w)
  /\ at[Main] = "exit" => \A w \in exit.heard : thread[w] = "taken" =>
       at[w] = "ended" \/ (op[Main] = "stopJoin" /\ Current = w)

\* stop_all goes through the handles of all that served when it began.
Heard ==
  /\ exit.heard \subseteq serving /\ \A w \in serving : at[w] # "unborn"
  /\ at[Main] = "run" => exit.heard = {}
  /\ at[Main] # "run" => /\ exit.seen <= Len(handles)
                         /\ \A w \in exit.heard : \E i \in 1 .. exit.seen : handles[i] = w

\* Those it has been to are over.
Waited ==
  /\ exit.next >= 1
  /\ at[Main] = "ended" \/ op[Main] \in {"stopTake", "stopJoin"} =>
       \A i \in 1 .. exit.seen :
         i < exit.next /\ handles[i] \in exit.heard => at[handles[i]] = "ended"
  /\ op[Main] \in {"stopTell", "stopJoin"} => More
  /\ at[Main] = "ended" => ~More

ExitInv == OneMain /\ Kept /\ TakenInTime /\ Heard /\ Waited

LEMMA ExitShapes ==
  ASSUME IInv
  PROVE  /\ at \in [Threads -> Places] /\ op \in [Threads -> RuntimeCalls]
         /\ on \in [Threads -> Workers \cup {Nobody}]
         /\ handles \in Seq(Workers) /\ Len(handles) \in Nat /\ DOMAIN handles = 1 .. Len(handles)
         /\ thread \in [Workers -> {"none", "held", "taken"}] /\ serving \subseteq Workers
         /\ exit \in [seen : Nat, next : Nat, heard : SUBSET Workers]
         /\ Main \in Threads /\ Main \notin Workers /\ Workers \subseteq Threads
         /\ \A t \in Threads : op[t] \in AboutAWorker => on[t] \in Workers
BY RpcAssumption DEF IInv, TypeOK, ProgramOK, LifecycleOK, CountsOK, OnAWorker, Threads

LEMMA ExitInitInv == Init => ExitInv
<1> SUFFICES ASSUME Init PROVE ExitInv
  OBVIOUS
<1>1. Main \in Threads /\ Main \notin Workers /\ Workers \subseteq Threads
  BY RpcAssumption DEF Threads
<1>2. OneMain /\ Kept /\ TakenInTime
  BY <1>1 DEF Init, OneMain, Kept, TakenInTime, ClientOps
<1>3. Heard /\ Waited
  BY <1>1 DEF Init, Heard, Waited
<1> QED
  BY <1>2, <1>3 DEF ExitInv

\* What is no business of the exit's: main goes nowhere, and a worker no further than
\* it was allowed to.
LEMMA ExitKept ==
  ASSUME IInv, ExitInv, UNCHANGED <<handles, thread, exit>>,
         at'[Main] = at[Main], serving \subseteq serving',
         \A w \in serving' : at'[w] # "unborn",
         \A w \in Workers : /\ at[w] = "unborn" <=> at'[w] = "unborn"
                            /\ at[w] = "ended" => at'[w] = "ended"
                            /\ op'[w] \in {"none", "tell", "recv"},
         \/ op'[Main] = op[Main] /\ on'[Main] = on[Main]
         \/ /\ op[Main] \in ClientOps \ {"store", "join"} /\ op'[Main] \in ClientOps
            /\ at[Main] = "run"
  PROVE  ExitInv'
<1> USE ExitShapes
<1>1. OneMain' /\ Kept'
  BY DEF ExitInv, OneMain, Kept
<1>2. TakenInTime'
  BY DEF ExitInv, TakenInTime, Current, ClientOps
<1>3. Heard'
  BY DEF ExitInv, Heard
<1>4. Waited'
  <2>1. op'[Main] = op[Main] \/ (op'[Main] \notin ExitOps /\ at[Main] = "run")
    <3>1. ClientOps \cap ExitOps = {}
      BY DEF ClientOps, ExitOps
    <3> QED
      BY <3>1
  <2>2. \A i \in 1 .. exit.seen : at[Main] # "run" => handles[i] \in Workers
    BY DEF ExitInv, Heard
  <2> QED
    BY <2>1, <2>2 DEF ExitInv, Waited, More, ExitOps
<1> QED
  BY <1>1, <1>2, <1>3, <1>4 DEF ExitInv

LEMMA ExitClient ==
  ASSUME OnlyMain, IInv, ExitInv, ~Gone, NEW t \in Threads, Client(t)
  PROVE  ExitInv'
<1> USE ExitShapes
<1>1. t = Main => at[Main] = "run"
  <2>1. op[t] \in ClientOps
    BY DEF Client, SpawnHandle, Call, PushStop, SpawnFails, SpawnThread, StoreThread, Tell,
      Receive, TakeThread, Joined, Enter, Running, In, Proceed, PushCall, ClientOps
  <2> QED
    BY <2>1 DEF Gone, ExitInv, OneMain, ClientOps, ExitOps
<1>2. ASSUME NEW w \in Workers, SpawnHandle(t, w) PROVE ExitInv'
  <2>1. t = Main /\ at[Main] = "run"
    BY <1>1, <1>2 DEF OnlyMain, SpawnHandle
  <2>2. /\ UNCHANGED <<at, thread, serving, exit>> /\ op[Main] = "none"
        /\ op' = [op EXCEPT ![Main] = "spawn"] /\ on' = [on EXCEPT ![Main] = w]
        /\ handles' = Append(handles, w)
    BY <1>2, <2>1 DEF SpawnHandle, Enter, Running
  <2>3. /\ Len(handles') = Len(handles) + 1 /\ DOMAIN handles' = 1 .. Len(handles) + 1
        /\ \A i \in DOMAIN handles : handles'[i] = handles[i]
    BY <2>2
  <2>4. OneMain' /\ Kept'
    BY <2>1, <2>2, <2>3 DEF ExitInv, OneMain, Kept, ClientOps
  <2>5. TakenInTime' /\ Heard'
    BY <2>1, <2>2, <2>3 DEF ExitInv, TakenInTime, Heard
  <2>6. Waited'
    BY <2>1, <2>2 DEF ExitInv, Waited, More
  <2> QED
    BY <2>4, <2>5, <2>6 DEF ExitInv
<1>3. ASSUME NEW w \in Workers, Call(t, w) PROVE ExitInv'
  <2>1. /\ UNCHANGED <<at, handles, thread, serving, exit>> /\ op[t] = "none"
        /\ \E o \in {"tell", "recv"} : op' = [op EXCEPT ![t] = o]
        /\ on' = [on EXCEPT ![t] = w]
    BY <1>3 DEF Call, PushCall, Enter, Running, lifecycle
  <2> QED
    BY <1>1, <2>1, ExitKept DEF ExitInv, OneMain, Heard, ClientOps
<1>4. ASSUME NEW w \in Workers, PushStop(t, w) PROVE ExitInv'
  <2>1. t = Main /\ at[Main] = "run"
    BY <1>1, <1>4 DEF OnlyMain, PushStop
  <2>2. /\ UNCHANGED <<at, handles, thread, serving, exit>> /\ op[t] = "none"
        /\ op' = [op EXCEPT ![t] = "tellStop"] /\ on' = [on EXCEPT ![t] = w]
    BY <1>4 DEF PushStop, Enter, Running, lifecycle
  <2> QED
    BY <2>1, <2>2, ExitKept DEF ExitInv, OneMain, Heard, ClientOps
<1>5. ASSUME op[t] \in {"spawn", "store", "tellStop", "take", "join"}
      PROVE  t = Main /\ at[Main] = "run" /\ on[Main] \in Workers
  <2>1. t = Main
    BY <1>5 DEF ExitInv, OneMain, Threads
  <2>2. op[t] \in AboutAWorker
    BY <1>5 DEF AboutAWorker
  <2> QED
    BY <1>1, <2>1, <2>2
<1>6. CASE SpawnFails(t)
  <2>1. /\ UNCHANGED <<at, handles, thread, serving, exit>> /\ op[t] = "spawn"
        /\ op' = [op EXCEPT ![t] = "none"] /\ on' = [on EXCEPT ![t] = Nobody]
    BY <1>6 DEF SpawnFails, In, lifecycle
  <2> QED
    BY <1>5, <2>1, ExitKept DEF ExitInv, OneMain, Heard, ClientOps
<1>7. CASE SpawnThread(t)
  <2>1. /\ UNCHANGED <<on, handles, thread, serving, exit>> /\ op[Main] = "spawn"
        /\ op' = [op EXCEPT ![Main] = "store"] /\ at' = [at EXCEPT ![on[Main]] = "init"]
        /\ t = Main /\ at[Main] = "run" /\ on[Main] \in Workers /\ on[Main] # Main
    BY <1>5, <1>7 DEF SpawnThread, Proceed, lifecycle
  <2>2. at[on[Main]] = "unborn" /\ \E i \in DOMAIN handles : handles[i] = on[Main]
    BY <2>1 DEF IInv, Spawning
  <2>3. OneMain' /\ Kept'
    BY <2>1, <2>2 DEF ExitInv, OneMain, Kept, ClientOps
  <2>4. TakenInTime' /\ Heard'
    BY <2>1, <2>2 DEF ExitInv, TakenInTime, Heard
  <2>5. Waited'
    BY <2>1 DEF ExitInv, Waited, More
  <2> QED
    BY <2>3, <2>4, <2>5 DEF ExitInv
<1>8. CASE StoreThread(t)
  <2>1. /\ UNCHANGED <<at, handles, serving, exit>> /\ op[Main] = "store"
        /\ op' = [op EXCEPT ![Main] = "none"] /\ on' = [on EXCEPT ![Main] = Nobody]
        /\ thread' = [thread EXCEPT ![on[Main]] = "held"]
        /\ t = Main /\ at[Main] = "run" /\ on[Main] \in Workers
    BY <1>5, <1>8 DEF StoreThread, In
  <2>2. OneMain' /\ Kept'
    BY <2>1 DEF ExitInv, OneMain, Kept, ClientOps
  <2>3. TakenInTime' /\ Heard'
    BY <2>1 DEF ExitInv, TakenInTime, Heard
  <2>4. Waited'
    BY <2>1 DEF ExitInv, Waited, More
  <2> QED
    BY <2>2, <2>3, <2>4 DEF ExitInv
<1>9. CASE Tell(t, "tell", "recv")
  <2>1. /\ UNCHANGED <<at, on, handles, thread, serving, exit>> /\ op[t] = "tell"
        /\ op' = [op EXCEPT ![t] = "recv"]
    BY <1>9 DEF Tell, Proceed, lifecycle
  <2> QED
    BY <1>1, <2>1, ExitKept DEF ExitInv, OneMain, Heard, ClientOps
<1>10. CASE Tell(t, "tellStop", "take")
  <2>1. /\ UNCHANGED <<at, on, handles, thread, serving, exit>> /\ op[t] = "tellStop"
        /\ op' = [op EXCEPT ![t] = "take"]
    BY <1>10 DEF Tell, Proceed, lifecycle
  <2> QED
    BY <1>5, <2>1, ExitKept DEF ExitInv, OneMain, Heard, ClientOps
<1>11. CASE Receive(t)
  <2>1. /\ UNCHANGED <<at, handles, thread, serving, exit>> /\ op[t] = "recv"
        /\ op' = [op EXCEPT ![t] = "none"] /\ on' = [on EXCEPT ![t] = Nobody]
    BY <1>11 DEF Receive, In, lifecycle
  <2> QED
    BY <1>1, <2>1, ExitKept DEF ExitInv, OneMain, Heard, ClientOps
<1>12. CASE TakeThread(t)
  <2>1. /\ UNCHANGED <<at, handles, serving, exit>> /\ op[Main] = "take"
        /\ t = Main /\ at[Main] = "run" /\ on[Main] \in Workers
        /\ \/ /\ UNCHANGED on /\ op' = [op EXCEPT ![Main] = "join"]
              /\ thread' = [thread EXCEPT ![on[Main]] = "taken"]
           \/ /\ UNCHANGED thread /\ on' = [on EXCEPT ![Main] = Nobody]
              /\ op' = [op EXCEPT ![Main] = "none"]
    BY <1>5, <1>12 DEF TakeThread, Proceed, In
  <2>2. OneMain' /\ Kept'
    BY <2>1 DEF ExitInv, OneMain, Kept, ClientOps
  <2>3. TakenInTime' /\ Heard'
    BY <2>1 DEF ExitInv, TakenInTime, Heard
  <2>4. Waited'
    BY <2>1 DEF ExitInv, Waited, More
  <2> QED
    BY <2>2, <2>3, <2>4 DEF ExitInv
<1>13. CASE Joined(t)
  <2>1. /\ UNCHANGED <<at, handles, thread, serving, exit>> /\ op[Main] = "join"
        /\ op' = [op EXCEPT ![Main] = "none"] /\ on' = [on EXCEPT ![Main] = Nobody]
        /\ t = Main /\ at[Main] = "run" /\ at[on[Main]] = "ended"
    BY <1>5, <1>13 DEF Joined, In, lifecycle
  <2>2. OneMain' /\ Kept'
    BY <2>1 DEF ExitInv, OneMain, Kept, ClientOps
  <2>3. TakenInTime' /\ Heard'
    BY <2>1 DEF ExitInv, TakenInTime, Heard
  <2>4. Waited'
    BY <2>1 DEF ExitInv, Waited, More
  <2> QED
    BY <2>2, <2>3, <2>4 DEF ExitInv
<1> QED
  BY <1>2, <1>3, <1>4, <1>6, <1>7, <1>8, <1>9, <1>10, <1>11, <1>12, <1>13 DEF Client

LEMMA ExitWorker ==
  ASSUME IInv, ExitInv, NEW w \in Workers, Worker(w) \/ Spurious(w)
  PROVE  ExitInv'
<1> USE ExitShapes
<1>1. /\ UNCHANGED <<handles, thread, exit, op, on>> /\ w # Main
      /\ \/ UNCHANGED <<at, serving>>
         \/ /\ at[w] \in {"init", "loop", "method", "stop", "quiesce"}
            /\ \E to \in {"loop", "method", "stop", "quiesce", "ended"} : at' = [at EXCEPT ![w] = to]
            /\ serving' \in {serving, serving \cup {w}}
  BY DEF Worker, Spurious, InitReturns, Dequeue, MethodReturns, StopServing, Quiesce, program,
    lifecycle
<1>2. \A v \in Workers : /\ at[v] = "unborn" <=> at'[v] = "unborn"
                         /\ at[v] = "ended" => at'[v] = "ended"
  BY <1>1
<1>3. \A v \in serving' : at'[v] # "unborn"
  BY <1>1 DEF ExitInv, Heard
<1> QED
  BY <1>1, <1>2, <1>3, ExitKept DEF ExitInv, OneMain

LEMMA ExitStops ==
  ASSUME IInv, ExitInv, ~Gone, MainReturns \/ StopAll
  PROVE  ExitInv'
<1> USE ExitShapes
<1>1. ASSUME at[Main] # "run", NEW i \in 1 .. exit.seen
      PROVE  i \in DOMAIN handles /\ handles[i] \in Workers
  BY <1>1 DEF ExitInv, Heard
<1>2. ASSUME op[Main] \in ExitOps, at[Main] # "ended" PROVE at[Main] = "exit"
  BY <1>2 DEF ExitInv, OneMain, ClientOps, ExitOps
<1>3. CASE MainReturns
  <2>1. /\ at[Main] = "run" /\ op[Main] = "none" /\ UNCHANGED <<on, handles, thread, serving>>
        /\ at' = [at EXCEPT ![Main] = "exit"] /\ op' = [op EXCEPT ![Main] = "stop"]
        /\ exit' = [seen |-> Len(handles), next |-> 1, heard |-> serving]
    BY <1>3 DEF MainReturns, lifecycle
  <2>2. OneMain' /\ Kept'
    BY <2>1 DEF ExitInv, OneMain, Kept, ClientOps, ExitOps
  <2>3. TakenInTime'
    BY <2>1 DEF ExitInv, TakenInTime
  <2>4. Heard'
    BY <2>1 DEF ExitInv, Heard, Kept
  <2>5. Waited'
    BY <2>1 DEF ExitInv, Waited
  <2> QED
    BY <2>2, <2>3, <2>4, <2>5 DEF ExitInv
<1>4. CASE StopPush
  <2>1. /\ op[Main] = "stop" /\ UNCHANGED <<at, on, handles, thread, serving>>
        /\ \/ More /\ op' = [op EXCEPT ![Main] = "stopTell"] /\ UNCHANGED exit
           \/ /\ ~More /\ op' = [op EXCEPT ![Main] = "stopTake"]
              /\ exit' = [exit EXCEPT !.next = 1]
    BY <1>4 DEF StopPush, lifecycle
  <2>2. exit'.seen = exit.seen /\ exit'.heard = exit.heard /\ (exit'.next = exit.next \/ exit'.next = 1)
    BY <2>1
  <2>3. OneMain' /\ Kept'
    <3>1. OneMain'
      <4>1. op'[Main] \in ExitOps /\ \A w \in Workers : op'[w] = op[w]
        BY <2>1, RpcAssumption DEF ExitInv, OneMain, ExitOps
      <4>2. at[Main] # "run"
        BY <2>1 DEF ExitInv, OneMain, ClientOps
      <4> QED
        BY <2>1, <4>1, <4>2 DEF ExitInv, OneMain
    <3>2. Kept'
      BY <2>1 DEF ExitInv, Kept
    <3> QED
      BY <3>1, <3>2
  <2>4. TakenInTime' /\ Heard'
    BY <2>1, <2>2 DEF ExitInv, TakenInTime, Heard, Current
  <2>5. Waited'
    <3>1. CASE More /\ op' = [op EXCEPT ![Main] = "stopTell"] /\ UNCHANGED exit
      BY <1>2, <2>1, <3>1 DEF Gone, ExitInv, Waited, More, ExitOps
    <3>2. CASE op' = [op EXCEPT ![Main] = "stopTake"] /\ exit' = [exit EXCEPT !.next = 1]
      BY <1>2, <2>1, <3>2 DEF Gone, Waited, More, ExitOps
    <3> QED
      BY <2>1, <3>1, <3>2
  <2> QED
    BY <2>3, <2>4, <2>5 DEF ExitInv
<1>5. CASE StopTell
  <2>1. /\ op[Main] = "stopTell" /\ UNCHANGED <<at, on, handles, thread, serving>>
        /\ op' = [op EXCEPT ![Main] = "stop"] /\ exit' = [exit EXCEPT !.next = @ + 1]
    BY <1>5 DEF StopTell, Proceed, lifecycle
  <2>2. OneMain' /\ Kept'
    BY <2>1 DEF ExitInv, OneMain, Kept, ClientOps, ExitOps
  <2>3. TakenInTime' /\ Heard'
    BY <2>1 DEF ExitInv, TakenInTime, Heard, Current
  <2>4. Waited'
    BY <2>1 DEF ExitInv, OneMain, Waited, More, ClientOps, ExitOps
  <2> QED
    BY <2>2, <2>3, <2>4 DEF ExitInv
<1>6. CASE StopTake
  <2>1. /\ op[Main] = "stopTake" /\ More /\ UNCHANGED <<at, on, handles, serving>>
        /\ thread' = [thread EXCEPT ![Current] = IF @ = "held" THEN "taken" ELSE @]
        /\ IF thread[Current] = "held" /\ Current \in serving
           THEN op' = [op EXCEPT ![Main] = "stopJoin"] /\ UNCHANGED exit
           ELSE exit' = [exit EXCEPT !.next = @ + 1] /\ UNCHANGED op
    BY <1>6 DEF StopTake, WaitForServing
  <2>2. CASE at[Main] = "ended"
    BY <2>1, <2>2 DEF ExitInv, Waited
  <2>3. CASE at[Main] = "exit"
    <3>1. Current \in Workers /\ exit.next \in 1 .. exit.seen
      BY <1>1, <2>1, <2>3 DEF ExitInv, Waited, More, Current
    <3>2. OneMain' /\ Kept'
      BY <2>1, <2>3, <3>1 DEF ExitInv, OneMain, Kept, ClientOps, ExitOps
    <3>3. Heard'
      BY <2>1, <2>3 DEF ExitInv, Heard
    <3>4. CASE thread[Current] = "held" /\ Current \in serving
      <4>1. TakenInTime'
        BY <2>1, <2>3, <3>1, <3>4 DEF ExitInv, TakenInTime, Current
      <4>2. Waited'
        BY <2>1, <2>3, <3>4 DEF ExitInv, Waited, More
      <4> QED
        BY <3>2, <3>3, <4>1, <4>2 DEF ExitInv
    <3>5. CASE ~(thread[Current] = "held" /\ Current \in serving)
      <4>1. Current \in exit.heard => at[Current] = "ended"
        BY <2>1, <2>3, <3>1, <3>5 DEF ExitInv, Heard, Kept, TakenInTime
      <4>2. exit' = [exit EXCEPT !.next = @ + 1] /\ UNCHANGED op
        BY <2>1, <3>5
      <4>3. TakenInTime'
        <5>1. \A w \in exit.heard : thread'[w] = "taken" => at[w] = "ended"
          <6>1. \A w \in exit.heard : w # Current => thread'[w] = thread[w]
            BY <2>1, <3>1
          <6> QED
            BY <2>1, <2>3, <4>1, <6>1 DEF ExitInv, TakenInTime
        <5> QED
          BY <2>1, <2>3, <4>2, <5>1 DEF TakenInTime
      <4>4. Waited'
        <5>1. \A i \in 1 .. exit.seen : i < exit.next + 1 /\ handles[i] \in exit.heard =>
                at[handles[i]] = "ended"
          <6>1. \A i \in 1 .. exit.seen : i < exit.next + 1 => i < exit.next \/ i = exit.next
            OBVIOUS
          <6> QED
            BY <2>1, <4>1, <6>1 DEF ExitInv, Waited, Current
        <5> QED
          BY <2>1, <2>3, <4>2, <5>1 DEF ExitInv, Waited, More
      <4> QED
        BY <3>2, <3>3, <4>3, <4>4 DEF ExitInv
    <3> QED
      BY <3>4, <3>5
  <2> QED
    BY <1>2, <2>1, <2>2, <2>3 DEF ExitOps
<1>7. CASE StopJoin
  <2>1. /\ op[Main] = "stopJoin" /\ UNCHANGED <<at, on, handles, thread, serving>>
        /\ op' = [op EXCEPT ![Main] = "stopTake"] /\ exit' = [exit EXCEPT !.next = @ + 1]
        /\ at[Current] = "ended"
    BY <1>7 DEF StopJoin, Proceed, lifecycle
  <2>2. OneMain' /\ Kept'
    BY <2>1 DEF ExitInv, OneMain, Kept, ClientOps, ExitOps
  <2>3. TakenInTime' /\ Heard'
    BY <2>1 DEF ExitInv, TakenInTime, Heard, Current
  <2>4. Waited'
    <3>1. \A i \in 1 .. exit.seen : i < exit.next + 1 /\ handles[i] \in exit.heard =>
            at[handles[i]] = "ended"
      <4>1. \A i \in 1 .. exit.seen : i < exit.next + 1 => i < exit.next \/ i = exit.next
        OBVIOUS
      <4> QED
        BY <2>1, <4>1 DEF ExitInv, Waited, Current
    <3> QED
      BY <1>2, <2>1, <3>1 DEF ExitInv, OneMain, Waited, More, ClientOps, ExitOps
  <2> QED
    BY <2>2, <2>3, <2>4 DEF ExitInv
<1>8. CASE ProcessEnds
  <2>1. /\ op[Main] = "stopTake" /\ ~More /\ UNCHANGED <<on, handles, thread, serving, exit>>
        /\ at' = [at EXCEPT ![Main] = "ended"] /\ op' = [op EXCEPT ![Main] = "none"]
    BY <1>8 DEF ProcessEnds, lifecycle
  <2>2. OneMain' /\ Kept'
    BY <2>1 DEF ExitInv, OneMain, Kept
  <2>3. TakenInTime' /\ Heard'
    BY <1>2, <2>1 DEF ExitInv, OneMain, TakenInTime, Heard, ClientOps
  <2>4. Waited'
    <3>1. at[Main] # "run"
      BY <2>1 DEF ExitInv, OneMain, ClientOps
    <3>2. \A i \in 1 .. exit.seen : handles[i] \in Workers
      BY <1>1, <3>1
    <3> QED
      BY <2>1, <3>2 DEF ExitInv, Waited, More
  <2> QED
    BY <2>2, <2>3, <2>4 DEF ExitInv
<1> QED
  BY <1>3, <1>4, <1>5, <1>6, <1>7, <1>8 DEF StopAll

\* stop_all waits for every worker that was serving when main returned, however many
\* there are and whatever they are in the middle of: when the process ends, they have.
THEOREM ExitWaitsForThem ==
  ASSUME OnlyMain
  PROVE  Spec => []ExitWaits
<1>1. IInv /\ ExitInv /\ [Next]_vars => ExitInv'
  <2> SUFFICES ASSUME IInv, ExitInv, [Next]_vars PROVE ExitInv'
    OBVIOUS
  <2>1. ASSUME UNCHANGED vars PROVE ExitInv'
    BY <2>1 DEF vars, ExitInv, OneMain, Kept, TakenInTime, Heard, Waited, Current, More
  <2>2. ASSUME NEW w \in Workers, DaemonWorks(w) PROVE ExitInv'
    BY <2>1, <2>2 DEF DaemonWorks
  <2> QED
    BY <2>1, <2>2, OnlyMain, ExitClient, ExitWorker, ExitStops DEF Next
<1>2. IInv /\ ExitInv => ExitWaits
  <2> SUFFICES ASSUME IInv, ExitInv, at[Main] = "ended", NEW w \in exit.heard
               PROVE  at[w] = "ended"
    BY DEF ExitWaits, Gone
  <2>1. PICK i \in 1 .. exit.seen : handles[i] = w
    BY DEF ExitInv, Heard
  <2>2. i < exit.next
    BY ExitShapes DEF ExitInv, Waited, More
  <2> QED
    BY <2>1, <2>2 DEF ExitInv, Waited
<1> QED
  BY <1>1, <1>2, ExitInitInv, Inductive, PTL DEF Spec
=============================================================================
