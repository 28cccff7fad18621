--------------------------------- MODULE Rpc ---------------------------------
(***************************************************************************)
(* Workers and the calls between them (rpc.rs). A worker is a thread with  *)
(* a queue: it runs init, and then serves calls until it takes a Stop out  *)
(* of the queue. The thread of main and the workers -- in init or in a     *)
(* method -- spawn, call and join workers; when main returns, stop_all     *)
(* stops the workers that can hear and the process ends. A section under   *)
(* a queue's lock is one step, and so is a notification; what the words of *)
(* an argument or a result are is transfer's business.                     *)
(***************************************************************************)
EXTENDS Integers, Sequences

CONSTANTS
  Workers, Main, Nobody, Stop,
  Daemons,   \* the workers whose init never returns
  Asks,      \* who has whose handle to call it
  Joins,     \* who has whose handle to join it
  Spawners,  \* who spawns workers
  MaxOps     \* bound: the calls and joins each thread makes

Threads == Workers \cup {Main}

ASSUME RpcAssumption ==
  /\ Main \notin Workers /\ Nobody \notin Threads /\ Stop \notin Threads
  /\ Daemons \subseteq Workers
  /\ Asks \subseteq Threads \X Workers
  /\ Joins \subseteq Threads \X Workers
  /\ Spawners \subseteq Threads
  /\ MaxOps \in [Threads -> Nat]

VARIABLES
  at,      \* what each thread is doing ...
  op,      \* ... the runtime call it is in the middle of ...
  on,      \* ... and the worker that call is about
  handles, \* HANDLES: the workers in the order of their handles
  known,   \* the workers whose spawn has returned
  queue,   \* Handle.queue.messages: Stop, or the thread whose call it is
  alive,   \* the workers whose Handle.queue.alive is set
  serving, \* those whose Handle.serving is set
  thread,  \* Handle.thread: not there yet, there, or taken
  asleep,  \* the workers waiting on Handle.arrived
  caller,  \* whose call each worker is running
  reply,   \* what is in each thread's reply channel
  ops,     \* the calls and joins each thread has made
  exit     \* stop_all: how many handles it saw, the one it is at, and
           \* (history) the workers that were serving when main returned

vars == <<at, op, on, handles, known, queue, alive, serving, thread, asleep,
          caller, reply, ops, exit>>
program == <<at, op, on>>
lifecycle == <<handles, known, thread, serving>>
mailbox == <<queue, alive, asleep>>
calls == <<caller, reply>>

Init ==
  /\ at = [t \in Threads |-> IF t = Main THEN "run" ELSE "unborn"]
  /\ op = [t \in Threads |-> "none"]
  /\ on = [t \in Threads |-> Nobody]
  /\ handles = <<>> /\ known = {}
  /\ queue = [w \in Workers |-> <<>>]
  /\ alive = Workers
  /\ serving = {} /\ asleep = {}
  /\ thread = [w \in Workers |-> "none"]
  /\ caller = [w \in Workers |-> Nobody]
  /\ reply = [t \in Threads |-> "none"]
  /\ ops = [t \in Threads |-> 0]
  /\ exit = [seen |-> 0, next |-> 1, heard |-> {}]

-----------------------------------------------------------------------------
\* In W# code, and not in the middle of a call into the runtime.
Running(t) == at[t] \in {"run", "init", "method"} /\ op[t] = "none"

In(t, o) == op[t] = o /\ op' = [op EXCEPT ![t] = "none"] /\ on' = [on EXCEPT ![t] = Nobody]

Proceed(t, from, to) == op[t] = from /\ op' = [op EXCEPT ![t] = to] /\ UNCHANGED on

Enter(t, o, w) ==
  /\ Running(t)
  /\ op' = [op EXCEPT ![t] = o]
  /\ on' = [on EXCEPT ![t] = w]

CountOp(t) == ops[t] < MaxOps[t] /\ ops' = [ops EXCEPT ![t] = @ + 1]

Push(w, message) == queue' = [queue EXCEPT ![w] = Append(@, message)]

-----------------------------------------------------------------------------
(* ws_spawn.                                                                *)

SpawnHandle(t, w) ==
  /\ t \in Spawners /\ at[w] = "unborn" /\ \A i \in DOMAIN handles : handles[i] # w
  /\ Enter(t, "spawn", w)
  /\ handles' = Append(handles, w)
  /\ UNCHANGED <<at, known, thread, serving, mailbox, calls, ops, exit>>

\* The thread may not start: the handle is never told to anybody, ...
SpawnFails(t) ==
  /\ In(t, "spawn")
  /\ UNCHANGED <<at, lifecycle, mailbox, calls, ops, exit>>

\* ... and if it does, it runs before its JoinHandle is stored.
SpawnThread(t) ==
  /\ Proceed(t, "spawn", "store")
  /\ at' = [at EXCEPT ![on[t]] = "init"]
  /\ UNCHANGED <<lifecycle, mailbox, calls, ops, exit>>

StoreThread(t) ==
  /\ In(t, "store")
  /\ thread' = [thread EXCEPT ![on[t]] = "held"]
  /\ known' = known \cup {on[t]}
  /\ UNCHANGED <<at, handles, serving, mailbox, calls, ops, exit>>

-----------------------------------------------------------------------------
(* ws_rpc_call.                                                             *)

\* A caller that does not look at `alive`.
PushAnyway(t, w) ==
  /\ Enter(t, "tell", w) /\ Push(w, t)
  /\ UNCHANGED reply

\* Under the lock: a worker that has gone refuses at once.
PushCall(t, w) ==
  \/ w \in alive /\ Enter(t, "tell", w) /\ Push(w, t) /\ UNCHANGED reply
  \/ w \notin alive /\ Enter(t, "recv", w) /\ reply' = [reply EXCEPT ![t] = "died"]
     /\ UNCHANGED queue

Call(t, w) ==
  /\ <<t, w>> \in Asks /\ w \in known
  /\ CountOp(t)
  /\ PushCall(t, w)
  /\ UNCHANGED <<at, lifecycle, alive, asleep, caller, exit>>

\* A message is pushed, and nobody is woken to take it.
TellNobody(t, from, to) ==
  /\ Proceed(t, from, to)
  /\ UNCHANGED <<at, lifecycle, mailbox, calls, ops, exit>>

\* arrived.notify_all, of ws_rpc_call and ws_join.
Tell(t, from, to) ==
  /\ Proceed(t, from, to)
  /\ asleep' = asleep \ {on[t]}
  /\ UNCHANGED <<at, lifecycle, queue, alive, calls, ops, exit>>

Receive(t) ==
  /\ reply[t] # "none" /\ In(t, "recv")
  /\ reply' = [reply EXCEPT ![t] = "none"]
  /\ UNCHANGED <<at, lifecycle, mailbox, caller, ops, exit>>

-----------------------------------------------------------------------------
(* ws_join.                                                                 *)

PushStop(t, w) ==
  /\ <<t, w>> \in Joins /\ w \in known
  /\ CountOp(t)
  /\ Enter(t, "tellStop", w) /\ Push(w, Stop)
  /\ UNCHANGED <<at, lifecycle, alive, asleep, calls, exit>>

\* Whoever takes the thread waits for it; anybody after is told WorkerDied.
TakeThread(t) ==
  /\ op[t] = "take"
  /\ \/ thread[on[t]] = "held" /\ Proceed(t, "take", "join")
        /\ thread' = [thread EXCEPT ![on[t]] = "taken"]
     \/ thread[on[t]] # "held" /\ In(t, "take") /\ UNCHANGED thread
  /\ UNCHANGED <<at, handles, known, serving, mailbox, calls, ops, exit>>

Joined(t) ==
  /\ In(t, "join") /\ at[on[t]] = "ended"
  /\ UNCHANGED <<at, lifecycle, mailbox, calls, ops, exit>>

Client(t) ==
  \/ \E w \in Workers : SpawnHandle(t, w) \/ Call(t, w) \/ PushStop(t, w)
  \/ SpawnFails(t) \/ SpawnThread(t) \/ StoreThread(t)
  \/ Tell(t, "tell", "recv") \/ Receive(t)
  \/ Tell(t, "tellStop", "take") \/ TakeThread(t) \/ Joined(t)

-----------------------------------------------------------------------------
(* worker_main.                                                             *)

InitReturns(w) ==
  /\ at[w] = "init" /\ op[w] = "none" /\ w \notin Daemons
  /\ at' = [at EXCEPT ![w] = "loop"]
  /\ serving' = serving \cup {w}
  /\ UNCHANGED <<op, on, handles, known, thread, mailbox, calls, ops, exit>>

\* A daemon is at work, and that is all it ever does.
DaemonWorks(w) ==
  /\ w \in Daemons /\ at[w] = "init" /\ op[w] = "none"
  /\ UNCHANGED vars

\* Take a message, or sleep until there is one.
Dequeue(w) ==
  /\ at[w] = "loop" /\ w \notin asleep
  /\ \/ /\ queue[w] = <<>> /\ asleep' = asleep \cup {w}
        /\ UNCHANGED <<at, queue, caller>>
     \/ /\ queue[w] # <<>> /\ queue' = [queue EXCEPT ![w] = Tail(@)]
        /\ IF Head(queue[w]) = Stop
           THEN at' = [at EXCEPT ![w] = "stop"] /\ UNCHANGED caller
           ELSE /\ at' = [at EXCEPT ![w] = "method"]
                /\ caller' = [caller EXCEPT ![w] = Head(queue[w])]
        /\ UNCHANGED asleep
  /\ UNCHANGED <<op, on, lifecycle, alive, reply, ops, exit>>

\* The condition variable wakes for no reason.
Spurious(w) ==
  /\ w \in asleep /\ asleep' = asleep \ {w}
  /\ UNCHANGED <<program, lifecycle, queue, alive, calls, ops, exit>>

MethodReturns(w) ==
  /\ at[w] = "method" /\ op[w] = "none"
  /\ reply' = [reply EXCEPT ![caller[w]] = "ok"]
  /\ caller' = [caller EXCEPT ![w] = Nobody]
  /\ at' = [at EXCEPT ![w] = "loop"]
  /\ UNCHANGED <<op, on, lifecycle, mailbox, ops, exit>>

Pending(w) == {queue[w][i] : i \in DOMAIN queue[w]} \cap Threads

\* The pending calls refused, and the queue left open behind them.
StopAndStayOpen(w) ==
  /\ at[w] = "stop" /\ at' = [at EXCEPT ![w] = "quiesce"]
  /\ reply' = [t \in Threads |-> IF t \in Pending(w) THEN "died" ELSE reply[t]]
  /\ queue' = [queue EXCEPT ![w] = <<>>]
  /\ UNCHANGED <<op, on, lifecycle, alive, asleep, caller, ops, exit>>

\* Under one lock: no more calls, and those that got in are refused.
StopServing(w) ==
  /\ at[w] = "stop" /\ at' = [at EXCEPT ![w] = "quiesce"]
  /\ alive' = alive \ {w}
  /\ reply' = [t \in Threads |-> IF t \in Pending(w) THEN "died" ELSE reply[t]]
  /\ queue' = [queue EXCEPT ![w] = <<>>]
  /\ UNCHANGED <<op, on, lifecycle, asleep, caller, ops, exit>>

\* mark::quiesce, and the thread is over.
Quiesce(w) ==
  /\ at[w] = "quiesce" /\ at' = [at EXCEPT ![w] = "ended"]
  /\ UNCHANGED <<op, on, lifecycle, mailbox, calls, ops, exit>>

Worker(w) ==
  \/ InitReturns(w) \/ Dequeue(w) \/ MethodReturns(w) \/ StopServing(w) \/ Quiesce(w)

-----------------------------------------------------------------------------
(* stop_all.                                                                *)

Current == handles[exit.next]
More == exit.next <= exit.seen

MainReturns ==
  /\ at[Main] = "run" /\ op[Main] = "none"
  /\ at' = [at EXCEPT ![Main] = "exit"]
  /\ exit' = [seen |-> Len(handles), next |-> 1, heard |-> serving]
  /\ op' = [op EXCEPT ![Main] = "stop"]
  /\ UNCHANGED <<on, lifecycle, mailbox, calls, ops>>

\* Every worker is told first ...
StopPush ==
  /\ op[Main] = "stop"
  /\ \/ /\ More /\ Push(Current, Stop)
        /\ op' = [op EXCEPT ![Main] = "stopTell"]
        /\ UNCHANGED exit
     \/ /\ ~More /\ op' = [op EXCEPT ![Main] = "stopTake"]
        /\ exit' = [exit EXCEPT !.next = 1]
        /\ UNCHANGED queue
  /\ UNCHANGED <<at, on, lifecycle, alive, asleep, calls, ops>>

StopTell ==
  /\ Proceed(Main, "stopTell", "stop")
  /\ asleep' = asleep \ {Current}
  /\ exit' = [exit EXCEPT !.next = @ + 1]
  /\ UNCHANGED <<at, lifecycle, queue, alive, calls, ops>>

\* The handle is let go of without a look at `serving`: nobody is waited for.
NeverWait ==
  /\ op[Main] = "stopTake" /\ More
  /\ thread' = [thread EXCEPT ![Current] = IF @ = "held" THEN "taken" ELSE @]
  /\ exit' = [exit EXCEPT !.next = @ + 1]
  /\ UNCHANGED op

\* ... and waited for second, if its thread is there to be taken and it serves.
WaitForServing ==
  /\ op[Main] = "stopTake" /\ More
  /\ thread' = [thread EXCEPT ![Current] = IF @ = "held" THEN "taken" ELSE @]
  /\ IF thread[Current] = "held" /\ Current \in serving
     THEN op' = [op EXCEPT ![Main] = "stopJoin"] /\ UNCHANGED exit
     ELSE exit' = [exit EXCEPT !.next = @ + 1] /\ UNCHANGED op

StopTake ==
  /\ WaitForServing
  /\ UNCHANGED <<at, on, handles, known, serving, mailbox, calls, ops>>

StopJoin ==
  /\ Proceed(Main, "stopJoin", "stopTake")
  /\ at[Current] = "ended"
  /\ exit' = [exit EXCEPT !.next = @ + 1]
  /\ UNCHANGED <<at, lifecycle, mailbox, calls, ops>>

\* stop_all returns, and the process ends with whoever is left.
ProcessEnds ==
  /\ op[Main] = "stopTake" /\ ~More
  /\ at' = [at EXCEPT ![Main] = "ended"]
  /\ op' = [op EXCEPT ![Main] = "none"]
  /\ UNCHANGED <<on, lifecycle, mailbox, calls, ops, exit>>

StopAll == StopPush \/ StopTell \/ StopTake \/ StopJoin \/ ProcessEnds

-----------------------------------------------------------------------------
Gone == at[Main] = "ended"

Next ==
  \/ ~Gone /\ \/ \E t \in Threads : Client(t)
              \/ \E w \in Workers : Worker(w) \/ DaemonWorks(w) \/ Spurious(w)
              \/ MainReturns \/ StopAll
  \/ Gone /\ UNCHANGED vars

Spec == Init /\ [][Next]_vars

(***************************************************************************)
(* Fairness: a thread that is in the runtime, or in a method, or in an     *)
(* init that returns, goes on. A program need never spawn, call or join,   *)
(* and main need not return.                                               *)
(***************************************************************************)
InRuntime(t) ==
  \/ SpawnFails(t) \/ SpawnThread(t) \/ StoreThread(t)
  \/ Tell(t, "tell", "recv") \/ Receive(t)
  \/ Tell(t, "tellStop", "take") \/ TakeThread(t) \/ Joined(t)

Fairness ==
  /\ \A t \in Threads : WF_vars(~Gone /\ InRuntime(t))
  /\ \A w \in Workers : WF_vars(~Gone /\ Worker(w))
  /\ WF_vars(~Gone /\ StopAll)

FairSpec == Spec /\ Fairness

-----------------------------------------------------------------------------
Places == {"unborn", "run", "init", "loop", "method", "stop", "quiesce", "exit", "ended"}
RuntimeCalls == {"none", "spawn", "store", "tell", "recv", "tellStop", "take", "join",
                 "stop", "stopTell", "stopTake", "stopJoin"}

ProgramOK ==
  /\ at \in [Threads -> Places]
  /\ op \in [Threads -> RuntimeCalls]
  /\ on \in [Threads -> Workers \cup {Nobody}]

LifecycleOK ==
  /\ handles \in Seq(Workers)
  /\ known \subseteq Workers /\ serving \subseteq Workers
  /\ thread \in [Workers -> {"none", "held", "taken"}]

MailboxOK ==
  /\ queue \in [Workers -> Seq(Threads \cup {Stop})]
  /\ alive \subseteq Workers /\ asleep \subseteq Workers

CallsOK ==
  /\ caller \in [Workers -> Threads \cup {Nobody}]
  /\ \A w \in Workers : caller[w] # Nobody <=> at[w] = "method"
  /\ reply \in [Threads -> {"none", "ok", "died"}]

CountsOK ==
  /\ ops \in [Threads -> Nat] /\ \A t \in Threads : ops[t] <= MaxOps[t]
  /\ exit \in [seen : Nat, next : Nat, heard : SUBSET Workers]

TypeOK == ProgramOK /\ LifecycleOK /\ MailboxOK /\ CallsOK /\ CountsOK

Calling(t) == op[t] \in {"tell", "recv"}

\* rpc.rs, Handle.queue: nobody waits "for a reply nobody is left to send".
\* Whoever waits has a worker that is still there to answer: its call is in the
\* queue, or it is the one that is running.
Answerable ==
  \A t \in Threads : Calling(t) /\ reply[t] = "none" =>
    /\ on[t] \in alive
    /\ \/ caller[on[t]] = t
       \/ \E i \in DOMAIN queue[on[t]] : queue[on[t]][i] = t

\* What has become of a call, in the terms of Service.
Answers == [none |-> "asked", ok |-> "done", died |-> "refused"]
CallState ==
  [t \in Threads |->
    IF ~Calling(t) THEN "none"
    ELSE IF reply[t] = "none" /\ caller[on[t]] = t THEN "running"
    ELSE Answers[reply[t]]]

S == INSTANCE Service WITH
       call <- CallState,
       to <- [t \in Threads |-> IF Calling(t) THEN on[t] ELSE Nobody],
       gone <- Workers \ alive

\* Calls keep the promise of Service: none is lost to a worker that is
\* shutting down, none is run twice, and none that is refused was run.
ImplementsService == S!SSpec

\* rpc.rs, stop_all: "every worker is told to stop and every worker that can
\* hear is waited for". Those that were serving when main returned have ended
\* when the process does.
ExitWaits == Gone => \A w \in exit.heard : at[w] = "ended"

\* A call is answered, or the process is over.
CallAnswered == \A t \in Threads : Calling(t) ~> ~Calling(t) \/ Gone

\* A join comes back, or the process is over.
JoinReturns == \A t \in Threads : op[t] = "tellStop" ~> op[t] = "none" \/ Gone

\* rpc.rs, stop_all: "`main` returning **ends the process**".
ExitReturns == at[Main] = "exit" ~> Gone

\* Whoever waits comes back: a caller with its answer, a join with the worker's
\* end, the exit when all that serve have stopped (ws_rpc_call, ws_join,
\* stop_all).
EveryoneComesBack == CallAnswered /\ JoinReturns /\ ExitReturns
=============================================================================
