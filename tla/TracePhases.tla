---------------------------- MODULE TracePhases -----------------------------
(***************************************************************************)
(* The pause protocol of one worker (mark.rs, worker.rs): its mutator, the *)
(* collector thread that serves it, and the thread that runs gc::quiesce   *)
(* when the process ends. They share the trace's phase, the worker's       *)
(* contribution to the poll and evacuating bytes (SharedFlag shows that    *)
(* those bytes never miss a contribution), the safe-region handshake       *)
(* `parked` and the abandon flag. A pause is a procedure any of the three  *)
(* may run, a step at a time.                                              *)
(*                                                                         *)
(* A section under the mark state's mutex stores one shared word and wakes *)
(* the condition variable, or tests a predicate and sleeps: it is one step *)
(* here. The condition variables are explicit: a wake-up that is not sent  *)
(* is a thread that sleeps for ever.                                       *)
(***************************************************************************)
EXTENDS Integers, FiniteSets

CONSTANTS
  Blocks,       \* the heap blocks a trace may choose to empty
  StatePinned   \* worker_main's state_pin is held while W# code runs

ASSUME TracePhasesAssumption ==
  /\ IsFiniteSet(Blocks)
  /\ StatePinned \in BOOLEAN

VARIABLES
  phase,   \* mark.phase
  flag,    \* mark.tracing, mark.abandon, mark.wanted, mark.evacuating
  parked,  \* RUNNING, PARKED or SCANNING
  pins,    \* pinned_depth: the runtime roots on the mutator's thread
  heap,    \* chosen: the blocks whose status is Evacuating
           \* cset:   state.cset, the collector's list of them
           \* moved:  those out of which this worker's evacuation has copied
           \* early:  those out of which the program has before that began,
           \*         during another worker's evacuation
           \* torn:   blocks of `moved` put back to use, forwarded objects and all
           \* spoilt: blocks of `early` put back so
           \* satb:   the barrier's record holds something nobody looked at
  pc,      \* where each thread is
  ret,     \* where safepoint or a wait returns to
  todo,    \* a thread's own clone of state.cset
  copied,  \* evacuate_concurrently has run in this trace
  asleep   \* threads asleep on mark.changed; the mutator also on park_changed

vars == <<phase, flag, parked, pins, heap, pc, ret, todo, copied, asleep>>

M == "mutator"
C == "collector"
X == "exit"
Threads == {M, C, X}
control == <<pc, ret>>
local == <<todo, copied>>

Phases == {"Idle", "Marking", "MarkDone", "Evacuating", "EvacDone", "Sweeping"}

BasePins == IF StatePinned THEN 1 ELSE 0

\* transfer::decode pins what it has built on top of what is already there.
Decoding == pins > BasePins

Init ==
  /\ phase = "Idle"
  /\ flag = [tracing |-> FALSE, abandon |-> FALSE, wanted |-> FALSE, evacuating |-> FALSE]
  /\ parked = "RUNNING"
  /\ pins = BasePins
  /\ heap = [chosen |-> {}, cset |-> {}, moved |-> {}, early |-> {}, torn |-> {},
             spoilt |-> {}, satb |-> FALSE]
  /\ pc = [t \in Threads |-> IF t = M THEN "run" ELSE IF t = C THEN "top" ELSE "before"]
  /\ ret = [t \in Threads |-> "none"]
  /\ todo = [t \in Threads |-> {}]
  /\ copied = FALSE
  /\ asleep = {}

-----------------------------------------------------------------------------
At(t, l) == pc[t] = l /\ t \notin asleep

Goto(t, l) == pc' = [pc EXCEPT ![t] = l] /\ UNCHANGED ret

\* Run the procedure that starts at l and come back to r.
Call(t, l, r) == pc' = [pc EXCEPT ![t] = l] /\ ret' = [ret EXCEPT ![t] = r]

Return(t) == pc' = [pc EXCEPT ![t] = ret[t]] /\ ret' = [ret EXCEPT ![t] = "none"]

\* changed.notify_all: everyone but a mutator waiting on park_changed.
WakeChanged == asleep' = {t \in asleep : pc[t] = "doze"}

\* set_phase: the store and the notification, under the state lock.
SetPhase(p) == phase' = p /\ WakeChanged

\* Check `ready` under the lock: go on, or sleep until notified.
WaitFor(t, ready, proceed) ==
  \/ ready /\ proceed /\ UNCHANGED asleep
  \/ ~ready /\ asleep' = asleep \cup {t} /\ UNCHANGED control

\* A condition variable may wake a sleeper for no reason.
Spurious(t) ==
  /\ t \in asleep
  /\ asleep' = asleep \ {t}
  /\ UNCHANGED <<phase, flag, parked, pins, heap, control, local>>

PausePhase == phase \in {"MarkDone", "EvacDone"}

Servable == PausePhase /\ parked = "PARKED"

-----------------------------------------------------------------------------
(* The pauses: safepoint, finish_marking, finish_evacuation_on.             *)

Safepoint(t) ==
  /\ At(t, "safepoint")
  /\ \/ phase = "MarkDone" /\ Goto(t, "take")
     \/ phase = "EvacDone" /\ Goto(t, "fix")
     \/ ~PausePhase /\ Return(t)
  /\ UNCHANGED <<phase, flag, parked, pins, heap, local, asleep>>

\* finish_marking takes the work, and marks what it and the barrier's record
\* lead to until there is no more.
TakeWork(t) ==
  /\ At(t, "take") /\ Goto(t, "arm")
  /\ todo' = [todo EXCEPT ![t] = heap.cset]
  /\ heap' = [heap EXCEPT !.satb = FALSE]
  /\ UNCHANGED <<phase, flag, parked, pins, copied, asleep>>

\* Marking is over, and the load barrier is armed if there are blocks to empty:
\* from here on, whatever has left them has left them in this evacuation.
StopTracingAndArm(t) ==
  /\ At(t, "arm") /\ Goto(t, "count")
  /\ flag' = [flag EXCEPT !.tracing = FALSE, !.evacuating = @ \/ todo[t] # {}]
  /\ heap' = [heap EXCEPT !.moved = @ \cup heap.early, !.early = {}]
  /\ UNCHANGED <<phase, parked, pins, local, asleep>>

\* gc::collect, and then every object a root names is moved out of the chosen
\* blocks; the copies leave forwarded originals behind.
CountAndMoveRoots(t) ==
  /\ At(t, "count") /\ Goto(t, "clear")
  /\ \E S \in SUBSET heap.chosen :
       /\ todo[t] = {} => S = {}
       /\ heap' = [heap EXCEPT !.moved = @ \cup S]
  /\ UNCHANGED <<phase, flag, parked, pins, local, asleep>>

\* clear_poll, just before the phase that ends the pause is published.
ClearPoll(t, from, to) ==
  /\ At(t, from) /\ Goto(t, to)
  /\ flag' = [flag EXCEPT !.wanted = FALSE]
  /\ UNCHANGED <<phase, parked, pins, heap, local, asleep>>

\* set_phase at the end of finish_marking.
PublishMarked(t) ==
  /\ At(t, "publish") /\ Return(t)
  /\ SetPhase(IF todo[t] = {} THEN "Sweeping" ELSE "Evacuating")
  /\ todo' = [todo EXCEPT ![t] = {}]
  /\ UNCHANGED <<flag, parked, pins, heap, copied>>

\* fix_references and release_evacuated: nothing names the chosen blocks any
\* more, and they go back to the heap empty.
FixAndRelease(t) ==
  /\ At(t, "fix") /\ Goto(t, "disarm")
  /\ heap' = [heap EXCEPT !.chosen = {}, !.moved = {}]
  /\ UNCHANGED <<phase, flag, parked, pins, local, asleep>>

\* The third pause leaves the load barrier armed.
DisarmForgotten(t) ==
  /\ At(t, "disarm") /\ Goto(t, "clear2")
  /\ heap' = [heap EXCEPT !.cset = {}]
  /\ UNCHANGED <<phase, flag, parked, pins, local, asleep>>

Disarm(t) ==
  /\ At(t, "disarm") /\ Goto(t, "clear2")
  /\ flag' = [flag EXCEPT !.evacuating = FALSE]
  /\ heap' = [heap EXCEPT !.cset = {}]
  /\ UNCHANGED <<phase, parked, pins, local, asleep>>

\* set_phase at the end of finish_evacuation_on.
PublishEvacuated(t) ==
  /\ At(t, "publish2") /\ Return(t)
  /\ SetPhase("Sweeping")
  /\ UNCHANGED <<flag, parked, pins, heap, local>>

Pause(t) ==
  \/ Safepoint(t) \/ TakeWork(t) \/ StopTracingAndArm(t) \/ CountAndMoveRoots(t)
  \/ ClearPoll(t, "clear", "publish") \/ PublishMarked(t)
  \/ FixAndRelease(t) \/ Disarm(t)
  \/ ClearPoll(t, "clear2", "publish2") \/ PublishEvacuated(t)

PauseLabels ==
  {"take", "arm", "count", "clear", "publish", "fix", "disarm", "clear2", "publish2"}

InPause(t) == pc[t] \in PauseLabels

-----------------------------------------------------------------------------
(* The mutator. At "run" it is in generated code, or between two steps of   *)
(* transfer::decode.                                                        *)

Generated == At(M, "run") /\ ~Decoding

\* ws_gc_poll: observing the request consumes nothing.
Poll ==
  /\ Generated /\ flag.wanted
  /\ Call(M, "safepoint", "run")
  /\ UNCHANGED <<phase, flag, parked, pins, heap, local, asleep>>

\* ws_alloc ends in on_allocation, whose first act is a safepoint.
Allocate ==
  /\ At(M, "run")
  /\ Call(M, "safepoint", "allocated")
  /\ UNCHANGED <<phase, flag, parked, pins, heap, local, asleep>>

\* The rest of on_allocation: a collection may be due, unless objects are
\* moving, and a trace may be due on top of it, if none is in flight.
AfterAllocation ==
  /\ At(M, "allocated")
  /\ \/ Goto(M, "run")
     \/ ~flag.evacuating /\ phase = "Idle" /\ Goto(M, "begin")
  /\ UNCHANGED <<phase, flag, parked, pins, heap, local, asleep>>

\* transfer::decode pins each object it builds and lets go of them all.
Pin ==
  /\ Generated
  /\ pins' = pins + 1
  /\ UNCHANGED <<phase, flag, parked, heap, control, local, asleep>>

Unpin ==
  /\ At(M, "run") /\ Decoding
  /\ pins' = BasePins
  /\ UNCHANGED <<phase, flag, parked, heap, control, local, asleep>>

\* The write barrier records what the program overwrites while a trace marks.
Overwrite ==
  /\ Generated /\ flag.tracing
  /\ heap' = [heap EXCEPT !.satb = TRUE]
  /\ UNCHANGED <<phase, flag, parked, pins, control, local, asleep>>

\* The load barrier moves what the program reaches out of a chosen block. The
\* byte it tests is the process's: any worker's evacuation arms it, and at any
\* time. ws_resolve looks at the block and not at the phase.
LoadBarrier ==
  /\ Generated
  /\ \E b \in heap.chosen :
       heap' = IF flag.evacuating THEN [heap EXCEPT !.moved = @ \cup {b}]
                                  ELSE [heap EXCEPT !.early = @ \cup {b}]
  /\ UNCHANGED <<phase, flag, parked, pins, control, local, asleep>>

\* gc_trace_start does not wait for the sweep of the last trace.
StartDuringSweep ==
  /\ Generated \/ At(M, "start")
  /\ \/ phase \in {"Idle", "Sweeping"} /\ Goto(M, "begin")
     \/ phase \in {"Marking", "Evacuating"} /\ Goto(M, "run")
     \/ PausePhase /\ Call(M, "safepoint", "start")
  /\ UNCHANGED <<phase, flag, parked, pins, heap, local, asleep>>

\* gc_trace_start: begin a trace, or join the one in flight.
TraceStart ==
  /\ Generated \/ At(M, "start")
  /\ \/ phase = "Idle" /\ Goto(M, "begin")
     \/ phase \in {"Marking", "Evacuating"} /\ Goto(M, "run")
     \/ PausePhase /\ Call(M, "safepoint", "start")
     \/ phase = "Sweeping" /\ Call(M, "waitIdle", "start")
  /\ UNCHANGED <<phase, flag, parked, pins, heap, local, asleep>>

\* gc_trace_finish: wait for the trace in flight to be entirely over.
TraceFinish ==
  /\ Generated \/ At(M, "finish")
  /\ \/ phase = "Idle" /\ Goto(M, "run")
     \/ phase = "Marking" /\ Call(M, "waitMarked", "finish")
     \/ phase = "Evacuating" /\ Call(M, "waitEvacuated", "finish")
     \/ PausePhase /\ Call(M, "safepoint", "finish")
     \/ phase = "Sweeping" /\ Call(M, "waitIdle", "finish")
  /\ UNCHANGED <<phase, flag, parked, pins, heap, local, asleep>>

\* start_with_roots: choose the blocks to empty, hand over the roots, and let
\* the barrier record; then the phase is published and the collector wakes.
BeginTrace ==
  /\ At(M, "begin") /\ Goto(M, "beginPublish")
  /\ \E S \in SUBSET Blocks :
       heap' = [heap EXCEPT !.chosen = S, !.cset = S]
  /\ flag' = [flag EXCEPT !.tracing = TRUE]
  /\ UNCHANGED <<phase, parked, pins, local, asleep>>

PublishMarking ==
  /\ At(M, "beginPublish") /\ Goto(M, "run")
  /\ SetPhase("Marking")
  /\ UNCHANGED <<flag, parked, pins, heap, local>>

\* worker::blocking: the frame, then the state ...
Park ==
  /\ Generated
  /\ parked' = "PARKED" /\ Goto(M, "tell")
  /\ UNCHANGED <<phase, flag, pins, heap, local, asleep>>

\* ... and a mutator that parks without saying so, ...
TellNobody ==
  /\ At(M, "tell") /\ Goto(M, "syscall")
  /\ UNCHANGED <<phase, flag, parked, pins, heap, local, asleep>>

\* ... and then the collector is told.
TellCollector ==
  /\ At(M, "tell") /\ Goto(M, "syscall")
  /\ WakeChanged
  /\ UNCHANGED <<phase, flag, parked, pins, heap, local>>

\* The system call comes back -- or never does.
SyscallReturns ==
  /\ At(M, "syscall") /\ Goto(M, "unpark")
  /\ UNCHANGED <<phase, flag, parked, pins, heap, local, asleep>>

\* A store instead of a compare-exchange: resume whatever a collector is doing.
UnparkByStore ==
  /\ At(M, "unpark")
  /\ parked' = "RUNNING" /\ Goto(M, "run")
  /\ UNCHANGED <<phase, flag, pins, heap, local, asleep>>

Unpark ==
  /\ At(M, "unpark")
  /\ \/ parked = "PARKED" /\ parked' = "RUNNING" /\ Goto(M, "run")
     \/ parked # "PARKED" /\ Goto(M, "doze") /\ UNCHANGED parked
  /\ UNCHANGED <<phase, flag, pins, heap, local, asleep>>

\* Wait on park_changed, under park_lock, while the stack is being walked.
Doze ==
  /\ At(M, "doze")
  /\ WaitFor(M, parked # "SCANNING", Goto(M, "unpark"))
  /\ UNCHANGED <<phase, flag, parked, pins, heap, local>>

\* wait_until, for the mutator and the exiting thread.
WaitPhase(t) ==
  /\ \/ At(t, "waitIdle") /\ WaitFor(t, phase = "Idle", Return(t))
     \/ At(t, "waitMarked") /\ WaitFor(t, phase # "Marking", Return(t))
     \/ At(t, "waitEvacuated") /\ WaitFor(t, phase # "Evacuating", Return(t))
  /\ UNCHANGED <<phase, flag, parked, pins, heap, local>>

-----------------------------------------------------------------------------
(* serve_parked, run by the collector or by the exiting thread.             *)

\* Where serve_parked's caller goes when it returns true, and false.
ServedTo(t) == IF t = C THEN "wait" ELSE "quiesce"
DeclinedTo(t) == IF t = C THEN "sleep" ELSE "exited"

IsServable(t) ==
  /\ At(t, "serve")
  /\ Goto(t, IF Servable THEN "pinned" ELSE DeclinedTo(t))
  /\ UNCHANGED <<phase, flag, parked, pins, heap, local, asleep>>

\* claim_parked, its two reads: it declines a worker with runtime roots.
LookAtPins(t) ==
  /\ At(t, "pinned")
  /\ Goto(t, IF pins = 0 THEN "claim" ELSE DeclinedTo(t))
  /\ UNCHANGED <<phase, flag, parked, pins, heap, local, asleep>>

Claim(t) ==
  /\ At(t, "claim")
  /\ \/ parked = "PARKED" /\ parked' = "SCANNING" /\ Call(t, "safepoint", "release")
     \/ parked # "PARKED" /\ Goto(t, DeclinedTo(t)) /\ UNCHANGED parked
  /\ UNCHANGED <<phase, flag, pins, heap, local, asleep>>

\* release_parked, and its notification on park_changed.
Release(t) ==
  /\ At(t, "release") /\ Goto(t, ServedTo(t))
  /\ parked' = "PARKED"
  /\ asleep' = {u \in asleep : pc[u] # "doze"}
  /\ UNCHANGED <<phase, flag, pins, heap, local>>

Serve(t) == IsServable(t) \/ LookAtPins(t) \/ Claim(t) \/ Release(t)

-----------------------------------------------------------------------------
(* collector_main.                                                          *)

AwaitTrace ==
  /\ At(C, "top")
  /\ WaitFor(C, phase = "Marking" \/ flag.abandon,
             Goto(C, IF flag.abandon THEN "wait" ELSE "mark"))
  /\ copied' = FALSE
  /\ UNCHANGED <<phase, flag, parked, pins, heap, todo>>

\* mark_concurrently is done when the work is gone and one look at the
\* barrier's record finds nothing new; it stops when it sees the abandonment.
MarkConcurrently ==
  /\ At(C, "mark")
  /\ \/ heap' = [heap EXCEPT !.satb = FALSE] /\ Goto(C, "request")
     \/ flag.abandon /\ Goto(C, "wait") /\ UNCHANGED heap
  /\ UNCHANGED <<phase, flag, parked, pins, local, asleep>>

\* The phase is published first, and the request follows it.
PublishThenRequest(from, to, p) ==
  /\ \/ /\ At(C, from) /\ Goto(C, to)
        /\ SetPhase(p)
        /\ UNCHANGED flag
     \/ /\ At(C, to) /\ Goto(C, "wait")
        /\ flag' = [flag EXCEPT !.wanted = TRUE]
        /\ UNCHANGED <<phase, asleep>>
  /\ UNCHANGED <<parked, pins, heap, local>>

\* request_safepoint, and only then the phase that the pause will service.
RequestThenPublish(from, to, p) ==
  /\ \/ /\ At(C, from) /\ Goto(C, to)
        /\ flag' = [flag EXCEPT !.wanted = TRUE]
        /\ UNCHANGED <<phase, asleep>>
     \/ /\ At(C, to) /\ Goto(C, "wait")
        /\ SetPhase(p)
        /\ UNCHANGED flag
  /\ UNCHANGED <<parked, pins, heap, local>>

\* What each of collector_main's two waits is for.
Ready == \/ flag.abandon
         \/ phase = "Sweeping"
         \/ phase = "Evacuating" /\ ~copied

\* wait_or_serve: ready, or try to serve, or sleep until one of them may be so.
WaitOrServe ==
  /\ At(C, "wait")
  /\ Goto(C, IF Ready THEN "after" ELSE "serve")
  /\ UNCHANGED <<phase, flag, parked, pins, heap, local, asleep>>

Sleep ==
  /\ At(C, "sleep")
  /\ WaitFor(C, Ready \/ Servable, Goto(C, "wait"))
  /\ UNCHANGED <<phase, flag, parked, pins, heap, local>>

AfterWait ==
  /\ At(C, "after")
  /\ IF flag.abandon
     THEN Goto(C, "revert") /\ UNCHANGED todo
     ELSE IF phase = "Evacuating" /\ ~copied
          THEN Goto(C, "copy") /\ todo' = [todo EXCEPT ![C] = heap.cset]
          ELSE Goto(C, "sweep") /\ UNCHANGED todo
  /\ UNCHANGED <<phase, flag, parked, pins, heap, copied, asleep>>

\* evacuate_concurrently, a block at a time: what the program has not moved
\* out of the block is copied out of it here.
CopyBlock ==
  /\ At(C, "copy") /\ ~flag.abandon
  /\ \E b \in todo[C] :
       /\ todo' = [todo EXCEPT ![C] = @ \ {b}]
       /\ \E S \in SUBSET ({b} \cap heap.chosen) :
            heap' = [heap EXCEPT !.moved = @ \cup S]
  /\ UNCHANGED <<phase, flag, parked, pins, control, copied, asleep>>

CopyEnds ==
  /\ At(C, "copy") /\ Goto(C, "request2")
  /\ flag.abandon \/ todo[C] = {}
  /\ todo' = [todo EXCEPT ![C] = {}]
  /\ copied' = TRUE
  /\ UNCHANGED <<phase, flag, parked, pins, heap, asleep>>

\* sweep frees, a block at a time, every object the trace left unmarked.
Sweep ==
  /\ At(C, "sweep") /\ Goto(C, "idle")
  /\ UNCHANGED <<phase, flag, parked, pins, heap, local, asleep>>

PublishIdle ==
  /\ At(C, "idle") /\ Goto(C, "top")
  /\ SetPhase("Idle")
  /\ UNCHANGED <<flag, parked, pins, heap, local>>

\* abandon: revert_evacuation makes the chosen blocks ordinary blocks again,
Revert ==
  /\ At(C, "revert") /\ Goto(C, "drop")
  /\ heap' = [heap EXCEPT !.torn = @ \cup (heap.chosen \cap heap.moved),
                          !.spoilt = @ \cup (heap.chosen \cap heap.early),
                          !.chosen = {}, !.moved = {}, !.early = {}]
  /\ UNCHANGED <<phase, flag, parked, pins, local, asleep>>

\* the lists are dropped,
DropLists ==
  /\ At(C, "drop") /\ Goto(C, "untrace")
  /\ heap' = [heap EXCEPT !.satb = FALSE, !.cset = {}]
  /\ UNCHANGED <<phase, flag, parked, pins, local, asleep>>

\* and the flags go down, the request before the abandonment.
LowerFlag(from, to, f) ==
  /\ At(C, from) /\ Goto(C, to)
  /\ flag' = [flag EXCEPT ![f] = FALSE]
  /\ UNCHANGED <<phase, parked, pins, heap, local, asleep>>

Abandon ==
  \/ Revert \/ DropLists
  \/ LowerFlag("untrace", "clear3", "tracing")
  \/ ClearPoll(C, "clear3", "lower")
  \/ LowerFlag("lower", "idle", "abandon")

Collector ==
  \/ AwaitTrace \/ MarkConcurrently
  \/ RequestThenPublish("request", "publishMarkDone", "MarkDone")
  \/ WaitOrServe \/ Sleep \/ AfterWait \/ CopyBlock \/ CopyEnds
  \/ RequestThenPublish("request2", "publishEvacDone", "EvacDone")
  \/ Sweep \/ PublishIdle \/ Abandon \/ Serve(C) \/ Pause(C)

-----------------------------------------------------------------------------
(* The end of the process: gc::quiesce for this worker.                     *)

\* main has returned, or a worker's message loop has ended: the worker's own
\* thread runs quiesce with no W# frame on its stack. Or stop_all has left the
\* worker running, and quiesce meets it as another's.
BeginExit ==
  /\ At(X, "before")
  /\ \/ Goto(X, "quiesce")
     \/ /\ Generated
        /\ pc' = [pc EXCEPT ![X] = "quiesce", ![M] = "returned"] /\ UNCHANGED ret
  /\ UNCHANGED <<phase, flag, parked, pins, heap, local, asleep>>

\* quiesce: wait for what must finish, run what this thread may run, and drop
\* a trace that has not begun to move anything.
Quiesce ==
  /\ At(X, "quiesce")
  /\ \/ phase = "Idle" /\ Goto(X, "exited")
     \/ phase = "Sweeping" /\ Call(X, "waitIdle", "quiesce")
     \/ phase \in {"Marking", "MarkDone"} /\ Goto(X, "abandon")
     \/ phase = "Evacuating" /\ Call(X, "waitEvacuated", "quiesce")
     \/ phase = "EvacDone" /\ pc[M] = "returned" /\ Call(X, "fix", "quiesce")
     \/ phase = "EvacDone" /\ pc[M] # "returned" /\ Goto(X, "serve")
  /\ UNCHANGED <<phase, flag, parked, pins, heap, local, asleep>>

\* An abandonment the collector is not woken for.
RaiseAbandonQuietly ==
  /\ At(X, "abandon") /\ Call(X, "waitIdle", "exited")
  /\ flag' = [flag EXCEPT !.abandon = TRUE]
  /\ UNCHANGED <<phase, parked, pins, heap, local, asleep>>

\* Tell the collector to stand down, and wait until it has.
RaiseAbandon ==
  /\ At(X, "abandon") /\ Call(X, "waitIdle", "exited")
  /\ flag' = [flag EXCEPT !.abandon = TRUE]
  /\ WakeChanged
  /\ UNCHANGED <<phase, parked, pins, heap, local>>

Exiting == Quiesce \/ RaiseAbandon \/ WaitPhase(X) \/ Serve(X) \/ Pause(X)

\* The process is gone once quiesce has returned.
Exited == At(X, "exited") /\ UNCHANGED vars

-----------------------------------------------------------------------------
Mutator ==
  \/ Poll \/ Allocate \/ AfterAllocation \/ Pin \/ Unpin \/ Overwrite \/ LoadBarrier
  \/ TraceStart \/ TraceFinish \/ BeginTrace \/ PublishMarking
  \/ Park \/ TellCollector \/ SyscallReturns \/ Unpark \/ Doze
  \/ WaitPhase(M) \/ Pause(M)

Next ==
  \/ Mutator
  \/ Collector
  \/ BeginExit
  \/ Exiting
  \/ \E t \in Threads : Spurious(t)
  \/ Exited

Spec == Init /\ [][Next]_vars

(***************************************************************************)
(* Fairness. Every thread that is inside the runtime is scheduled. W# code *)
(* that keeps running reaches a safepoint: the code generator puts a poll  *)
(* on the back edge of every loop (lower.rs, emit_gc_poll), so a mutator   *)
(* cannot pass through generated code for ever without polling; and a      *)
(* decode comes to its end. A system call need never return, and a program *)
(* need never allocate, trace or exit.                                     *)
(***************************************************************************)
InRuntime ==
  \/ AfterAllocation
  \/ At(M, "start") /\ TraceStart
  \/ At(M, "finish") /\ TraceFinish
  \/ BeginTrace \/ PublishMarking \/ TellCollector \/ Unpark \/ Doze
  \/ WaitPhase(M) \/ Pause(M)

Fairness ==
  /\ WF_vars(Collector)
  /\ WF_vars(InRuntime)
  /\ WF_vars(Unpin)
  /\ SF_vars(Poll)
  /\ WF_vars(Exiting)

FairSpec == Spec /\ Fairness

\* Even if the exiting thread never misses its turn.
ExitFairSpec == FairSpec /\ SF_vars(Exiting)

-----------------------------------------------------------------------------
TypeOK ==
  /\ phase \in Phases
  /\ flag \in [tracing : BOOLEAN, abandon : BOOLEAN, wanted : BOOLEAN, evacuating : BOOLEAN]
  /\ parked \in {"RUNNING", "PARKED", "SCANNING"}
  /\ pins \in BasePins .. BasePins + 1
  /\ heap \in [chosen : SUBSET Blocks, cset : SUBSET Blocks, moved : SUBSET Blocks,
               early : SUBSET Blocks, torn : SUBSET Blocks, spoilt : SUBSET Blocks,
               satb : BOOLEAN]
  /\ todo \in [Threads -> SUBSET Blocks]
  /\ copied \in BOOLEAN
  /\ asleep \in SUBSET Threads

\* One pause at a time, and the mutator is stopped for the whole of it: it is
\* the one running it, or it is parked and claimed, or the program is over.
PauseStopsTheWorld ==
  /\ \A t, u \in Threads : InPause(t) /\ InPause(u) => t = u
  /\ \A t \in {C, X} : InPause(t) =>
       \/ parked = "SCANNING" /\ pc[M] \in {"tell", "syscall", "unpark", "doze"}
       \/ t = X /\ pc[M] = "returned"

\* mark.rs, mark_concurrently: "a visible pause phase must already own its poll
\* request". It owns it until the pause, or the abandonment, lowers it.
PauseOwnsItsRequest ==
  PausePhase /\ (\A t \in Threads : pc[t] \notin {"publish", "publish2"})
             /\ pc[C] \notin {"lower", "idle"}
    => flag.wanted

\* And no request outlives its pause: one that did would send the mutator into
\* the slow path at every poll for ever.
NoStaleRequest ==
  flag.wanted => \/ PausePhase
                 \/ pc[C] \in {"publishMarkDone", "publishEvacDone"}
                 \/ flag.abandon

\* The process is ending, and this worker was left running.
LeftRunning == pc[X] # "before" /\ pc[M] # "returned"

\* This worker holds the load barrier armed exactly while its own evacuation may
\* move objects: from the second pause to the third, never in a trace with nothing
\* to evacuate. What is moved because another worker's evacuation is under way
\* leaves the blocks of a trace that still marks.
BarrierCoversMoving == LeftRunning \/
  /\ heap.moved # {} => flag.evacuating
  /\ heap.early # {} => phase \in {"Marking", "MarkDone"} /\ heap.early \subseteq heap.chosen
  /\ phase \in {"Evacuating", "EvacDone"} /\ (\A t \in Threads : pc[t] \notin {"clear2", "publish2"})
       => flag.evacuating
  /\ phase \in {"Idle", "Marking", "Sweeping"} => ~flag.evacuating

\* mark.rs, quiesce: "half-moved is not a state the heap can be left in"; and
\* abandon: "Only reachable before anything has been copied".
NeverHalfMoved == heap.torn = {}

\* It is not so of what another worker's evacuation has moved: a trace that still
\* marks may be dropped, by the worker's own exit too, and its blocks are put back
\* with forwarded objects in them.
EarlyMovesAreNotPutBack == LeftRunning \/ heap.spoilt = {}

\* What this worker's own evacuation has moved is safe from its own exit.
OwnExitTearsNothing == LeftRunning \/ NeverHalfMoved

\* What the assertions of mark.rs and worker.rs say where they are reached:
\* a trace starts idle with an empty record, each pause finds its own phase,
\* the third has blocks to release, a trace with nothing to evacuate none.
AssertionsHold == LeftRunning \/
  /\ pc[M] = "begin" => phase = "Idle" /\ ~heap.satb
  /\ \A t \in Threads :
       /\ pc[t] = "take" => phase = "MarkDone"
       /\ pc[t] = "fix" => phase = "EvacDone" /\ heap.chosen # {}
       /\ pc[t] = "publish" /\ todo[t] = {} => heap.chosen = {}

\* worker.rs, blocking: "a safe region may not be entered while the runtime
\* holds pinned roots" (its debug_assert_eq).
ParkedHoldsNoRoots == pc[M] \in {"tell", "syscall"} => pins = 0

\* The sweep frees what is not marked, so it runs only on a settled heap: the
\* barrier has stopped recording, nothing is being moved, no block is chosen.
SweepFindsSettledHeap ==
  pc[C] = "sweep" /\ ~LeftRunning =>
    /\ ~flag.tracing /\ ~flag.wanted /\ ~flag.evacuating
    /\ heap.chosen = {} /\ heap.cset = {}

\* A trace that has begun is over one day, whatever system call the mutator
\* sits in: the point of the safe region.
TraceCompletes == phase = "Marking" ~> phase = "Idle"

\* A mutator whose system call is over runs again: the collector lets it go.
MutatorResumes == pc[M] = "unpark" ~> pc[M] = "run"

\* gc.rs, quiesce: "Let a trace in flight finish or stand down": the process
\* ends, whoever's worker it is.
QuiesceReturns == pc[X] = "quiesce" ~> pc[X] = "exited"

\* A worker's own exit returns.
OwnExitReturns == pc[X] = "quiesce" /\ pc[M] = "returned" ~> pc[X] = "exited"

\* A poll request is up from before the phase becomes a pause's until that pause,
\* or the abandonment, lowers it, and at no other time (mark_concurrently,
\* evacuate_concurrently, clear_poll).
RequestsMatchPauses == PauseOwnsItsRequest /\ NoStaleRequest

\* What a worker's evacuation has moved is behind the barrier from the pause that
\* arms it to the one that disarms it, and no exit of the worker's own puts back a
\* block between the two (finish_marking, finish_evacuation_on, quiesce). It says
\* nothing of a block that another worker's evacuation emptied in part before the
\* first of the two pauses: an exit may put that one back (EarlyMovesAreNotPutBack).
MovesAreCovered == BarrierCoversMoving /\ OwnExitTearsNothing

\* Each pass of the trace finds the heap the pass before it was to leave: the
\* assertions on the way, and the sweep at the end (start_with_roots,
\* finish_marking, finish_evacuation_on, sweep).
PassesFindTheirHeap == TypeOK /\ AssertionsHold /\ SweepFindsSettledHeap

\* mark.rs, set_phase: "a wake-up cannot be lost"; wait_or_serve: "The mutator
\* notifies this condvar when it parks". Nobody is asleep whose condition holds:
\* not on a phase or an abandonment, and not on a parked program that could be
\* served, unless somebody is on the way to it -- the program itself, which tells
\* the collector next, or an exit that has just given it back, which wakes nobody
\* on `changed` (release_parked) and must then come round to it by itself.
OnTheWay == pc[M] = "tell" \/ pc[X] \in {"quiesce", "abandon", "serve", "pinned", "claim"}
NobodySleepsThrough ==
  /\ C \in asleep =>
       \/ pc[C] = "top" /\ phase # "Marking" /\ ~flag.abandon
       \/ pc[C] = "sleep" /\ ~Ready /\ (Servable /\ pins = 0 => OnTheWay)
  /\ X \in asleep =>
       \/ pc[X] = "waitIdle" /\ phase # "Idle"
       \/ pc[X] = "waitEvacuated" /\ phase = "Evacuating"
  /\ M \in asleep =>
       \/ pc[M] = "waitIdle" /\ phase # "Idle"
       \/ pc[M] = "waitMarked" /\ phase = "Marking"
       \/ pc[M] = "waitEvacuated" /\ phase = "Evacuating"
       \/ pc[M] = "doze" /\ parked = "SCANNING"

\* Traces, the mutator and the exit of a worker all come to their end, however
\* they wait for one another.
EveryoneGoesOn == TraceCompletes /\ MutatorResumes /\ OwnExitReturns
=============================================================================
