-------------------------- MODULE TracePhasesProofs --------------------------
(***************************************************************************)
(* The pause protocol keeps its promises for any set of blocks. The        *)
(* inductive invariant has three parts: who is where in the safe-region    *)
(* handshake, so that pauses exclude each other and the program; which     *)
(* phase and which request go with each place of the collector and of a    *)
(* pause, abandonment included; and which heap each phase and each step of *)
(* a pause finds, for a worker whose own thread ends it.                   *)
(***************************************************************************)
EXTENDS TracePhases, TLAPS

FirstPause == {"take", "arm", "count", "clear", "publish"}
SecondPause == {"fix", "disarm", "clear2", "publish2"}

ProgramLabels == {"run", "allocated", "begin", "beginPublish", "start", "finish", "returned"}
ParkedLabels == {"tell", "syscall", "unpark", "doze"}
WaitLabels == {"waitIdle", "waitMarked", "waitEvacuated"}
ServeLabels == {"serve", "pinned", "claim", "release"}
Called == PauseLabels \cup {"safepoint"}
TraceLabels == {"top", "mark", "request", "publishMarkDone", "wait", "sleep", "after",
                "copy", "request2", "publishEvacDone", "sweep", "idle"}
AbandonLabels == {"revert", "drop", "untrace", "clear3", "lower"}
ExitLabels == {"before", "quiesce", "abandon", "exited"}

Labels == ProgramLabels \cup ParkedLabels \cup WaitLabels \cup ServeLabels \cup Called
            \cup TraceLabels \cup AbandonLabels \cup ExitLabels

\* Where each thread can be, and where it goes on from a procedure.
Control ==
  /\ pc \in [Threads -> Labels] /\ ret \in [Threads -> Labels \cup {"none"}]
  /\ pc[M] \in ProgramLabels \cup ParkedLabels \cup WaitLabels \cup Called
  /\ pc[C] \in TraceLabels \cup AbandonLabels \cup ServeLabels \cup Called
  /\ pc[X] \in ExitLabels \cup {"waitIdle", "waitEvacuated"} \cup ServeLabels \cup Called
  /\ pc[M] \in Called \cup WaitLabels => ret[M] \in {"run", "allocated", "start", "finish"}
  /\ pc[C] \in Called => ret[C] = "release"
  /\ pc[X] \in Called => \/ ret[X] = "release"
                         \/ ret[X] = "quiesce" /\ pc[X] \in SecondPause /\ pc[M] = "returned"
  /\ pc[X] \in {"waitIdle", "waitEvacuated"} => ret[X] \in {"quiesce", "exited"}
  /\ \A t \in {C, X} : ret[t] = "release" => pc[t] \in Called

\* The thread that has claimed the parked program.
Serving(t) == pc[t] = "release" \/ ret[t] = "release"

\* The safe-region handshake.
Handshake ==
  /\ parked = "RUNNING" <=> pc[M] \notin ParkedLabels
  /\ parked = "SCANNING" <=> Serving(C) \/ Serving(X)
  /\ ~(Serving(C) /\ Serving(X))

-----------------------------------------------------------------------------
\* The exiting thread has raised the abandonment, and does nothing more.
HasAbandoned == pc[X] = "exited" \/ (pc[X] = "waitIdle" /\ ret[X] = "exited")

\* The trace was abandoned under a program that was left running and is in a
\* pause: the pause goes on with nobody to hand its phase to.
PauseOverrun ==
  phase = "Idle" /\ pc[C] = "top" /\ ~flag.abandon /\ HasAbandoned

\* The phase each place goes with.
PhaseFits ==
  /\ pc[C] \in {"mark", "request", "publishMarkDone"} => phase = "Marking"
  /\ pc[C] \in {"copy", "request2", "publishEvacDone"} => phase = "Evacuating"
  /\ pc[C] = "sweep" => phase = "Sweeping"
  /\ pc[C] = "after" => Ready
  /\ pc[C] = "idle" => phase = "Sweeping" \/ (~flag.abandon /\ HasAbandoned)
  /\ pc[C] \in AbandonLabels => flag.abandon
  /\ flag.abandon => HasAbandoned
  /\ pc[M] \in {"begin", "beginPublish"} => phase = "Idle"
  /\ \A t \in Threads :
       /\ pc[t] \in FirstPause => phase = "MarkDone" \/ (t = M /\ PauseOverrun)
       /\ pc[t] \in SecondPause => phase = "EvacDone" \/ (t = M /\ PauseOverrun)

\* The request goes up before its phase, and down before the phase that ends
\* the pause.
RequestFits ==
  /\ RequestsMatchPauses
  /\ pc[C] \in {"publishMarkDone", "publishEvacDone"} => flag.wanted
  /\ pc[C] \in {"sweep", "lower", "idle"} => ~flag.wanted
  /\ \A t \in Threads : pc[t] \in {"publish", "publish2"} => ~flag.wanted

-----------------------------------------------------------------------------
\* Nothing is left of a trace.
Clean ==
  /\ ~flag.tracing /\ ~flag.evacuating
  /\ heap.chosen = {} /\ heap.cset = {} /\ heap.moved = {} /\ heap.early = {} /\ ~heap.satb

\* A trace marks, and has blocks to empty later.
Chosen ==
  /\ flag.tracing /\ ~flag.evacuating
  /\ heap.chosen = heap.cset /\ heap.moved = {} /\ heap.early \subseteq heap.chosen

\* Marking is over, and the load barrier is armed if there is a block to empty.
Armed ==
  /\ ~flag.tracing /\ ~heap.satb
  /\ heap.chosen = heap.cset /\ heap.early = {}
  /\ flag.evacuating <=> heap.cset # {}

\* A trace being abandoned before anything has moved.
Dropped ==
  \/ /\ pc[C] \in {"drop", "untrace"}
     /\ flag.tracing /\ ~flag.evacuating /\ heap.chosen = {} /\ heap.moved = {} /\ heap.early = {}
     /\ pc[C] = "untrace" => heap.cset = {} /\ ~heap.satb
  \/ pc[C] \in {"clear3", "lower", "idle"} /\ Clean

PhaseHeap ==
  /\ phase = "Idle" => IF pc[M] = "beginPublish" THEN Chosen /\ ~heap.satb /\ heap.early = {} ELSE Clean
  /\ phase = "Marking" => Chosen \/ Dropped
  /\ phase = "MarkDone" /\ (\A t \in Threads : pc[t] \notin FirstPause \ {"take"}) => Chosen \/ Dropped
  /\ phase \in {"Evacuating", "EvacDone"} /\ (\A t \in Threads : pc[t] \notin SecondPause \ {"fix"})
       => Armed /\ flag.evacuating
  /\ phase = "Sweeping" => Clean

PauseHeap ==
  \A t \in Threads :
    /\ pc[t] = "arm" => Chosen /\ ~heap.satb /\ todo[t] = heap.cset
    /\ pc[t] \in {"count", "clear", "publish"} =>
         Armed /\ todo[t] = heap.cset /\ (heap.cset = {} => heap.moved = {})
    /\ pc[t] = "disarm" => /\ ~flag.tracing /\ flag.evacuating /\ ~heap.satb
                           /\ heap.chosen = {} /\ heap.moved = {} /\ heap.early = {}
    /\ pc[t] \in {"clear2", "publish2"} => Clean

\* An exit of the worker's own abandons only what has not begun to move.
ExitFits ==
  /\ flag.abandon \/ pc[X] = "abandon" => phase \in {"Marking", "MarkDone"}
  /\ pc[C] = "idle" /\ phase # "Sweeping" => phase \in {"Marking", "MarkDone"} /\ Clean
  /\ pc[C] \in {"drop", "untrace", "clear3", "lower"} => Dropped

HeapFits == LeftRunning \/ (heap.torn = {} /\ PhaseHeap /\ PauseHeap /\ ExitFits)

IInv == TypeOK /\ Control /\ Handshake /\ PhaseFits /\ RequestFits /\ HeapFits

-----------------------------------------------------------------------------
\* t goes to l, to return to r, and every other thread stays.
Steps(t, l, r) ==
  /\ pc' \in [Threads -> Labels] /\ ret' \in [Threads -> Labels \cup {"none"}]
  /\ pc'[t] = l /\ ret'[t] = r
  /\ \A u \in Threads : u # t => pc'[u] = pc[u] /\ ret'[u] = ret[u]

\* The three ways control moves, as what they do to pc and ret.
LEMMA GotoSteps ==
  ASSUME Control, NEW t \in Threads, NEW l \in Labels, Goto(t, l)
  PROVE  Steps(t, l, ret[t])
  BY DEF Control, Goto, Steps

LEMMA CallSteps ==
  ASSUME Control, NEW t \in Threads, NEW l \in Labels, NEW r \in Labels, Call(t, l, r)
  PROVE  Steps(t, l, r)
  BY DEF Control, Call, Steps

LEMMA ReturnSteps ==
  ASSUME Control, NEW t \in Threads, pc[t] \in Called \cup WaitLabels, Return(t)
  PROVE  /\ Steps(t, ret[t], "none")
         /\ ret[t] \in {"run", "allocated", "start", "finish", "release", "quiesce", "exited"}
<1>1. ret[t] \in {"run", "allocated", "start", "finish", "release", "quiesce", "exited"}
  BY DEF Control, Called, PauseLabels, WaitLabels, Threads, TraceLabels, AbandonLabels,
    ServeLabels, ExitLabels, M, C, X
<1>2. ret[t] \in Labels
  BY <1>1 DEF Labels, ProgramLabels, ServeLabels, ExitLabels
<1> QED
  BY <1>1, <1>2 DEF Control, Return, Steps

\* The handshake is what keeps two pauses apart: only the claimant of the parked
\* program pauses beside it.
LEMMA StopsTheWorld ==
  ASSUME Control, Handshake
  PROVE  PauseStopsTheWorld
  BY DEF Control, Handshake, Serving, PauseStopsTheWorld, InPause, Threads, M, C, X,
    Called, PauseLabels, FirstPause, SecondPause, ProgramLabels, ParkedLabels, WaitLabels, ServeLabels,
    TraceLabels, AbandonLabels, ExitLabels

\* The invariant holds at the start.
LEMMA InitInv == Init => IInv
<1> SUFFICES ASSUME Init PROVE IInv
  OBVIOUS
<1>1. /\ pc \in [Threads -> Labels] /\ ret \in [Threads -> Labels \cup {"none"}]
      /\ pc[M] = "run" /\ pc[C] = "top" /\ pc[X] = "before"
      /\ \A t \in Threads : ret[t] = "none"
  BY DEF Init, Threads, M, C, X, Labels, ProgramLabels, ParkedLabels, WaitLabels, ServeLabels,
    Called, PauseLabels, TraceLabels, AbandonLabels, ExitLabels
<1>2. TypeOK
  <2>1. pins \in BasePins .. BasePins + 1
    BY TracePhasesAssumption DEF Init, BasePins
  <2>2. flag \in [tracing : BOOLEAN, abandon : BOOLEAN, wanted : BOOLEAN, evacuating : BOOLEAN]
    BY DEF Init
  <2>3. heap \in [chosen : SUBSET Blocks, cset : SUBSET Blocks, moved : SUBSET Blocks,
               early : SUBSET Blocks, torn : SUBSET Blocks, spoilt : SUBSET Blocks,
               satb : BOOLEAN]
    BY DEF Init
  <2> QED
    BY <2>1, <2>2, <2>3 DEF Init, TypeOK, Phases
<1>3. Control /\ Handshake
  BY <1>1 DEF Init, Control, Handshake, Serving, ProgramLabels, ParkedLabels, WaitLabels,
    ServeLabels, Called, PauseLabels, TraceLabels, AbandonLabels, ExitLabels, Threads, M, C, X
<1>4. PhaseFits /\ RequestFits
  BY <1>1 DEF Init, PhaseFits, RequestFits, RequestsMatchPauses, PauseOwnsItsRequest,
    NoStaleRequest, PausePhase, HasAbandoned, FirstPause, SecondPause, AbandonLabels, Threads,
    M, C, X
<1>5. HeapFits
  BY <1>1 DEF Init, HeapFits, LeftRunning, PhaseHeap, PauseHeap, ExitFits, Clean, Threads, M, C,
    X
<1> QED
  BY <1>2, <1>3, <1>4, <1>5 DEF IInv

\* What the collector copies, it copies out of a chosen block.
LEMMA CopyBlockMoves ==
  ASSUME TypeOK, CopyBlock
  PROVE  /\ pc[C] = "copy" /\ todo' \in [Threads -> SUBSET Blocks]
         /\ UNCHANGED <<phase, flag, parked, pins, pc, ret, copied, asleep>>
         /\ \E S : S \subseteq heap.chosen /\ heap' = [heap EXCEPT !.moved = @ \cup S]
<1>1. PICK b \in todo[C] :
        /\ todo' = [todo EXCEPT ![C] = @ \ {b}]
        /\ \E S \in SUBSET ({b} \cap heap.chosen) : heap' = [heap EXCEPT !.moved = @ \cup S]
  BY DEF CopyBlock
<1>2. todo' \in [Threads -> SUBSET Blocks]
  BY <1>1 DEF TypeOK
<1>3. PICK S \in SUBSET ({b} \cap heap.chosen) : heap' = [heap EXCEPT !.moved = @ \cup S]
  BY <1>1
<1>4. S \subseteq heap.chosen
  OBVIOUS
<1> QED
  BY <1>2, <1>3, <1>4 DEF CopyBlock, At, control

\* The steps of a pause, by whichever thread runs it.
LEMMA PauseInv ==
  ASSUME IInv, NEW t \in Threads, Pause(t)
  PROVE  IInv'
<1> USE DEF IInv, M, C, X, Threads
<1>0. /\ \A u, v \in Threads : pc[u] \in PauseLabels /\ pc[v] \in PauseLabels => u = v
      /\ \A u \in {C, X} : pc[u] \in PauseLabels =>
           pc[M] \in ParkedLabels \/ (u = X /\ pc[M] = "returned")
  BY StopsTheWorld DEF PauseStopsTheWorld, InPause, ParkedLabels
<1>1. CASE Safepoint(t)
  <2>1. /\ pc[t] = "safepoint"
        /\ UNCHANGED <<phase, flag, parked, pins, heap, todo, copied, asleep>>
        /\ \/ phase = "MarkDone" /\ Steps(t, "take", ret[t])
           \/ phase = "EvacDone" /\ Steps(t, "fix", ret[t])
           \/ Steps(t, ret[t], "none")
    BY <1>1, GotoSteps, ReturnSteps DEF At, Safepoint, local, Labels, Called, PauseLabels,
      TypeOK
  <2>2. TypeOK'
    BY <2>1 DEF TypeOK
  <2>3. Control' /\ Handshake'
    BY <2>1 DEF Control, Handshake, Serving, Steps, Called, PauseLabels, FirstPause,
      SecondPause, ProgramLabels, ParkedLabels, WaitLabels, ServeLabels, TraceLabels,
      AbandonLabels, ExitLabels
  <2>4. PhaseFits'
    BY <1>0, <2>1 DEF TypeOK, Control, PhaseFits, PauseOverrun, HasAbandoned, Ready, Steps,
      Called, PauseLabels, FirstPause, SecondPause, AbandonLabels
  <2>5. RequestFits'
    BY <1>0, <2>1 DEF TypeOK, Control, PhaseFits, PauseOverrun, RequestFits,
      RequestsMatchPauses, PauseOwnsItsRequest, NoStaleRequest, PausePhase, Steps, Called,
      PauseLabels, FirstPause, SecondPause, ProgramLabels, ParkedLabels, WaitLabels,
      ServeLabels, TraceLabels, AbandonLabels, ExitLabels
  <2>6. HeapFits'
    <3>1. LeftRunning => LeftRunning'
      <4>1. pc[X] = "before" \/ (pc'[X] # "before" /\ (pc[M] # "returned" => pc'[M] # "returned"))
        BY <2>1 DEF Control, Steps, Called
      <4> QED
        BY <4>1 DEF LeftRunning
    <3>2. CASE heap.torn = {} /\ PhaseHeap /\ PauseHeap /\ ExitFits
      <4>1. /\ pc'[t] \in {"take", "fix", "run", "allocated", "start", "finish", "release", "quiesce"}
            /\ \A u \in Threads : u # t => pc'[u] = pc[u]
        BY <2>1 DEF Control, Steps, Called
      <4>2. heap'.torn = {} /\ PhaseHeap'
        BY <2>1, <3>2, <4>1 DEF PhaseHeap, Clean, Chosen, Armed, Dropped, FirstPause, SecondPause
      <4>3. PauseHeap'
        BY <2>1, <3>2, <4>1 DEF PauseHeap, Clean, Chosen, Armed
      <4>4. ExitFits'
        BY <2>1, <3>2, <4>1 DEF ExitFits, Clean, Dropped
      <4> QED
        BY <4>2, <4>3, <4>4 DEF HeapFits
    <3> QED
      BY <3>1, <3>2 DEF IInv, HeapFits
  <2> QED
    BY <2>2, <2>3, <2>4, <2>5, <2>6
<1>2. CASE TakeWork(t)
  <2>1. /\ pc[t] = "take" /\ Steps(t, "arm", ret[t])
        /\ todo' \in [Threads -> SUBSET Blocks] /\ todo'[t] = heap.cset
        /\ heap' = [heap EXCEPT !.satb = FALSE]
        /\ UNCHANGED <<phase, flag, parked, pins, copied, asleep>>
    BY <1>2, GotoSteps DEF At, TakeWork, local, Labels, Called, PauseLabels, TypeOK
  <2>2. TypeOK'
    BY <2>1 DEF TypeOK
  <2>3. Control' /\ Handshake'
    BY <2>1 DEF Control, Handshake, Serving, Steps, Called, PauseLabels, FirstPause,
      SecondPause, ProgramLabels, ParkedLabels, WaitLabels, ServeLabels, TraceLabels,
      AbandonLabels, ExitLabels
  <2>4. PhaseFits'
    BY <2>1 DEF PhaseFits, PauseOverrun, HasAbandoned, Ready, Steps, FirstPause,
      SecondPause, AbandonLabels
  <2>5. RequestFits'
    BY <2>1 DEF RequestFits, RequestsMatchPauses, PauseOwnsItsRequest, NoStaleRequest,
      PausePhase, Steps
  <2>6. HeapFits'
    <3>1. LeftRunning => LeftRunning'
      BY <2>1 DEF LeftRunning, Steps
    <3>2. CASE ~LeftRunning' /\ heap.torn = {} /\ PhaseHeap /\ PauseHeap /\ ExitFits
      <4>1. /\ heap'.chosen = heap.chosen /\ heap'.cset = heap.cset
            /\ heap'.moved = heap.moved /\ heap'.torn = heap.torn /\ ~heap'.satb
        BY <2>1 DEF TypeOK
      <4>2. \A u \in Threads : u # t => pc[u] \notin PauseLabels
        BY <1>0, <2>1 DEF PauseLabels
      <4>3. phase = "MarkDone" /\ pc[C] \notin AbandonLabels \cup {"idle"}
        <5>1. pc[X] = "before" \/ pc[M] = "returned"
          BY <2>1, <3>2 DEF LeftRunning, Steps
        <5> QED
          BY <1>0, <2>1, <3>2, <5>1 DEF PhaseFits, PauseOverrun, HasAbandoned, LeftRunning, Control,
            Handshake, FirstPause, PauseLabels, ParkedLabels, AbandonLabels
      <4>4. Chosen
        BY <1>0, <2>1, <3>2, <4>3 DEF PhaseHeap, Dropped, FirstPause, PauseLabels, AbandonLabels
      <4>5. Chosen' /\ todo'[t] = heap'.cset
        BY <2>1, <4>1, <4>4 DEF Chosen
      <4>6. PhaseHeap'
        BY <2>1, <4>3, <4>5 DEF PhaseHeap
      <4>7. PauseHeap'
        BY <2>1, <4>1, <4>2, <4>5 DEF PauseHeap, Steps, PauseLabels
      <4>8. ExitFits'
        BY <2>1, <3>2, <4>3 DEF ExitFits, Steps, AbandonLabels
      <4> QED
        BY <3>2, <4>1, <4>6, <4>7, <4>8 DEF HeapFits
    <3> QED
      BY <3>1, <3>2 DEF IInv, HeapFits
  <2> QED
    BY <2>2, <2>3, <2>4, <2>5, <2>6
<1>3. CASE StopTracingAndArm(t)
  <2>1. /\ pc[t] = "arm" /\ Steps(t, "count", ret[t])
        /\ flag' = [flag EXCEPT !.tracing = FALSE, !.evacuating = @ \/ todo[t] # {}]
        /\ heap' = [heap EXCEPT !.moved = @ \cup heap.early, !.early = {}]
        /\ UNCHANGED <<phase, parked, pins, todo, copied, asleep>>
    BY <1>3, GotoSteps DEF At, StopTracingAndArm, local, Labels, Called, PauseLabels, TypeOK
  <2>2. TypeOK'
    BY <2>1 DEF TypeOK
  <2>3. Control' /\ Handshake'
    BY <2>1 DEF Control, Handshake, Serving, Steps, Called, PauseLabels, FirstPause,
      SecondPause, ProgramLabels, ParkedLabels, WaitLabels, ServeLabels, TraceLabels,
      AbandonLabels, ExitLabels
  <2>4. PhaseFits'
    BY <2>1 DEF PhaseFits, PauseOverrun, HasAbandoned, Ready, Steps, FirstPause,
      SecondPause, AbandonLabels
  <2>5. RequestFits'
    BY <2>1 DEF RequestFits, RequestsMatchPauses, PauseOwnsItsRequest, NoStaleRequest,
      PausePhase, Steps
  <2>6. HeapFits'
    <3>1. LeftRunning => LeftRunning'
      BY <2>1 DEF LeftRunning, Steps
    <3>2. CASE ~LeftRunning' /\ heap.torn = {} /\ PhaseHeap /\ PauseHeap /\ ExitFits
      <4>1. Chosen /\ ~heap.satb /\ todo[t] = heap.cset
        BY <2>1, <3>2 DEF PauseHeap
      <4>2. \A u \in Threads : u # t => pc[u] \notin PauseLabels
        BY <1>0, <2>1 DEF PauseLabels
      <4>3. phase = "MarkDone" /\ pc[C] \notin AbandonLabels \cup {"idle"}
        <5>1. pc[X] = "before" \/ pc[M] = "returned"
          BY <2>1, <3>2 DEF LeftRunning, Steps
        <5> QED
          BY <1>0, <2>1, <3>2, <5>1 DEF PhaseFits, PauseOverrun, HasAbandoned, LeftRunning, Control,
            Handshake, FirstPause, PauseLabels, ParkedLabels, AbandonLabels
      <4>4. /\ Armed' /\ (heap'.cset = {} => heap'.moved = {}) /\ todo'[t] = heap'.cset
            /\ flag'.abandon = flag.abandon
        <5>1. /\ heap'.chosen = heap.chosen /\ heap'.cset = heap.cset /\ heap'.early = {}
              /\ heap'.moved = heap.moved \cup heap.early /\ heap'.satb = heap.satb
          BY <2>1 DEF TypeOK
        <5>2. /\ flag'.tracing = FALSE /\ flag'.abandon = flag.abandon
              /\ flag'.evacuating <=> (flag.evacuating \/ todo[t] # {})
          BY <2>1 DEF TypeOK
        <5> QED
          BY <2>1, <4>1, <5>1, <5>2 DEF Armed, Chosen
      <4>5. PhaseHeap'
        BY <2>1, <4>3 DEF PhaseHeap, Steps, FirstPause
      <4>6. PauseHeap'
        BY <2>1, <4>2, <4>4 DEF PauseHeap, Steps, PauseLabels
      <4>7. ExitFits'
        BY <2>1, <3>2, <4>3, <4>4 DEF ExitFits, Steps, AbandonLabels
      <4> QED
        BY <2>1, <3>2, <4>5, <4>6, <4>7 DEF HeapFits
    <3> QED
      BY <3>1, <3>2 DEF IInv, HeapFits
  <2> QED
    BY <2>2, <2>3, <2>4, <2>5, <2>6
<1>4. CASE CountAndMoveRoots(t)
  <2>1. /\ pc[t] = "count" /\ Steps(t, "clear", ret[t])
        /\ \E S \in SUBSET heap.chosen :
             (todo[t] = {} => S = {}) /\ heap' = [heap EXCEPT !.moved = @ \cup S]
        /\ UNCHANGED <<phase, flag, parked, pins, todo, copied, asleep>>
    BY <1>4, GotoSteps DEF At, CountAndMoveRoots, local, Labels, Called, PauseLabels, TypeOK
  <2>2. TypeOK'
    BY <2>1 DEF TypeOK
  <2>3. Control' /\ Handshake'
    BY <2>1 DEF Control, Handshake, Serving, Steps, Called, PauseLabels, FirstPause,
      SecondPause, ProgramLabels, ParkedLabels, WaitLabels, ServeLabels, TraceLabels,
      AbandonLabels, ExitLabels
  <2>4. PhaseFits'
    BY <2>1 DEF PhaseFits, PauseOverrun, HasAbandoned, Ready, Steps, FirstPause,
      SecondPause, AbandonLabels
  <2>5. RequestFits'
    BY <2>1 DEF RequestFits, RequestsMatchPauses, PauseOwnsItsRequest, NoStaleRequest,
      PausePhase, Steps
  <2>6. HeapFits'
    BY <1>0, <2>1 DEF TypeOK, PhaseFits, PauseOverrun, HeapFits, LeftRunning, PhaseHeap,
      PauseHeap, ExitFits, Clean, Chosen, Armed, Dropped, Steps, PauseLabels, FirstPause,
      SecondPause
  <2> QED
    BY <2>2, <2>3, <2>4, <2>5, <2>6
<1>5. CASE ClearPoll(t, "clear", "publish")
  <2>1. /\ pc[t] = "clear" /\ Steps(t, "publish", ret[t])
        /\ flag' = [flag EXCEPT !.wanted = FALSE]
        /\ UNCHANGED <<phase, parked, pins, heap, todo, copied, asleep>>
    BY <1>5, GotoSteps DEF At, ClearPoll, local, Labels, Called, PauseLabels, TypeOK
  <2>2. TypeOK'
    BY <2>1 DEF TypeOK
  <2>3. Control' /\ Handshake'
    BY <2>1 DEF Control, Handshake, Serving, Steps, Called, PauseLabels, FirstPause,
      SecondPause, ProgramLabels, ParkedLabels, WaitLabels, ServeLabels, TraceLabels,
      AbandonLabels, ExitLabels
  <2>4. PhaseFits'
    BY <2>1 DEF PhaseFits, PauseOverrun, HasAbandoned, Ready, Steps, FirstPause,
      SecondPause, AbandonLabels
  <2>5. RequestFits'
    BY <2>1 DEF TypeOK, PhaseFits, PauseOverrun, RequestFits, RequestsMatchPauses,
      PauseOwnsItsRequest, NoStaleRequest, PausePhase, Steps, FirstPause, SecondPause
  <2>6. HeapFits'
    <3>1. LeftRunning => LeftRunning'
      BY <2>1 DEF LeftRunning, Steps
    <3>2. CASE heap.torn = {} /\ PhaseHeap /\ PauseHeap /\ ExitFits
      <4>1. heap'.torn = {} /\ PhaseHeap'
        BY <2>1, <3>2 DEF PhaseHeap, Clean, Chosen, Armed, Dropped, Steps, FirstPause, SecondPause
      <4>2. PauseHeap'
        BY <2>1, <3>2 DEF PauseHeap, Clean, Chosen, Armed, Steps, FirstPause, SecondPause
      <4>3. ExitFits'
        BY <2>1, <3>2 DEF ExitFits, Clean, Chosen, Armed, Dropped, Steps
      <4> QED
        BY <4>1, <4>2, <4>3 DEF HeapFits
    <3> QED
      BY <3>1, <3>2 DEF IInv, HeapFits
  <2> QED
    BY <2>2, <2>3, <2>4, <2>5, <2>6
<1>6. CASE PublishMarked(t)
  <2>1. /\ pc[t] = "publish" /\ Steps(t, ret[t], "none")
        /\ phase' = IF todo[t] = {} THEN "Sweeping" ELSE "Evacuating"
        /\ asleep' \subseteq asleep /\ todo' \in [Threads -> SUBSET Blocks]
        /\ UNCHANGED <<flag, parked, pins, heap, copied>>
    BY <1>6, ReturnSteps DEF At, PublishMarked, SetPhase, WakeChanged, Called, PauseLabels,
      TypeOK
  <2>2. TypeOK'
    BY <2>1 DEF TypeOK, Phases
  <2>3. Control' /\ Handshake'
    BY <2>1 DEF Control, Handshake, Serving, Steps, Called, PauseLabels, FirstPause,
      SecondPause, ProgramLabels, ParkedLabels, WaitLabels, ServeLabels, TraceLabels,
      AbandonLabels, ExitLabels
  <2>4. PhaseFits'
    BY <1>0, <2>1 DEF TypeOK, Control, PhaseFits, PauseOverrun, HasAbandoned, Ready, Steps,
      Called, PauseLabels, FirstPause, SecondPause, AbandonLabels
  <2>5. RequestFits'
    BY <1>0, <2>1 DEF TypeOK, Control, PhaseFits, PauseOverrun, RequestFits,
      RequestsMatchPauses, PauseOwnsItsRequest, NoStaleRequest, PausePhase, Steps, Called,
      PauseLabels, FirstPause, SecondPause, ProgramLabels, ParkedLabels, WaitLabels,
      ServeLabels, TraceLabels, AbandonLabels, ExitLabels
  <2>6. ASSUME ~LeftRunning'
        PROVE  heap'.torn = {} /\ PhaseHeap' /\ PauseHeap' /\ ExitFits'
    <3>1. heap.torn = {} /\ PhaseHeap /\ PauseHeap /\ ExitFits
      BY <2>1, <2>6 DEF LeftRunning, HeapFits, Steps, Control, Called, PauseLabels, FirstPause,
        SecondPause, ProgramLabels, ParkedLabels, WaitLabels, ServeLabels, TraceLabels,
        AbandonLabels, ExitLabels
    <3>2. heap'.torn = {} /\ PhaseHeap'
      BY <2>1, <2>6, <3>1 DEF PhaseHeap, PauseHeap, ExitFits, Clean, Chosen, Armed,
        Dropped
    <3>3. PauseHeap'
      BY <1>0, <2>1, <2>6, <3>1 DEF TypeOK, Control, Handshake, PhaseFits, PauseOverrun,
        HasAbandoned, LeftRunning, PhaseHeap, PauseHeap, ExitFits, Clean, Chosen, Armed,
        Dropped, Steps, Called, PauseLabels, FirstPause, SecondPause, ProgramLabels,
        ParkedLabels, WaitLabels, ServeLabels, TraceLabels, AbandonLabels, ExitLabels
    <3>4. ~HasAbandoned /\ pc[X] # "abandon"
      BY <1>0, <2>1, <2>6 DEF HasAbandoned, LeftRunning, Control, Steps, Called, PauseLabels,
        ParkedLabels, WaitLabels, FirstPause, SecondPause
    <3>5. ExitFits'
      BY <2>1, <3>4 DEF ExitFits, PhaseFits, PauseOverrun, HasAbandoned, Control, Steps, Called,
        PauseLabels, FirstPause, AbandonLabels
    <3> QED
      BY <3>2, <3>3, <3>5
  <2> QED
    BY <2>2, <2>3, <2>4, <2>5, <2>6 DEF HeapFits
<1>7. CASE FixAndRelease(t)
  <2>1. /\ pc[t] = "fix" /\ Steps(t, "disarm", ret[t])
        /\ heap' = [heap EXCEPT !.chosen = {}, !.moved = {}]
        /\ UNCHANGED <<phase, flag, parked, pins, todo, copied, asleep>>
    BY <1>7, GotoSteps DEF At, FixAndRelease, local, Labels, Called, PauseLabels, TypeOK
  <2>2. TypeOK'
    BY <2>1 DEF TypeOK
  <2>3. Control' /\ Handshake'
    BY <2>1 DEF Control, Handshake, Serving, Steps, Called, PauseLabels, FirstPause,
      SecondPause, ProgramLabels, ParkedLabels, WaitLabels, ServeLabels, TraceLabels,
      AbandonLabels, ExitLabels
  <2>4. PhaseFits'
    BY <2>1 DEF PhaseFits, PauseOverrun, HasAbandoned, Ready, Steps, FirstPause,
      SecondPause, AbandonLabels
  <2>5. RequestFits'
    BY <2>1 DEF RequestFits, RequestsMatchPauses, PauseOwnsItsRequest, NoStaleRequest,
      PausePhase, Steps
  <2>6. HeapFits'
    BY <1>0, <2>1 DEF TypeOK, Control, Handshake, PhaseFits, PauseOverrun, HasAbandoned,
      HeapFits, LeftRunning, PhaseHeap, PauseHeap, ExitFits, Clean, Chosen, Armed, Dropped,
      Steps, Called, PauseLabels, FirstPause, SecondPause, ProgramLabels, ParkedLabels,
      WaitLabels, ServeLabels, TraceLabels, AbandonLabels, ExitLabels
  <2> QED
    BY <2>2, <2>3, <2>4, <2>5, <2>6
<1>8. CASE Disarm(t)
  <2>1. /\ pc[t] = "disarm" /\ Steps(t, "clear2", ret[t])
        /\ flag' = [flag EXCEPT !.evacuating = FALSE] /\ heap' = [heap EXCEPT !.cset = {}]
        /\ UNCHANGED <<phase, parked, pins, todo, copied, asleep>>
    BY <1>8, GotoSteps DEF At, Disarm, local, Labels, Called, PauseLabels, TypeOK
  <2>2. TypeOK'
    BY <2>1 DEF TypeOK
  <2>3. Control' /\ Handshake'
    BY <2>1 DEF Control, Handshake, Serving, Steps, Called, PauseLabels, FirstPause,
      SecondPause, ProgramLabels, ParkedLabels, WaitLabels, ServeLabels, TraceLabels,
      AbandonLabels, ExitLabels
  <2>4. PhaseFits'
    BY <2>1 DEF PhaseFits, PauseOverrun, HasAbandoned, Ready, Steps, FirstPause,
      SecondPause, AbandonLabels
  <2>5. RequestFits'
    BY <2>1 DEF RequestFits, RequestsMatchPauses, PauseOwnsItsRequest, NoStaleRequest,
      PausePhase, Steps
  <2>6. HeapFits'
    BY <1>0, <2>1 DEF TypeOK, PhaseFits, PauseOverrun, HeapFits, LeftRunning, PhaseHeap,
      PauseHeap, ExitFits, Clean, Chosen, Armed, Dropped, Steps, PauseLabels, FirstPause,
      SecondPause
  <2> QED
    BY <2>2, <2>3, <2>4, <2>5, <2>6
<1>9. CASE ClearPoll(t, "clear2", "publish2")
  <2>1. /\ pc[t] = "clear2" /\ Steps(t, "publish2", ret[t])
        /\ flag' = [flag EXCEPT !.wanted = FALSE]
        /\ UNCHANGED <<phase, parked, pins, heap, todo, copied, asleep>>
    BY <1>9, GotoSteps DEF At, ClearPoll, local, Labels, Called, PauseLabels, TypeOK
  <2>2. TypeOK'
    BY <2>1 DEF TypeOK
  <2>3. Control' /\ Handshake'
    BY <2>1 DEF Control, Handshake, Serving, Steps, Called, PauseLabels, FirstPause,
      SecondPause, ProgramLabels, ParkedLabels, WaitLabels, ServeLabels, TraceLabels,
      AbandonLabels, ExitLabels
  <2>4. PhaseFits'
    BY <2>1 DEF PhaseFits, PauseOverrun, HasAbandoned, Ready, Steps, FirstPause,
      SecondPause, AbandonLabels
  <2>5. RequestFits'
    BY <2>1 DEF TypeOK, PhaseFits, PauseOverrun, RequestFits, RequestsMatchPauses,
      PauseOwnsItsRequest, NoStaleRequest, PausePhase, Steps, FirstPause, SecondPause
  <2>6. HeapFits'
    <3>1. LeftRunning => LeftRunning'
      BY <2>1 DEF LeftRunning, Steps
    <3>2. CASE heap.torn = {} /\ PhaseHeap /\ PauseHeap /\ ExitFits
      <4>1. heap'.torn = {} /\ PhaseHeap'
        BY <2>1, <3>2 DEF PhaseHeap, Clean, Chosen, Armed, Dropped, Steps, FirstPause, SecondPause
      <4>2. PauseHeap'
        BY <2>1, <3>2 DEF PauseHeap, Clean, Chosen, Armed, Steps, FirstPause, SecondPause
      <4>3. ExitFits'
        BY <2>1, <3>2 DEF ExitFits, Clean, Chosen, Armed, Dropped, Steps
      <4> QED
        BY <4>1, <4>2, <4>3 DEF HeapFits
    <3> QED
      BY <3>1, <3>2 DEF IInv, HeapFits
  <2> QED
    BY <2>2, <2>3, <2>4, <2>5, <2>6
<1>10. CASE PublishEvacuated(t)
  <2>1. /\ pc[t] = "publish2" /\ Steps(t, ret[t], "none")
        /\ phase' = "Sweeping" /\ asleep' \subseteq asleep
        /\ UNCHANGED <<flag, parked, pins, heap, todo, copied>>
    BY <1>10, ReturnSteps DEF At, PublishEvacuated, SetPhase, WakeChanged, local, Called,
      PauseLabels, TypeOK
  <2>2. TypeOK'
    BY <2>1 DEF TypeOK, Phases
  <2>3. Control' /\ Handshake'
    BY <2>1 DEF Control, Handshake, Serving, Steps, Called, PauseLabels, FirstPause,
      SecondPause, ProgramLabels, ParkedLabels, WaitLabels, ServeLabels, TraceLabels,
      AbandonLabels, ExitLabels
  <2>4. PhaseFits'
    BY <1>0, <2>1 DEF TypeOK, Control, PhaseFits, PauseOverrun, HasAbandoned, Ready, Steps,
      Called, PauseLabels, FirstPause, SecondPause, AbandonLabels
  <2>5. RequestFits'
    BY <1>0, <2>1 DEF TypeOK, Control, PhaseFits, PauseOverrun, RequestFits,
      RequestsMatchPauses, PauseOwnsItsRequest, NoStaleRequest, PausePhase, Steps, Called,
      PauseLabels, FirstPause, SecondPause, ProgramLabels, ParkedLabels, WaitLabels,
      ServeLabels, TraceLabels, AbandonLabels, ExitLabels
  <2>6. HeapFits'
    BY <1>0, <2>1 DEF TypeOK, Control, Handshake, PhaseFits, PauseOverrun, HasAbandoned,
      HeapFits, LeftRunning, PhaseHeap, PauseHeap, ExitFits, Clean, Chosen, Armed, Dropped,
      Steps, Called, PauseLabels, FirstPause, SecondPause, ProgramLabels, ParkedLabels,
      WaitLabels, ServeLabels, TraceLabels, AbandonLabels, ExitLabels
  <2> QED
    BY <2>2, <2>3, <2>4, <2>5, <2>6
<1> QED
  BY <1>1, <1>2, <1>3, <1>4, <1>5, <1>6, <1>7, <1>8, <1>9, <1>10 DEF Pause

\* The program's own steps: allocation, polls, barriers, exit.
LEMMA ProgramInv ==
  ASSUME IInv, Poll \/ Allocate \/ AfterAllocation \/ Pin \/ Unpin \/ Overwrite \/ LoadBarrier
  PROVE  IInv'
<1> USE DEF IInv, M, C, X, Threads
<1>0. /\ \A u, v \in Threads : pc[u] \in PauseLabels /\ pc[v] \in PauseLabels => u = v
      /\ \A u \in {C, X} : pc[u] \in PauseLabels =>
           pc[M] \in ParkedLabels \/ (u = X /\ pc[M] = "returned")
  BY StopsTheWorld DEF PauseStopsTheWorld, InPause, ParkedLabels
<1>1. CASE Poll \/ Allocate
  <2>1. /\ pc[M] = "run" /\ UNCHANGED <<phase, flag, parked, pins, heap, todo, copied, asleep>>
        /\ \E r \in {"run", "allocated"} : Steps(M, "safepoint", r)
    BY <1>1, CallSteps DEF At, Poll, Allocate, Generated, local, Labels, ProgramLabels,
      Called, PauseLabels, TypeOK
  <2>2. TypeOK'
    BY <2>1 DEF TypeOK
  <2>3. Control' /\ Handshake'
    BY <2>1 DEF Control, Handshake, Serving, Steps, Called, PauseLabels, FirstPause,
      SecondPause, ProgramLabels, ParkedLabels, WaitLabels, ServeLabels, TraceLabels,
      AbandonLabels, ExitLabels
  <2>4. PhaseFits'
    BY <2>1 DEF PhaseFits, PauseOverrun, HasAbandoned, Ready, Steps, FirstPause,
      SecondPause, AbandonLabels
  <2>5. RequestFits'
    BY <2>1 DEF RequestFits, RequestsMatchPauses, PauseOwnsItsRequest, NoStaleRequest,
      PausePhase, Steps
  <2>6. HeapFits'
    <3>1. LeftRunning => LeftRunning'
      BY <2>1 DEF LeftRunning, Steps
    <3>2. CASE heap.torn = {} /\ PhaseHeap /\ PauseHeap /\ ExitFits
      <4>1. heap'.torn = {} /\ PhaseHeap'
        BY <2>1, <3>2 DEF PhaseHeap, Clean, Chosen, Armed, Dropped, Steps, FirstPause, SecondPause
      <4>2. PauseHeap'
        BY <2>1, <3>2 DEF PauseHeap, Clean, Chosen, Armed, Steps, FirstPause, SecondPause
      <4>3. ExitFits'
        BY <2>1, <3>2 DEF ExitFits, Clean, Chosen, Armed, Dropped, Steps
      <4> QED
        BY <4>1, <4>2, <4>3 DEF HeapFits
    <3> QED
      BY <3>1, <3>2 DEF IInv, HeapFits
  <2> QED
    BY <2>2, <2>3, <2>4, <2>5, <2>6
<1>2. CASE AfterAllocation
  <2>1. /\ pc[M] = "allocated"
        /\ UNCHANGED <<phase, flag, parked, pins, heap, todo, copied, asleep>>
        /\ \/ Steps(M, "run", ret[M])
           \/ phase = "Idle" /\ Steps(M, "begin", ret[M])
    BY <1>2, GotoSteps DEF At, AfterAllocation, local, Labels, ProgramLabels, TypeOK
  <2>2. TypeOK'
    BY <2>1 DEF TypeOK
  <2>3. Control' /\ Handshake'
    BY <2>1 DEF Control, Handshake, Serving, Steps, Called, PauseLabels, FirstPause,
      SecondPause, ProgramLabels, ParkedLabels, WaitLabels, ServeLabels, TraceLabels,
      AbandonLabels, ExitLabels
  <2>4. PhaseFits'
    BY <2>1 DEF PhaseFits, PauseOverrun, HasAbandoned, Ready, Steps, FirstPause,
      SecondPause, AbandonLabels
  <2>5. RequestFits'
    BY <2>1 DEF RequestFits, RequestsMatchPauses, PauseOwnsItsRequest, NoStaleRequest,
      PausePhase, Steps
  <2>6. HeapFits'
    <3>1. LeftRunning => LeftRunning'
      BY <2>1 DEF LeftRunning, Steps
    <3>2. CASE heap.torn = {} /\ PhaseHeap /\ PauseHeap /\ ExitFits
      <4>1. heap'.torn = {} /\ PhaseHeap'
        BY <2>1, <3>2 DEF PhaseHeap, Clean, Chosen, Armed, Dropped, Steps, FirstPause, SecondPause
      <4>2. PauseHeap'
        BY <2>1, <3>2 DEF PauseHeap, Clean, Chosen, Armed, Steps, FirstPause, SecondPause
      <4>3. ExitFits'
        BY <2>1, <3>2 DEF ExitFits, Clean, Chosen, Armed, Dropped, Steps
      <4> QED
        BY <4>1, <4>2, <4>3 DEF HeapFits
    <3> QED
      BY <3>1, <3>2 DEF IInv, HeapFits
  <2> QED
    BY <2>2, <2>3, <2>4, <2>5, <2>6
<1>3. CASE Pin \/ Unpin
  <2>1. /\ pins' \in BasePins .. BasePins + 1
        /\ UNCHANGED <<phase, flag, parked, heap, pc, ret, todo, copied, asleep>>
    BY <1>3, TracePhasesAssumption DEF At, TypeOK, Pin, Unpin, Generated, Decoding,
      BasePins, local, control
  <2>2. TypeOK'
    BY <2>1 DEF TypeOK
  <2>3. Control' /\ Handshake'
    BY <2>1 DEF Control, Handshake, Serving
  <2>4. PhaseFits'
    BY <2>1 DEF PhaseFits, PauseOverrun, HasAbandoned, Ready
  <2>5. RequestFits'
    BY <2>1 DEF RequestFits, RequestsMatchPauses, PauseOwnsItsRequest, NoStaleRequest,
      PausePhase
  <2>6. HeapFits'
    <3>1. LeftRunning => LeftRunning'
      BY <2>1 DEF LeftRunning, Steps
    <3>2. CASE heap.torn = {} /\ PhaseHeap /\ PauseHeap /\ ExitFits
      <4>1. heap'.torn = {} /\ PhaseHeap'
        BY <2>1, <3>2 DEF PhaseHeap, Clean, Chosen, Armed, Dropped, Steps, FirstPause, SecondPause
      <4>2. PauseHeap'
        BY <2>1, <3>2 DEF PauseHeap, Clean, Chosen, Armed, Steps, FirstPause, SecondPause
      <4>3. ExitFits'
        BY <2>1, <3>2 DEF ExitFits, Clean, Chosen, Armed, Dropped, Steps
      <4> QED
        BY <4>1, <4>2, <4>3 DEF HeapFits
    <3> QED
      BY <3>1, <3>2 DEF IInv, HeapFits
  <2> QED
    BY <2>2, <2>3, <2>4, <2>5, <2>6
<1>4. CASE Overwrite
  <2>1. /\ pc[M] = "run" /\ flag.tracing
        /\ heap' = [heap EXCEPT !.satb = TRUE]
        /\ UNCHANGED <<phase, flag, parked, pins, pc, ret, todo, copied, asleep>>
    BY <1>4, SMT DEF At, TypeOK, Overwrite, Generated, local, control
  <2>2. TypeOK'
    BY <2>1 DEF TypeOK
  <2>3. Control' /\ Handshake'
    BY <2>1 DEF Control, Handshake, Serving
  <2>4. PhaseFits'
    BY <2>1 DEF PhaseFits, PauseOverrun, HasAbandoned, Ready
  <2>5. RequestFits'
    BY <2>1 DEF RequestFits, RequestsMatchPauses, PauseOwnsItsRequest, NoStaleRequest,
      PausePhase
  <2>6. ASSUME ~LeftRunning'
        PROVE  heap'.torn = {} /\ PhaseHeap' /\ PauseHeap' /\ ExitFits'
    <3>1. heap.torn = {} /\ PhaseHeap /\ PauseHeap /\ ExitFits
      BY <2>1, <2>6 DEF LeftRunning, HeapFits
    <3>2. heap'.torn = {} /\ PhaseHeap'
      <4>1. /\ heap'.chosen = heap.chosen /\ heap'.cset = heap.cset
            /\ heap'.moved = heap.moved /\ heap'.torn = heap.torn
        BY <2>1 DEF TypeOK
      <4>2. ~flag.abandon /\ pc[C] \notin AbandonLabels
        BY <2>1, <2>6 DEF PhaseFits, HasAbandoned, LeftRunning
      <4>3. pc[C] # "idle" \/ phase = "Sweeping"
        BY <2>1, <2>6 DEF PhaseFits, HasAbandoned, LeftRunning
      <4>4. Chosen => Chosen'
        BY <2>1, <4>1 DEF Chosen
      <4>5. ~Clean /\ ~Armed /\ ~Dropped
        BY <2>1, <4>2, <4>3 DEF Clean, Armed, Dropped, AbandonLabels
      <4> QED
        BY <2>1, <3>1, <4>1, <4>4, <4>5 DEF PhaseHeap, FirstPause, SecondPause
    <3>3. PauseHeap'
      BY <1>0, <2>1, <3>1 DEF PauseHeap, Armed, Chosen, Clean, TypeOK, PauseLabels,
        ParkedLabels, FirstPause, SecondPause
    <3>4. ExitFits'
      BY <1>0, <2>1, <2>6, <3>1 DEF TypeOK, Control, Handshake, PhaseFits, PauseOverrun,
        HasAbandoned, LeftRunning, PhaseHeap, PauseHeap, ExitFits, Clean, Chosen, Armed,
        Dropped, Steps, Called, PauseLabels, FirstPause, SecondPause, ProgramLabels,
        ParkedLabels, WaitLabels, ServeLabels, TraceLabels, AbandonLabels, ExitLabels
    <3> QED
      BY <3>2, <3>3, <3>4
  <2> QED
    BY <2>2, <2>3, <2>4, <2>5, <2>6 DEF HeapFits
<1>5. CASE LoadBarrier
  <2>1. /\ pc[M] = "run"
        /\ \E b \in heap.chosen :
             \/ flag.evacuating /\ heap' = [heap EXCEPT !.moved = @ \cup {b}]
             \/ ~flag.evacuating /\ heap' = [heap EXCEPT !.early = @ \cup {b}]
        /\ UNCHANGED <<phase, flag, parked, pins, pc, ret, todo, copied, asleep>>
    <3>1. Generated
      BY <1>5 DEF LoadBarrier
    <3>2. \E b \in heap.chosen :
             \/ flag.evacuating /\ heap' = [heap EXCEPT !.moved = @ \cup {b}]
             \/ ~flag.evacuating /\ heap' = [heap EXCEPT !.early = @ \cup {b}]
      BY <1>5 DEF LoadBarrier
    <3>3. UNCHANGED <<phase, flag, parked, pins, pc, ret, todo, copied, asleep>>
      BY <1>5 DEF LoadBarrier, local, control
    <3> QED
      BY <3>1, <3>2, <3>3 DEF At, Generated
  <2>2. TypeOK'
    <3>1. PICK b \in heap.chosen :
             \/ flag.evacuating /\ heap' = [heap EXCEPT !.moved = @ \cup {b}]
             \/ ~flag.evacuating /\ heap' = [heap EXCEPT !.early = @ \cup {b}]
      BY <2>1
    <3> QED
      BY <2>1, <3>1 DEF TypeOK
  <2>3. Control' /\ Handshake'
    BY <2>1 DEF Control, Handshake, Serving
  <2>4. PhaseFits'
    BY <2>1 DEF PhaseFits, PauseOverrun, HasAbandoned, Ready
  <2>5. RequestFits'
    BY <2>1 DEF RequestFits, RequestsMatchPauses, PauseOwnsItsRequest, NoStaleRequest,
      PausePhase
  <2>6. ASSUME ~LeftRunning'
        PROVE  heap'.torn = {} /\ PhaseHeap' /\ PauseHeap' /\ ExitFits'
    <3>1. heap.torn = {} /\ PhaseHeap /\ PauseHeap /\ ExitFits
      BY <2>1, <2>6 DEF LeftRunning, HeapFits
    <3>5. /\ heap.chosen # {}
          /\ heap'.chosen = heap.chosen /\ heap'.cset = heap.cset /\ heap'.satb = heap.satb
          /\ heap'.torn = heap.torn
          /\ flag.evacuating => heap'.early = heap.early
          /\ ~flag.evacuating => /\ heap'.moved = heap.moved
                                 /\ heap.early \subseteq heap.chosen
                                      => heap'.early \subseteq heap.chosen
      <4>1. PICK b \in heap.chosen :
               \/ flag.evacuating /\ heap' = [heap EXCEPT !.moved = @ \cup {b}]
               \/ ~flag.evacuating /\ heap' = [heap EXCEPT !.early = @ \cup {b}]
        BY <2>1
      <4> QED
        BY <2>1, <4>1 DEF TypeOK
    <3>6. /\ Chosen => Chosen' /\ ~Dropped
          /\ Armed => Armed' /\ flag.evacuating /\ heap.cset # {}
          /\ ~Dropped /\ ~Clean
      BY <2>1, <3>5 DEF Chosen, Armed, Dropped, Clean
    <3>2. heap'.torn = {} /\ PhaseHeap'
      BY <2>1, <2>6, <3>1, <3>5, <3>6 DEF PhaseHeap
    <3>3. PauseHeap'
      BY <2>1, <3>1, <3>5, <3>6 DEF PauseHeap
    <3>4. ExitFits'
      BY <2>1, <2>6, <3>1, <3>5, <3>6 DEF ExitFits
    <3> QED
      BY <3>2, <3>3, <3>4
  <2> QED
    BY <2>2, <2>3, <2>4, <2>5, <2>6 DEF HeapFits
<1> QED
  BY <1>1, <1>2, <1>3, <1>4, <1>5

\* The program starts, finishes and waits for traces.
LEMMA TracingInv ==
  ASSUME IInv, TraceStart \/ TraceFinish \/ BeginTrace \/ PublishMarking \/ WaitPhase(M)
  PROVE  IInv'
<1> USE DEF IInv, M, C, X, Threads
<1>0. \A u, v \in Threads : pc[u] \in PauseLabels /\ pc[v] \in PauseLabels => u = v
  BY StopsTheWorld DEF PauseStopsTheWorld, InPause
<1>1. CASE TraceStart \/ TraceFinish
  <2>1. /\ pc[M] \in {"run", "start", "finish"}
        /\ UNCHANGED <<phase, flag, parked, pins, heap, todo, copied, asleep>>
        /\ \/ phase = "Idle" /\ Steps(M, "begin", ret[M])
           \/ Steps(M, "run", ret[M])
           \/ \E l \in {"safepoint", "waitIdle", "waitMarked", "waitEvacuated"},
                 r \in {"start", "finish"} : Steps(M, l, r)
    BY <1>1, GotoSteps, CallSteps DEF At, TraceStart, TraceFinish, Generated, local, Labels,
      ProgramLabels, Called, PauseLabels, WaitLabels, TypeOK
  <2>2. TypeOK'
    BY <2>1 DEF TypeOK
  <2>3. Control' /\ Handshake'
    BY <2>1 DEF Control, Handshake, Serving, Steps, Called, PauseLabels, FirstPause,
      SecondPause, ProgramLabels, ParkedLabels, WaitLabels, ServeLabels, TraceLabels,
      AbandonLabels, ExitLabels
  <2>4. PhaseFits'
    BY <2>1 DEF PhaseFits, PauseOverrun, HasAbandoned, Ready, Steps, FirstPause,
      SecondPause, AbandonLabels
  <2>5. RequestFits'
    BY <2>1 DEF RequestFits, RequestsMatchPauses, PauseOwnsItsRequest, NoStaleRequest,
      PausePhase, Steps
  <2>6. HeapFits'
    <3>1. LeftRunning => LeftRunning'
      BY <2>1 DEF LeftRunning, Steps
    <3>2. CASE heap.torn = {} /\ PhaseHeap /\ PauseHeap /\ ExitFits
      <4>1. heap'.torn = {} /\ PhaseHeap'
        BY <2>1, <3>2 DEF PhaseHeap, Clean, Chosen, Armed, Dropped, Steps, FirstPause, SecondPause
      <4>2. PauseHeap'
        BY <2>1, <3>2 DEF PauseHeap, Clean, Chosen, Armed, Steps, FirstPause, SecondPause
      <4>3. ExitFits'
        BY <2>1, <3>2 DEF ExitFits, Clean, Chosen, Armed, Dropped, Steps
      <4> QED
        BY <4>1, <4>2, <4>3 DEF HeapFits
    <3> QED
      BY <3>1, <3>2 DEF IInv, HeapFits
  <2> QED
    BY <2>2, <2>3, <2>4, <2>5, <2>6
<1>2. CASE BeginTrace
  <2>1. /\ pc[M] = "begin" /\ Steps(M, "beginPublish", ret[M])
        /\ \E S \in SUBSET Blocks : heap' = [heap EXCEPT !.chosen = S, !.cset = S]
        /\ flag' = [flag EXCEPT !.tracing = TRUE]
        /\ UNCHANGED <<phase, parked, pins, todo, copied, asleep>>
    BY <1>2, GotoSteps DEF At, BeginTrace, local, Labels, ProgramLabels, TypeOK
  <2>2. TypeOK'
    BY <2>1 DEF TypeOK
  <2>3. Control' /\ Handshake'
    BY <2>1 DEF Control, Handshake, Serving, Steps, Called, PauseLabels, FirstPause,
      SecondPause, ProgramLabels, ParkedLabels, WaitLabels, ServeLabels, TraceLabels,
      AbandonLabels, ExitLabels
  <2>4. PhaseFits'
    BY <2>1 DEF PhaseFits, PauseOverrun, HasAbandoned, Ready, Steps, FirstPause,
      SecondPause, AbandonLabels
  <2>5. RequestFits'
    BY <2>1 DEF RequestFits, RequestsMatchPauses, PauseOwnsItsRequest, NoStaleRequest,
      PausePhase, Steps
  <2>6. HeapFits'
    BY <1>0, <2>1 DEF TypeOK, Control, Handshake, PhaseFits, PauseOverrun, HasAbandoned,
      HeapFits, LeftRunning, PhaseHeap, PauseHeap, ExitFits, Clean, Chosen, Armed, Dropped,
      Steps, Called, PauseLabels, FirstPause, SecondPause, ProgramLabels, ParkedLabels,
      WaitLabels, ServeLabels, TraceLabels, AbandonLabels, ExitLabels
  <2> QED
    BY <2>2, <2>3, <2>4, <2>5, <2>6
<1>3. CASE PublishMarking
  <2>1. /\ pc[M] = "beginPublish" /\ Steps(M, "run", ret[M])
        /\ phase' = "Marking" /\ asleep' \subseteq asleep
        /\ UNCHANGED <<flag, parked, pins, heap, todo, copied>>
    BY <1>3, GotoSteps DEF At, PublishMarking, SetPhase, WakeChanged, local, Labels,
      ProgramLabels, TypeOK
  <2>2. TypeOK'
    BY <2>1 DEF TypeOK, Phases
  <2>3. Control' /\ Handshake'
    BY <2>1 DEF Control, Handshake, Serving, Steps, Called, PauseLabels, FirstPause,
      SecondPause, ProgramLabels, ParkedLabels, WaitLabels, ServeLabels, TraceLabels,
      AbandonLabels, ExitLabels
  <2>4. PhaseFits'
    BY <2>1 DEF PhaseFits, PauseOverrun, HasAbandoned, Ready, Steps, FirstPause,
      SecondPause, AbandonLabels
  <2>5. RequestFits'
    BY <2>1 DEF TypeOK, PhaseFits, PauseOverrun, RequestFits, RequestsMatchPauses,
      PauseOwnsItsRequest, NoStaleRequest, PausePhase, Steps, FirstPause, SecondPause
  <2>6. HeapFits'
    BY <1>0, <2>1 DEF TypeOK, PhaseFits, PauseOverrun, HeapFits, LeftRunning, PhaseHeap,
      PauseHeap, ExitFits, Clean, Chosen, Armed, Dropped, Steps, PauseLabels, FirstPause,
      SecondPause
  <2> QED
    BY <2>2, <2>3, <2>4, <2>5, <2>6
<1>4. CASE WaitPhase(M)
  <2>1. /\ UNCHANGED <<phase, flag, parked, pins, heap, todo, copied>> /\ asleep' \subseteq Threads
        /\ \/ UNCHANGED <<pc, ret>>
           \/ pc[M] \in WaitLabels /\ Steps(M, ret[M], "none")
    BY <1>4, ReturnSteps DEF At, WaitPhase, WaitFor, control, local, Called, WaitLabels,
      TypeOK
  <2>2. TypeOK'
    BY <2>1 DEF TypeOK
  <2>3. Control' /\ Handshake'
    BY <2>1 DEF Control, Handshake, Serving, Steps, Called, PauseLabels, FirstPause,
      SecondPause, ProgramLabels, ParkedLabels, WaitLabels, ServeLabels, TraceLabels,
      AbandonLabels, ExitLabels
  <2>4. PhaseFits'
    BY <1>0, <2>1 DEF TypeOK, Control, PhaseFits, PauseOverrun, HasAbandoned, Ready, Steps,
      Called, PauseLabels, FirstPause, SecondPause, AbandonLabels
  <2>5. RequestFits'
    BY <1>0, <2>1 DEF TypeOK, Control, PhaseFits, PauseOverrun, RequestFits,
      RequestsMatchPauses, PauseOwnsItsRequest, NoStaleRequest, PausePhase, Steps, Called,
      PauseLabels, FirstPause, SecondPause, ProgramLabels, ParkedLabels, WaitLabels,
      ServeLabels, TraceLabels, AbandonLabels, ExitLabels
  <2>6. HeapFits'
    <3>1. /\ pc'[M] = pc[M] \/ (pc[M] \in WaitLabels /\ pc'[M] \in {"run", "allocated", "start", "finish"})
          /\ \A u \in Threads : u # M => pc'[u] = pc[u]
      BY <2>1 DEF Control, Steps, WaitLabels, Called, PauseLabels, ExitLabels, ServeLabels
    <3>2. LeftRunning => LeftRunning'
      BY <3>1 DEF LeftRunning, WaitLabels
    <3>3. CASE heap.torn = {} /\ PhaseHeap /\ PauseHeap /\ ExitFits
      <4>1. heap'.torn = {} /\ PhaseHeap'
        BY <2>1, <3>1, <3>3 DEF PhaseHeap, Clean, Chosen, Armed, Dropped, FirstPause, SecondPause,
          WaitLabels
      <4>2. PauseHeap'
        BY <2>1, <3>1, <3>3 DEF PauseHeap, Clean, Chosen, Armed
      <4>3. ExitFits'
        BY <2>1, <3>1, <3>3 DEF ExitFits, Clean, Dropped
      <4> QED
        BY <4>1, <4>2, <4>3 DEF HeapFits
    <3> QED
      BY <3>2, <3>3 DEF IInv, HeapFits
  <2> QED
    BY <2>2, <2>3, <2>4, <2>5, <2>6
<1> QED
  BY <1>1, <1>2, <1>3, <1>4

\* The program parks, and comes back.
LEMMA SafeRegionInv ==
  ASSUME IInv, Park \/ TellCollector \/ SyscallReturns \/ Unpark \/ Doze
  PROVE  IInv'
<1> USE DEF IInv, M, C, X, Threads
<1>0. \A u, v \in Threads : pc[u] \in PauseLabels /\ pc[v] \in PauseLabels => u = v
  BY StopsTheWorld DEF PauseStopsTheWorld, InPause
<1>1. CASE Park
  <2>1. /\ pc[M] = "run" /\ Steps(M, "tell", ret[M])
        /\ parked' = "PARKED" /\ UNCHANGED <<phase, flag, pins, heap, todo, copied, asleep>>
    BY <1>1, GotoSteps DEF At, Park, Generated, local, Labels, ProgramLabels, ParkedLabels,
      TypeOK
  <2>2. TypeOK'
    BY <2>1 DEF TypeOK
  <2>3. Control' /\ Handshake'
    BY <2>1 DEF Control, Handshake, Serving, Steps, Called, PauseLabels, FirstPause,
      SecondPause, ProgramLabels, ParkedLabels, WaitLabels, ServeLabels, TraceLabels,
      AbandonLabels, ExitLabels
  <2>4. PhaseFits'
    BY <2>1 DEF PhaseFits, PauseOverrun, HasAbandoned, Ready, Steps, FirstPause,
      SecondPause, AbandonLabels
  <2>5. RequestFits'
    BY <2>1 DEF RequestFits, RequestsMatchPauses, PauseOwnsItsRequest, NoStaleRequest,
      PausePhase, Steps
  <2>6. HeapFits'
    <3>1. LeftRunning => LeftRunning'
      BY <2>1 DEF LeftRunning, Steps
    <3>2. CASE heap.torn = {} /\ PhaseHeap /\ PauseHeap /\ ExitFits
      <4>1. heap'.torn = {} /\ PhaseHeap'
        BY <2>1, <3>2 DEF PhaseHeap, Clean, Chosen, Armed, Dropped, Steps, FirstPause, SecondPause
      <4>2. PauseHeap'
        BY <2>1, <3>2 DEF PauseHeap, Clean, Chosen, Armed, Steps, FirstPause, SecondPause
      <4>3. ExitFits'
        BY <2>1, <3>2 DEF ExitFits, Clean, Chosen, Armed, Dropped, Steps
      <4> QED
        BY <4>1, <4>2, <4>3 DEF HeapFits
    <3> QED
      BY <3>1, <3>2 DEF IInv, HeapFits
  <2> QED
    BY <2>2, <2>3, <2>4, <2>5, <2>6
<1>2. CASE TellCollector \/ SyscallReturns
  <2>1. /\ \/ pc[M] = "tell" /\ Steps(M, "syscall", ret[M])
           \/ pc[M] = "syscall" /\ Steps(M, "unpark", ret[M])
        /\ asleep' \subseteq asleep /\ UNCHANGED <<phase, flag, parked, pins, heap, todo, copied>>
    BY <1>2, GotoSteps DEF At, TellCollector, SyscallReturns, WakeChanged, local, Labels,
      ParkedLabels, TypeOK
  <2>2. TypeOK'
    BY <2>1 DEF TypeOK
  <2>3. Control' /\ Handshake'
    BY <2>1 DEF Control, Handshake, Serving, Steps, Called, PauseLabels, FirstPause,
      SecondPause, ProgramLabels, ParkedLabels, WaitLabels, ServeLabels, TraceLabels,
      AbandonLabels, ExitLabels
  <2>4. PhaseFits'
    BY <2>1 DEF PhaseFits, PauseOverrun, HasAbandoned, Ready, Steps, FirstPause,
      SecondPause, AbandonLabels
  <2>5. RequestFits'
    BY <2>1 DEF RequestFits, RequestsMatchPauses, PauseOwnsItsRequest, NoStaleRequest,
      PausePhase, Steps
  <2>6. HeapFits'
    <3>1. LeftRunning => LeftRunning'
      BY <2>1 DEF LeftRunning, Steps
    <3>2. CASE heap.torn = {} /\ PhaseHeap /\ PauseHeap /\ ExitFits
      <4>1. heap'.torn = {} /\ PhaseHeap'
        BY <2>1, <3>2 DEF PhaseHeap, Clean, Chosen, Armed, Dropped, Steps, FirstPause, SecondPause
      <4>2. PauseHeap'
        BY <2>1, <3>2 DEF PauseHeap, Clean, Chosen, Armed, Steps, FirstPause, SecondPause
      <4>3. ExitFits'
        BY <2>1, <3>2 DEF ExitFits, Clean, Chosen, Armed, Dropped, Steps
      <4> QED
        BY <4>1, <4>2, <4>3 DEF HeapFits
    <3> QED
      BY <3>1, <3>2 DEF IInv, HeapFits
  <2> QED
    BY <2>2, <2>3, <2>4, <2>5, <2>6
<1>3. CASE Unpark
  <2>1. /\ pc[M] = "unpark" /\ UNCHANGED <<phase, flag, pins, heap, todo, copied, asleep>>
        /\ \/ parked = "PARKED" /\ parked' = "RUNNING" /\ Steps(M, "run", ret[M])
           \/ parked # "PARKED" /\ parked' = parked /\ Steps(M, "doze", ret[M])
    BY <1>3, GotoSteps DEF At, Unpark, local, Labels, ParkedLabels, ProgramLabels, TypeOK
  <2>2. TypeOK'
    BY <2>1 DEF TypeOK
  <2>3. Control' /\ Handshake'
    BY <2>1 DEF Control, Handshake, Serving, Steps, Called, PauseLabels, FirstPause,
      SecondPause, ProgramLabels, ParkedLabels, WaitLabels, ServeLabels, TraceLabels,
      AbandonLabels, ExitLabels
  <2>4. PhaseFits'
    BY <2>1 DEF PhaseFits, PauseOverrun, HasAbandoned, Ready, Steps, FirstPause,
      SecondPause, AbandonLabels
  <2>5. RequestFits'
    BY <2>1 DEF RequestFits, RequestsMatchPauses, PauseOwnsItsRequest, NoStaleRequest,
      PausePhase, Steps
  <2>6. HeapFits'
    <3>1. LeftRunning => LeftRunning'
      BY <2>1 DEF LeftRunning, Steps
    <3>2. CASE heap.torn = {} /\ PhaseHeap /\ PauseHeap /\ ExitFits
      <4>1. heap'.torn = {} /\ PhaseHeap'
        BY <2>1, <3>2 DEF PhaseHeap, Clean, Chosen, Armed, Dropped, Steps, FirstPause, SecondPause
      <4>2. PauseHeap'
        BY <2>1, <3>2 DEF PauseHeap, Clean, Chosen, Armed, Steps, FirstPause, SecondPause
      <4>3. ExitFits'
        BY <2>1, <3>2 DEF ExitFits, Clean, Chosen, Armed, Dropped, Steps
      <4> QED
        BY <4>1, <4>2, <4>3 DEF HeapFits
    <3> QED
      BY <3>1, <3>2 DEF IInv, HeapFits
  <2> QED
    BY <2>2, <2>3, <2>4, <2>5, <2>6
<1>4. CASE Doze
  <2>1. /\ pc[M] = "doze" /\ asleep' \subseteq Threads
        /\ UNCHANGED <<phase, flag, parked, pins, heap, todo, copied>>
        /\ \/ UNCHANGED <<pc, ret>>
           \/ Steps(M, "unpark", ret[M])
    BY <1>4, GotoSteps DEF At, Doze, WaitFor, control, local, Labels, ParkedLabels, TypeOK
  <2>2. TypeOK'
    BY <2>1 DEF TypeOK
  <2>3. Control' /\ Handshake'
    BY <2>1 DEF Control, Handshake, Serving, Steps, Called, PauseLabels, FirstPause,
      SecondPause, ProgramLabels, ParkedLabels, WaitLabels, ServeLabels, TraceLabels,
      AbandonLabels, ExitLabels
  <2>4. PhaseFits'
    BY <2>1 DEF PhaseFits, PauseOverrun, HasAbandoned, Ready, Steps, FirstPause,
      SecondPause, AbandonLabels
  <2>5. RequestFits'
    BY <2>1 DEF RequestFits, RequestsMatchPauses, PauseOwnsItsRequest, NoStaleRequest,
      PausePhase, Steps
  <2>6. HeapFits'
    <3>1. LeftRunning => LeftRunning'
      BY <2>1 DEF LeftRunning, Steps
    <3>2. CASE heap.torn = {} /\ PhaseHeap /\ PauseHeap /\ ExitFits
      <4>1. heap'.torn = {} /\ PhaseHeap'
        BY <2>1, <3>2 DEF PhaseHeap, Clean, Chosen, Armed, Dropped, Steps, FirstPause, SecondPause
      <4>2. PauseHeap'
        BY <2>1, <3>2 DEF PauseHeap, Clean, Chosen, Armed, Steps, FirstPause, SecondPause
      <4>3. ExitFits'
        BY <2>1, <3>2 DEF ExitFits, Clean, Chosen, Armed, Dropped, Steps
      <4> QED
        BY <4>1, <4>2, <4>3 DEF HeapFits
    <3> QED
      BY <3>1, <3>2 DEF IInv, HeapFits
  <2> QED
    BY <2>2, <2>3, <2>4, <2>5, <2>6
<1> QED
  BY <1>1, <1>2, <1>3, <1>4

\* The collector, or the exiting thread, claims the parked program and lets it go.
LEMMA ServeInv ==
  ASSUME IInv, NEW t \in {C, X}, Serve(t)
  PROVE  IInv'
<1> USE DEF IInv, M, C, X, Threads
<1>0. \A u, v \in Threads : pc[u] \in PauseLabels /\ pc[v] \in PauseLabels => u = v
  BY StopsTheWorld DEF PauseStopsTheWorld, InPause
<1>1. CASE IsServable(t)
  <2>1. /\ pc[t] = "serve" /\ UNCHANGED <<phase, flag, parked, pins, heap, todo, copied, asleep>>
        /\ Steps(t, "pinned", ret[t]) \/ (t = C /\ Steps(C, "sleep", ret[C]))
           \/ (t = X /\ Steps(X, "exited", ret[X]))
    BY <1>1, GotoSteps DEF At, IsServable, DeclinedTo, local, Labels, ServeLabels,
      TraceLabels, ExitLabels, TypeOK
  <2>2. TypeOK'
    BY <2>1 DEF TypeOK
  <2>3. Control' /\ Handshake'
    BY <2>1 DEF Control, Handshake, Serving, Steps, Called, PauseLabels, FirstPause,
      SecondPause, ProgramLabels, ParkedLabels, WaitLabels, ServeLabels, TraceLabels,
      AbandonLabels, ExitLabels
  <2>4. PhaseFits'
    BY <2>1 DEF PhaseFits, PauseOverrun, HasAbandoned, Ready, Steps, FirstPause,
      SecondPause, AbandonLabels
  <2>5. RequestFits'
    BY <2>1 DEF RequestFits, RequestsMatchPauses, PauseOwnsItsRequest, NoStaleRequest,
      PausePhase, Steps
  <2>6. HeapFits'
    <3>1. LeftRunning => LeftRunning'
      BY <2>1 DEF LeftRunning, Steps
    <3>2. CASE heap.torn = {} /\ PhaseHeap /\ PauseHeap /\ ExitFits
      <4>1. heap'.torn = {} /\ PhaseHeap'
        BY <2>1, <3>2 DEF PhaseHeap, Clean, Chosen, Armed, Dropped, Steps, FirstPause, SecondPause
      <4>2. PauseHeap'
        BY <2>1, <3>2 DEF PauseHeap, Clean, Chosen, Armed, Steps, FirstPause, SecondPause
      <4>3. ExitFits'
        BY <2>1, <3>2 DEF ExitFits, Clean, Chosen, Armed, Dropped, Steps
      <4> QED
        BY <4>1, <4>2, <4>3 DEF HeapFits
    <3> QED
      BY <3>1, <3>2 DEF IInv, HeapFits
  <2> QED
    BY <2>2, <2>3, <2>4, <2>5, <2>6
<1>2. CASE LookAtPins(t)
  <2>1. /\ pc[t] = "pinned" /\ UNCHANGED <<phase, flag, parked, pins, heap, todo, copied, asleep>>
        /\ Steps(t, "claim", ret[t]) \/ (t = C /\ Steps(C, "sleep", ret[C]))
           \/ (t = X /\ Steps(X, "exited", ret[X]))
    BY <1>2, GotoSteps DEF At, LookAtPins, DeclinedTo, local, Labels, ProgramLabels,
      ParkedLabels, WaitLabels, ServeLabels, TraceLabels, AbandonLabels, ExitLabels, Called,
      PauseLabels
  <2>2. TypeOK'
    BY <2>1 DEF TypeOK
  <2>3. Control' /\ Handshake'
    BY <2>1 DEF Control, Handshake, Serving, Steps, Called, PauseLabels, FirstPause,
      SecondPause, ProgramLabels, ParkedLabels, WaitLabels, ServeLabels, TraceLabels,
      AbandonLabels, ExitLabels
  <2>4. PhaseFits'
    BY <2>1 DEF PhaseFits, PauseOverrun, HasAbandoned, Ready, Steps, FirstPause,
      SecondPause, AbandonLabels
  <2>5. RequestFits'
    BY <2>1 DEF RequestFits, RequestsMatchPauses, PauseOwnsItsRequest, NoStaleRequest,
      PausePhase, Steps
  <2>6. HeapFits'
    <3>1. LeftRunning => LeftRunning'
      BY <2>1 DEF LeftRunning, Steps
    <3>2. CASE heap.torn = {} /\ PhaseHeap /\ PauseHeap /\ ExitFits
      <4>1. heap'.torn = {} /\ PhaseHeap'
        BY <2>1, <3>2 DEF PhaseHeap, Clean, Chosen, Armed, Dropped, Steps, FirstPause, SecondPause
      <4>2. PauseHeap'
        BY <2>1, <3>2 DEF PauseHeap, Clean, Chosen, Armed, Steps, FirstPause, SecondPause
      <4>3. ExitFits'
        BY <2>1, <3>2 DEF ExitFits, Clean, Chosen, Armed, Dropped, Steps
      <4> QED
        BY <4>1, <4>2, <4>3 DEF HeapFits
    <3> QED
      BY <3>1, <3>2 DEF IInv, HeapFits
  <2> QED
    BY <2>2, <2>3, <2>4, <2>5, <2>6
<1>3. CASE Claim(t)
  <2>1. /\ pc[t] = "claim" /\ UNCHANGED <<phase, flag, pins, heap, todo, copied, asleep>>
        /\ \/ parked = "PARKED" /\ parked' = "SCANNING" /\ Steps(t, "safepoint", "release")
           \/ parked' = parked /\ ((t = C /\ Steps(C, "sleep", ret[C]))
                                   \/ (t = X /\ Steps(X, "exited", ret[X])))
    BY <1>3, GotoSteps, CallSteps DEF At, Claim, DeclinedTo, local, Labels, ProgramLabels,
      ParkedLabels, WaitLabels, ServeLabels, TraceLabels, AbandonLabels, ExitLabels, Called,
      PauseLabels
  <2>2. TypeOK'
    BY <2>1 DEF TypeOK
  <2>3. Control' /\ Handshake'
    BY <2>1 DEF Control, Handshake, Serving, Steps, Called, PauseLabels, FirstPause,
      SecondPause, ProgramLabels, ParkedLabels, WaitLabels, ServeLabels, TraceLabels,
      AbandonLabels, ExitLabels
  <2>4. PhaseFits'
    BY <2>1 DEF PhaseFits, PauseOverrun, HasAbandoned, Ready, Steps, FirstPause,
      SecondPause, AbandonLabels
  <2>5. RequestFits'
    BY <2>1 DEF RequestFits, RequestsMatchPauses, PauseOwnsItsRequest, NoStaleRequest,
      PausePhase, Steps
  <2>6. HeapFits'
    <3>1. LeftRunning => LeftRunning'
      BY <2>1 DEF LeftRunning, Steps
    <3>2. CASE heap.torn = {} /\ PhaseHeap /\ PauseHeap /\ ExitFits
      <4>1. heap'.torn = {} /\ PhaseHeap'
        BY <2>1, <3>2 DEF PhaseHeap, Clean, Chosen, Armed, Dropped, Steps, FirstPause, SecondPause
      <4>2. PauseHeap'
        BY <2>1, <3>2 DEF PauseHeap, Clean, Chosen, Armed, Steps, FirstPause, SecondPause
      <4>3. ExitFits'
        BY <2>1, <3>2 DEF ExitFits, Clean, Chosen, Armed, Dropped, Steps
      <4> QED
        BY <4>1, <4>2, <4>3 DEF HeapFits
    <3> QED
      BY <3>1, <3>2 DEF IInv, HeapFits
  <2> QED
    BY <2>2, <2>3, <2>4, <2>5, <2>6
<1>4. CASE Release(t)
  <2>1. /\ pc[t] = "release"
        /\ (t = C /\ Steps(C, "wait", ret[C])) \/ (t = X /\ Steps(X, "quiesce", ret[X]))
        /\ parked' = "PARKED" /\ asleep' \subseteq asleep
        /\ UNCHANGED <<phase, flag, pins, heap, todo, copied>>
    BY <1>4, GotoSteps DEF At, Release, ServedTo, local, Labels, ServeLabels, TraceLabels,
      ExitLabels, TypeOK
  <2>2. TypeOK'
    BY <2>1 DEF TypeOK
  <2>3. Control' /\ Handshake'
    BY <2>1 DEF Control, Handshake, Serving, Steps, Called, PauseLabels, FirstPause,
      SecondPause, ProgramLabels, ParkedLabels, WaitLabels, ServeLabels, TraceLabels,
      AbandonLabels, ExitLabels
  <2>4. PhaseFits'
    BY <2>1 DEF PhaseFits, PauseOverrun, HasAbandoned, Ready, Steps, FirstPause,
      SecondPause, AbandonLabels
  <2>5. RequestFits'
    BY <2>1 DEF RequestFits, RequestsMatchPauses, PauseOwnsItsRequest, NoStaleRequest,
      PausePhase, Steps
  <2>6. HeapFits'
    <3>1. LeftRunning => LeftRunning'
      BY <2>1 DEF LeftRunning, Steps
    <3>2. CASE heap.torn = {} /\ PhaseHeap /\ PauseHeap /\ ExitFits
      <4>1. heap'.torn = {} /\ PhaseHeap'
        BY <2>1, <3>2 DEF PhaseHeap, Clean, Chosen, Armed, Dropped, Steps, FirstPause, SecondPause
      <4>2. PauseHeap'
        BY <2>1, <3>2 DEF PauseHeap, Clean, Chosen, Armed, Steps, FirstPause, SecondPause
      <4>3. ExitFits'
        BY <2>1, <3>2 DEF ExitFits, Clean, Chosen, Armed, Dropped, Steps
      <4> QED
        BY <4>1, <4>2, <4>3 DEF HeapFits
    <3> QED
      BY <3>1, <3>2 DEF IInv, HeapFits
  <2> QED
    BY <2>2, <2>3, <2>4, <2>5, <2>6
<1> QED
  BY <1>1, <1>2, <1>3, <1>4 DEF Serve

\* The collector marks, asks for the pause, and hands it over.
LEMMA MarkInv ==
  ASSUME IInv, AwaitTrace \/ MarkConcurrently \/
         RequestThenPublish("request", "publishMarkDone", "MarkDone")
  PROVE  IInv'
<1> USE DEF IInv, M, C, X, Threads
<1>0. \A u, v \in Threads : pc[u] \in PauseLabels /\ pc[v] \in PauseLabels => u = v
  BY StopsTheWorld DEF PauseStopsTheWorld, InPause
<1>1. CASE AwaitTrace
  <2>1. /\ pc[C] = "top" /\ UNCHANGED <<phase, flag, parked, pins, heap, todo>>
        /\ asleep' \subseteq Threads /\ copied' = FALSE
        /\ \/ UNCHANGED <<pc, ret>>
           \/ flag.abandon /\ Steps(C, "wait", ret[C])
           \/ phase = "Marking" /\ Steps(C, "mark", ret[C])
    BY <1>1, GotoSteps DEF At, AwaitTrace, WaitFor, control, Labels, TraceLabels, TypeOK
  <2>2. TypeOK'
    BY <2>1 DEF TypeOK
  <2>3. Control' /\ Handshake'
    BY <2>1 DEF Control, Handshake, Serving, Steps, Called, PauseLabels, FirstPause,
      SecondPause, ProgramLabels, ParkedLabels, WaitLabels, ServeLabels, TraceLabels,
      AbandonLabels, ExitLabels
  <2>4. PhaseFits'
    BY <2>1 DEF PhaseFits, PauseOverrun, HasAbandoned, Ready, Steps, FirstPause,
      SecondPause, AbandonLabels
  <2>5. RequestFits'
    BY <2>1 DEF RequestFits, RequestsMatchPauses, PauseOwnsItsRequest, NoStaleRequest,
      PausePhase, Steps
  <2>6. HeapFits'
    <3>1. LeftRunning => LeftRunning'
      BY <2>1 DEF LeftRunning, Steps
    <3>2. CASE heap.torn = {} /\ PhaseHeap /\ PauseHeap /\ ExitFits
      <4>1. heap'.torn = {} /\ PhaseHeap'
        BY <2>1, <3>2 DEF PhaseHeap, Clean, Chosen, Armed, Dropped, Steps, FirstPause, SecondPause
      <4>2. PauseHeap'
        BY <2>1, <3>2 DEF PauseHeap, Clean, Chosen, Armed, Steps, FirstPause, SecondPause
      <4>3. ExitFits'
        BY <2>1, <3>2 DEF ExitFits, Clean, Chosen, Armed, Dropped, Steps
      <4> QED
        BY <4>1, <4>2, <4>3 DEF HeapFits
    <3> QED
      BY <3>1, <3>2 DEF IInv, HeapFits
  <2> QED
    BY <2>2, <2>3, <2>4, <2>5, <2>6
<1>2. CASE MarkConcurrently
  <2>1. /\ pc[C] = "mark" /\ UNCHANGED <<phase, flag, parked, pins, todo, copied, asleep>>
        /\ \/ heap' = [heap EXCEPT !.satb = FALSE] /\ Steps(C, "request", ret[C])
           \/ heap' = heap /\ Steps(C, "wait", ret[C])
    BY <1>2, GotoSteps DEF At, MarkConcurrently, local, Labels, TraceLabels, TypeOK
  <2>2. TypeOK'
    BY <2>1 DEF TypeOK
  <2>3. Control' /\ Handshake'
    BY <2>1 DEF Control, Handshake, Serving, Steps, Called, PauseLabels, FirstPause,
      SecondPause, ProgramLabels, ParkedLabels, WaitLabels, ServeLabels, TraceLabels,
      AbandonLabels, ExitLabels
  <2>4. PhaseFits'
    BY <2>1 DEF PhaseFits, PauseOverrun, HasAbandoned, Ready, Steps, FirstPause,
      SecondPause, AbandonLabels
  <2>5. RequestFits'
    BY <2>1 DEF RequestFits, RequestsMatchPauses, PauseOwnsItsRequest, NoStaleRequest,
      PausePhase, Steps
  <2>6. HeapFits'
    BY <2>1 DEF TypeOK, HeapFits, LeftRunning, PhaseHeap, PauseHeap, ExitFits, Clean,
      Chosen, Armed, Dropped, Steps, FirstPause, SecondPause
  <2> QED
    BY <2>2, <2>3, <2>4, <2>5, <2>6
<1>3. CASE RequestThenPublish("request", "publishMarkDone", "MarkDone")
  <2>1. /\ asleep' \subseteq asleep /\ UNCHANGED <<parked, pins, heap, todo, copied>>
        /\ \/ /\ pc[C] = "request" /\ Steps(C, "publishMarkDone", ret[C])
              /\ flag' = [flag EXCEPT !.wanted = TRUE] /\ phase' = phase
           \/ /\ pc[C] = "publishMarkDone" /\ Steps(C, "wait", ret[C])
              /\ phase' = "MarkDone" /\ flag' = flag
    BY <1>3, GotoSteps DEF At, RequestThenPublish, SetPhase, WakeChanged, local, Labels,
      TraceLabels, TypeOK
  <2>2. TypeOK'
    BY <2>1 DEF TypeOK, Phases
  <2>3. Control' /\ Handshake'
    BY <2>1 DEF Control, Handshake, Serving, Steps, Called, PauseLabels, FirstPause,
      SecondPause, ProgramLabels, ParkedLabels, WaitLabels, ServeLabels, TraceLabels,
      AbandonLabels, ExitLabels
  <2>4. PhaseFits'
    BY <2>1 DEF TypeOK, PhaseFits, PauseOverrun, HasAbandoned, Ready, Steps, FirstPause,
      SecondPause, AbandonLabels
  <2>5. RequestFits'
    BY <2>1 DEF TypeOK, PhaseFits, PauseOverrun, RequestFits, RequestsMatchPauses,
      PauseOwnsItsRequest, NoStaleRequest, PausePhase, Steps, FirstPause, SecondPause
  <2>6. HeapFits'
    BY <1>0, <2>1 DEF TypeOK, PhaseFits, PauseOverrun, HeapFits, LeftRunning, PhaseHeap,
      PauseHeap, ExitFits, Clean, Chosen, Armed, Dropped, Steps, PauseLabels, FirstPause,
      SecondPause
  <2> QED
    BY <2>2, <2>3, <2>4, <2>5, <2>6
<1> QED
  BY <1>1, <1>2, <1>3

\* The collector waits, copies and asks for the second pause.
LEMMA CopyInv ==
  ASSUME IInv, WaitOrServe \/ Sleep \/ AfterWait \/ CopyBlock \/ CopyEnds \/
         RequestThenPublish("request2", "publishEvacDone", "EvacDone")
  PROVE  IInv'
<1> USE DEF IInv, M, C, X, Threads
<1>0. \A u, v \in Threads : pc[u] \in PauseLabels /\ pc[v] \in PauseLabels => u = v
  BY StopsTheWorld DEF PauseStopsTheWorld, InPause
<1>1. CASE WaitOrServe \/ Sleep
  <2>1. /\ pc[C] \in {"wait", "sleep"}
        /\ UNCHANGED <<phase, flag, parked, pins, heap, todo, copied>> /\ asleep' \subseteq Threads
        /\ \/ UNCHANGED <<pc, ret>>
           \/ Ready /\ Steps(C, "after", ret[C])
           \/ Steps(C, "serve", ret[C])
           \/ Steps(C, "wait", ret[C])
    BY <1>1, GotoSteps DEF At, WaitOrServe, Sleep, WaitFor, control, local, Labels,
      TraceLabels, ServeLabels, TypeOK
  <2>2. TypeOK'
    BY <2>1 DEF TypeOK
  <2>3. Control' /\ Handshake'
    BY <2>1 DEF Control, Handshake, Serving, Steps, Called, PauseLabels, FirstPause,
      SecondPause, ProgramLabels, ParkedLabels, WaitLabels, ServeLabels, TraceLabels,
      AbandonLabels, ExitLabels
  <2>4. PhaseFits'
    BY <2>1 DEF PhaseFits, PauseOverrun, HasAbandoned, Ready, Steps, FirstPause,
      SecondPause, AbandonLabels
  <2>5. RequestFits'
    BY <2>1 DEF RequestFits, RequestsMatchPauses, PauseOwnsItsRequest, NoStaleRequest,
      PausePhase, Steps
  <2>6. HeapFits'
    <3>1. LeftRunning => LeftRunning'
      BY <2>1 DEF LeftRunning, Steps
    <3>2. CASE heap.torn = {} /\ PhaseHeap /\ PauseHeap /\ ExitFits
      <4>1. heap'.torn = {} /\ PhaseHeap'
        BY <2>1, <3>2 DEF PhaseHeap, Clean, Chosen, Armed, Dropped, Steps, FirstPause, SecondPause
      <4>2. PauseHeap'
        BY <2>1, <3>2 DEF PauseHeap, Clean, Chosen, Armed, Steps, FirstPause, SecondPause
      <4>3. ExitFits'
        BY <2>1, <3>2 DEF ExitFits, Clean, Chosen, Armed, Dropped, Steps
      <4> QED
        BY <4>1, <4>2, <4>3 DEF HeapFits
    <3> QED
      BY <3>1, <3>2 DEF IInv, HeapFits
  <2> QED
    BY <2>2, <2>3, <2>4, <2>5, <2>6
<1>2. CASE AfterWait
  <2>1. /\ pc[C] = "after" /\ todo' \in [Threads -> SUBSET Blocks]
        /\ UNCHANGED <<phase, flag, parked, pins, heap, copied, asleep>>
        /\ \/ flag.abandon /\ Steps(C, "revert", ret[C]) /\ todo' = todo
           \/ phase = "Evacuating" /\ ~flag.abandon /\ Steps(C, "copy", ret[C])
           \/ phase = "Sweeping" /\ ~flag.abandon /\ Steps(C, "sweep", ret[C]) /\ todo' = todo
    BY <1>2, GotoSteps DEF At, AfterWait, PhaseFits, Ready, Labels, TraceLabels,
      AbandonLabels, TypeOK
  <2>2. TypeOK'
    BY <2>1 DEF TypeOK
  <2>3. Control' /\ Handshake'
    BY <2>1 DEF Control, Handshake, Serving, Steps, Called, PauseLabels, FirstPause,
      SecondPause, ProgramLabels, ParkedLabels, WaitLabels, ServeLabels, TraceLabels,
      AbandonLabels, ExitLabels
  <2>4. PhaseFits'
    BY <2>1 DEF PhaseFits, PauseOverrun, HasAbandoned, Ready, Steps, FirstPause,
      SecondPause, AbandonLabels
  <2>5. RequestFits'
    BY <2>1 DEF RequestFits, RequestsMatchPauses, PauseOwnsItsRequest, NoStaleRequest,
      PausePhase, Steps
  <2>6. HeapFits'
    BY <1>0, <2>1 DEF TypeOK, PhaseFits, PauseOverrun, HeapFits, LeftRunning, PhaseHeap,
      PauseHeap, ExitFits, Clean, Chosen, Armed, Dropped, Steps, PauseLabels, FirstPause,
      SecondPause
  <2> QED
    BY <2>2, <2>3, <2>4, <2>5, <2>6
<1>3. CASE CopyBlock
  <2>1. /\ pc[C] = "copy" /\ todo' \in [Threads -> SUBSET Blocks]
        /\ UNCHANGED <<phase, flag, parked, pins, copied, asleep>>
        /\ \E S : S \subseteq heap.chosen /\ heap' = [heap EXCEPT !.moved = @ \cup S]
        /\ UNCHANGED <<pc, ret>>
    BY <1>3, CopyBlockMoves DEF At, TypeOK, control
  <2>2. TypeOK'
    BY <2>1 DEF TypeOK
  <2>3. Control' /\ Handshake'
    BY <2>1 DEF Control, Handshake, Serving
  <2>4. PhaseFits'
    BY <2>1 DEF PhaseFits, PauseOverrun, HasAbandoned, Ready
  <2>5. RequestFits'
    BY <2>1 DEF RequestFits, RequestsMatchPauses, PauseOwnsItsRequest, NoStaleRequest,
      PausePhase
  <2>6. HeapFits'
    BY <1>0, <2>1 DEF TypeOK, PhaseFits, PauseOverrun, HeapFits, LeftRunning, PhaseHeap,
      PauseHeap, ExitFits, Clean, Chosen, Armed, Dropped, Steps, PauseLabels, FirstPause,
      SecondPause
  <2> QED
    BY <2>2, <2>3, <2>4, <2>5, <2>6
<1>4. CASE CopyEnds
  <2>1. /\ pc[C] = "copy" /\ Steps(C, "request2", ret[C])
        /\ todo' \in [Threads -> SUBSET Blocks] /\ copied' = TRUE
        /\ UNCHANGED <<phase, flag, parked, pins, heap, asleep>>
    BY <1>4, GotoSteps DEF At, CopyEnds, Labels, TraceLabels, TypeOK
  <2>2. TypeOK'
    BY <2>1 DEF TypeOK
  <2>3. Control' /\ Handshake'
    BY <2>1 DEF Control, Handshake, Serving, Steps, Called, PauseLabels, FirstPause,
      SecondPause, ProgramLabels, ParkedLabels, WaitLabels, ServeLabels, TraceLabels,
      AbandonLabels, ExitLabels
  <2>4. PhaseFits'
    BY <2>1 DEF PhaseFits, PauseOverrun, HasAbandoned, Ready, Steps, FirstPause,
      SecondPause, AbandonLabels
  <2>5. RequestFits'
    BY <2>1 DEF RequestFits, RequestsMatchPauses, PauseOwnsItsRequest, NoStaleRequest,
      PausePhase, Steps
  <2>6. HeapFits'
    BY <1>0, <2>1 DEF TypeOK, PhaseFits, PauseOverrun, HeapFits, LeftRunning, PhaseHeap,
      PauseHeap, ExitFits, Clean, Chosen, Armed, Dropped, Steps, PauseLabels, FirstPause,
      SecondPause
  <2> QED
    BY <2>2, <2>3, <2>4, <2>5, <2>6
<1>5. CASE RequestThenPublish("request2", "publishEvacDone", "EvacDone")
  <2>1. /\ asleep' \subseteq asleep /\ UNCHANGED <<parked, pins, heap, todo, copied>>
        /\ \/ /\ pc[C] = "request2" /\ Steps(C, "publishEvacDone", ret[C])
              /\ flag' = [flag EXCEPT !.wanted = TRUE] /\ phase' = phase
           \/ /\ pc[C] = "publishEvacDone" /\ Steps(C, "wait", ret[C])
              /\ phase' = "EvacDone" /\ flag' = flag
    BY <1>5, GotoSteps DEF At, RequestThenPublish, SetPhase, WakeChanged, local, Labels,
      TraceLabels, TypeOK
  <2>2. TypeOK'
    BY <2>1 DEF TypeOK, Phases
  <2>3. Control' /\ Handshake'
    BY <2>1 DEF Control, Handshake, Serving, Steps, Called, PauseLabels, FirstPause,
      SecondPause, ProgramLabels, ParkedLabels, WaitLabels, ServeLabels, TraceLabels,
      AbandonLabels, ExitLabels
  <2>4. PhaseFits'
    BY <2>1 DEF TypeOK, PhaseFits, PauseOverrun, HasAbandoned, Ready, Steps, FirstPause,
      SecondPause, AbandonLabels
  <2>5. RequestFits'
    BY <2>1 DEF TypeOK, PhaseFits, PauseOverrun, RequestFits, RequestsMatchPauses,
      PauseOwnsItsRequest, NoStaleRequest, PausePhase, Steps, FirstPause, SecondPause
  <2>6. HeapFits'
    BY <1>0, <2>1 DEF TypeOK, PhaseFits, PauseOverrun, HeapFits, LeftRunning, PhaseHeap,
      PauseHeap, ExitFits, Clean, Chosen, Armed, Dropped, Steps, PauseLabels, FirstPause,
      SecondPause
  <2> QED
    BY <2>2, <2>3, <2>4, <2>5, <2>6
<1> QED
  BY <1>1, <1>2, <1>3, <1>4, <1>5

\* The collector sweeps, or abandons its trace, a step at a time.
LEMMA SweepInv ==
  ASSUME IInv, Sweep \/ PublishIdle \/ Abandon
  PROVE  IInv'
<1> USE DEF IInv, M, C, X, Threads
<1>0. \A u, v \in Threads : pc[u] \in PauseLabels /\ pc[v] \in PauseLabels => u = v
  BY StopsTheWorld DEF PauseStopsTheWorld, InPause
<1>1. CASE Sweep
  <2>1. /\ pc[C] = "sweep" /\ Steps(C, "idle", ret[C])
        /\ UNCHANGED <<phase, flag, parked, pins, heap, todo, copied, asleep>>
    BY <1>1, GotoSteps DEF At, Sweep, local, Labels, TraceLabels, TypeOK
  <2>2. TypeOK'
    BY <2>1 DEF TypeOK
  <2>3. Control' /\ Handshake'
    BY <2>1 DEF Control, Handshake, Serving, Steps, Called, PauseLabels, FirstPause,
      SecondPause, ProgramLabels, ParkedLabels, WaitLabels, ServeLabels, TraceLabels,
      AbandonLabels, ExitLabels
  <2>4. PhaseFits'
    BY <2>1 DEF PhaseFits, PauseOverrun, HasAbandoned, Ready, Steps, FirstPause,
      SecondPause, AbandonLabels
  <2>5. RequestFits'
    BY <2>1 DEF RequestFits, RequestsMatchPauses, PauseOwnsItsRequest, NoStaleRequest,
      PausePhase, Steps
  <2>6. HeapFits'
    BY <1>0, <2>1 DEF TypeOK, PhaseFits, PauseOverrun, HeapFits, LeftRunning, PhaseHeap,
      PauseHeap, ExitFits, Clean, Chosen, Armed, Dropped, Steps, PauseLabels, FirstPause,
      SecondPause
  <2> QED
    BY <2>2, <2>3, <2>4, <2>5, <2>6
<1>2. CASE PublishIdle
  <2>1. /\ pc[C] = "idle" /\ Steps(C, "top", ret[C])
        /\ phase' = "Idle" /\ asleep' \subseteq asleep
        /\ UNCHANGED <<flag, parked, pins, heap, todo, copied>>
    BY <1>2, GotoSteps DEF At, PublishIdle, SetPhase, WakeChanged, local, Labels,
      TraceLabels, TypeOK
  <2>2. TypeOK'
    BY <2>1 DEF TypeOK, Phases
  <2>3. Control' /\ Handshake'
    BY <2>1 DEF Control, Handshake, Serving, Steps, Called, PauseLabels, FirstPause,
      SecondPause, ProgramLabels, ParkedLabels, WaitLabels, ServeLabels, TraceLabels,
      AbandonLabels, ExitLabels
  <2>4. PhaseFits'
    BY <2>1 DEF PhaseFits, PauseOverrun, HasAbandoned, Ready, Steps, FirstPause,
      SecondPause, AbandonLabels
  <2>5. RequestFits'
    BY <2>1 DEF RequestFits, RequestsMatchPauses, PauseOwnsItsRequest, NoStaleRequest,
      PausePhase, Steps
  <2>6. HeapFits'
    BY <1>0, <2>1 DEF TypeOK, Control, Handshake, PhaseFits, PauseOverrun, HasAbandoned,
      HeapFits, LeftRunning, PhaseHeap, PauseHeap, ExitFits, Clean, Chosen, Armed, Dropped,
      Steps, Called, PauseLabels, FirstPause, SecondPause, ProgramLabels, ParkedLabels,
      WaitLabels, ServeLabels, TraceLabels, AbandonLabels, ExitLabels
  <2> QED
    BY <2>2, <2>3, <2>4, <2>5, <2>6
<1>3. CASE Revert
  <2>1. /\ pc[C] = "revert" /\ Steps(C, "drop", ret[C])
        /\ heap' = [heap EXCEPT !.torn = @ \cup (heap.chosen \cap heap.moved),
                                !.spoilt = @ \cup (heap.chosen \cap heap.early),
                                !.chosen = {}, !.moved = {}, !.early = {}]
        /\ UNCHANGED <<phase, flag, parked, pins, todo, copied, asleep>>
    BY <1>3, GotoSteps DEF At, Revert, local, Labels, AbandonLabels, TypeOK
  <2>2. TypeOK'
    BY <2>1 DEF TypeOK
  <2>3. Control' /\ Handshake'
    BY <2>1 DEF Control, Handshake, Serving, Steps, Called, PauseLabels, FirstPause,
      SecondPause, ProgramLabels, ParkedLabels, WaitLabels, ServeLabels, TraceLabels,
      AbandonLabels, ExitLabels
  <2>4. PhaseFits'
    BY <2>1 DEF PhaseFits, PauseOverrun, HasAbandoned, Ready, Steps, FirstPause,
      SecondPause, AbandonLabels
  <2>5. RequestFits'
    BY <2>1 DEF RequestFits, RequestsMatchPauses, PauseOwnsItsRequest, NoStaleRequest,
      PausePhase, Steps
  <2>6. HeapFits'
    BY <1>0, <2>1 DEF TypeOK, Control, Handshake, PhaseFits, PauseOverrun, HasAbandoned,
      HeapFits, LeftRunning, PhaseHeap, PauseHeap, ExitFits, Clean, Chosen, Armed, Dropped,
      Steps, Called, PauseLabels, FirstPause, SecondPause, ProgramLabels, ParkedLabels,
      WaitLabels, ServeLabels, TraceLabels, AbandonLabels, ExitLabels
  <2> QED
    BY <2>2, <2>3, <2>4, <2>5, <2>6
<1>4. CASE DropLists
  <2>1. /\ pc[C] = "drop" /\ Steps(C, "untrace", ret[C])
        /\ heap' = [heap EXCEPT !.satb = FALSE, !.cset = {}]
        /\ UNCHANGED <<phase, flag, parked, pins, todo, copied, asleep>>
    BY <1>4, GotoSteps DEF At, DropLists, local, Labels, AbandonLabels, TypeOK
  <2>2. TypeOK'
    BY <2>1 DEF TypeOK
  <2>3. Control' /\ Handshake'
    BY <2>1 DEF Control, Handshake, Serving, Steps, Called, PauseLabels, FirstPause,
      SecondPause, ProgramLabels, ParkedLabels, WaitLabels, ServeLabels, TraceLabels,
      AbandonLabels, ExitLabels
  <2>4. PhaseFits'
    BY <2>1 DEF PhaseFits, PauseOverrun, HasAbandoned, Ready, Steps, FirstPause,
      SecondPause, AbandonLabels
  <2>5. RequestFits'
    BY <2>1 DEF RequestFits, RequestsMatchPauses, PauseOwnsItsRequest, NoStaleRequest,
      PausePhase, Steps
  <2>6. HeapFits'
    <3>1. LeftRunning => LeftRunning'
      BY <2>1 DEF LeftRunning, Steps
    <3>2. CASE heap.torn = {} /\ PhaseHeap /\ PauseHeap /\ ExitFits
      <4>1. /\ heap'.chosen = heap.chosen /\ heap'.moved = heap.moved /\ heap'.torn = heap.torn
            /\ heap'.early = heap.early /\ heap'.cset = {} /\ ~heap'.satb
        BY <2>1 DEF TypeOK
      <4>2. /\ flag.tracing /\ ~flag.evacuating /\ heap.chosen = {} /\ heap.moved = {}
            /\ heap.early = {}
        BY <2>1, <3>2 DEF ExitFits, Dropped, Clean
      <4>3. Dropped'
        BY <2>1, <4>1, <4>2 DEF Dropped, Steps
      <4>4. flag.abandon /\ phase \in {"Marking", "MarkDone"}
        BY <2>1, <3>2 DEF PhaseFits, ExitFits, AbandonLabels
      <4>5. PhaseHeap'
        BY <2>1, <4>3, <4>4 DEF PhaseHeap
      <4>6. PauseHeap'
        BY <2>1, <3>2, <4>1, <4>2 DEF PauseHeap, Chosen, Armed, Clean, Steps
      <4>7. ExitFits'
        BY <2>1, <4>3, <4>4 DEF ExitFits, Steps
      <4> QED
        BY <3>2, <4>1, <4>5, <4>6, <4>7 DEF HeapFits
    <3> QED
      BY <3>1, <3>2 DEF IInv, HeapFits
  <2> QED
    BY <2>2, <2>3, <2>4, <2>5, <2>6
<1>5. CASE LowerFlag("untrace", "clear3", "tracing")
  <2>1. /\ pc[C] = "untrace" /\ Steps(C, "clear3", ret[C])
        /\ flag' = [flag EXCEPT !.tracing = FALSE]
        /\ UNCHANGED <<phase, parked, pins, heap, todo, copied, asleep>>
    BY <1>5, GotoSteps DEF At, LowerFlag, local, Labels, AbandonLabels, TypeOK
  <2>2. TypeOK'
    BY <2>1 DEF TypeOK
  <2>3. Control' /\ Handshake'
    BY <2>1 DEF Control, Handshake, Serving, Steps, Called, PauseLabels, FirstPause,
      SecondPause, ProgramLabels, ParkedLabels, WaitLabels, ServeLabels, TraceLabels,
      AbandonLabels, ExitLabels
  <2>4. PhaseFits'
    BY <2>1 DEF PhaseFits, PauseOverrun, HasAbandoned, Ready, Steps, FirstPause,
      SecondPause, AbandonLabels
  <2>5. RequestFits'
    BY <2>1 DEF RequestFits, RequestsMatchPauses, PauseOwnsItsRequest, NoStaleRequest,
      PausePhase, Steps
  <2>6. HeapFits'
    BY <1>0, <2>1 DEF TypeOK, Control, Handshake, PhaseFits, PauseOverrun, HasAbandoned,
      HeapFits, LeftRunning, PhaseHeap, PauseHeap, ExitFits, Clean, Chosen, Armed, Dropped,
      Steps, Called, PauseLabels, FirstPause, SecondPause, ProgramLabels, ParkedLabels,
      WaitLabels, ServeLabels, TraceLabels, AbandonLabels, ExitLabels
  <2> QED
    BY <2>2, <2>3, <2>4, <2>5, <2>6
<1>6. CASE ClearPoll(C, "clear3", "lower")
  <2>1. /\ pc[C] = "clear3" /\ Steps(C, "lower", ret[C])
        /\ flag' = [flag EXCEPT !.wanted = FALSE]
        /\ UNCHANGED <<phase, parked, pins, heap, todo, copied, asleep>>
    BY <1>6, GotoSteps DEF At, ClearPoll, local, Labels, AbandonLabels, TypeOK
  <2>2. TypeOK'
    BY <2>1 DEF TypeOK
  <2>3. Control' /\ Handshake'
    BY <2>1 DEF Control, Handshake, Serving, Steps, Called, PauseLabels, FirstPause,
      SecondPause, ProgramLabels, ParkedLabels, WaitLabels, ServeLabels, TraceLabels,
      AbandonLabels, ExitLabels
  <2>4. PhaseFits'
    BY <2>1 DEF PhaseFits, PauseOverrun, HasAbandoned, Ready, Steps, FirstPause,
      SecondPause, AbandonLabels
  <2>5. RequestFits'
    BY <2>1 DEF RequestFits, RequestsMatchPauses, PauseOwnsItsRequest, NoStaleRequest,
      PausePhase, Steps
  <2>6. HeapFits'
    <3>1. LeftRunning => LeftRunning'
      BY <2>1 DEF LeftRunning, Steps
    <3>2. CASE heap.torn = {} /\ PhaseHeap /\ PauseHeap /\ ExitFits
      <4>1. heap'.torn = {} /\ PhaseHeap'
        BY <2>1, <3>2 DEF PhaseHeap, Clean, Chosen, Armed, Dropped, Steps, FirstPause, SecondPause
      <4>2. PauseHeap'
        BY <2>1, <3>2 DEF PauseHeap, Clean, Chosen, Armed, Steps, FirstPause, SecondPause
      <4>3. ExitFits'
        BY <2>1, <3>2 DEF ExitFits, Clean, Chosen, Armed, Dropped, Steps
      <4> QED
        BY <4>1, <4>2, <4>3 DEF HeapFits
    <3> QED
      BY <3>1, <3>2 DEF IInv, HeapFits
  <2> QED
    BY <2>2, <2>3, <2>4, <2>5, <2>6
<1>7. CASE LowerFlag("lower", "idle", "abandon")
  <2>1. /\ pc[C] = "lower" /\ Steps(C, "idle", ret[C])
        /\ flag' = [flag EXCEPT !.abandon = FALSE]
        /\ UNCHANGED <<phase, parked, pins, heap, todo, copied, asleep>>
    BY <1>7, GotoSteps DEF At, LowerFlag, local, Labels, AbandonLabels, TraceLabels, TypeOK
  <2>2. TypeOK'
    BY <2>1 DEF TypeOK
  <2>3. Control' /\ Handshake'
    BY <2>1 DEF Control, Handshake, Serving, Steps, Called, PauseLabels, FirstPause,
      SecondPause, ProgramLabels, ParkedLabels, WaitLabels, ServeLabels, TraceLabels,
      AbandonLabels, ExitLabels
  <2>4. PhaseFits'
    BY <2>1 DEF PhaseFits, PauseOverrun, HasAbandoned, Ready, Steps, FirstPause,
      SecondPause, AbandonLabels
  <2>5. RequestFits'
    BY <2>1 DEF RequestFits, RequestsMatchPauses, PauseOwnsItsRequest, NoStaleRequest,
      PausePhase, Steps
  <2>6. HeapFits'
    BY <1>0, <2>1 DEF TypeOK, Control, Handshake, PhaseFits, PauseOverrun, HasAbandoned,
      HeapFits, LeftRunning, PhaseHeap, PauseHeap, ExitFits, Clean, Chosen, Armed, Dropped,
      Steps, Called, PauseLabels, FirstPause, SecondPause, ProgramLabels, ParkedLabels,
      WaitLabels, ServeLabels, TraceLabels, AbandonLabels, ExitLabels
  <2> QED
    BY <2>2, <2>3, <2>4, <2>5, <2>6
<1> QED
  BY <1>1, <1>2, <1>3, <1>4, <1>5, <1>6, <1>7 DEF Abandon

\* The exiting thread.
LEMMA ExitInv ==
  ASSUME IInv, BeginExit \/ Quiesce \/ RaiseAbandon \/ WaitPhase(X)
  PROVE  IInv'
<1> USE DEF IInv, M, C, X, Threads
<1>0. \A u, v \in Threads : pc[u] \in PauseLabels /\ pc[v] \in PauseLabels => u = v
  BY StopsTheWorld DEF PauseStopsTheWorld, InPause
<1>1. CASE BeginExit
  <2>1. /\ pc' \in [Threads -> Labels] /\ UNCHANGED ret
        /\ UNCHANGED <<phase, flag, parked, pins, heap, todo, copied, asleep>>
        /\ pc[X] = "before" /\ pc'[X] = "quiesce" /\ pc'[C] = pc[C]
        /\ pc'[M] = pc[M] \/ (pc[M] = "run" /\ pc'[M] = "returned")
    BY <1>1, SMT DEF At, BeginExit, Generated, Goto, Control, local, Labels, ExitLabels,
      ProgramLabels, TypeOK
  <2>2. TypeOK'
    BY <2>1 DEF TypeOK
  <2>3. Control' /\ Handshake'
    BY <2>1 DEF Control, Handshake, Serving, Steps, Called, PauseLabels, FirstPause,
      SecondPause, ProgramLabels, ParkedLabels, WaitLabels, ServeLabels, TraceLabels,
      AbandonLabels, ExitLabels
  <2>4. PhaseFits'
    BY <2>1 DEF PhaseFits, PauseOverrun, HasAbandoned, Ready, Steps, FirstPause,
      SecondPause, AbandonLabels
  <2>5. RequestFits'
    BY <2>1 DEF RequestFits, RequestsMatchPauses, PauseOwnsItsRequest, NoStaleRequest,
      PausePhase
  <2>6. HeapFits'
    <3>1. LeftRunning => LeftRunning'
      BY <2>1 DEF LeftRunning, Steps
    <3>2. CASE heap.torn = {} /\ PhaseHeap /\ PauseHeap /\ ExitFits
      <4>1. heap'.torn = {} /\ PhaseHeap'
        BY <2>1, <3>2 DEF PhaseHeap, Clean, Chosen, Armed, Dropped, Steps, FirstPause, SecondPause
      <4>2. PauseHeap'
        BY <2>1, <3>2 DEF PauseHeap, Clean, Chosen, Armed, Steps, FirstPause, SecondPause
      <4>3. ExitFits'
        BY <2>1, <3>2 DEF ExitFits, Clean, Chosen, Armed, Dropped, Steps
      <4> QED
        BY <4>1, <4>2, <4>3 DEF HeapFits
    <3> QED
      BY <3>1, <3>2 DEF IInv, HeapFits
  <2> QED
    BY <2>2, <2>3, <2>4, <2>5, <2>6
<1>2. CASE Quiesce
  <2>1. /\ pc[X] = "quiesce" /\ UNCHANGED <<phase, flag, parked, pins, heap, todo, copied, asleep>>
        /\ \/ Steps(X, "exited", ret[X])
           \/ \E l \in {"waitIdle", "waitEvacuated"} : Steps(X, l, "quiesce")
           \/ phase \in {"Marking", "MarkDone"} /\ Steps(X, "abandon", ret[X])
           \/ phase = "EvacDone" /\ pc[M] = "returned" /\ Steps(X, "fix", "quiesce")
           \/ phase = "EvacDone" /\ pc[M] # "returned" /\ Steps(X, "serve", ret[X])
    BY <1>2, GotoSteps, CallSteps DEF At, Quiesce, local, Labels, ExitLabels, WaitLabels,
      ProgramLabels, Called, PauseLabels, ServeLabels, TypeOK
  <2>2. TypeOK'
    BY <2>1 DEF TypeOK
  <2>3. Control' /\ Handshake'
    BY <2>1 DEF Control, Handshake, Serving, Steps, Called, PauseLabels, FirstPause,
      SecondPause, ProgramLabels, ParkedLabels, WaitLabels, ServeLabels, TraceLabels,
      AbandonLabels, ExitLabels
  <2>4. PhaseFits'
    BY <2>1 DEF PhaseFits, PauseOverrun, HasAbandoned, Ready, Steps, FirstPause,
      SecondPause, AbandonLabels
  <2>5. RequestFits'
    BY <2>1 DEF RequestFits, RequestsMatchPauses, PauseOwnsItsRequest, NoStaleRequest,
      PausePhase, Steps
  <2>6. HeapFits'
    <3>1. LeftRunning => LeftRunning'
      BY <2>1 DEF LeftRunning, Steps
    <3>2. CASE heap.torn = {} /\ PhaseHeap /\ PauseHeap /\ ExitFits
      <4>1. heap'.torn = {} /\ PhaseHeap'
        BY <2>1, <3>2 DEF PhaseHeap, Clean, Chosen, Armed, Dropped, Steps, FirstPause, SecondPause
      <4>2. PauseHeap'
        BY <2>1, <3>2 DEF PauseHeap, Clean, Chosen, Armed, Steps, FirstPause, SecondPause
      <4>3. ExitFits'
        BY <2>1, <3>2 DEF ExitFits, Clean, Chosen, Armed, Dropped, Steps
      <4> QED
        BY <4>1, <4>2, <4>3 DEF HeapFits
    <3> QED
      BY <3>1, <3>2 DEF IInv, HeapFits
  <2> QED
    BY <2>2, <2>3, <2>4, <2>5, <2>6
<1>3. CASE RaiseAbandon
  <2>1. /\ pc[X] = "abandon" /\ Steps(X, "waitIdle", "exited")
        /\ flag' = [flag EXCEPT !.abandon = TRUE]
        /\ asleep' \subseteq asleep /\ UNCHANGED <<phase, parked, pins, heap, todo, copied>>
    BY <1>3, CallSteps DEF At, RaiseAbandon, WakeChanged, local, Labels, ExitLabels,
      WaitLabels, TypeOK
  <2>2. TypeOK'
    BY <2>1 DEF TypeOK
  <2>3. Control' /\ Handshake'
    BY <2>1 DEF Control, Handshake, Serving, Steps, Called, PauseLabels, WaitLabels
  <2>4. PhaseFits'
    BY <2>1 DEF PhaseFits, PauseOverrun, HasAbandoned, Ready, Steps, FirstPause,
      SecondPause, AbandonLabels
  <2>5. RequestFits'
    BY <2>1 DEF RequestFits, RequestsMatchPauses, PauseOwnsItsRequest, NoStaleRequest,
      PausePhase, Steps
  <2>6. HeapFits'
    <3>1. LeftRunning => LeftRunning'
      BY <2>1 DEF LeftRunning, Steps
    <3>2. CASE heap.torn = {} /\ PhaseHeap /\ PauseHeap /\ ExitFits
      <4>1. heap'.torn = {} /\ PhaseHeap'
        BY <2>1, <3>2 DEF PhaseHeap, Clean, Chosen, Armed, Dropped, Steps, FirstPause, SecondPause
      <4>2. PauseHeap'
        BY <2>1, <3>2 DEF PauseHeap, Clean, Chosen, Armed, Steps, FirstPause, SecondPause
      <4>3. ExitFits'
        BY <2>1, <3>2 DEF ExitFits, Clean, Chosen, Armed, Dropped, Steps
      <4> QED
        BY <4>1, <4>2, <4>3 DEF HeapFits
    <3> QED
      BY <3>1, <3>2 DEF IInv, HeapFits
  <2> QED
    BY <2>2, <2>3, <2>4, <2>5, <2>6
<1>4. CASE WaitPhase(X)
  <2>1. /\ UNCHANGED <<phase, flag, parked, pins, heap, todo, copied>> /\ asleep' \subseteq Threads
        /\ \/ UNCHANGED <<pc, ret>>
           \/ pc[X] \in WaitLabels /\ Steps(X, ret[X], "none")
    BY <1>4, ReturnSteps DEF At, WaitPhase, WaitFor, control, local, Called, WaitLabels,
      TypeOK
  <2>2. TypeOK'
    BY <2>1 DEF TypeOK
  <2>3. Control' /\ Handshake'
    BY <2>1 DEF Control, Handshake, Serving, Steps, Called, PauseLabels, FirstPause,
      SecondPause, ProgramLabels, ParkedLabels, WaitLabels, ServeLabels, TraceLabels,
      AbandonLabels, ExitLabels
  <2>4. PhaseFits'
    BY <1>0, <2>1 DEF TypeOK, Control, Handshake, PhaseFits, PauseOverrun, HasAbandoned,
      Ready, Steps, Called, PauseLabels, FirstPause, SecondPause, ProgramLabels,
      ParkedLabels, WaitLabels, ServeLabels, TraceLabels, AbandonLabels, ExitLabels
  <2>5. RequestFits'
    BY <1>0, <2>1 DEF TypeOK, Control, PhaseFits, PauseOverrun, RequestFits,
      RequestsMatchPauses, PauseOwnsItsRequest, NoStaleRequest, PausePhase, Steps, Called,
      PauseLabels, FirstPause, SecondPause, ProgramLabels, ParkedLabels, WaitLabels,
      ServeLabels, TraceLabels, AbandonLabels, ExitLabels
  <2>6. HeapFits'
    <3>1. /\ pc'[X] = pc[X] \/ (pc[X] \in WaitLabels /\ pc'[X] \in {"quiesce", "exited"})
          /\ \A u \in Threads : u # X => pc'[u] = pc[u]
      BY <2>1 DEF Control, Steps, WaitLabels, Called, PauseLabels, ExitLabels, ServeLabels
    <3>2. LeftRunning => LeftRunning'
      BY <3>1 DEF LeftRunning, WaitLabels
    <3>3. CASE heap.torn = {} /\ PhaseHeap /\ PauseHeap /\ ExitFits
      <4>1. heap'.torn = {} /\ PhaseHeap'
        BY <2>1, <3>1, <3>3 DEF PhaseHeap, Clean, Chosen, Armed, Dropped, FirstPause, SecondPause,
          WaitLabels
      <4>2. PauseHeap'
        BY <2>1, <3>1, <3>3 DEF PauseHeap, Clean, Chosen, Armed
      <4>3. ExitFits'
        BY <2>1, <3>1, <3>3 DEF ExitFits, Clean, Dropped
      <4> QED
        BY <4>1, <4>2, <4>3 DEF HeapFits
    <3> QED
      BY <3>2, <3>3 DEF IInv, HeapFits
  <2> QED
    BY <2>2, <2>3, <2>4, <2>5, <2>6
<1> QED
  BY <1>1, <1>2, <1>3, <1>4

-----------------------------------------------------------------------------
\* A spurious wakeup, the end, and stuttering.
LEMMA SpuriousInv ==
  ASSUME IInv, NEW t \in Threads, Spurious(t) \/ Exited \/ UNCHANGED vars
  PROVE  IInv'
<1>1. asleep' \subseteq asleep /\ UNCHANGED <<phase, flag, parked, pins, heap, pc, ret, todo, copied>>
  BY DEF Spurious, Exited, vars, control, local
<1>2. TypeOK' /\ Control' /\ Handshake'
  BY <1>1 DEF IInv, TypeOK, Control, Handshake, Serving
<1>3. PhaseFits' /\ RequestFits'
  BY <1>1 DEF IInv, PhaseFits, PauseOverrun, HasAbandoned, Ready, RequestFits,
    RequestsMatchPauses, PauseOwnsItsRequest, NoStaleRequest, PausePhase
<1>4. HeapFits'
  BY <1>1 DEF IInv, HeapFits, LeftRunning, PhaseHeap, PauseHeap, ExitFits, Clean, Chosen, Armed,
    Dropped
<1> QED
  BY <1>2, <1>3, <1>4 DEF IInv

\* Every step keeps the invariant.
LEMMA NextInv == IInv /\ [Next]_vars => IInv'
<1> SUFFICES ASSUME IInv, [Next]_vars PROVE IInv'
  OBVIOUS
<1> USE DEF Threads
<1>1. CASE Mutator
  BY <1>1, ProgramInv, TracingInv, SafeRegionInv, PauseInv DEF Mutator
<1>2. CASE Collector
  BY <1>2, MarkInv, CopyInv, SweepInv, ServeInv, PauseInv DEF Collector
<1>3. CASE BeginExit \/ Exiting
  BY <1>3, ExitInv, ServeInv, PauseInv DEF Exiting
<1>4. CASE (\E t \in Threads : Spurious(t)) \/ Exited \/ UNCHANGED vars
  BY <1>4, SpuriousInv
<1> QED
  BY <1>1, <1>2, <1>3, <1>4 DEF Next

\* The three parts of the invariant hold of every reachable state of the
\* protocol (mark.rs), whatever the set of blocks.
THEOREM Invariance == Spec => []IInv
  BY InitInv, NextInv, PTL DEF Spec

-----------------------------------------------------------------------------
(* What the runs check on two blocks.                                       *)

\* One pause at a time, and the program stands still for the whole of it: it runs
\* the pause, is parked and claimed, or is over (safepoint, claim_parked, quiesce).
THEOREM OnePauseAtATime == Spec => []PauseStopsTheWorld
<1>1. IInv => PauseStopsTheWorld
  BY StopsTheWorld DEF IInv
<1> QED
  BY <1>1, Invariance, PTL

\* A visible pause owns its poll request, and no request outlives its pause, even
\* when a trace is abandoned under a running program (mark_concurrently, clear_poll,
\* abandon).
THEOREM RequestsArePaired == Spec => []RequestsMatchPauses
<1>1. IInv => RequestsMatchPauses
  BY DEF IInv, RequestFits
<1> QED
  BY <1>1, Invariance, PTL

\* The load barrier is armed while anything the worker's evacuation moved is not yet
\* fixed up, a worker's own exit puts none of that back, and what other workers'
\* evacuations move before it leaves the blocks of a trace that still marks
\* (finish_marking, finish_evacuation_on, abandon, ws_resolve).
THEOREM MovesCovered == Spec => []MovesAreCovered
<1>1. ASSUME IInv PROVE MovesAreCovered
  <2>1. CASE LeftRunning
    BY <2>1 DEF MovesAreCovered, BarrierCoversMoving, OwnExitTearsNothing
  <2>2. CASE ~LeftRunning
    <3>1. heap.torn = {} /\ PhaseHeap /\ PauseHeap /\ ExitFits
      BY <2>2, <1>1 DEF IInv, HeapFits
    <3>2. BarrierCoversMoving
      BY <1>1, <2>2, <3>1 DEF IInv, BarrierCoversMoving, PhaseHeap, PauseHeap, PhaseFits, Clean,
        Chosen, Armed, Dropped, FirstPause, SecondPause, TypeOK, Phases, PauseOverrun,
        LeftRunning, HasAbandoned, Threads, M, C, X
    <3> QED
      BY <3>1, <3>2 DEF MovesAreCovered, OwnExitTearsNothing, NeverHalfMoved
  <2> QED
    BY <2>1, <2>2
<1> QED
  BY <1>1, Invariance, PTL

\* Each pass of a trace finds the heap the pass before it leaves: the assertions of
\* mark.rs hold, and the sweep runs on a settled heap (start_with_roots,
\* finish_marking, finish_evacuation_on, sweep).
THEOREM PassesFindTheirs == Spec => []PassesFindTheirHeap
<1>1. ASSUME IInv PROVE PassesFindTheirHeap
  <2>1. CASE LeftRunning
    BY <2>1, <1>1 DEF IInv, PassesFindTheirHeap, AssertionsHold, SweepFindsSettledHeap
  <2>2. CASE ~LeftRunning
    <3>1. heap.torn = {} /\ PhaseHeap /\ PauseHeap /\ ExitFits
      BY <2>2, <1>1 DEF IInv, HeapFits
    <3>4. PauseStopsTheWorld
      BY <1>1, StopsTheWorld DEF IInv
    <3>2. AssertionsHold
      BY <1>1, <2>2, <3>1, <3>4 DEF IInv, AssertionsHold, PhaseHeap, PauseHeap, PhaseFits,
        Clean, Chosen, Armed, FirstPause, SecondPause, PauseOverrun, LeftRunning, HasAbandoned,
        PauseStopsTheWorld, InPause, PauseLabels, Threads, M, C, X
    <3>3. SweepFindsSettledHeap
      BY <1>1, <3>1 DEF IInv, SweepFindsSettledHeap, PhaseHeap, PhaseFits, RequestFits, Clean
    <3> QED
      BY <1>1, <3>2, <3>3 DEF IInv, PassesFindTheirHeap
  <2> QED
    BY <2>1, <2>2
<1> QED
  BY <1>1, Invariance, PTL

-----------------------------------------------------------------------------
(* No wake-up is lost. A sleeper's condition can come about only in a step   *)
(* of another thread, and each such step either wakes the sleeper or leaves  *)
(* somebody on the way to it.                                                *)

\* A step of t, awake, that goes somewhere and wakes nobody.
Quietly(t) ==
  /\ t \notin asleep /\ UNCHANGED <<phase, asleep>>
  /\ \A u \in Threads : u # t => pc'[u] = pc[u]

\* Sleepers may sleep on if what they wait for stays as it is.
LEMMA SleepersStay ==
  ASSUME NobodySleepsThrough,
         asleep' \subseteq asleep, phase' = phase, \A u \in asleep' : pc'[u] = pc[u],
         C \in asleep' => flag'.abandon = flag.abandon /\ copied' = copied,
         C \in asleep' /\ Servable' /\ pins' = 0 => OnTheWay' \/ (Servable /\ pins = 0 /\ ~OnTheWay),
         M \in asleep' /\ pc[M] = "doze" /\ parked = "SCANNING" => parked' = "SCANNING"
  PROVE  NobodySleepsThrough'
<1>1. C \in asleep' => \/ pc'[C] = "top" /\ phase' # "Marking" /\ ~flag'.abandon
                       \/ pc'[C] = "sleep" /\ ~Ready' /\ (Servable' /\ pins' = 0 => OnTheWay')
  BY DEF NobodySleepsThrough, Ready
<1>2. X \in asleep' => \/ pc'[X] = "waitIdle" /\ phase' # "Idle"
                       \/ pc'[X] = "waitEvacuated" /\ phase' = "Evacuating"
  BY DEF NobodySleepsThrough
<1>3. M \in asleep' => \/ pc'[M] = "waitIdle" /\ phase' # "Idle"
                       \/ pc'[M] = "waitMarked" /\ phase' = "Marking"
                       \/ pc'[M] = "waitEvacuated" /\ phase' = "Evacuating"
                       \/ pc'[M] = "doze" /\ parked' = "SCANNING"
  BY DEF NobodySleepsThrough
<1> QED
  BY <1>1, <1>2, <1>3 DEF NobodySleepsThrough

\* A notification leaves nobody asleep but a program waiting to be let go.
LEMMA NotifiedWake ==
  ASSUME Control, NobodySleepsThrough, WakeChanged, parked' = parked,
         \A u \in asleep' : pc'[u] = pc[u]
  PROVE  NobodySleepsThrough'
<1>1. C \notin asleep' /\ X \notin asleep'
  BY DEF Control, WakeChanged, C, X, TraceLabels, AbandonLabels, ServeLabels, Called,
    PauseLabels, ExitLabels
<1>2. M \in asleep' => pc'[M] = "doze" /\ parked' = "SCANNING"
  BY DEF NobodySleepsThrough, WakeChanged
<1> QED
  BY <1>1, <1>2 DEF NobodySleepsThrough

\* A thread that changes nothing another waits for, and is not on its way to serve.
LEMMA StepsQuietly ==
  ASSUME TypeOK, NobodySleepsThrough, NEW t \in Threads, Quietly(t),
         UNCHANGED <<parked, pins, copied>>, flag'.abandon = flag.abandon,
         ~(t = M /\ pc[M] = "tell"),
         ~(t = X /\ pc[X] \in {"quiesce", "abandon", "serve", "pinned", "claim"})
  PROVE  NobodySleepsThrough'
<1>1. OnTheWay => OnTheWay'
  BY DEF OnTheWay, Quietly, Threads, M, C, X
<1>2. Servable' <=> Servable
  BY DEF Servable, PausePhase, Quietly
<1>3. asleep' \subseteq asleep /\ phase' = phase /\ \A u \in asleep' : pc'[u] = pc[u]
  BY DEF TypeOK, Quietly
<1>4. \/ M \notin asleep' \/ pc[M] # "doze" \/ parked' = parked
  OBVIOUS
<1> QED
  BY <1>1, <1>2, <1>3, <1>4, SleepersStay

\* The steps of a pause end in a notification when they change the phase.
LEMMA PauseSleepers ==
  ASSUME IInv, NobodySleepsThrough, NEW t \in Threads, Pause(t)
  PROVE  NobodySleepsThrough'
<1> USE DEF IInv
<1>1. CASE PublishMarked(t) \/ PublishEvacuated(t)
  <2>1. /\ WakeChanged /\ t \notin asleep /\ parked' = parked
        /\ pc' = [pc EXCEPT ![t] = ret[t]]
    BY <1>1 DEF PublishMarked, PublishEvacuated, SetPhase, At, Return
  <2>2. \A u \in asleep' : pc'[u] = pc[u]
    BY <2>1 DEF WakeChanged, TypeOK, Control
  <2> QED
    BY <2>1, <2>2, NotifiedWake
<1>2. CASE ~PublishMarked(t) /\ ~PublishEvacuated(t)
  <2>1. /\ t \notin asleep /\ pc[t] \in Called
        /\ UNCHANGED <<phase, asleep, parked, pins, copied>>
        /\ flag'.abandon = flag.abandon
        /\ \E l : pc' = [pc EXCEPT ![t] = l]
    BY <1>2 DEF Pause, Safepoint, TakeWork, StopTracingAndArm, CountAndMoveRoots, ClearPoll,
      FixAndRelease, Disarm, At, Goto, Return, local, TypeOK, Called, PauseLabels
  <2>2. Quietly(t)
    BY <2>1 DEF Quietly, Control
  <2>3. pc[t] \notin {"tell", "quiesce", "abandon", "serve", "pinned", "claim"}
    BY <2>1 DEF Called, PauseLabels
  <2> QED
    BY <2>1, <2>2, <2>3, StepsQuietly
<1> QED
  BY <1>1, <1>2

\* The program's own steps, which find the collector awake or leave it nothing to do
\* but for the parking, after which the program tells it.
LEMMA ProgramSleepers ==
  ASSUME IInv, NobodySleepsThrough,
         \/ Poll \/ Allocate \/ AfterAllocation \/ Pin \/ Unpin \/ Overwrite \/ LoadBarrier
         \/ TraceStart \/ TraceFinish \/ BeginTrace \/ SyscallReturns
  PROVE  NobodySleepsThrough'
<1> USE DEF IInv
<1>1. M \in Threads
  BY DEF Threads
<1>2. CASE Pin \/ Unpin
  <2>1. pc[M] = "run" /\ UNCHANGED <<phase, flag, parked, pc, copied, asleep>>
    BY <1>2 DEF Pin, Unpin, Generated, At, control, local
  <2>2. ~Servable'
    BY <2>1 DEF Handshake, Servable, ParkedLabels
  <2> QED
    BY <2>1, <2>2, SleepersStay
<1>3. CASE Poll \/ Allocate \/ AfterAllocation \/ TraceStart \/ TraceFinish
  <2>1. /\ M \notin asleep /\ pc[M] # "tell"
        /\ UNCHANGED <<phase, flag, parked, pins, copied, asleep>>
        /\ \E l : pc' = [pc EXCEPT ![M] = l]
    BY <1>3 DEF Poll, Allocate, AfterAllocation, TraceStart, TraceFinish, Generated, At,
      Goto, Call, local
  <2>2. Quietly(M)
    BY <2>1 DEF Quietly, Control
  <2> QED
    BY <1>1, <2>1, <2>2, StepsQuietly DEF M, X
<1>4. CASE Overwrite \/ LoadBarrier
  <2>1. UNCHANGED <<phase, flag, parked, pins, pc, copied, asleep>>
    BY <1>4 DEF Overwrite, LoadBarrier, control, local
  <2> QED
    BY <2>1 DEF NobodySleepsThrough, Ready, Servable, PausePhase, OnTheWay
<1>5. CASE BeginTrace \/ SyscallReturns
  <2>1. /\ M \notin asleep /\ pc[M] # "tell" /\ flag'.abandon = flag.abandon
        /\ UNCHANGED <<phase, parked, pins, copied, asleep>>
        /\ \E l : pc' = [pc EXCEPT ![M] = l]
    BY <1>5 DEF BeginTrace, SyscallReturns, At, Goto, local, TypeOK
  <2>2. Quietly(M)
    BY <2>1 DEF Quietly, Control
  <2> QED
    BY <1>1, <2>1, <2>2, StepsQuietly DEF M, X
<1> QED
  BY <1>2, <1>3, <1>4, <1>5

\* The rest of the program's: a notification, a park, a wait.
LEMMA ParkingSleepers ==
  ASSUME IInv, NobodySleepsThrough,
         PublishMarking \/ Park \/ TellCollector \/ Unpark \/ Doze
  PROVE  NobodySleepsThrough'
<1> USE DEF IInv
<1>1. CASE PublishMarking \/ TellCollector
  <2>1. /\ WakeChanged /\ M \notin asleep /\ parked' = parked
        /\ \E l : pc' = [pc EXCEPT ![M] = l]
    BY <1>1 DEF PublishMarking, TellCollector, SetPhase, At, Goto
  <2>2. \A u \in asleep' : pc'[u] = pc[u]
    BY <2>1 DEF WakeChanged, TypeOK, Control
  <2> QED
    BY <2>1, <2>2, NotifiedWake
<1>2. CASE Park \/ Unpark
  <2>1. /\ M \notin asleep /\ UNCHANGED <<phase, flag, pins, copied, asleep>>
        /\ \E l : pc' = [pc EXCEPT ![M] = l]
        /\ \/ pc'[M] = "tell"
           \/ parked' = "RUNNING"
           \/ parked' = parked /\ pc[M] = "unpark" /\ pc'[M] = "doze"
    BY <1>2 DEF Park, Unpark, Generated, At, Goto, local, Control, Threads
  <2>2. \A u \in asleep' : pc'[u] = pc[u]
    BY <2>1 DEF TypeOK, Control
  <2>3. pc'[M] = "tell" => OnTheWay'
    BY DEF OnTheWay
  <2>4. parked' = "RUNNING" => ~Servable'
    BY DEF Servable
  <2>5. CASE parked' = parked /\ pc[M] = "unpark" /\ pc'[M] = "doze"
    <3>1. OnTheWay' <=> OnTheWay
      BY <2>1, <2>5 DEF OnTheWay, Control, Threads, M, X
    <3>2. Servable' <=> Servable
      BY <2>1, <2>5 DEF Servable, PausePhase
    <3> QED
      BY <2>1, <2>2, <3>1, <3>2, SleepersStay
  <2> QED
    BY <2>1, <2>2, <2>3, <2>4, <2>5, SleepersStay
<1>3. CASE Doze
  <2>1. /\ pc[M] = "doze" /\ M \notin asleep /\ UNCHANGED <<phase, flag, parked, pins, copied>>
        /\ \/ UNCHANGED asleep /\ \E l : pc' = [pc EXCEPT ![M] = l]
           \/ parked = "SCANNING" /\ asleep' = asleep \cup {M} /\ UNCHANGED pc
    BY <1>3 DEF Doze, At, WaitFor, Goto, control, local
  <2>2. CASE UNCHANGED asleep /\ \E l : pc' = [pc EXCEPT ![M] = l]
    <3>1. Quietly(M)
      BY <2>1, <2>2 DEF Quietly, Control
    <3> QED
      BY <2>1, <2>2, <3>1, StepsQuietly DEF M, X, Threads
  <2>3. CASE parked = "SCANNING" /\ asleep' = asleep \cup {M} /\ UNCHANGED pc
    BY <2>1, <2>3 DEF NobodySleepsThrough, Ready, Servable, PausePhase, OnTheWay, M, C, X
  <2> QED
    BY <2>1, <2>2, <2>3
<1> QED
  BY <1>1, <1>2, <1>3

\* Whoever waits for a phase looks at it and falls asleep in one step.
LEMMA WaitSleepers ==
  ASSUME IInv, NobodySleepsThrough, NEW t \in {M, X}, WaitPhase(t)
  PROVE  NobodySleepsThrough'
<1> USE DEF IInv
<1>1. /\ t \notin asleep /\ UNCHANGED <<phase, flag, parked, pins, copied>> /\ pc[t] \in WaitLabels
      /\ \/ UNCHANGED asleep /\ \E l : pc' = [pc EXCEPT ![t] = l]
         \/ /\ asleep' = asleep \cup {t} /\ UNCHANGED pc
            /\ \/ pc[t] = "waitIdle" /\ phase # "Idle"
               \/ pc[t] = "waitMarked" /\ phase = "Marking"
               \/ pc[t] = "waitEvacuated" /\ phase = "Evacuating"
  BY DEF WaitPhase, At, WaitFor, Return, control, local, WaitLabels
<1>2. CASE UNCHANGED asleep /\ \E l : pc' = [pc EXCEPT ![t] = l]
  <2>1. Quietly(t)
    BY <1>1, <1>2 DEF Quietly, Control
  <2>2. pc[t] \notin {"tell", "quiesce", "abandon", "serve", "pinned", "claim"}
    BY <1>1 DEF WaitLabels
  <2> QED
    BY <1>1, <2>1, <2>2, StepsQuietly DEF M, X, Threads
<1>3. CASE /\ asleep' = asleep \cup {t} /\ UNCHANGED pc
           /\ \/ pc[t] = "waitIdle" /\ phase # "Idle"
              \/ pc[t] = "waitMarked" /\ phase = "Marking"
              \/ pc[t] = "waitEvacuated" /\ phase = "Evacuating"
  <2>1. /\ UNCHANGED <<pc, phase, parked>>
        /\ Ready' <=> Ready
        /\ Servable' /\ pins' = 0 <=> Servable /\ pins = 0
        /\ OnTheWay' <=> OnTheWay
        /\ flag'.abandon <=> flag.abandon
    BY <1>1, <1>3 DEF Ready, Servable, PausePhase, OnTheWay
  <2>2. t = X => pc[t] # "waitMarked"
    BY DEF Control, X, ExitLabels, ServeLabels, Called, PauseLabels
  <2> QED
    BY <1>1, <1>3, <2>1, <2>2 DEF NobodySleepsThrough, M, C, X
<1> QED
  BY <1>1, <1>2, <1>3

\* Serving a parked program: the exit goes on trying as long as it may, and gives
\* the program back by coming round again.
LEMMA ServeSleepers ==
  ASSUME IInv, NobodySleepsThrough, NEW t \in {C, X}, Serve(t)
  PROVE  NobodySleepsThrough'
<1> USE DEF IInv
<1>1. /\ t \notin asleep /\ UNCHANGED <<phase, flag, pins, copied>> /\ asleep' \subseteq asleep
      /\ \E l : pc' = [pc EXCEPT ![t] = l]
  BY DEF Serve, IsServable, LookAtPins, Claim, Release, At, Goto, Call, local
<1>2. \A u \in asleep' : pc'[u] = pc[u]
  BY <1>1 DEF TypeOK, Control
<1>3. M \in asleep' /\ pc[M] = "doze" /\ parked = "SCANNING" => parked' = "SCANNING"
  BY DEF Serve, IsServable, LookAtPins, Claim, Release
<1>4. t = X /\ Servable' /\ pins' = 0 => OnTheWay'
  <2>1. CASE IsServable(X)
    BY <2>1 DEF IsServable, Goto, Servable, PausePhase, OnTheWay, DeclinedTo, Control, Threads, C, X
  <2>2. CASE LookAtPins(X)
    BY <2>2 DEF LookAtPins, Goto, OnTheWay, DeclinedTo, Control, Threads, C, X
  <2>3. CASE Claim(X)
    BY <2>3 DEF Claim, Servable
  <2>4. CASE Release(X)
    BY <2>4 DEF Release, Goto, OnTheWay, ServedTo, Control, Threads, C, X
  <2> QED
    BY <2>1, <2>2, <2>3, <2>4 DEF Serve
<1>5. t = C => C \notin asleep'
  BY <1>1
<1> QED
  BY <1>1, <1>2, <1>3, <1>4, <1>5, SleepersStay

\* The collector sleeps only when it has looked at all it waits for, under the lock.
LEMMA CollectorSleepers ==
  ASSUME IInv, NobodySleepsThrough, Collector
  PROVE  NobodySleepsThrough'
<1> USE DEF IInv
<1>1. C \in Threads /\ C \in {C, X}
  BY DEF Threads
<1>2. CASE AwaitTrace \/ Sleep
  <2>1. CASE UNCHANGED asleep
    <3>1. C \notin asleep' /\ UNCHANGED <<phase, flag, parked, pins, asleep>>
      BY <1>2, <2>1 DEF AwaitTrace, Sleep, At
    <3>2. \E l : pc' = [pc EXCEPT ![C] = l]
      BY <1>2, <2>1 DEF AwaitTrace, Sleep, At, WaitFor, Goto, control
    <3>3. \A u \in asleep' : pc'[u] = pc[u]
      BY <3>1, <3>2 DEF TypeOK, Control
    <3> QED
      BY <3>1, <3>3, SleepersStay
  <2>2. CASE ~UNCHANGED asleep
    <3>1. /\ asleep' = asleep \cup {C} /\ UNCHANGED <<phase, flag, parked, pins, pc>>
          /\ \/ pc[C] = "top" /\ phase # "Marking" /\ ~flag.abandon
             \/ pc[C] = "sleep" /\ ~Ready /\ ~Servable /\ UNCHANGED copied
      BY <1>2, <2>2 DEF AwaitTrace, Sleep, At, WaitFor, control, local
    <3>2. Servable' <=> Servable
      BY <3>1 DEF Servable, PausePhase
    <3>3. copied' = copied => (Ready' <=> Ready)
      BY <3>1 DEF Ready
    <3> QED
      BY <3>1, <3>2, <3>3 DEF NobodySleepsThrough, M, C, X
  <2> QED
    BY <2>1, <2>2
<1>3. CASE Serve(C)
  BY <1>1, <1>3, ServeSleepers
<1>4. CASE Pause(C)
  BY <1>1, <1>4, PauseSleepers
<1>5. CASE /\ C \notin asleep /\ WakeChanged /\ parked' = parked
           /\ \E l : pc' = [pc EXCEPT ![C] = l]
  <2>1. \A u \in asleep' : pc'[u] = pc[u]
    BY <1>5 DEF WakeChanged, TypeOK, Control
  <2> QED
    BY <1>5, <2>1, NotifiedWake
<1>6. CASE /\ C \notin asleep /\ UNCHANGED <<phase, parked, pins, asleep>>
           /\ (UNCHANGED pc \/ \E l : pc' = [pc EXCEPT ![C] = l])
  <2>1. \A u \in asleep' : pc'[u] = pc[u]
    BY <1>6 DEF TypeOK, Control
  <2> QED
    BY <1>6, <2>1, SleepersStay
<1>7. CASE PublishIdle
  BY <1>5, <1>7 DEF PublishIdle, SetPhase, At, Goto
<1>8. CASE \/ RequestThenPublish("request", "publishMarkDone", "MarkDone")
           \/ RequestThenPublish("request2", "publishEvacDone", "EvacDone")
  BY <1>5, <1>6, <1>8 DEF RequestThenPublish, SetPhase, At, Goto
<1>9. CASE MarkConcurrently \/ WaitOrServe \/ AfterWait \/ CopyBlock \/ CopyEnds \/ Sweep
  BY <1>6, <1>9 DEF MarkConcurrently, WaitOrServe, AfterWait, CopyBlock, CopyEnds, Sweep, At,
    Goto, control
<1>10. CASE Abandon
  BY <1>6, <1>10 DEF Abandon, Revert, DropLists, LowerFlag, ClearPoll, At, Goto
<1> QED
  BY <1>2, <1>3, <1>4, <1>7, <1>8, <1>9, <1>10 DEF Collector

\* The exit leaves the way to a parked program only when nothing is left to serve,
\* and tells the collector when it abandons the trace.
LEMMA ExitSleepers ==
  ASSUME IInv, NobodySleepsThrough, BeginExit \/ Exiting
  PROVE  NobodySleepsThrough'
<1> USE DEF IInv
<1>1. X \in Threads /\ X \in {C, X} /\ X \in {M, X}
  BY DEF Threads
<1>2. CASE BeginExit
  <2>1. UNCHANGED <<phase, flag, parked, pins, copied, asleep>>
    BY <1>2 DEF BeginExit, local
  <2>2. pc'[X] = "quiesce" /\ pc'[C] = pc[C] /\ (M \in asleep => pc'[M] = pc[M]) /\ X \notin asleep
    BY <1>2 DEF BeginExit, Generated, At, Goto, Control, Threads, M, C, X
  <2>3. \A u \in asleep' : pc'[u] = pc[u]
    BY <2>1, <2>2 DEF TypeOK, Threads
  <2> QED
    BY <2>1, <2>2, <2>3, SleepersStay DEF OnTheWay
<1>3. CASE Quiesce
  <2>1. /\ X \notin asleep /\ UNCHANGED <<phase, flag, parked, pins, copied, asleep>>
        /\ \E l : pc' = [pc EXCEPT ![X] = l]
    BY <1>3 DEF Quiesce, At, Goto, Call, local
  <2>2. \A u \in asleep' : pc'[u] = pc[u]
    BY <2>1 DEF TypeOK, Control
  <2>3. Servable => OnTheWay'
    <3>1. parked = "PARKED" => pc[M] # "returned"
      BY DEF Handshake, ParkedLabels
    <3>2. pc'[X] \in {"abandon", "serve"} => OnTheWay'
      BY DEF OnTheWay
    <3> QED
      BY <1>1, <1>3, <3>1, <3>2 DEF Quiesce, Servable, PausePhase, Goto, Control
  <2>4. Servable' => Servable
    BY <2>1 DEF Servable, PausePhase
  <2> QED
    BY <2>1, <2>2, <2>3, <2>4, SleepersStay
<1>4. CASE RaiseAbandon
  <2>1. /\ WakeChanged /\ X \notin asleep /\ parked' = parked
        /\ \E l : pc' = [pc EXCEPT ![X] = l]
    BY <1>4 DEF RaiseAbandon, At, Call
  <2>2. \A u \in asleep' : pc'[u] = pc[u]
    BY <2>1 DEF WakeChanged, TypeOK, Control
  <2> QED
    BY <2>1, <2>2, NotifiedWake
<1> QED
  BY <1>1, <1>2, <1>3, <1>4, WaitSleepers, ServeSleepers, PauseSleepers DEF Exiting

\* A spurious wakeup, the end, and stuttering.
LEMMA OtherSleepers ==
  ASSUME NobodySleepsThrough, (\E t \in Threads : Spurious(t)) \/ Exited \/ UNCHANGED vars
  PROVE  NobodySleepsThrough'
<1>1. asleep' \subseteq asleep /\ UNCHANGED <<phase, flag, parked, pins, pc, copied>>
  BY DEF Spurious, Exited, vars, control, local
<1>2. /\ Ready' <=> Ready
      /\ Servable' <=> Servable
      /\ OnTheWay' <=> OnTheWay
  BY <1>1 DEF Ready, Servable, PausePhase, OnTheWay
<1> QED
  BY <1>1, <1>2 DEF NobodySleepsThrough

\* Nobody misses a wake-up: no thread sleeps on a phase, an abandonment or a parked
\* program that is already there, unless another is on its way to it (set_phase,
\* wait_or_serve, release_parked, quiesce).
THEOREM NobodyMissesAWakeUp == Spec => []NobodySleepsThrough
<1>1. Init => NobodySleepsThrough
  BY DEF Init, NobodySleepsThrough
<1>2. ASSUME IInv, NobodySleepsThrough, [Next]_vars
      PROVE  NobodySleepsThrough'
  <2>1. M \in Threads /\ M \in {M, X}
    BY DEF Threads
  <2>2. CASE Mutator
    BY <1>2, <2>1, <2>2, ProgramSleepers, ParkingSleepers, WaitSleepers, PauseSleepers DEF Mutator
  <2>3. CASE Collector \/ BeginExit \/ Exiting
    BY <1>2, <2>3, CollectorSleepers, ExitSleepers
  <2>4. CASE (\E t \in Threads : Spurious(t)) \/ Exited \/ UNCHANGED vars
    BY <1>2, <2>4, OtherSleepers
  <2> QED
    BY <1>2, <2>2, <2>3, <2>4 DEF Next
<1> QED
  BY <1>1, <1>2, Invariance, PTL DEF Spec
=============================================================================
