------------------------------- MODULE Reclaim -------------------------------
(***************************************************************************)
(* The reclamation of one worker's heap (gc.rs, mark.rs, heap.rs,          *)
(* header.rs): coalescing reference counting with a nursery, the mark      *)
(* trace that runs beside the program, and the sweep that follows it. The  *)
(* worker's program allocates, loads and stores; the collector thread      *)
(* marks an object or reads a field at a time, and sweeps a block at a     *)
(* time. Nothing is moved in this model: no block is chosen for            *)
(* evacuation, which is what a trace of a heap that is not fragmented does.*)
(* TracePhases models how a pause comes about; here it comes at any        *)
(* safepoint at which it is due.                                           *)
(*                                                                         *)
(* An object stands for one line of its block: an address that, once its   *)
(* object is freed, is given to another.                                   *)
(***************************************************************************)
EXTENDS Integers, FiniteSets

CONSTANTS
  Objects, Fields, Locals, Null,
  Blocks, BlockOf,   \* the heap's blocks, and the one each object is in
  RcMax              \* RC_MAX: where a count sticks

ASSUME ReclaimAssumption ==
  /\ IsFiniteSet(Objects) /\ IsFiniteSet(Fields)
  /\ BlockOf \in [Objects -> Blocks]
  /\ RcMax \in Nat \ {0}
  /\ Null \notin Objects \cup Blocks

VARIABLES
  local,   \* the stack: what each local variable refers to
  hand,    \* the object ws_alloc is about to hand back, which no list, no
           \* register and no stack map names
  field,   \* the fields of every object
  live,    \* the objects allocated and not freed
  rc,      \* the reference count in each header
  bit,     \* the mark bit in each header ...
  parity,  \* ... and the value it has in a marked object
  flagged, \* the objects with FLAG_LOGGED in their header
  buf,     \* Buffers: logged, dec (a bag: how often decrements names each
           \* object), nursery, fresh, satb, dead (deferred_dead)
  phase,   \* the phase of the trace
  work,    \* the marker's list
  scan,    \* the object the marker is in, and the fields it has yet to read
  unswept, \* the blocks the sweep has not been to
  tlab,    \* the block the thread allocates out of, and what is left of its hole
  at,      \* where the program's thread is
  store,   \* the store the write barrier has just made way for
  then,    \* what the collection in progress is for
  back,    \* where the program goes on after it
  doomed,  \* history: the objects the trace's snapshot did not reach
  missed   \* history: those a sweep left unmarked in a block it passed over

headers == <<rc, bit, flagged>>
heap == <<field, live, headers>>
mutatorVars == <<at, store, then, back>>
markerVars == <<phase, work, scan, unswept>>
history == <<doomed, missed>>
vars == <<local, hand, heap, parity, buf, markerVars, tlab,
          mutatorVars, history>>

H == INSTANCE ManagedHeap

NoStore == [obj |-> Null, fld |-> Null, val |-> Null]
NoBuffer == [block |-> Null, hole |-> {}]

Init ==
  /\ H!HInit
  /\ rc = [o \in Objects |-> 0]
  /\ bit = [o \in Objects |-> FALSE]
  /\ parity = FALSE
  /\ flagged = {}
  /\ buf = [logged |-> {}, dec |-> [o \in Objects |-> 0], nursery |-> {},
            fresh |-> {}, satb |-> {}, dead |-> {}]
  /\ phase = "Idle"
  /\ work = {}
  /\ scan = [obj |-> Null, left |-> {}]
  /\ unswept = {}
  /\ tlab = NoBuffer
  /\ at = "run" /\ store = NoStore /\ then = "nothing" /\ back = "run"
  /\ doomed = {} /\ missed = {}

-----------------------------------------------------------------------------
(* Headers and counts.                                                      *)

Marked(o) == bit[o] = parity

\* mark.tracing: the trace is recording, from its start to its second pause.
Tracing == phase = "Marking" \/ (phase = "MarkDone" /\ then # "sweep")

Rooted(o) == \E x \in Locals : local[x] = o

References(S, c) == Cardinality({e \in S \X Fields : field[e[1]][e[2]] = c})

\* rc_inc n times: never past the top.
RcInc(r, n) == IF r + n > RcMax THEN RcMax ELSE r + n

\* rc_dec n times: never below zero, and never off the top.
RcDec(r, n) == IF r = RcMax THEN RcMax ELSE IF n > r THEN 0 ELSE r - n

\* What freeing S does to the heap. A freed object's bytes are not read again:
\* an address that is given out anew is zeroed first (open_hole).
Free(S, counts) ==
  /\ live' = live \ S
  /\ rc' = [o \in Objects |-> IF o \in S THEN 0 ELSE counts[o]]
  /\ field' = [o \in Objects |-> IF o \in S THEN H!Empty ELSE field[o]]
  /\ bit' = [o \in Objects |-> IF o \in S THEN FALSE ELSE bit[o]]
  /\ flagged' = flagged \ S
  /\ doomed' = doomed \ S
  /\ missed' = missed \ S

-----------------------------------------------------------------------------
(* The program.                                                             *)

Running == at = "run"

\* Every reference the program holds comes out of an object or the allocator.
Load(x, y, f) ==
  /\ Running /\ local[y] # Null
  /\ local' = [local EXCEPT ![x] = field[local[y]][f]]
  /\ UNCHANGED <<hand, heap, parity, buf, markerVars, tlab, mutatorVars, history>>

Forget(x) ==
  /\ Running /\ local[x] # Null
  /\ local' = [local EXCEPT ![x] = Null]
  /\ UNCHANGED <<hand, heap, parity, buf, markerVars, tlab, mutatorVars, history>>

Snapshot(o) == {field[o][f] : f \in Fields} \ {Null}

\* A barrier that feeds the counting and not the trace.
LogWithoutTrace(o) ==
  /\ flagged' = flagged \cup {o}
  /\ buf' = IF o \in flagged THEN buf
            ELSE [buf EXCEPT !.logged = @ \cup {o},
                             !.dec = [c \in Objects |-> @[c] + References({o}, c)]]

\* ws_log_object: the first store into an object in a cycle snapshots what the
\* object refers to; a new object is born logged, with nothing to snapshot.
LogObject(o) ==
  /\ flagged' = flagged \cup {o}
  /\ buf' = IF o \in flagged THEN buf
            ELSE [buf EXCEPT !.logged = @ \cup {o},
                             !.dec = [c \in Objects |-> @[c] + References({o}, c)],
                             !.satb = IF Tracing THEN @ \cup Snapshot(o) ELSE @]

\* emit_log_barrier in front of a store, ...
Barrier(x, f, v) ==
  /\ Running /\ local[x] # Null
  /\ LogObject(local[x])
  /\ store' = [obj |-> local[x], fld |-> f, val |-> v]
  /\ at' = "store"
  /\ UNCHANGED <<local, hand, field, live, rc, bit, parity, markerVars, tlab, then, back, history>>

\* ... and the store. There is no safepoint between the two.
Store ==
  /\ at = "store"
  /\ field' = [field EXCEPT ![store.obj][store.fld] = store.val]
  /\ store' = NoStore /\ at' = "run"
  /\ UNCHANGED <<local, hand, live, headers, parity, buf, markerVars, tlab, then, back, history>>

-----------------------------------------------------------------------------
(* Allocation.                                                              *)

InBlock(b) == {o \in Objects : BlockOf[o] = b}
Recyclable(b) == InBlock(b) \cap live # {} /\ ~InBlock(b) \subseteq live
FreeBlock(b) == InBlock(b) \cap live = {}

\* What the thread may allocate out of: its buffer, or once that is used up
\* (refill_tlab) the hole of a recyclable block, or else of a free one. The
\* block in hand is given back first, so it may be the one reserved.
Buffers ==
  IF tlab.hole # {} THEN {tlab}
  ELSE {[block |-> b, hole |-> InBlock(b) \ live] :
          b \in IF \E b \in Blocks : Recyclable(b) THEN {b \in Blocks : Recyclable(b)}
                ELSE {b \in Blocks : FreeBlock(b)}}

\* ws_alloc, as far as the safepoint on_allocation begins with: the object is
\* born logged, marked, with a count of zero, and is on no list in that pause.
Allocate ==
  /\ Running
  /\ \E t \in Buffers : \E o \in t.hole :
       /\ hand' = o
       /\ live' = live \cup {o}
       /\ rc' = [rc EXCEPT ![o] = 0]
       /\ bit' = [bit EXCEPT ![o] = parity]
       /\ flagged' = flagged \cup {o}
       /\ tlab' = [t EXCEPT !.hole = @ \ {o}]
  /\ at' = IF phase = "MarkDone" THEN "mark" ELSE "enroll"
  /\ back' = "enroll"
  /\ UNCHANGED <<local, field, parity, buf, markerVars, store, then, history>>

\* blocking gives the buffer back before the program parks.
RetireBuffer ==
  /\ Running /\ tlab # NoBuffer
  /\ tlab' = NoBuffer
  /\ UNCHANGED <<local, hand, heap, parity, buf, markerVars, mutatorVars, history>>

\* Enrolled for its grace, and not for the increments of its fields.
EnrollFreshOnly == buf' = [buf EXCEPT !.fresh = @ \cup {hand}]

EnrollHand == buf' = [buf EXCEPT !.fresh = @ \cup {hand}, !.logged = @ \cup {hand}]

\* The rest of on_allocation: a collection may be due, and a trace on top of it,
\* if no trace is running once the collection is over.
Enroll ==
  /\ at = "enroll"
  /\ EnrollHand
  /\ \/ at' = "assign" /\ then' = "nothing"
     \/ at' = "settle" /\ then' = "nothing"
     \/ at' = "settle" /\ then' = "due"
  /\ back' = "assign"
  /\ UNCHANGED <<local, hand, heap, parity, markerVars, tlab, store, history>>

\* ws_alloc returns into generated code, and the object is on the stack.
Assign(x) ==
  /\ at = "assign"
  /\ local' = [local EXCEPT ![x] = hand]
  /\ hand' = Null /\ at' = "run" /\ back' = "run"
  /\ UNCHANGED <<heap, parity, buf, markerVars, tlab, store, then, history>>

-----------------------------------------------------------------------------
(* gc::collect, in three parts; the sweep of an earlier trace may be running *)
(* beside any of them, and so may the marker.                                *)

\* The increments, then the decrements.
Counted ==
  [o \in Objects |-> RcDec(RcInc(rc[o], References(buf.logged, o)), buf.dec[o])]

\* Settle the counts, and judge who is dead: an object some
\* decrement took to zero, or a nursery object nothing refers to, if it has
\* left the stack. An object with a count graduates from the nursery.
Settle ==
  /\ at = "settle" /\ at' = "free"
  /\ rc' = Counted
  /\ flagged' = flagged \ buf.logged
  /\ LET gone == {o \in Objects : Counted[o] = 0 /\ ~Rooted(o)} IN
     buf' = [buf EXCEPT !.logged = {}, !.dec = [o \in Objects |-> 0],
                        !.dead = @ \cup (gone \cap ({o \in Objects : buf.dec[o] > 0} \cup buf.nursery)),
                        !.nursery = {o \in @ : Counted[o] = 0 /\ Rooted(o)}]
  /\ UNCHANGED <<local, hand, field, live, bit, parity, markerVars, tlab, store, then, back, history>>

\* Free one of the dead, unless it is not dead after all, or was freed before:
\* its references go with it, and may be the last to what they name.
FreeOneSparing(o, spared) ==
  /\ at = "free" /\ ~Tracing /\ o \in buf.dead
  /\ IF rc[o] > 0 \/ Rooted(o) \/ o \notin live
     THEN /\ buf' = [buf EXCEPT !.dead = @ \ {o}]
          /\ UNCHANGED <<heap, history>>
     ELSE LET left == [c \in Objects |-> RcDec(rc[c], References({o}, c))]
              orphans == {c \in Snapshot(o) : left[c] = 0 /\ ~Rooted(c) /\ c \notin spared}
          IN /\ buf' = [buf EXCEPT !.dead = (@ \ {o}) \cup orphans]
             /\ Free({o}, left)
  /\ UNCHANGED <<local, hand, parity, markerVars, tlab, mutatorVars>>

FreeOne(o) == FreeOneSparing(o, buf.fresh)

\* A trace from the stack alone.
BeginTraceFromStack(roots) ==
  /\ parity' = ~parity
  /\ work' = {o \in Objects : Rooted(o)}
  /\ phase' = "Marking"
  /\ doomed' = live \ H!ReachableFrom(roots)
  /\ UNCHANGED <<scan, unswept, missed>>

\* start_with_roots, in the pause of the collection it follows: everything is
\* unmarked by turning the parity round, and the stack, the nursery and the
\* fresh objects are handed to the marker.
BeginTrace(roots) ==
  /\ parity' = ~parity
  /\ work' = roots
  /\ phase' = "Marking"
  /\ doomed' = live \ H!ReachableFrom(roots)
  /\ UNCHANGED <<scan, unswept, missed>>

\* finish_without_evacuation: the sweep may begin.
BeginSweep ==
  /\ phase' = "Sweeping"
  /\ unswept' = Blocks
  /\ UNCHANGED <<parity, work, scan, history>>

\* A collection that ends by starting a trace.
Begins == then = "begin" \/ (then = "due" /\ phase = "Idle")

\* The newcomers nothing refers to yet join the nursery; then the pause goes on
\* to what it is for.
CollectEnds ==
  /\ at = "free" /\ (Tracing \/ buf.dead = {})
  /\ LET nursery == buf.nursery \cup {o \in buf.fresh : rc[o] = 0} IN
     /\ buf' = [buf EXCEPT !.fresh = {},
                           !.nursery = IF then = "sweep" THEN {o \in nursery : Marked(o)} ELSE nursery]
     /\ \/ Begins /\ BeginTrace({o \in Objects : Rooted(o)} \cup buf.fresh \cup nursery)
        \/ then = "sweep" /\ BeginSweep
        \/ then # "sweep" /\ ~Begins /\ UNCHANGED <<parity, markerVars, history>>
  /\ at' = back /\ then' = "nothing"
  /\ UNCHANGED <<local, hand, heap, tlab, store, back>>

\* gc_collect.
Collect ==
  /\ Running
  /\ at' = "settle" /\ then' = "nothing" /\ back' = "run"
  /\ UNCHANGED <<local, hand, heap, parity, buf, markerVars, tlab, store, history>>

-----------------------------------------------------------------------------
(* The trace: gc_trace and its halves, the marker, the second pause.        *)

\* gc_trace_start from rest: a collection, and a trace from its roots. gc_trace
\* then waits for the end of it.
TraceStart ==
  /\ Running /\ phase = "Idle"
  /\ at' = "settle" /\ then' = "begin" /\ back' \in {"run", "wait"}
  /\ UNCHANGED <<local, hand, heap, parity, buf, markerVars, tlab, store, history>>

\* gc_trace_finish, and gc_trace when a trace is already marking. (gc_trace in a
\* sweep waits like gc_trace_finish, and only then starts a trace of its own.)
TraceFinish ==
  /\ Running /\ phase # "Idle"
  /\ at' = "wait" /\ back' = "wait"
  /\ UNCHANGED <<local, hand, heap, parity, buf, markerVars, tlab, store, then, history>>

TraceFinished ==
  /\ at = "wait" /\ phase = "Idle"
  /\ at' = "run" /\ back' = "run"
  /\ UNCHANGED <<local, hand, heap, parity, buf, markerVars, tlab, store, then, history>>

\* A pause at a poll, in gc_trace_finish, or on behalf of a parked program.
Safepoint ==
  /\ at \in {"run", "wait"} /\ phase = "MarkDone"
  /\ at' = "mark" /\ back' = at
  /\ UNCHANGED <<local, hand, heap, parity, buf, markerVars, tlab, store, then, history>>

\* mark_all is run by the collector thread, and by the second pause.
MarkerRuns == phase = "Marking" \/ at = "mark"

\* claim_mark: an object is scanned by whoever turns its bit.
Claim(o) ==
  /\ MarkerRuns /\ scan.left = {} /\ o \in work
  /\ work' = work \ {o}
  /\ IF Marked(o) THEN UNCHANGED <<bit, scan>>
     ELSE bit' = [bit EXCEPT ![o] = parity] /\ scan' = [obj |-> o, left |-> Fields]
  /\ UNCHANGED <<local, hand, field, live, rc, flagged, parity, buf, phase, unswept, tlab, mutatorVars, history>>

\* Read one field, which the program may have changed since the snapshot.
ReadField(f) ==
  /\ MarkerRuns /\ f \in scan.left
  /\ scan' = IF scan.left = {f} THEN [obj |-> Null, left |-> {}] ELSE [scan EXCEPT !.left = @ \ {f}]
  /\ work' = work \cup ({field[scan.obj][f]} \ {Null})
  /\ UNCHANGED <<local, hand, heap, parity, buf, phase, unswept, tlab, mutatorVars, history>>

MarkerIdle == scan.left = {} /\ work = {}

\* Take the barrier's record; if it is empty the marking is over.
TakeRecord ==
  /\ phase = "Marking" /\ MarkerIdle
  /\ IF buf.satb = {} THEN phase' = "MarkDone" /\ UNCHANGED <<work, buf>>
     ELSE /\ work' = buf.satb
          /\ buf' = [buf EXCEPT !.satb = {}]
          /\ UNCHANGED phase
  /\ UNCHANGED <<local, hand, heap, parity, scan, unswept, tlab, mutatorVars, history>>

\* finish_marking goes on until the record is empty; then it gives back the
\* allocation buffer -- a parked program has given back its own -- and settles
\* the counts.
FinishMarking ==
  /\ at = "mark" /\ MarkerIdle
  /\ IF buf.satb # {}
     THEN /\ work' = buf.satb
          /\ buf' = [buf EXCEPT !.satb = {}]
          /\ UNCHANGED <<tlab, at, then>>
     ELSE /\ at' = "settle" /\ then' = "sweep"
          /\ tlab' = NoBuffer
          /\ UNCHANGED <<work, buf>>
  /\ UNCHANGED <<local, hand, heap, parity, phase, scan, unswept, store, back, history>>

-----------------------------------------------------------------------------
(* The sweep.                                                               *)

\* Blocks with room in them are passed over as well.
SweepFullBlock(b) ==
  /\ phase = "Sweeping" /\ b \in unswept
  /\ unswept' = unswept \ {b}
  /\ IF b = tlab.block \/ Recyclable(b)
     THEN UNCHANGED <<heap, history>>
     ELSE Free({o \in InBlock(b) \cap live : ~Marked(o)}, rc)
  /\ UNCHANGED <<local, hand, parity, buf, phase, work, scan, tlab, mutatorVars>>

\* sweep_block: free what the trace left unmarked, in a block no allocator holds.
SweepBlock(b) ==
  /\ phase = "Sweeping" /\ b \in unswept
  /\ unswept' = unswept \ {b}
  /\ LET garbage == {o \in InBlock(b) \cap live : ~Marked(o)} IN
     IF b = tlab.block
     THEN missed' = missed \cup garbage /\ UNCHANGED <<heap, doomed>>
     ELSE Free(garbage, rc)
  /\ UNCHANGED <<local, hand, parity, buf, phase, work, scan, tlab, mutatorVars>>

SweepEnds ==
  /\ phase = "Sweeping" /\ unswept = {}
  /\ phase' = "Idle"
  /\ UNCHANGED <<local, hand, heap, parity, buf, work, scan, unswept, tlab, mutatorVars, history>>

-----------------------------------------------------------------------------
Program ==
  \/ \E x, y \in Locals, f \in Fields : Load(x, y, f) \/ Barrier(x, f, local[y])
  \/ \E x \in Locals : Forget(x) \/ Assign(x)
  \/ \E x \in Locals, f \in Fields : Barrier(x, f, Null)
  \/ Store \/ Allocate \/ RetireBuffer \/ Enroll
  \/ Settle \/ CollectEnds \/ Collect
  \/ \E o \in Objects : FreeOne(o)
  \/ TraceStart \/ TraceFinish \/ TraceFinished \/ Safepoint \/ FinishMarking

Collector ==
  \/ \E o \in Objects : Claim(o)
  \/ \E f \in Fields : ReadField(f)
  \/ TakeRecord
  \/ \E b \in Blocks : SweepBlock(b)
  \/ SweepEnds

Next == Program \/ Collector

Spec == Init /\ [][Next]_vars

-----------------------------------------------------------------------------
\* What the buffers, the marker's scan and the allocation window may hold.
BufType ==
  [logged : SUBSET Objects, dec : [Objects -> 0 .. Cardinality(Objects \X Fields)],
   nursery : SUBSET Objects, fresh : SUBSET Objects, satb : SUBSET Objects,
   dead : SUBSET Objects]
ScanType == [obj : Objects \cup {Null}, left : SUBSET Fields]
TlabType == [block : Blocks \cup {Null}, hole : SUBSET Objects]

TypeOK ==
  /\ local \in [Locals -> Objects \cup {Null}]
  /\ hand \in Objects \cup {Null}
  /\ field \in [Objects -> [Fields -> Objects \cup {Null}]]
  /\ live \subseteq Objects /\ flagged \subseteq Objects
  /\ rc \in [Objects -> 0 .. RcMax]
  /\ bit \in [Objects -> BOOLEAN] /\ parity \in BOOLEAN
  /\ buf \in BufType
  /\ phase \in {"Idle", "Marking", "MarkDone", "Sweeping"}
  /\ work \subseteq Objects /\ unswept \subseteq Blocks
  /\ scan \in ScanType
  /\ tlab \in TlabType
  /\ at \in {"run", "store", "enroll", "assign", "mark", "settle", "free", "wait"}
  /\ then \in {"nothing", "due", "begin", "sweep"} /\ back \in {"run", "enroll", "assign", "wait"}

Listed == buf.logged \cup {o \in Objects : buf.dec[o] > 0} \cup buf.nursery
            \cup buf.fresh \cup buf.satb \cup buf.dead \cup work

\* No list of the collector ever names an object that has been freed: it would
\* be counted, marked or freed again as whatever is at that address by then.
ListsNameLive == Listed \subseteq live /\ (scan.left # {} => scan.obj \in live)

\* A count is never too low: at every moment it covers the references of every
\* object the program can reach and the barrier has not logged, and the
\* decrements that are still to come.
CountsCover ==
  \A o \in live :
    rc[o] = RcMax \/ rc[o] >= References(H!Reachable \ buf.logged, o) + buf.dec[o]

\* What is reachable when a trace has finished marking is marked, and so is all
\* that counting still has in hand: counting and the sweep, which run at the
\* same time, never free the same object.
SweepSparesTheCounted ==
  phase = "Sweeping" =>
    \A o \in H!Reachable \cup Listed : Marked(o)

\* The trace reclaims everything its snapshot did not reach, except what the
\* sweep passed over.
TraceReclaims == phase = "Idle" => doomed \subseteq missed

\* No list of the collector's names what has been freed, or what the sweep is
\* about to free: counting and the sweep take nothing from under each other.
ListsAreSafe == TypeOK /\ ListsNameLive /\ SweepSparesTheCounted

\* The heap keeps the promise of ManagedHeap.
KeepsPromise == H!HSpec
=============================================================================
