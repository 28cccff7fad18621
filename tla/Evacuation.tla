------------------------------ MODULE Evacuation ------------------------------
(***************************************************************************)
(* One trace that moves objects (evacuate.rs, mark.rs, gc.rs, heap.rs,     *)
(* header.rs): from its first pause, through the marking that remembers    *)
(* the slots pointing into the block being emptied, the second pause, the  *)
(* copying that the collector thread and the program's load barrier do     *)
(* side by side, the pause that repoints every reference and releases the  *)
(* block, to the sweep. Counting frees nothing meanwhile (Reclaim models   *)
(* it); what it lists is kept here as the addresses it names.              *)
(*                                                                         *)
(* An address is an object with the place it is at: where the trace found  *)
(* it, or the copy either side makes of it. An object that comes into      *)
(* being during the trace is never in the block being emptied.             *)
(*                                                                         *)
(* The load barrier is armed for the whole process while any worker moves  *)
(* objects. If another worker does while this one still marks, a load here *)
(* moves an object out of the block before the second pause: `early` says  *)
(* that has happened. From then on a forwarding word may be read, and even *)
(* written, as a header by the marker, the counts and the log barrier; the *)
(* model goes on with the case in which what is in the word looks like a   *)
(* marked object's header and nobody writes to it, and the properties are  *)
(* about what comes before.                                                *)
(***************************************************************************)
EXTENDS Integers, FiniteSets

CONSTANTS
  Objects, Fields, Locals, Null,
  Cset,      \* the objects in the block being emptied
  Fresh,     \* the objects that do not exist yet when the trace starts
  Loose,     \* those that exist then, but refer to nothing and nothing to them
  State,     \* the object an rpc worker whose heap this is keeps its state in
  MaxStores  \* how often the program stores

ASSUME EvacuationAssumption ==
  /\ IsFiniteSet(Objects) /\ IsFiniteSet(Fields)
  /\ Cset \subseteq Objects /\ Fresh \subseteq Objects \ Cset
  /\ Loose \subseteq Objects \ (Cset \cup Fresh)
  /\ State \in Objects \ (Fresh \cup Loose)
  /\ Null \notin Objects \cup Objects \X {"here", "program", "collector"}
  /\ "state" \notin Locals
  /\ MaxStores \in Nat

Places == {"here", "program", "collector"}
At(o) == <<o, "here">>
Addresses == {At(o) : o \in Objects} \cup Cset \X (Places \ {"here"})
Obj(a) == a[1]

VARIABLES
  local,    \* the stack: what each local variable refers to
  hand,     \* what ws_alloc is about to hand back
  state,    \* worker_main's own copy of the reference to the worker's state
  pinned,   \* ... and the slot it is pinned in
  field,    \* the fields at every address
  alloc,    \* the addresses in use
  fwd,      \* the forwarding word in each header
  marked,   \* the addresses with the mark bit
  flagged,  \* the addresses with FLAG_LOGGED
  buf,      \* Buffers: logged, satb, scan (to_scan), named (the rest of them)
  noted,    \* State.remembered: the slots that pointed into the block
  phase,    \* the phase of the trace
  work,     \* the marker's list
  visit,    \* the object the marker is in, and the fields it has yet to read
  prog,     \* where the program is, and what it has in its registers
  coll,     \* the objects evacuate_block has yet to move, and the copy in hand
  stores,   \* how often the program has stored
  early,    \* history: a load has moved something while this trace still marked
  image     \* history: what the program last stored in each field

heap == <<field, alloc, fwd, marked, flagged>>
roots == <<local, hand, state, pinned>>
trace == <<noted, phase, work, visit>>
vars == <<roots, heap, buf, trace, prog, coll, stores, early, image>>

Idle == [at |-> "run", task |-> "none", reg |-> Null, dst |-> Null,
         obj |-> Null, fld |-> Null, val |-> Null, left |-> {}, snap |-> {}]
NoCopy == [on |-> FALSE, queue |-> {}, obj |-> Null, copies |-> {}]

-----------------------------------------------------------------------------
(* The mapping to the abstract heap, and what the program can reach.        *)

Named(a) == IF a = Null THEN Null ELSE IF a \in alloc THEN Obj(a) ELSE "gone"

H == INSTANCE ManagedHeap WITH
       Locals <- Locals \cup {"state"},
       local <- [x \in Locals \cup {"state"} |-> IF x = "state" THEN Named(pinned) ELSE Named(local[x])],
       hand <- Named(hand), field <- image, live <- {Obj(a) : a \in alloc}

Rooted == ({local[x] : x \in Locals} \cup {pinned}) \ {Null}

\* start_with_roots has just run, at a point where no stack map names anything:
\* what is pinned is the marker's work, nothing is marked, and the collection
\* before it left nothing logged.
Init ==
  /\ alloc = {At(o) : o \in Objects \ Fresh}
  /\ LET linked == {At(o) : o \in Objects \ (Fresh \cup Loose)} IN
     field \in {g \in [Addresses -> [Fields -> linked \cup {Null}]] :
                   \A a \in Addresses \ linked : g[a] = [f \in Fields |-> Null]}
  /\ local = [x \in Locals |-> Null]
  /\ hand = Null
  /\ state = At(State) /\ pinned = At(State)
  /\ fwd = [a \in Addresses |-> Null]
  /\ marked = {} /\ flagged = {}
  /\ buf = [logged |-> {}, satb |-> {}, scan |-> {},
            named |-> {}]
  /\ noted = {}
  /\ phase = "Marking"
  /\ work = Rooted
  /\ visit = [obj |-> Null, left |-> {}]
  /\ prog = Idle /\ coll = NoCopy /\ stores = 0 /\ early = FALSE
  /\ image = [o \in Objects |-> [f \in Fields |->
                IF field[At(o)][f] = Null THEN Null ELSE Obj(field[At(o)][f])]]

\* mark.tracing and this worker's evacuating flag.
Tracing == phase \in {"Marking", "MarkDone"}
Moving == phase \in {"Evacuating", "EvacDone"}

\* is_evacuating: the block is, whatever has become of the object.
InCset(a) == a # Null /\ Obj(a) \in Cset /\ a = At(Obj(a))

Forwarded(a) == fwd[a] # Null
WhereItIs(a) == IF a # Null /\ Forwarded(a) THEN fwd[a] ELSE a

-----------------------------------------------------------------------------
(* The program: loads and the load barrier.                                 *)

Running == prog.at = "run"

\* The barrier tests a byte that any worker's evacuation raises, this one's or
\* another's. Where it would change nothing, armed or not, it is left out.
Load(x, y, f) ==
  /\ Running /\ local[y] # Null
  /\ LET v == field[local[y]][f] IN
     \/ /\ v # Null /\ (Moving \/ InCset(v))
        /\ prog' = [Idle EXCEPT !.at = "resolve", !.task = "load", !.reg = v, !.dst = x]
        /\ early' = (early \/ ~Moving)
        /\ UNCHANGED local
     \/ /\ v = Null \/ ~Moving
        /\ local' = [local EXCEPT ![x] = v] /\ UNCHANGED <<prog, early>>
  /\ UNCHANGED <<hand, state, pinned, heap, buf, trace, coll, stores, image>>

Forget(x) ==
  /\ Running /\ local[x] # Null
  /\ local' = [local EXCEPT ![x] = Null]
  /\ UNCHANGED <<hand, state, pinned, heap, buf, trace, prog, coll, stores, early, image>>

\* worker_main calls a method with the reference init returned.
Call(x) ==
  /\ Running
  /\ local' = [local EXCEPT ![x] = state]
  /\ UNCHANGED <<hand, state, pinned, heap, buf, trace, prog, coll, stores, early, image>>

\* The barrier answers v: the load it was for is done, or one more field of the
\* object being logged is known.
Answer(v) ==
  /\ local' = IF prog.task = "load" THEN [local EXCEPT ![prog.dst] = v] ELSE local
  /\ prog' = IF prog.task = "load" THEN Idle
             ELSE [prog EXCEPT !.at = "log", !.reg = Null, !.snap = @ \cup {v}]

\* A barrier that leaves the moving to the collector.
AnswerUnmoved ==
  /\ prog.at = "resolve"
  /\ Answer(WhereItIs(prog.reg))
  /\ UNCHANGED <<hand, state, pinned, heap, buf, trace, coll, stores, early, image>>

\* ws_resolve: moved already, staying put, or for this thread to move.
Resolve ==
  /\ prog.at = "resolve"
  /\ IF Forwarded(prog.reg) \/ ~InCset(prog.reg)
     THEN Answer(WhereItIs(prog.reg))
     ELSE prog' = [prog EXCEPT !.at = "copy"] /\ UNCHANGED local
  /\ UNCHANGED <<hand, state, pinned, heap, buf, trace, coll, stores, early, image>>

\* The bytes go across, and the header with them -- which by now may hold the
\* forwarding word of the other side.
CopyTo(a, copy) ==
  /\ alloc' = alloc \cup {copy}
  /\ field' = [field EXCEPT ![copy] = field[a]]
  /\ fwd' = [fwd EXCEPT ![copy] = fwd[a]]
  /\ marked' = IF a \in marked THEN marked \cup {copy} ELSE marked
  /\ flagged' = IF a \in flagged THEN flagged \cup {copy} ELSE flagged

\* free_object of a copy that lost: a tombstone is set in its header first, and
\* if that is an address the bit may be in it already, and then nothing happens.
Discard(copy) ==
  /\ \/ alloc' = alloc \ {copy}
     \/ Forwarded(copy) /\ UNCHANGED alloc
  /\ UNCHANGED <<field, fwd, marked, flagged>>

\* evacuate_one copies ...
EvacuateOne ==
  /\ prog.at = "copy"
  /\ IF Forwarded(prog.reg)
     THEN Answer(fwd[prog.reg]) /\ UNCHANGED heap
     ELSE /\ prog' = [prog EXCEPT !.at = "memcpy"] /\ UNCHANGED <<local, heap>>
  /\ UNCHANGED <<hand, state, pinned, buf, trace, coll, stores, early, image>>

MemCopy ==
  /\ prog.at = "memcpy"
  /\ CopyTo(prog.reg, <<Obj(prog.reg), "program">>)
  /\ prog' = [prog EXCEPT !.at = "forward"]
  /\ UNCHANGED <<local, hand, state, pinned, buf, trace, coll, stores, early, image>>

\* ... and try_forward decides whose copy it is.
Forward ==
  /\ prog.at = "forward"
  /\ LET copy == <<Obj(prog.reg), "program">> IN
     IF Forwarded(prog.reg)
     THEN Discard(copy) /\ Answer(fwd[prog.reg]) /\ UNCHANGED buf
     ELSE /\ fwd' = [fwd EXCEPT ![prog.reg] = copy]
          /\ marked' = marked \cup {copy}
          /\ buf' = [buf EXCEPT !.scan = @ \cup {copy}]
          /\ Answer(copy) /\ UNCHANGED <<field, alloc, flagged>>
  /\ UNCHANGED <<hand, state, pinned, trace, coll, stores, early, image>>

-----------------------------------------------------------------------------
(* The program: stores and allocation.                                      *)

\* emit_log_barrier and ws_log_object: the first store into an object since the
\* last collection records what its fields hold. While objects move, each is
\* resolved first.
Barrier(x, f, v) ==
  /\ Running /\ local[x] # Null /\ stores < MaxStores
  /\ LET o == local[x]
         snapshot == {field[o][g] : g \in Fields} \ {Null}
         slow == o \notin flagged /\ Moving IN
     /\ prog' = [Idle EXCEPT !.at = IF slow THEN "log" ELSE "store", !.task = "log",
                             !.left = IF slow THEN Fields ELSE {},
                             !.obj = o, !.fld = f, !.val = v]
     /\ flagged' = flagged \cup {o}
     /\ buf' = IF o \in flagged \/ slow THEN buf
               ELSE [buf EXCEPT !.logged = @ \cup {o}, !.named = @ \cup snapshot,
                                !.satb = IF Tracing THEN @ \cup snapshot ELSE @]
  /\ UNCHANGED <<roots, field, alloc, fwd, marked, trace, coll, stores, early, image>>

LogField(f) ==
  /\ prog.at = "log" /\ f \in prog.left
  /\ LET v == field[prog.obj][f] IN
     prog' = [prog EXCEPT !.left = @ \ {f},
                          !.at = IF v = Null THEN "log" ELSE "resolve", !.reg = v]
  /\ UNCHANGED <<roots, heap, buf, trace, coll, stores, early, image>>

Log ==
  /\ prog.at = "log" /\ prog.left = {}
  /\ buf' = [buf EXCEPT !.logged = @ \cup {prog.obj}, !.named = @ \cup prog.snap]
  /\ prog' = [prog EXCEPT !.at = "store"]
  /\ UNCHANGED <<roots, heap, trace, coll, stores, early, image>>

Store ==
  /\ prog.at = "store"
  /\ field' = [field EXCEPT ![prog.obj][prog.fld] = prog.val]
  /\ image' = [image EXCEPT ![Obj(prog.obj)][prog.fld] =
                 IF prog.val = Null THEN Null ELSE Obj(prog.val)]
  /\ stores' = stores + 1
  /\ prog' = Idle
  /\ UNCHANGED <<roots, alloc, fwd, marked, flagged, buf, trace, coll, early>>

\* ws_alloc: born marked and logged, and in nobody's list during the pause that
\* on_allocation may begin with.
Allocate(o) ==
  /\ Running /\ o \in Fresh /\ At(o) \notin alloc
  /\ hand' = At(o)
  /\ alloc' = alloc \cup {At(o)}
  /\ marked' = marked \cup {At(o)} /\ flagged' = flagged \cup {At(o)}
  /\ prog' = [Idle EXCEPT !.at = "enroll"]
  /\ UNCHANGED <<local, state, pinned, field, fwd, buf, trace, coll, stores, early, image>>

Enroll ==
  /\ prog.at = "enroll"
  /\ buf' = [buf EXCEPT !.logged = @ \cup {hand}, !.named = @ \cup {hand}]
  /\ prog' = [prog EXCEPT !.at = "assign"]
  /\ UNCHANGED <<roots, heap, trace, coll, stores, early, image>>

Assign(x) ==
  /\ prog.at = "assign"
  /\ local' = [local EXCEPT ![x] = hand] /\ hand' = Null
  /\ prog' = Idle
  /\ UNCHANGED <<state, pinned, heap, buf, trace, coll, stores, early, image>>

\* Counting that has nothing looked at again.
CountedUnscanned == [buf EXCEPT !.logged = {}]

\* Counting while frees wait: what was logged is to be looked at again when the
\* references are repointed, and the barrier is armed anew.
Counted == [buf EXCEPT !.logged = {}, !.scan = @ \cup buf.logged]

\* gc_collect, or the collection an allocation brings about; neither happens
\* while objects move.
Collect ==
  /\ prog.at \in {"run", "assign"} /\ Tracing
  /\ buf' = Counted /\ flagged' = flagged \ buf.logged
  /\ UNCHANGED <<roots, field, alloc, fwd, marked, trace, prog, coll, stores, early, image>>

-----------------------------------------------------------------------------
(* The marker: the collector thread, and after it the second pause.         *)

MarkerRuns == phase = "Marking" \/ prog.at = "mark"

Claim(a) ==
  /\ MarkerRuns /\ visit.left = {} /\ a \in work
  /\ work' = work \ {a}
  /\ IF a \in marked \/ Forwarded(a) THEN UNCHANGED <<marked, visit>>
     ELSE marked' = marked \cup {a} /\ visit' = [obj |-> a, left |-> Fields]
  /\ UNCHANGED <<roots, field, alloc, fwd, flagged, buf, noted, phase, prog, coll, stores, early, image>>

\* mark_all reads a field, and notes the slot if it points into the block.
ReadField(f) ==
  /\ MarkerRuns /\ f \in visit.left
  /\ LET v == field[visit.obj][f] IN
     /\ work' = work \cup ({v} \ {Null})
     /\ noted' = IF InCset(v) THEN noted \cup {<<visit.obj, f>>} ELSE noted
  /\ visit' = [visit EXCEPT !.left = @ \ {f}]
  /\ UNCHANGED <<roots, heap, buf, phase, prog, coll, stores, early, image>>

MarkerDone == visit.left = {} /\ work = {}

TakeRecord ==
  /\ phase = "Marking" /\ MarkerDone
  /\ IF buf.satb = {} THEN phase' = "MarkDone" /\ UNCHANGED <<work, buf>>
     ELSE work' = buf.satb /\ buf' = [buf EXCEPT !.satb = {}] /\ UNCHANGED phase
  /\ UNCHANGED <<roots, heap, noted, visit, prog, coll, stores, early, image>>

-----------------------------------------------------------------------------
(* The second pause.                                                        *)

\* At a poll, or at the safepoint an allocation begins with: "back" there after.
Safepoint ==
  /\ prog.at \in {"run", "enroll"} /\ phase = "MarkDone"
  /\ prog' = [prog EXCEPT !.at = "mark", !.task = prog.at]
  /\ UNCHANGED <<roots, heap, buf, trace, coll, stores, early, image>>

\* evacuate_one for each root: moved already, staying put, or moved now.
Movable == {a \in Rooted : InCset(a) /\ ~Forwarded(a)}
Moved(a) == IF a \in Movable THEN <<Obj(a), "program">> ELSE WhereItIs(a)

\* finish_marking marks until the record is empty, and the counts are settled
\* with the load barrier armed; then everything the roots refer to is moved.
FinishMarking ==
  /\ prog.at = "mark" /\ MarkerDone
  /\ IF buf.satb # {}
     THEN /\ work' = buf.satb /\ buf' = [buf EXCEPT !.satb = {}]
          /\ UNCHANGED <<roots, heap, phase, prog>>
     ELSE LET copies == {Moved(a) : a \in Movable} IN
          /\ alloc' = alloc \cup copies
          /\ field' = [a \in Addresses |-> IF a \in copies THEN field[At(Obj(a))] ELSE field[a]]
          /\ fwd' = [a \in Addresses |-> IF a \in Movable THEN Moved(a) ELSE fwd[a]]
          /\ marked' = marked \cup copies
          /\ flagged' = flagged \ buf.logged
          /\ local' = [x \in Locals |-> Moved(local[x])]
          /\ pinned' = Moved(pinned)
          /\ buf' = [Counted EXCEPT !.scan = @ \cup copies]
          /\ phase' = "Evacuating"
          /\ prog' = [prog EXCEPT !.at = prog.task, !.task = "none"]
          /\ UNCHANGED <<hand, state, work>>
  /\ UNCHANGED <<noted, visit, coll, stores, early, image>>

-----------------------------------------------------------------------------
(* The collector thread copies the block.                                   *)

\* evacuate_block first gathers what is there to be moved.
Gather ==
  /\ phase = "Evacuating" /\ coll = NoCopy
  /\ coll' = [NoCopy EXCEPT !.on = TRUE,
                             !.queue = {a \in marked : InCset(a) /\ ~Forwarded(a)}]
  /\ UNCHANGED <<roots, heap, buf, trace, prog, stores, early, image>>

CopyOne(a) ==
  /\ phase = "Evacuating" /\ coll.obj = Null /\ a \in coll.queue
  /\ CopyTo(a, <<Obj(a), "collector">>)
  /\ coll' = [coll EXCEPT !.queue = @ \ {a}, !.obj = a]
  /\ UNCHANGED <<roots, buf, trace, prog, stores, early, image>>

\* A collector that does not look whether the program was there first.
ForwardAnyway ==
  /\ coll.obj # Null
  /\ LET copy == <<Obj(coll.obj), "collector">> IN
     /\ fwd' = [fwd EXCEPT ![coll.obj] = copy]
     /\ coll' = [coll EXCEPT !.obj = Null, !.copies = @ \cup {copy}]
  /\ UNCHANGED <<roots, field, alloc, marked, flagged, buf, trace, prog, stores, early, image>>

ForwardOne ==
  /\ coll.obj # Null
  /\ LET copy == <<Obj(coll.obj), "collector">> IN
     IF Forwarded(coll.obj)
     THEN Discard(copy) /\ coll' = [coll EXCEPT !.obj = Null]
     ELSE /\ fwd' = [fwd EXCEPT ![coll.obj] = copy]
          /\ coll' = [coll EXCEPT !.obj = Null, !.copies = @ \cup {copy}]
          /\ UNCHANGED <<field, alloc, marked, flagged>>
  /\ UNCHANGED <<roots, buf, trace, prog, stores, early, image>>

\* evacuate_concurrently: the copies are to be looked at again, and a pause is
\* asked for.
CopyEnds ==
  /\ phase = "Evacuating" /\ coll.on /\ coll.queue = {} /\ coll.obj = Null
  /\ buf' = [buf EXCEPT !.scan = @ \cup coll.copies]
  /\ coll' = NoCopy
  /\ phase' = "EvacDone"
  /\ UNCHANGED <<roots, heap, noted, work, visit, prog, stores, early, image>>

-----------------------------------------------------------------------------
(* The third pause, and the sweep.                                          *)

\* What is freed is no one's again; an object goes with its last address.
Free(S) ==
  /\ alloc' = alloc \ S
  /\ image' = [o \in Objects |-> IF \E a \in alloc \ S : Obj(a) = o THEN image[o] ELSE H!Empty]

\* fix_references: the slots that hold a reference that may be out of date. An
\* object that has itself been moved is passed over; its copy is on the list.
ScannedSlots == {s \in buf.scan \X Fields : ~Forwarded(s[1])}
Fixed == [a \in Addresses |-> [f \in Fields |->
            IF <<a, f>> \in noted \cup ScannedSlots THEN WhereItIs(field[a][f]) ELSE field[a][f]]]

\* finish_evacuation_on: every reference is repointed, and the block released.
FinishEvacuation ==
  /\ prog.at \in {"run", "enroll"} /\ phase = "EvacDone"
  /\ field' = Fixed
  /\ local' = [x \in Locals |-> WhereItIs(local[x])] /\ pinned' = WhereItIs(pinned)
  /\ buf' = [logged |-> {WhereItIs(a) : a \in buf.logged}, satb |-> {WhereItIs(a) : a \in buf.satb},
             named |-> {WhereItIs(a) : a \in buf.named}, scan |-> {}]
  /\ Free({a \in alloc : InCset(a)})
  /\ phase' = "Sweeping"
  /\ noted' = {}
  /\ UNCHANGED <<hand, state, fwd, marked, flagged, work, visit, prog, coll, stores, early>>

\* What the trace left unmarked. (A copy that could not be discarded carries a
\* tombstone, and is freed no more than it was then.)
Garbage == {a \in alloc \ marked : ~Forwarded(a)}

Sweep(a) ==
  /\ phase = "Sweeping" /\ a \in Garbage
  /\ Free({a})
  /\ UNCHANGED <<roots, field, fwd, marked, flagged, buf, trace, prog, coll, stores, early>>

SweepEnds ==
  /\ phase = "Sweeping" /\ Garbage = {}
  /\ phase' = "Idle"
  /\ UNCHANGED <<roots, heap, buf, noted, work, visit, prog, coll, stores, early, image>>

-----------------------------------------------------------------------------
Program ==
  \/ \E x, y \in Locals, f \in Fields : Load(x, y, f) \/ Barrier(x, f, local[y])
  \/ \E x \in Locals : Forget(x) \/ Call(x) \/ Assign(x)
  \/ \E x \in Locals, f \in Fields : Barrier(x, f, Null)
  \/ Resolve \/ EvacuateOne \/ MemCopy \/ Forward
  \/ \E f \in Fields : LogField(f)
  \/ Log \/ Store \/ Enroll \/ Collect
  \/ \E o \in Fresh : Allocate(o)
  \/ Safepoint \/ FinishMarking \/ FinishEvacuation

Collector ==
  \/ \E a \in Addresses : Claim(a) \/ CopyOne(a) \/ Sweep(a)
  \/ \E f \in Fields : ReadField(f)
  \/ TakeRecord \/ Gather \/ ForwardOne \/ CopyEnds \/ SweepEnds

Next == Program \/ Collector

Spec == Init /\ [][Next]_vars

-----------------------------------------------------------------------------
(* Properties.                                                              *)

TypeOK ==
  /\ local \in [Locals -> Addresses \cup {Null}]
  /\ {hand, state, pinned} \subseteq Addresses \cup {Null}
  /\ field \in [Addresses -> [Fields -> Addresses \cup {Null}]]
  /\ fwd \in [Addresses -> Addresses \cup {Null}]
  /\ alloc \cup marked \cup flagged \cup work \subseteq Addresses
  /\ buf \in [logged : SUBSET Addresses, satb : SUBSET Addresses,
              scan : SUBSET Addresses, named : SUBSET Addresses]
  /\ noted \subseteq Addresses \X Fields
  /\ phase \in {"Marking", "MarkDone", "Evacuating", "EvacDone", "Sweeping", "Idle"}
  /\ ~Tracing => buf.satb = {}   \* start_with_roots asserts it
  /\ stores \in 0 .. MaxStores

Held == ({local[x] : x \in Locals} \cup {hand, pinned, prog.obj, prog.val}) \ {Null}

\* While objects move, nothing the program holds or has recorded is in the block
\* being emptied: what it stores cannot go into a copy nobody looks at again
\* (mark.rs, finish_marking: "nothing the program holds is in a block that is
\* being emptied"; evacuate.rs, ws_resolve). Said of a trace in whose marking no
\* other worker's evacuation has moved anything.
ProgramHoldsTheMoved == early \/
  /\ TypeOK
  /\ Moving => \A a \in Held \cup buf.logged : ~InCset(a) /\ ~Forwarded(a)

\* Once the block is released, no root, no field of an object the trace found
\* and no list of the collector's points into it (evacuate.rs,
\* fix_references and verify_no_stale_references): of a trace as above.
NoStaleReferences ==
  ~early /\ phase \in {"Sweeping", "Idle"} =>
    \A a \in Held \cup buf.logged \cup buf.named
             \cup {field[b][f] : b \in {c \in alloc \cap marked : ~Forwarded(c)}, f \in Fields} :
      ~InCset(a)

\* The program cannot tell that anything moved: it finds in each field what it
\* last stored there, and what it can reach is never freed (ManagedHeap), for as
\* long as no other worker's evacuation moves anything while this trace marks.
ImplementsHeap == [][early' \/ H!HNext]_(H!heapVars)

\* When one does, the program can tell: it may go on writing to the original while
\* it reads the copy, and what only the copy leads to may not get marked.
ImplementsHeapWhoeverMoves == [][H!HNext]_(H!heapVars)

\* A copy that lost is handed straight back (evacuate.rs, evacuate_one).
LosersGoBack == phase = "Idle" => \A a \in alloc : ~Forwarded(a)

\* Every method of an rpc worker gets its state, wherever the collector has put
\* it: that is what it is pinned for (rpc.rs, worker_main).
MethodsGetTheState == Running => state = pinned
=============================================================================
