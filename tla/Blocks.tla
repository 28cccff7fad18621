------------------------------- MODULE Blocks -------------------------------
(***************************************************************************)
(* One worker's heap (heap.rs): blocks of lines, a count of objects per    *)
(* line, a count of live lines and a state per block, one bit per granule  *)
(* where an object begins, each thread's allocation buffer, the bump       *)
(* position of the copies, and the space of large objects. Whatever takes  *)
(* the heap lock is one step; what a thread does to its buffer without the *)
(* lock touches only an Open block, which nothing else does. The program   *)
(* has a buffer, and so has the collector's thread once it has run a pause *)
(* for a program that was parked.                                          *)
(*                                                                         *)
(* A trace is here for what it does to the blocks: it chooses some to      *)
(* empty, the program and the collector copy objects out of them at the    *)
(* same time, they are released, and the rest is swept a block at a time   *)
(* while the program goes on. Which objects die is somebody else's matter  *)
(* (Reclaim), and so is where the references go (Evacuation).              *)
(*                                                                         *)
(* The barrier that copies is armed for every worker at once, so while     *)
(* another worker's trace moves objects this one's program copies out of   *)
(* the chosen blocks before its own trace has finished marking. Should the *)
(* trace then be given up, the blocks go back with forwarded objects in    *)
(* them (see TracePhases); what becomes of a forwarded header that is read *)
(* as a live one depends on the bits of an address, and the model ends     *)
(* there, in the phase "Spoilt".                                           *)
(***************************************************************************)
EXTENDS Integers, FiniteSets, FiniteSetsExt

CONSTANTS
  MaxSpaces,     \* MAX_SPACES: what the directory can name
  SpaceBlocks,   \* SPACE_BLOCKS
  BlockLines,    \* LINES_PER_BLOCK
  LineGranules,  \* granules (of ALIGN bytes) in a line
  Sizes,         \* the sizes asked for, in granules
  LargeSize,     \* LARGE_OBJECT_BYTES, in granules
  SparseLines,   \* EVACUATE_BELOW_LINES
  MaxObjects,    \* how many objects there are before another is made
  MaxLeaked      \* how many lost copies cannot be handed back

BlockGranules == BlockLines * LineGranules

ASSUME BlocksAssumption ==
  /\ {MaxSpaces, SpaceBlocks, BlockLines, LineGranules} \subseteq Nat \ {0}
  /\ {SparseLines, MaxObjects, MaxLeaked} \subseteq Nat
  /\ Sizes \subseteq Nat \ {0} /\ LargeSize \in 1 .. BlockGranules

VARIABLES
  heap,   \* the heap, its side metadata, and the threads' buffers
  phase,  \* the phase of the trace, as far as the heap sees it
  doomed, \* the objects the trace in progress has not marked
  copying,\* the object the program's load barrier is moving
  unswept,\* the blocks the sweep has not been to
  parked  \* whether the program is in a call that may wait

vars == <<heap, phase, doomed, copying, unswept, parked>>

Threads == {"program", "collector"}

\* With one space more than can be had: publish gives up the process when an
\* allocation comes to it, and so no step ends there.
Blocks == 0 .. (MaxSpaces + 1) * SpaceBlocks - 1
Addresses == 0 .. Cardinality(Blocks) * BlockGranules - 1
Lines == 0 .. Cardinality(Blocks) * BlockLines - 1
States == {"Free", "Open", "Full", "Recyclable", "Evacuating"}

NoHole == [block |-> -1, cursor |-> 0, limit |-> 0]
NoCopy == [src |-> -1, copy |-> -1, won |-> FALSE]
LargeSpace == -2   \* where a large object is: in memory of its own

BlockStart(b) == b * BlockGranules
BlockIndex(a) == a \div BlockGranules
LineIndex(a) == a \div LineGranules
LinesIn(b) == b * BlockLines .. (b + 1) * BlockLines - 1
LinesOf(a, n) == LineIndex(a) .. LineIndex(a + n - 1)
BytesOf(a, n) == a .. a + n - 1

Init ==
  /\ heap = [spaces |-> 0,
             state |-> [b \in Blocks |-> "Free"],
             lines |-> [l \in Lines |-> 0],      \* line_objects
             live |-> [b \in Blocks |-> 0],      \* live_lines
             starts |-> {},                      \* the object-start bits
             size |-> [a \in Addresses |-> 0],   \* what each header says
             gone |-> {},                        \* those forwarded
             deaf |-> {},                        \* others with an address
                                                 \* for a header
             leaked |-> 0,                       \* lost copies that stayed
             clean |-> {},                       \* bytes zeroed, and free since
             large |-> 0,
             bump |-> NoHole,
             tlab |-> [t \in Threads |-> NoHole],
             pending |-> [t \in Threads |-> 0],  \* pending_objects
             counted |-> 0]                      \* live_objects
  /\ phase = "Idle"
  /\ doomed = {} /\ copying = NoCopy /\ unswept = {} /\ parked = FALSE

-----------------------------------------------------------------------------
(* Lines and holes.                                                         *)

Occupy(h, a, n) ==
  LET newly == {l \in LinesOf(a, n) : h.lines[l] = 0} IN
  [h EXCEPT !.lines = [l \in Lines |-> IF l \in LinesOf(a, n) THEN @[l] + 1 ELSE @[l]],
            !.live[BlockIndex(a)] = @ + Cardinality(newly)]

Vacated(h, a, n) == {l \in LinesOf(a, n) : h.lines[l] = 1}

Vacate(h, a, n) ==
  [h EXCEPT !.lines = [l \in Lines |-> IF l \in LinesOf(a, n) THEN @[l] - 1 ELSE @[l]],
            !.live[BlockIndex(a)] = @ - Cardinality(Vacated(h, a, n))]

\* The holes of a block at or after a line: the runs of lines that nothing is
\* on, that begin there or behind a line in use, with room for `want`.
Holes(h, b, from, want) ==
  {r \in (from .. (b + 1) * BlockLines - 1) \X (from + 1 .. (b + 1) * BlockLines) :
     /\ r[1] < r[2]
     /\ \A l \in r[1] .. r[2] - 1 : h.lines[l] = 0
     /\ r[1] = from \/ h.lines[r[1] - 1] # 0
     /\ r[2] = (b + 1) * BlockLines \/ h.lines[r[2]] # 0
     /\ (r[2] - r[1]) * LineGranules >= want}

\* find_hole: the first of them.
FindHole(h, b, from, want) ==
  LET r == CHOOSE r \in Holes(h, b, from, want) :
             \A s \in Holes(h, b, from, want) : r[1] <= s[1]
  IN [block |-> b, cursor |-> r[1] * LineGranules, limit |-> r[2] * LineGranules]

HasHole(h, b, from, want) == Holes(h, b, from, want) # {}

\* clear_block_starts
ClearStarts(h, b) == [h EXCEPT !.starts = {a \in @ : BlockIndex(a) # b}]

-----------------------------------------------------------------------------
(* Blocks between allocators.                                               *)

Dirty(h, b) == [h EXCEPT !.clean = {a \in @ : BlockIndex(a) # b}]

\* A buffer given back as if its block were always worth refilling.
CloseAsRecyclable(g, b) == LET h == Dirty(g, b) IN
  IF h.state[b] # "Open" THEN h ELSE [h EXCEPT !.state[b] = "Recyclable"]

CloseBlock(g, b) == LET h == Dirty(g, b) IN
  IF h.state[b] # "Open" THEN h
  ELSE IF h.live[b] = 0 THEN [ClearStarts(h, b) EXCEPT !.state[b] = "Free"]
  ELSE [h EXCEPT !.state[b] =
          IF HasHole(h, b, b * BlockLines, 1) THEN "Recyclable" ELSE "Full"]

\* open_hole: the bytes of what died there go before the hole is used.
OpenHole(h, r) ==
  [h EXCEPT !.state[r.block] = "Open", !.clean = @ \cup (r.cursor .. r.limit - 1)]

InSpaces(h) == {b \in Blocks : b < h.spaces * SpaceBlocks}

Candidates(h, want, state) ==
  {b \in InSpaces(h) : h.state[b] = state /\ HasHole(h, b, b * BlockLines, want)}

\* The rest of the block in hand, given back if it has no room.
PutBack(h) == [CloseBlock(h, h.bump.block) EXCEPT !.bump = NoHole]

\* A hole of a block: the first recyclable one with room, or else the first
\* free one, or else the first of a new space.
Search(h, want) ==
  LET refill == Candidates(h, want, "Recyclable")
      free == Candidates(h, want, "Free")
      b == h.spaces * SpaceBlocks
  IN IF refill # {} THEN [heap |-> h, hole |-> FindHole(h, Min(refill), Min(refill) * BlockLines, want)]
     ELSE IF free # {} THEN [heap |-> h, hole |-> FindHole(h, Min(free), Min(free) * BlockLines, want)]
     ELSE [heap |-> [h EXCEPT !.spaces = @ + 1],
           hole |-> [block |-> b, cursor |-> BlockStart(b), limit |-> BlockStart(b + 1)]]

Reserve(h, want) ==
  LET b == h.bump.block
      next == LineIndex(h.bump.limit)
      found == IF h.bump # NoHole /\ HasHole(h, b, next, want)
               THEN [heap |-> h, hole |-> FindHole(h, b, next, want)]
               ELSE Search(IF h.bump = NoHole THEN h ELSE PutBack(h), want)
  IN [heap |-> OpenHole(found.heap, found.hole), hole |-> found.hole]

-----------------------------------------------------------------------------
(* The threads' buffers.                                                    *)

FlushCounters(h, t) == [h EXCEPT !.counted = @ + h.pending[t], !.pending[t] = 0]

RetireTlab(h, t) ==
  IF h.tlab[t] = NoHole THEN FlushCounters(h, t)
  ELSE [CloseBlock(FlushCounters(h, t), h.tlab[t].block) EXCEPT !.tlab[t] = NoHole]

RefillTlab(h, t, want) ==
  LET r == Reserve(RetireTlab(h, t), want)
  IN [r.heap EXCEPT !.bump = NoHole, !.tlab[t] = r.hole]

\* Stamped, its bit set, and its lines occupied.
Stamp(h, a, n) ==
  Occupy([h EXCEPT !.size[a] = n, !.starts = @ \cup {a}, !.clean = @ \ BytesOf(a, n)], a, n)

Fits(h, t, n) == h.tlab[t] # NoHole /\ h.tlab[t].cursor + n <= h.tlab[t].limit

TlabAlloc(h, t, n) ==
  [Stamp(h, h.tlab[t].cursor, n) EXCEPT !.tlab[t].cursor = @ + n, !.pending[t] = @ + 1]

AllocLarge(h) == [h EXCEPT !.large = @ + 1, !.counted = @ + 1]

WithRoom(h, t, n) == IF Fits(h, t, n) THEN h ELSE RefillTlab(h, t, n)

\* allocate: in the buffer if there is room, whatever the size; if there is
\* not, in memory of its own if it is large, and in a new buffer otherwise.
Alloc(h, t, n) ==
  IF ~Fits(h, t, n) /\ n >= LargeSize
  THEN [heap |-> AllocLarge(h), at |-> LargeSpace]
  ELSE LET g == WithRoom(h, t, n)
       IN [heap |-> TlabAlloc(g, t, n), at |-> g.tlab[t].cursor]

\* alloc_locked, for what is not large.
BumpAlloc(h, n) ==
  LET r == IF h.bump # NoHole /\ h.bump.cursor + n <= h.bump.limit
           THEN [heap |-> h, hole |-> h.bump] ELSE Reserve(h, n)
      a == r.hole.cursor
  IN [heap |-> [Stamp(r.heap, a, n) EXCEPT !.bump = [r.hole EXCEPT !.cursor = @ + n],
                                           !.counted = @ + 1],
      at |-> a]

\* alloc_locked: the copies the collector makes.
AllocLocked(h, n) ==
  IF n >= LargeSize THEN [heap |-> AllocLarge(h), at |-> LargeSpace] ELSE BumpAlloc(h, n)

-----------------------------------------------------------------------------
(* Freeing.                                                                 *)

AfterFree(h, b) ==
  IF h.state[b] \notin {"Full", "Recyclable"} THEN h
  ELSE IF h.live[b] = 0 THEN [ClearStarts(h, b) EXCEPT !.state[b] = "Free"]
  ELSE [h EXCEPT !.state[b] = "Recyclable"]

\* Heap::free: the tombstone decides who was first. (A freed object has its
\* bit in FLAG_DEAD and none in the bitmap, where nobody will find it.)
Free(h, a) ==
  IF a \notin h.starts THEN h
  ELSE LET n == h.size[a]
           g == [Vacate(h, a, n) EXCEPT !.starts = @ \ {a}, !.size[a] = 0,
                                        !.counted = @ - 1]
       IN IF Vacated(h, a, n) = {} THEN g ELSE AfterFree(g, BlockIndex(a))

FreeLarge(h, k) == [h EXCEPT !.large = @ - k, !.counted = @ - k]

\* A copy that lost is handed back. If the original was forwarded before its
\* bytes were copied, the copy's header is an address; where that has the bit
\* of the tombstone, free takes the copy for one freed before, and it stays.
HandBack(h, c, mistaken) ==
  IF mistaken
  THEN [h EXCEPT !.leaked = @ + 1, !.deaf = @ \cup ({c} \ {LargeSpace}),
                 !.large = @ - (IF c = LargeSpace THEN 1 ELSE 0)]
  ELSE IF c = LargeSpace THEN FreeLarge(h, 1) ELSE Free(h, c)

\* Whether there is a copy to be mistaken for a freed one.
MayMistake(h, mistaken) == mistaken => h.leaked < MaxLeaked

FreeAll(h, S) == FoldSet(LAMBDA a, g : Free(g, a), h, S)

\* for_each_in_block
ObjectsIn(h, b) == {a \in h.starts : BlockIndex(a) = b}

\* Whoever walks the blocks passes over a header that is an address.
Objects(h) == h.starts \ (h.gone \cup h.deaf)

-----------------------------------------------------------------------------
(* The program.                                                             *)

\* The program is neither in a load barrier nor in a call.
Running == copying = NoCopy /\ ~parked /\ phase # "Spoilt"

\* publish found the directory with room, or the process is no more.
Published == heap'.spaces <= MaxSpaces

\* ws_alloc
Allocate(n) ==
  /\ Running
  /\ Cardinality(Objects(heap) \cup heap.deaf) + heap.large < MaxObjects
  /\ heap' = Alloc(heap, "program", n).heap
  /\ Published
  /\ UNCHANGED <<phase, doomed, copying, unswept, parked>>

\* Counting finds some objects dead, and never names one that a sweep is about
\* to take. It frees none while a trace marks, and stands aside while one moves.
Collect(S, large) ==
  /\ Running /\ phase # "Evacuating"
  /\ S \subseteq Objects(heap) \ doomed /\ large <= heap.large
  /\ phase = "Marking" => S = {} /\ large = 0
  /\ heap' = FreeLarge(FreeAll(FlushCounters(heap, "program"), S), large)
  /\ UNCHANGED <<phase, doomed, copying, unswept, parked>>

\* blocking: the buffer goes back before a call that may wait.
Park ==
  /\ Running
  /\ heap' = RetireTlab(heap, "program")
  /\ parked' = TRUE
  /\ UNCHANGED <<phase, doomed, copying, unswept>>

Unpark ==
  /\ parked /\ parked' = FALSE
  /\ UNCHANGED <<heap, phase, doomed, copying, unswept>>

-----------------------------------------------------------------------------
(* A trace.                                                                 *)

\* Any block that is sparse, whoever is allocating out of it.
SparseAnyState(h) == {b \in InSpaces(h) : h.live[b] \in 1 .. SparseLines}

Sparse(h) ==
  {b \in InSpaces(h) : h.state[b] \in {"Full", "Recyclable"} /\ h.live[b] \in 1 .. SparseLines}

\* The first pause; what the marking is going to leave unmarked is settled
\* here, since nothing that is lost at the snapshot is found again.
BeginTrace(S) ==
  /\ Running /\ phase = "Idle"
  /\ S \subseteq Objects(heap)
  /\ doomed' = S
  /\ heap' = [FlushCounters(heap, "program") EXCEPT
                !.state = [b \in Blocks |-> IF b \in Sparse(heap) THEN "Evacuating" ELSE @[b]]]
  /\ phase' = "Marking"
  /\ UNCHANGED <<copying, unswept, parked>>

EvacuatingBlocks(h) == {b \in InSpaces(h) : h.state[b] = "Evacuating"}

\* What is in the blocks being emptied and has not been moved.
Movable(h) == {a \in Objects(h) : h.state[BlockIndex(a)] = "Evacuating"}

\* The original forgotten on the count.
NoteForwardedUncounted(h, a) == [h EXCEPT !.gone = @ \cup {a}]

\* The original is leaving with its block, and the copy is on the count.
NoteForwarded(h, a) == [h EXCEPT !.gone = @ \cup {a}, !.counted = @ - 1]

\* evacuate_one, with nobody in the way.
MoveOne(h, t, a) == NoteForwarded(Alloc(h, t, h.size[a]).heap, a)

MoveRoots(h, t, R) == FoldSet(LAMBDA a, g : MoveOne(g, t, a), h, R)

\* Who runs the pauses: the program, or the collector for it.
Pausing == IF parked THEN "collector" ELSE "program"

\* The second pause: the buffer is given back, and if blocks were chosen the
\* objects the roots name are moved at once. Otherwise the counts are settled,
\* what counting found dead is freed, and the sweep begins.
FinishMarking(R, S) ==
  /\ copying = NoCopy /\ phase = "Marking"
  /\ R \subseteq Movable(heap) /\ S \subseteq Objects(heap) \ doomed
  /\ LET h == RetireTlab(heap, Pausing) IN
       IF EvacuatingBlocks(heap) = {}
       THEN /\ heap' = FreeAll(h, S)
            /\ phase' = "Sweeping" /\ unswept' = InSpaces(heap)
       ELSE /\ S = {} /\ heap' = MoveRoots(h, Pausing, R)
            /\ phase' = "Evacuating" /\ UNCHANGED unswept
  /\ Published
  /\ UNCHANGED <<doomed, copying, parked>>

\* evacuate_one by the load barrier, which is armed while this worker's trace
\* moves objects, or any other's: a copy is made, ...
BeginCopy(a) ==
  /\ Running /\ phase \in {"Marking", "Evacuating"}
  /\ a \in Movable(heap)
  /\ LET r == Alloc(heap, "program", heap.size[a]) IN
       /\ copying' = [src |-> a, copy |-> r.at, won |-> FALSE]
       /\ heap' = r.heap
  /\ Published
  /\ UNCHANGED <<phase, doomed, unswept, parked>>

\* ... the forwarding word is tried for, and the count corrected or the copy
\* handed back.
EndCopy(mistaken) ==
  /\ copying # NoCopy
  /\ MayMistake(heap, mistaken)
  /\ mistaken => ~copying.won /\ copying.src \in heap.gone
  /\ heap' = IF copying.won THEN [heap EXCEPT !.counted = @ - 1]
             ELSE IF copying.src \in heap.gone THEN HandBack(heap, copying.copy, mistaken)
             ELSE NoteForwarded(heap, copying.src)
  /\ copying' = NoCopy
  /\ UNCHANGED <<phase, doomed, unswept, parked>>

\* evacuate_block, one object: copied with the lock held. Where the program
\* was quicker, the copy goes back.
CopyOut(h, a, lost, mistaken) ==
  LET r == AllocLocked(h, h.size[a])
  IN IF a \in lost THEN [HandBack(r.heap, r.at, mistaken) EXCEPT !.gone = @ \cup {a}]
     ELSE NoteForwarded(r.heap, a)

\* The collector empties a block. The program may take the forwarding word of
\* the object it is copying after the collector has seen it unforwarded.
EvacuateBlock(b, lost, mistaken) ==
  LET moving == (Movable(heap) \cap ObjectsIn(heap, b)) \ doomed IN
  /\ phase = "Evacuating"
  /\ heap.state[b] = "Evacuating" /\ moving # {}
  /\ lost \subseteq moving \cap {copying.src}
  /\ MayMistake(heap, mistaken) /\ (mistaken => lost # {})
  /\ heap' = FoldSet(LAMBDA a, g : CopyOut(g, a, lost, mistaken), heap, moving)
  /\ Published
  /\ copying' = [copying EXCEPT !.won = @ \/ lost # {}]
  /\ UNCHANGED <<phase, doomed, unswept, parked>>

\* note_evacuated_blocks and release_evacuated.
Release(h) ==
  LET E == EvacuatingBlocks(h)
      lost == {a \in Objects(h) : BlockIndex(a) \in E}
  IN [h EXCEPT !.counted = @ - Cardinality(lost),
               !.lines = [l \in Lines |-> IF \E b \in E : l \in LinesIn(b) THEN 0 ELSE @[l]],
               !.live = [b \in Blocks |-> IF b \in E THEN 0 ELSE @[b]],
               !.starts = {a \in @ : BlockIndex(a) \notin E}, !.gone = {},
               !.deaf = {a \in @ : BlockIndex(a) \notin E},
               !.size = [a \in Addresses |-> IF BlockIndex(a) \in E THEN 0 ELSE @[a]],
               !.state = [b \in Blocks |-> IF b \in E THEN "Free" ELSE @[b]]]

\* The third pause, when every survivor has been copied.
FinishEvacuation ==
  /\ copying = NoCopy /\ phase = "Evacuating"
  /\ Movable(heap) \subseteq doomed
  /\ heap' = Release(heap)
  /\ doomed' = doomed \cap heap'.starts
  /\ phase' = "Sweeping" /\ unswept' = InSpaces(heap)
  /\ UNCHANGED <<copying, parked>>

\* sweep_block: the state is read again under the lock, and a block an
\* allocator holds is left alone, and so is what reads as freed.
SweepBlock(b) ==
  /\ phase = "Sweeping" /\ b \in unswept
  /\ heap' = IF heap.state[b] \in {"Full", "Recyclable"}
             THEN FreeAll(heap, ObjectsIn(heap, b) \cap Objects(heap) \cap doomed) ELSE heap
  /\ unswept' = unswept \ {b}
  /\ UNCHANGED <<phase, doomed, copying, parked>>

\* sweep_large, a look at the statistics, and the end of the trace.
SweepLarge(large) ==
  /\ phase = "Sweeping" /\ unswept = {}
  /\ large <= heap.large
  /\ heap' = FreeLarge(FlushCounters(heap, "collector"), large)
  /\ phase' = "Idle" /\ doomed' = {}
  /\ UNCHANGED <<copying, unswept, parked>>

\* abandon: the trace is given up, and the chosen blocks are put back.
Abandon ==
  /\ copying = NoCopy /\ phase = "Marking"
  /\ heap' = [heap EXCEPT !.state = [b \in Blocks |-> IF @[b] = "Evacuating" THEN "Full" ELSE @[b]],
                           !.gone = {}, !.deaf = @ \cup heap.gone]
  /\ phase' = IF heap.gone = {} THEN "Idle" ELSE "Spoilt"
  /\ doomed' = {}
  /\ UNCHANGED <<copying, unswept, parked>>

Next ==
  \/ \E n \in Sizes : Allocate(n)
  \/ \E S \in SUBSET (Objects(heap) \ doomed), k \in 0 .. heap.large : Collect(S, k)
  \/ Park \/ Unpark
  \/ \E S \in SUBSET Objects(heap) : BeginTrace(S)
  \/ \E R \in SUBSET Movable(heap), S \in SUBSET Objects(heap) : FinishMarking(R, S)
  \/ \E a \in Movable(heap) : BeginCopy(a)
  \/ \E mistaken \in BOOLEAN : EndCopy(mistaken)
  \/ \E b \in Blocks, lost \in SUBSET {copying.src}, mistaken \in BOOLEAN :
       EvacuateBlock(b, lost, mistaken)
  \/ FinishEvacuation
  \/ \E b \in Blocks : SweepBlock(b)
  \/ \E k \in 0 .. heap.large : SweepLarge(k)
  \/ Abandon

Spec == Init /\ [][Next]_vars

-----------------------------------------------------------------------------
(* Properties.                                                              *)

Hole == [block : Blocks \cup {-1}, cursor : Nat, limit : Nat]

\* The types of the variables: where bytes, lines and blocks are numbered,
\* what states a block and a trace may be in.
TypeOK ==
  /\ heap.spaces \in 0 .. MaxSpaces
  /\ heap.state \in [Blocks -> States]
  /\ heap.lines \in [Lines -> Nat] /\ heap.live \in [Blocks -> 0 .. BlockLines]
  /\ heap.starts \cup heap.gone \cup heap.deaf \cup heap.clean \subseteq Addresses
  /\ heap.bump \in Hole /\ heap.tlab \in [Threads -> Hole]
  /\ heap.large \in Nat /\ heap.leaked \in Nat
  /\ heap.pending \in [Threads -> Nat] /\ heap.counted \in Int
  /\ phase \in {"Idle", "Marking", "Evacuating", "Sweeping", "Spoilt"}
  /\ doomed \cup unswept \subseteq Addresses

Bytes(a) == BytesOf(a, heap.size[a])

\* The side metadata, kept a step at a time by four operations that add and
\* take away, is what one would count by looking at the objects: the objects
\* on each line, the lines of each block that have any; a block is Free just
\* when it is nobody's and empty, so that no space is lost, and Full only if
\* there is nothing to refill (heap.rs, occupy, vacate, close_block, free).
MetadataExact ==
  /\ TypeOK
  /\ \A l \in Lines : heap.lines[l] =
       Cardinality({a \in heap.starts : l \in LinesOf(a, heap.size[a])})
  /\ \A b \in Blocks :
       /\ heap.live[b] = Cardinality({l \in LinesIn(b) : heap.lines[l] > 0})
       /\ heap.state[b] = "Free" => heap.live[b] = 0 /\ ObjectsIn(heap, b) = {}
       /\ heap.state[b] \in {"Full", "Recyclable"} => heap.live[b] > 0
       /\ heap.state[b] = "Recyclable" => heap.live[b] < BlockLines

Unused(r) == r.cursor .. r.limit - 1
Allocators == {heap.bump, heap.tlab["program"], heap.tlab["collector"]} \ {NoHole}

\* What an allocator may still hand out of its hole is nobody's and reads as
\* zero, its block is Open, and no two allocators have a block in common; and
\* no two objects share a byte. So a fresh object's fields are null whatever
\* died where it lies (heap.rs, open_hole, reserve, sweep_block, free).
HolesAreClean ==
  /\ \A r \in Allocators :
       /\ heap.state[r.block] = "Open"
       /\ Unused(r) \subseteq heap.clean \ UNION {Bytes(a) : a \in heap.starts}
       /\ \A q \in Allocators : q # r => q.block # r.block
  /\ \A a, b \in heap.starts : a # b => Bytes(a) \cap Bytes(b) = {}

\* The live count and what the threads have yet to report.
Reported(h) == h.counted + h.pending["program"] + h.pending["collector"]

\* What is reported is the objects there are, and one for every lost copy whose
\* header was taken for a tombstone: nothing else is ever counted twice or
\* forgotten, through copies won and lost, releases and sweeps, and each such
\* copy is off by one for good, even when its block has been released (heap.rs,
\* Counters, free, note_forwarded, note_evacuated_blocks).
StatsExact ==
  Reported(heap) = Cardinality(Objects(heap)) + heap.large + heap.leaked
                     + (IF copying.won THEN 1 ELSE 0)

\* HeapStats, "What is still alive right now": the count without the copies
\* that stay. It fails as soon as a copy loses and is taken for a freed one.
CountsTheLiving ==
  Reported(heap) = Cardinality(Objects(heap)) + heap.large + (IF copying.won THEN 1 ELSE 0)

\* gc.rs:639, "so that a free can never run ahead of the allocation it undoes":
\* the live count, which is unsigned, is never taken below zero.
FreeNeverRunsAhead == heap.counted >= 0

=============================================================================
