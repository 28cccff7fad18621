---------------------------- MODULE ReclaimProofs ----------------------------
(***************************************************************************)
(* The reclamation of a heap is safe for any number of objects, fields,    *)
(* locals and blocks and any place where counts stick: counting, marking   *)
(* and sweeping together keep the promise of ManagedHeap.                  *)
(*                                                                         *)
(* The argument turns on the objects the last snapshot reached or that     *)
(* came into being after it, the Sound ones. The program holds nothing     *)
(* else, they refer to nothing else, the collector lists nothing else; the *)
(* counts cover the references among them; and the marker gets to all of   *)
(* them. So counting frees a Sound object only when no other refers to it, *)
(* and the sweep frees none.                                               *)
(***************************************************************************)
EXTENDS Reclaim, FiniteSetTheorems, TLAPS

Sound == live \ doomed

Into(S) == S \cup {Null}

\* References, in a heap whose fields are g.
Pointers(g, S, c) == {e \in S \X Fields : g[e[1]][e[2]] = c}
RefsIn(g, S, c) == Cardinality(Pointers(g, S, c))

\* Between ws_alloc's first act and its second, an object no list names.
Unenrolled == IF back = "enroll" THEN {hand} ELSE {}

-----------------------------------------------------------------------------
\* What the program is in the middle of.
Procedure ==
  /\ at = "enroll" => back = "enroll"
  /\ at = "assign" => back = "assign"
  /\ at \in {"run", "store", "wait"} => back \in {"run", "wait"}
  /\ hand = Null <=> back \in {"run", "wait"}
  /\ at = "mark" => phase = "MarkDone" /\ back # "assign"
  /\ then = "begin" => phase = "Idle" /\ at \in {"settle", "free"} /\ back # "enroll"
  /\ then = "due" => at \in {"settle", "free"} /\ back = "assign"
  /\ then = "sweep" => phase = "MarkDone" /\ at \in {"settle", "free"}
  /\ at = "store" => /\ store.fld \in Fields
                     /\ store.obj \in buf.logged /\ \E x \in Locals : local[x] = store.obj
                     /\ store.val = Null \/ \E x \in Locals : local[x] = store.val

\* The Sound objects keep to themselves.
Apart ==
  /\ doomed \subseteq live
  /\ H!Held \subseteq Sound
  /\ \A o \in Sound, f \in Fields : field[o][f] \in Into(Sound)
  /\ Listed \subseteq Sound
  /\ scan.left # {} => scan.obj \in Sound
  /\ \A o \in Objects \ live : field[o] = H!Empty
  /\ tlab.hole \cap live = {}

\* What is new is on no list but the one of what is new, and only what has been
\* logged refers to it.
Newborn ==
  /\ back = "enroll" => /\ hand \notin Listed /\ hand \in flagged
                        /\ scan.left # {} => scan.obj # hand
                        /\ \A x \in Locals : local[x] # hand
                        /\ \A o \in Sound, f \in Fields : field[o][f] # hand
  /\ back = "assign" /\ at \in {"settle", "free"} => hand \in buf.fresh
  /\ buf.fresh \cap (buf.nursery \cup buf.dead) = {}
  /\ \A o \in buf.fresh : buf.dec[o] = 0
  /\ at # "free" => \A o \in Sound \ buf.logged, f \in Fields : field[o][f] \notin buf.fresh

\* The barrier is down for exactly what is logged, and what is not new is not.
Logging ==
  /\ buf.logged \subseteq flagged /\ flagged \subseteq buf.logged \cup Unenrolled
  /\ \A o \in Objects : buf.dec[o] <= Cardinality(buf.logged \X Fields)
  /\ at = "free" => /\ buf.logged = {} /\ \A o \in Objects : buf.dec[o] = 0
                    /\ \A o \in buf.nursery : Rooted(o)

\* A count that has not stuck covers the references of Sound objects the barrier
\* has not logged and the decrements that are still to come.
Counting ==
  \A o \in Sound :
    rc[o] = RcMax \/ rc[o] >= RefsIn(field, Sound \ buf.logged, o) + buf.dec[o]

\* S has what is marked and what is to be marked, and with an object the marker
\* has yet to come to, all that object refers to, or what it referred to when the
\* barrier logged it.
Covers(S) ==
  /\ \A o \in Sound : Marked(o) => o \in S
  /\ work \cup buf.satb \subseteq S
  /\ \A f \in scan.left : scan.obj \notin flagged => field[scan.obj][f] \in Into(S)
  /\ \A o \in S : ~Marked(o) /\ o \notin flagged => \A f \in Fields : field[o][f] \in Into(S)

\* The marker will come to every Sound object, and after marking it has.
Snapshots ==
  /\ Tracing => \A S \in SUBSET Objects : Covers(S) => Sound \subseteq S
  /\ ~Tracing => /\ \A o \in Sound : Marked(o)
                 /\ buf.satb = {}
  /\ ~MarkerRuns => work = {} /\ scan.left = {}

\* The marker comes to nothing else, so the sweep has it all.
Unreached ==
  \A o \in doomed \ missed :
    /\ phase # "Idle" /\ ~Marked(o)
    /\ phase = "Sweeping" => BlockOf[o] \in unswept

IInv ==
  /\ TypeOK /\ Procedure /\ Apart /\ Newborn /\ Logging /\ Counting /\ Snapshots /\ Unreached

-----------------------------------------------------------------------------
(* Counting references.                                                     *)

\* There are only so many fields.
LEMMA PointersFinite ==
  ASSUME NEW S \in SUBSET Objects, NEW g, NEW c
  PROVE  /\ IsFiniteSet(S \X Fields) /\ IsFiniteSet(Pointers(g, S, c))
         /\ RefsIn(g, S, c) \in Nat
         /\ RefsIn(g, S, c) <= Cardinality(S \X Fields)
<1>1. IsFiniteSet(S)
  BY FS_Subset, ReclaimAssumption
<1>2. IsFiniteSet(S \X Fields)
  BY <1>1, FS_Product, ReclaimAssumption
<1>3. Pointers(g, S, c) \in SUBSET (S \X Fields)
  BY DEF Pointers
<1>4. IsFiniteSet(Pointers(g, S, c)) /\ RefsIn(g, S, c) <= Cardinality(S \X Fields)
  BY <1>2, <1>3, FS_Subset DEF RefsIn
<1> QED
  BY <1>2, <1>4, FS_CardinalityType DEF RefsIn

LEMMA ReferencesIn ==
  \A S, c : References(S, c) = RefsIn(field, S, c)
  BY DEF References, RefsIn, Pointers

\* Fewer objects refer less, ...
LEMMA FewerRefer ==
  ASSUME NEW T \in SUBSET Objects, NEW S \in SUBSET T, NEW g, NEW c
  PROVE  RefsIn(g, S, c) <= RefsIn(g, T, c)
<1>1. IsFiniteSet(Pointers(g, T, c))
  BY PointersFinite
<1>2. Pointers(g, S, c) \in SUBSET Pointers(g, T, c)
  BY DEF Pointers
<1> QED
  BY <1>1, <1>2, FS_Subset DEF RefsIn

\* ... two sets that have nothing in common refer as often as both, ...
LEMMA ReferencesAdd ==
  ASSUME NEW S \in SUBSET Objects, NEW T \in SUBSET Objects, S \cap T = {}, NEW g, NEW c
  PROVE  RefsIn(g, S \cup T, c) = RefsIn(g, S, c) + RefsIn(g, T, c)
<1>1. IsFiniteSet(Pointers(g, S, c)) /\ IsFiniteSet(Pointers(g, T, c))
  BY PointersFinite
<1>2. Pointers(g, S, c) \cap Pointers(g, T, c) = {}
  BY DEF Pointers
<1>3. Pointers(g, S \cup T, c) = Pointers(g, S, c) \cup Pointers(g, T, c)
  BY DEF Pointers
<1>4. RefsIn(g, S \cup T, c) =
        RefsIn(g, S, c) + RefsIn(g, T, c) - Cardinality(Pointers(g, S, c) \cap Pointers(g, T, c))
  BY <1>1, <1>3, FS_Union DEF RefsIn
<1>5. RefsIn(g, S, c) \in Nat /\ RefsIn(g, T, c) \in Nat
  BY PointersFinite
<1>6. Cardinality(Pointers(g, S, c) \cap Pointers(g, T, c)) = 0
  BY <1>2, FS_EmptySet
<1> QED
  BY <1>4, <1>5, <1>6

\* ... what is counted as zero is not referred to, ...
LEMMA ZeroMeansNone ==
  ASSUME NEW S \in SUBSET Objects, NEW g, NEW c
  PROVE  RefsIn(g, S, c) = 0 <=> \A p \in S, f \in Fields : g[p][f] # c
<1>1. RefsIn(g, S, c) = 0 <=> Pointers(g, S, c) = {}
  BY PointersFinite, FS_EmptySet DEF RefsIn
<1>2. ASSUME NEW p \in S, NEW f \in Fields, g[p][f] = c
      PROVE  <<p, f>> \in Pointers(g, S, c)
  BY <1>2 DEF Pointers
<1>3. ASSUME NEW e \in Pointers(g, S, c)
      PROVE  e[1] \in S /\ e[2] \in Fields /\ g[e[1]][e[2]] = c
  BY DEF Pointers
<1> QED
  BY <1>1, <1>2, <1>3

\* ... and what is stored elsewhere makes no difference.
LEMMA SameReferences ==
  ASSUME NEW S, NEW g, NEW h, NEW c, \A p \in S : g[p] = h[p]
  PROVE  RefsIn(g, S, c) = RefsIn(h, S, c)
<1>1. Pointers(g, S, c) = Pointers(h, S, c)
  BY DEF Pointers
<1> QED
  BY <1>1 DEF RefsIn

\* The fields of a set of objects add up in the same way: they all refer to Null
\* in a heap of empty objects.
LEMMA SlotsAdd ==
  ASSUME NEW S \in SUBSET Objects, NEW T \in SUBSET Objects, S \cap T = {}
  PROVE  Cardinality((S \cup T) \X Fields) = Cardinality(S \X Fields) + Cardinality(T \X Fields)
<1> DEFINE g == [o \in Objects |-> H!Empty]
<1>1. ASSUME NEW U \in SUBSET Objects
      PROVE  Cardinality(U \X Fields) = RefsIn(g, U, Null)
  <2>1. U \X Fields = Pointers(g, U, Null)
    BY DEF Pointers, H!Empty
  <2> QED
    BY <2>1 DEF RefsIn
<1>2. RefsIn(g, S \cup T, Null) = RefsIn(g, S, Null) + RefsIn(g, T, Null)
  BY ReferencesAdd
<1> QED
  BY <1>1, <1>2

LEMMA SlotsWithin ==
  ASSUME NEW T \in SUBSET Objects, NEW S \in SUBSET T
  PROVE  /\ Cardinality(S \X Fields) \in Nat /\ Cardinality(T \X Fields) \in Nat
         /\ Cardinality(S \X Fields) <= Cardinality(T \X Fields)
<1>1. IsFiniteSet(S \X Fields) /\ IsFiniteSet(T \X Fields)
  BY PointersFinite
<1>2. S \X Fields \in SUBSET (T \X Fields)
  OBVIOUS
<1> QED
  BY <1>1, <1>2, FS_Subset, FS_CardinalityType

-----------------------------------------------------------------------------
(* What a set leads to.                                                     *)

\* What S leads to is closed, has S in it, and is in every closed set that has.
LEMMA Leads ==
  ASSUME NEW S \in SUBSET Objects, field \in [Objects -> [Fields -> Objects \cup {Null}]]
  PROVE  /\ S \subseteq H!ReachableFrom(S)
         /\ H!ReachableFrom(S) \subseteq Objects
         /\ H!Closed(H!ReachableFrom(S))
         /\ \A T \in SUBSET Objects : S \subseteq T /\ H!Closed(T) => H!ReachableFrom(S) \subseteq T
<1>1. S \subseteq H!ReachableFrom(S)
  BY DEF H!ReachableFrom
<1>2. H!Closed(H!ReachableFrom(S))
  BY DEF H!ReachableFrom, H!Closed
<1> QED
  BY <1>1, <1>2 DEF H!ReachableFrom

-----------------------------------------------------------------------------
(* The types, a variable at a time.                                         *)

LEMMA NoneCounted ==
  ASSUME NEW n \in Nat
  PROVE  [o \in Objects |-> 0] \in [Objects -> 0 .. n]
OBVIOUS

LEMMA BuffersTyped == TypeOK => buf \in BufType
BY DEF TypeOK

\* Counts are numbers.
LEMMA CountsAreNumbers ==
  ASSUME TypeOK
  PROVE  /\ RcMax \in Nat /\ RcMax > 0
         /\ Cardinality(Objects \X Fields) \in Nat
         /\ \A o \in Objects : /\ rc[o] \in Nat /\ rc[o] <= RcMax
                               /\ buf.dec[o] \in Nat
                               /\ buf.dec[o] <= Cardinality(Objects \X Fields)
<1> DEFINE m == Cardinality(Objects \X Fields)
<1>1. m \in Nat
  BY SlotsWithin
<1>2. RcMax \in Nat /\ RcMax > 0
  BY ReclaimAssumption
<1>3. rc \in [Objects -> 0 .. RcMax]
  BY DEF TypeOK
<1>4. buf.dec \in [Objects -> 0 .. m]
  BY DEF BufType, TypeOK
<1>5. ASSUME NEW o \in Objects
      PROVE  rc[o] \in Nat /\ rc[o] <= RcMax /\ buf.dec[o] \in Nat /\ buf.dec[o] <= m
  <2>1. rc[o] \in 0 .. RcMax /\ buf.dec[o] \in 0 .. m
    BY <1>3, <1>4
  <2> HIDE DEF m
  <2> QED
    BY <2>1, <1>1, <1>2
<1> QED
  BY <1>1, <1>2, <1>5

\* Saturating counts stay in range, ...
LEMMA CountsInRange ==
  ASSUME NEW r \in 0 .. RcMax, NEW n \in Nat
  PROVE  RcInc(r, n) \in 0 .. RcMax /\ RcDec(r, n) \in 0 .. RcMax
<1>1. RcMax \in Nat
  BY ReclaimAssumption
<1> QED
  BY <1>1 DEF RcInc, RcDec

\* ... settling counts the references of what was logged in, and the decrements
\* out, ...
LEMMA SettledCovers ==
  ASSUME NEW r \in 0 .. RcMax, NEW others \in Nat, NEW logged \in Nat, NEW dec \in Nat,
         r = RcMax \/ r >= others + dec
  PROVE  \/ RcDec(RcInc(r, logged), dec) = RcMax
         \/ RcDec(RcInc(r, logged), dec) >= others + logged
<1>1. RcMax \in Nat
  BY ReclaimAssumption
<1> QED
  BY <1>1 DEF RcInc, RcDec

\* ... and freeing an object takes away its references, and no others.
LEMMA FreedCovers ==
  ASSUME NEW r \in 0 .. RcMax, NEW others \in Nat, NEW freed \in Nat,
         r = RcMax \/ r >= others + freed
  PROVE  RcDec(r, freed) = RcMax \/ RcDec(r, freed) >= others
<1>1. RcMax \in Nat
  BY ReclaimAssumption
<1> QED
  BY <1>1 DEF RcDec


-----------------------------------------------------------------------------
(* The steps.                                                               *)

\* A heap without an object in it.
LEMMA InitInv == Init => IInv
<1> SUFFICES ASSUME Init PROVE IInv
  OBVIOUS
<1>1. H!HInit
  BY DEF Init
<1>2. TypeOK
  <2>1. Cardinality(Objects \X Fields) \in Nat /\ RcMax \in Nat
    BY SlotsWithin, ReclaimAssumption
  <2>2. buf \in BufType
    BY <2>1 DEF BufType, Init
  <2>3. rc \in [Objects -> 0 .. RcMax] /\ bit \in [Objects -> BOOLEAN]
    BY <2>1 DEF Init
  <2>4. /\ tlab \in TlabType
        /\ scan \in ScanType
    BY DEF BufType, ScanType, TlabType, Init, NoBuffer
  <2>5. /\ field \in [Objects -> [Fields -> Objects \cup {Null}]]
        /\ local \in [Locals -> Objects \cup {Null}] /\ hand = Null /\ live = {}
    BY <1>1 DEF H!HInit, H!Empty
  <2> QED
    BY <2>2, <2>3, <2>4, <2>5 DEF Init, TypeOK
<1>3. Procedure /\ Apart
  BY <1>1 DEF Init, Procedure, Apart, H!HInit, H!Held, Sound, Listed, NoBuffer
<1>4. Newborn /\ Counting /\ Unreached
  BY <1>1 DEF Init, Newborn, Counting, Unreached, Sound, Listed, H!HInit
<1>5. Logging
  BY FS_EmptySet, FS_CardinalityType, FS_Product DEF Init, Logging, Unenrolled
<1>6. Snapshots
  BY <1>1 DEF Init, Snapshots, Tracing, Sound, MarkerRuns, H!HInit
<1> QED
  BY <1>2, <1>3, <1>4, <1>5, <1>6 DEF IInv

\* A load: what a Sound object refers to is Sound.
LEMMA LoadInv ==
  ASSUME IInv, NEW x \in Locals, NEW y \in Locals, NEW f \in Fields, Load(x, y, f)
  PROVE  IInv'
<1>1. /\ at = "run" /\ local[y] \in Sound
      /\ local' = [local EXCEPT ![x] = field[local[y]][f]]
      /\ UNCHANGED <<hand, field, live, rc, bit, flagged, parity, buf, phase, work, scan,
                     unswept, tlab, at, store, then, back, doomed, missed>>
  BY DEF Load, Running, heap, headers, markerVars, mutatorVars, history, IInv, Apart, H!Held
<1>2. TypeOK'
  <2>1. local' \in [Locals -> Objects \cup {Null}]
    BY <1>1 DEF IInv, TypeOK, Sound
  <2> QED
    BY <1>1, <2>1 DEF IInv, TypeOK
<1>3. Procedure'
  BY <1>1 DEF IInv, TypeOK, Procedure
<1>4. Apart'
  BY <1>1 DEF IInv, TypeOK, Apart, Sound, Into, Listed, H!Held
<1>5. Newborn'
  BY <1>1 DEF IInv, TypeOK, Procedure, Apart, Newborn, Sound, Listed
<1>6. Logging'
  BY <1>1 DEF IInv, TypeOK, Procedure, Logging, Unenrolled, Rooted
<1>7. Counting'
  BY <1>1 DEF IInv, Counting, Sound
<1>8. Snapshots'
  BY <1>1 DEF IInv, Procedure, Snapshots, Covers, Tracing, MarkerRuns, Marked, Sound, Into
<1>9. Unreached'
  BY <1>1 DEF IInv, Unreached, Marked
<1> QED
  BY <1>2, <1>3, <1>4, <1>5, <1>6, <1>7, <1>8, <1>9 DEF IInv

\* The stack lets go of a reference.
LEMMA ForgetInv ==
  ASSUME IInv, NEW x \in Locals, Forget(x)
  PROVE  IInv'
<1>1. /\ at = "run"
      /\ local' = [local EXCEPT ![x] = Null]
      /\ UNCHANGED <<hand, field, live, rc, bit, flagged, parity, buf, phase, work, scan,
                     unswept, tlab, at, store, then, back, doomed, missed>>
  BY DEF Forget, Running, heap, headers, markerVars, mutatorVars, history
<1>2. TypeOK'
  BY <1>1 DEF IInv, TypeOK
<1>3. Procedure'
  BY <1>1 DEF IInv, TypeOK, Procedure
<1>4. Apart'
  BY <1>1 DEF IInv, TypeOK, Apart, Sound, Into, Listed, H!Held
<1>5. Newborn'
  BY <1>1 DEF IInv, TypeOK, Procedure, Apart, Newborn, Sound, Listed
<1>6. Logging'
  BY <1>1 DEF IInv, TypeOK, Procedure, Logging, Unenrolled, Rooted
<1>7. Counting'
  BY <1>1 DEF IInv, Counting, Sound
<1>8. Snapshots'
  BY <1>1 DEF IInv, Procedure, Snapshots, Covers, Tracing, MarkerRuns, Marked, Sound, Into
<1>9. Unreached'
  BY <1>1 DEF IInv, Unreached, Marked
<1> QED
  BY <1>2, <1>3, <1>4, <1>5, <1>6, <1>7, <1>8, <1>9 DEF IInv

\* The write barrier records what the object's fields hold, unless it has.
LEMMA BarrierInv ==
  ASSUME IInv, NEW x \in Locals, NEW f \in Fields,
         NEW v, v = Null \/ \E y \in Locals : v = local[y],
         Barrier(x, f, v)
  PROVE  IInv'
<1>1. /\ at = "run" /\ local[x] \in Sound
      /\ flagged' = flagged \cup {local[x]}
      /\ buf' = IF local[x] \in flagged THEN buf
                ELSE [buf EXCEPT !.logged = @ \cup {local[x]},
                                 !.dec = [c \in Objects |-> @[c] + RefsIn(field, {local[x]}, c)],
                                 !.satb = IF Tracing THEN @ \cup Snapshot(local[x]) ELSE @]
      /\ store' = [obj |-> local[x], fld |-> f, val |-> v] /\ at' = "store"
      /\ UNCHANGED <<local, hand, field, live, rc, bit, parity, phase, work, scan,
                     unswept, tlab, then, back, doomed, missed>>
  BY ReferencesIn DEF Barrier, LogObject, Running, heap, headers, markerVars, mutatorVars,
    history, IInv, Apart, H!Held
<1> DEFINE o == local[x]
<1>2. /\ {o} \in SUBSET Objects /\ buf.logged \in SUBSET Objects
      /\ buf.logged \cup {o} \in SUBSET Objects
      /\ flagged = buf.logged
      /\ Snapshot(o) \subseteq Sound
      /\ o \notin flagged => Snapshot(o) \cap buf.fresh = {}
  <2>1. flagged = buf.logged
    BY <1>1 DEF IInv, Procedure, Logging, Unenrolled
  <2>2. o \in Objects /\ buf.logged \subseteq Objects
    BY <1>1 DEF BufType, IInv, TypeOK, Sound
  <2>3. Snapshot(o) \subseteq Sound
    BY <1>1 DEF IInv, Apart, Snapshot, Into
  <2>4. o \notin flagged => Snapshot(o) \cap buf.fresh = {}
    BY <1>1, <2>1 DEF IInv, Newborn, Snapshot
  <2> QED
    BY <2>1, <2>2, <2>3, <2>4
<1>3. ASSUME o \notin flagged, NEW c \in Objects
      PROVE  /\ RefsIn(field, {o}, c) \in Nat
             /\ c \notin Snapshot(o) => RefsIn(field, {o}, c) = 0
             /\ buf.dec[c] + RefsIn(field, {o}, c) <= Cardinality((buf.logged \cup {o}) \X Fields)
             /\ buf.dec[c] + RefsIn(field, {o}, c) \in 0 .. Cardinality(Objects \X Fields)
  <2>1. /\ RefsIn(field, {o}, c) \in Nat
        /\ RefsIn(field, {o}, c) <= Cardinality({o} \X Fields)
    BY <1>2, PointersFinite
  <2>2. c \notin Snapshot(o) => RefsIn(field, {o}, c) = 0
    <3>1. c # Null
      BY ReclaimAssumption
    <3> QED
      BY <1>2, <3>1, ZeroMeansNone DEF Snapshot
  <2>3. Cardinality((buf.logged \cup {o}) \X Fields)
          = Cardinality(buf.logged \X Fields) + Cardinality({o} \X Fields)
    <3>1. buf.logged \cap {o} = {}
      BY <1>2, <1>3
    <3> QED
      BY <1>2, <3>1, SlotsAdd
  <2>4. /\ Cardinality(buf.logged \X Fields) \in Nat /\ Cardinality({o} \X Fields) \in Nat
        /\ Cardinality(Objects \X Fields) \in Nat
        /\ Cardinality((buf.logged \cup {o}) \X Fields) <= Cardinality(Objects \X Fields)
    BY <1>2, SlotsWithin
  <2>5. buf.dec[c] \in Nat /\ buf.dec[c] <= Cardinality(buf.logged \X Fields)
    BY CountsAreNumbers DEF IInv, Logging
  <2> QED
    BY <2>1, <2>2, <2>3, <2>4, <2>5
<1>4. ASSUME o \notin flagged, NEW c \in Objects
      PROVE  RefsIn(field, Sound \ buf.logged, c) =
               RefsIn(field, Sound \ (buf.logged \cup {o}), c) + RefsIn(field, {o}, c)
  <2>1. /\ Sound \ (buf.logged \cup {o}) \in SUBSET Objects
        /\ Sound \ buf.logged = (Sound \ (buf.logged \cup {o})) \cup {o}
    BY <1>1, <1>2, <1>4 DEF IInv, TypeOK, Sound
  <2>2. RefsIn(field, (Sound \ (buf.logged \cup {o})) \cup {o}, c) =
          RefsIn(field, Sound \ (buf.logged \cup {o}), c) + RefsIn(field, {o}, c)
    BY <1>2, <2>1, ReferencesAdd
  <2> QED
    BY <2>1, <2>2, Zenon
<1>5. Listed' \subseteq Listed \cup {o} \cup Snapshot(o)
  <2>1. CASE o \in flagged
    BY <1>1, <2>1 DEF Listed
  <2>2. CASE o \notin flagged
    <3>1. ASSUME NEW c \in Objects, buf'.dec[c] > 0, c \notin Snapshot(o)
          PROVE  buf.dec[c] > 0
      <4>1. buf'.dec[c] = buf.dec[c] + RefsIn(field, {o}, c)
        BY <1>1, <2>2
      <4>2. buf.dec[c] \in Nat
        BY CountsAreNumbers DEF IInv
      <4> QED
        BY <1>3, <2>2, <3>1, <4>1, <4>2
    <3>2. buf'.satb \subseteq buf.satb \cup Snapshot(o)
      BY <1>1, <2>2
    <3>3. {c \in Objects : buf'.dec[c] > 0} \subseteq {c \in Objects : buf.dec[c] > 0} \cup Snapshot(o)
      BY <3>1
    <3>4. /\ buf'.logged = buf.logged \cup {o} /\ buf'.nursery = buf.nursery
          /\ buf'.fresh = buf.fresh /\ buf'.dead = buf.dead /\ work' = work
      BY <1>1, <2>2
    <3> QED
      BY <3>2, <3>3, <3>4 DEF Listed
  <2> QED
    BY <2>1, <2>2
<1>6. ASSUME NEW c \in buf.fresh
      PROVE  buf'.dec[c] = 0
  <2>1. buf.dec[c] = 0 /\ c \in Objects
    BY DEF BufType, IInv, TypeOK, Newborn
  <2>2. o \notin flagged => RefsIn(field, {o}, c) = 0
    BY <1>2, <1>3, <2>1
  <2> QED
    BY <1>1, <2>1, <2>2
<1>7. /\ buf'.logged = buf.logged \cup {o}
      /\ buf'.nursery = buf.nursery /\ buf'.fresh = buf.fresh /\ buf'.dead = buf.dead
  BY <1>1, <1>2
<1>8. TypeOK'
  <2>1. CASE o \in flagged
    BY <1>1, <1>2, <2>1 DEF IInv, TypeOK
  <2>2. CASE o \notin flagged
    <3>1. [c \in Objects |-> buf.dec[c] + RefsIn(field, {o}, c)] \in
            [Objects -> 0 .. Cardinality(Objects \X Fields)]
      BY <1>3, <2>2
    <3>2. Snapshot(o) \subseteq Objects
      BY <1>2 DEF IInv, TypeOK, Sound
    <3>3. buf' \in BufType
      BY <1>1, <1>2, <2>2, <3>1, <3>2 DEF BufType, IInv, TypeOK
    <3> QED
      BY <1>1, <1>2, <3>3 DEF IInv, TypeOK
  <2> QED
    BY <2>1, <2>2
<1>9. Procedure'
  BY <1>1, <1>7 DEF IInv, Procedure
<1>10. Apart'
  BY <1>1, <1>2, <1>5 DEF IInv, Apart, Sound, Into, H!Held
<1>11. Newborn'
  BY <1>1, <1>2, <1>6, <1>7 DEF IInv, Procedure, Newborn, Sound
<1>12. Logging'
  <2>1. CASE o \in flagged
    BY <1>1, <1>2, <2>1 DEF IInv, TypeOK, Procedure, Logging, Unenrolled
  <2>2. CASE o \notin flagged
    <3>1. ASSUME NEW c \in Objects
          PROVE  buf'.dec[c] <= Cardinality(buf'.logged \X Fields)
      <4>1. buf'.dec[c] = buf.dec[c] + RefsIn(field, {o}, c)
        BY <1>1, <2>2
      <4> QED
        BY <1>3, <1>7, <2>2, <4>1
    <3> QED
      BY <1>1, <1>2, <1>7, <3>1 DEF Logging, Unenrolled
  <2> QED
    BY <2>1, <2>2
<1>13. Counting'
  <2>1. CASE o \in flagged
    BY <1>1, <2>1 DEF IInv, Counting, Sound
  <2>2. CASE o \notin flagged
    <3>1. ASSUME NEW c \in Sound
          PROVE  rc[c] = RcMax \/ rc[c] >= RefsIn(field, Sound \ buf'.logged, c) + buf'.dec[c]
      <4>1. c \in Objects
        BY DEF IInv, TypeOK, Sound
      <4>2. /\ RefsIn(field, Sound \ (buf.logged \cup {o}), c) \in Nat
            /\ RefsIn(field, {o}, c) \in Nat
        BY <1>2, PointersFinite DEF IInv, TypeOK, Sound
      <4>3. rc[c] = RcMax \/ rc[c] >= RefsIn(field, Sound \ buf.logged, c) + buf.dec[c]
        BY DEF IInv, Counting
      <4>4. buf'.dec[c] = buf.dec[c] + RefsIn(field, {o}, c)
        BY <1>1, <2>2, <4>1
      <4>5. rc[c] \in Nat /\ buf.dec[c] \in Nat
        BY <4>1, CountsAreNumbers DEF IInv
      <4>6. RefsIn(field, Sound \ buf.logged, c) =
              RefsIn(field, Sound \ (buf.logged \cup {o}), c) + RefsIn(field, {o}, c)
        BY <1>4, <2>2, <4>1
      <4>7. RefsIn(field, Sound \ buf'.logged, c) = RefsIn(field, Sound \ (buf.logged \cup {o}), c)
        BY <1>7
      <4> HIDE DEF o
      <4> QED
        BY <4>2, <4>3, <4>4, <4>5, <4>6, <4>7
    <3> QED
      BY <1>1, <3>1 DEF Counting, Sound
  <2> QED
    BY <2>1, <2>2
<1>14. Snapshots'
  <2>1. ASSUME NEW S \in SUBSET Objects, Tracing', Covers(S)'
        PROVE  Sound' \subseteq S
    <3>1. Tracing /\ Covers(S)
      BY <1>1, <2>1 DEF ScanType, IInv, Procedure, Covers, Tracing, Marked, Sound, Into, Snapshot,
        Apart, TypeOK
    <3> QED
      BY <1>1, <2>1, <3>1 DEF IInv, Snapshots, Covers, Marked, Sound
  <2>2. /\ ~Tracing' => (\A p \in Sound : Marked(p))' /\ buf'.satb = {}
        /\ ~MarkerRuns' => work' = {} /\ scan'.left = {}
    BY <1>1 DEF IInv, Procedure, Snapshots, Tracing, MarkerRuns, Marked, Sound
  <2> QED
    BY <2>1, <2>2 DEF Snapshots
<1>15. Unreached'
  BY <1>1 DEF IInv, Unreached, Marked
<1> QED
  BY <1>8, <1>9, <1>10, <1>11, <1>12, <1>13, <1>14, <1>15 DEF IInv

\* The store itself, into what has been logged.
LEMMA StoreInv ==
  ASSUME IInv, Store
  PROVE  IInv'
<1>1. /\ at = "store" /\ store.obj \in buf.logged
      /\ field' = [field EXCEPT ![store.obj][store.fld] = store.val]
      /\ store' = NoStore /\ at' = "run"
      /\ UNCHANGED <<local, hand, live, rc, bit, flagged, parity, buf, phase, work, scan,
                     unswept, tlab, then, back, doomed, missed>>
  BY DEF Store, heap, headers, markerVars, mutatorVars, history, IInv, Procedure
<1>2. \A p \in Sound \ buf.logged : field[p] = field'[p]
  BY <1>1 DEF IInv, TypeOK, Sound
<1>3. \A c : RefsIn(field, Sound \ buf.logged, c) = RefsIn(field', Sound \ buf.logged, c)
  BY <1>2, SameReferences
<1>4. TypeOK'
  BY <1>1 DEF IInv, TypeOK, Procedure
<1>5. Procedure'
  BY <1>1 DEF IInv, TypeOK, Procedure
<1>6. Apart'
  BY <1>1 DEF IInv, TypeOK, Apart, Sound, Into, Listed, H!Held, Procedure
<1>7. Newborn'
  BY <1>1 DEF IInv, TypeOK, Procedure, Apart, Newborn, Sound, Listed
<1>8. Logging'
  BY <1>1 DEF IInv, TypeOK, Procedure, Logging, Unenrolled, Rooted
<1>9. Counting'
  BY <1>1, <1>3 DEF IInv, Counting, Sound
<1>10. Snapshots'
  <2>1. ASSUME NEW S \in SUBSET Objects, Tracing', Covers(S)'
        PROVE  Sound' \subseteq S
    <3>1. Tracing /\ Covers(S)
      BY <1>1, <2>1 DEF IInv, Procedure, Covers, Tracing, Marked, Sound, Into, Logging,
        TypeOK
    <3> QED
      BY <1>1, <2>1, <3>1 DEF IInv, Snapshots, Covers, Marked, Sound
  <2>2. /\ ~Tracing' => (\A p \in Sound : Marked(p))' /\ buf'.satb = {}
        /\ ~MarkerRuns' => work' = {} /\ scan'.left = {}
    BY <1>1 DEF IInv, Procedure, Snapshots, Tracing, MarkerRuns, Marked, Sound
  <2> QED
    BY <2>1, <2>2 DEF Snapshots
<1>11. Unreached'
  BY <1>1 DEF IInv, Unreached, Marked
<1> QED
  BY <1>4, <1>5, <1>6, <1>7, <1>8, <1>9, <1>10, <1>11 DEF IInv

\* An object comes into being on a free line.
LEMMA AllocateInv ==
  ASSUME IInv, Allocate
  PROVE  IInv'
<1>1. \A t \in Buffers : /\ t \in TlabType
                          /\ t.hole \cap live = {}
  BY DEF TlabType, Buffers, InBlock, IInv, TypeOK, Apart
<1>2. PICK o \in Objects \ live :
        /\ at = "run" /\ back' = "enroll"
        /\ at' = IF phase = "MarkDone" THEN "mark" ELSE "enroll"
        /\ hand' = o /\ live' = live \cup {o} /\ flagged' = flagged \cup {o}
        /\ rc' = [rc EXCEPT ![o] = 0] /\ bit' = [bit EXCEPT ![o] = parity]
        /\ tlab' \in TlabType
        /\ tlab'.hole \cap live' = {}
        /\ UNCHANGED <<local, field, parity, buf, phase, work, scan, unswept, store, then,
                       doomed, missed>>
  <2>1. PICK t \in Buffers : \E o \in t.hole :
          /\ hand' = o /\ live' = live \cup {o} /\ flagged' = flagged \cup {o}
          /\ rc' = [rc EXCEPT ![o] = 0] /\ bit' = [bit EXCEPT ![o] = parity]
          /\ tlab' = [t EXCEPT !.hole = @ \ {o}]
    BY DEF Allocate
  <2>2. PICK o \in t.hole :
          /\ hand' = o /\ live' = live \cup {o} /\ flagged' = flagged \cup {o}
          /\ rc' = [rc EXCEPT ![o] = 0] /\ bit' = [bit EXCEPT ![o] = parity]
          /\ tlab' = [t EXCEPT !.hole = @ \ {o}]
    BY <2>1
  <2>3. /\ o \in Objects \ live
        /\ tlab' \in TlabType
        /\ tlab'.hole \cap live' = {}
    BY <1>1, <2>2 DEF TlabType
  <2> QED
    BY <2>2, <2>3 DEF Allocate, Running, markerVars, history
<1>3. /\ Sound' = Sound \cup {o} /\ o \notin Sound /\ Sound \in SUBSET Objects /\ o # Null
      /\ hand = Null /\ \A f \in Fields : field[o][f] = Null
  BY <1>2, ReclaimAssumption DEF IInv, TypeOK, Apart, Sound, Procedure, H!Empty
<1>4. \A p \in Sound, f \in Fields : field[p][f] # o
  BY <1>2, <1>3 DEF IInv, Apart, Into
<1>5. TypeOK'
  <2>1. rc' \in [Objects -> 0 .. RcMax] /\ bit' \in [Objects -> BOOLEAN]
    BY <1>2, ReclaimAssumption DEF IInv, TypeOK
  <2> QED
    BY <1>2, <2>1 DEF IInv, TypeOK
<1>6. Procedure'
  BY <1>2, <1>3 DEF IInv, TypeOK, Procedure
<1>7. Apart'
  BY <1>2, <1>3 DEF IInv, Apart, Into, Listed, H!Held, H!Empty, Sound
<1>8. Newborn'
  <2>1. /\ o \notin Listed /\ (scan.left # {} => scan.obj # o)
        /\ \A x \in Locals : local[x] # o
    BY <1>2, <1>3, ReclaimAssumption DEF IInv, Apart, H!Held
  <2>2. \A p \in Sound' : \A f \in Fields : field[p][f] # o
    BY <1>2, <1>3, <1>4, ReclaimAssumption
  <2>3. Listed' = Listed
    BY <1>2 DEF Listed
  <2>4. \A p \in Sound' \ buf.logged, f \in Fields : field[p][f] \notin buf.fresh
    BY <1>2, <1>3, ReclaimAssumption DEF BufType, IInv, TypeOK, Newborn
  <2> QED
    BY <1>2, <2>1, <2>2, <2>3, <2>4 DEF IInv, Newborn
<1>9. Logging'
  BY <1>2 DEF IInv, TypeOK, Procedure, Logging, Unenrolled, Rooted
<1>10. Counting'
  <2>1. ASSUME NEW c \in Sound \cup {o}
        PROVE  \/ rc'[c] = RcMax
               \/ rc'[c] >= RefsIn(field, (Sound \cup {o}) \ buf.logged, c) + buf.dec[c]
    <3>1. RefsIn(field, (Sound \cup {o}) \ buf.logged, c) = RefsIn(field, Sound \ buf.logged, c)
      <4>1. /\ Sound \ buf.logged \in SUBSET Objects /\ {o} \in SUBSET Objects
            /\ (Sound \cup {o}) \ buf.logged = (Sound \ buf.logged) \cup {o}
            /\ (Sound \ buf.logged) \cap {o} = {} /\ c # Null
        BY <1>2, <1>3, <2>1, ReclaimAssumption DEF IInv, Apart, Listed
      <4>2. RefsIn(field, {o}, c) = 0
        BY <1>3, <4>1, ZeroMeansNone
      <4>3. RefsIn(field, Sound \ buf.logged, c) \in Nat
        BY <4>1, PointersFinite
      <4> QED
        BY <4>1, <4>2, <4>3, ReferencesAdd
    <3>2. CASE c = o
      <4>1. RefsIn(field, Sound \ buf.logged, c) = 0
        BY <1>3, <1>4, <3>2, ZeroMeansNone
      <4>2. buf.dec[o] = 0
        BY <1>2 DEF BufType, IInv, TypeOK, Apart, Listed, Sound
      <4> QED
        BY <1>2, <3>1, <3>2, <4>1, <4>2 DEF IInv, TypeOK
    <3>3. CASE c # o
      BY <1>2, <2>1, <3>1, <3>3 DEF IInv, TypeOK, Counting
    <3> QED
      BY <3>2, <3>3
  <2> QED
    BY <1>2, <1>3, <2>1 DEF Counting
<1>11. Snapshots'
  <2>1. ASSUME NEW S \in SUBSET Objects, Tracing', Covers(S)'
        PROVE  Sound' \subseteq S
    <3>1. Tracing /\ o \in S
      BY <1>2, <1>3, <2>1 DEF IInv, TypeOK, Procedure, Covers, Tracing, Marked
    <3>2. Covers(S)
      BY <1>2, <1>3, <2>1 DEF IInv, TypeOK, Apart, Covers, Marked, Into
    <3> QED
      BY <1>3, <3>1, <3>2 DEF IInv, Snapshots
  <2>2. ((\A p \in Sound : Marked(p))' /\ buf.satb = {}) \/ Tracing
    BY <1>2, <1>3 DEF IInv, TypeOK, Snapshots, Marked
  <2>3. Tracing' <=> Tracing
    BY <1>2 DEF Tracing
  <2>4. ~MarkerRuns' => work = {} /\ scan.left = {}
    BY <1>2 DEF IInv, Snapshots, MarkerRuns
  <2> QED
    BY <1>2, <2>1, <2>2, <2>3, <2>4 DEF Snapshots
<1>12. Unreached'
  BY <1>2 DEF IInv, TypeOK, Apart, Unreached, Marked
<1> QED
  BY <1>5, <1>6, <1>7, <1>8, <1>9, <1>10, <1>11, <1>12 DEF IInv

\* The allocation buffer goes back.
LEMMA RetireBufferInv ==
  ASSUME IInv, RetireBuffer
  PROVE  IInv'
<1>1. /\ tlab' = NoBuffer
      /\ UNCHANGED <<local, hand, field, live, rc, bit, flagged, parity, buf, phase, work,
                     scan, unswept, at, store, then, back, doomed, missed>>
  BY DEF RetireBuffer, heap, headers, markerVars, mutatorVars, history
<1>2. TypeOK'
  BY <1>1 DEF TlabType, IInv, TypeOK, NoBuffer
<1>3. Procedure'
  BY <1>1 DEF IInv, TypeOK, Procedure
<1>4. Apart'
  BY <1>1 DEF IInv, TypeOK, Apart, Sound, Into, Listed, H!Held, NoBuffer
<1>5. Newborn'
  BY <1>1 DEF IInv, TypeOK, Procedure, Apart, Newborn, Sound, Listed
<1>6. Logging'
  BY <1>1 DEF IInv, TypeOK, Procedure, Logging, Unenrolled, Rooted
<1>7. Counting'
  BY <1>1 DEF IInv, Counting, Sound
<1>8. Snapshots'
  BY <1>1 DEF IInv, Procedure, Snapshots, Covers, Tracing, MarkerRuns, Marked, Sound, Into
<1>9. Unreached'
  BY <1>1 DEF IInv, Unreached, Marked
<1> QED
  BY <1>2, <1>3, <1>4, <1>5, <1>6, <1>7, <1>8, <1>9 DEF IInv

\* The new object is listed.
LEMMA EnrollInv ==
  ASSUME IInv, Enroll
  PROVE  IInv'
<1>1. /\ at = "enroll" /\ back' = "assign"
      /\ buf' = [buf EXCEPT !.fresh = @ \cup {hand}, !.logged = @ \cup {hand}]
      /\ \/ at' = "assign" /\ then' = "nothing"
         \/ at' = "settle" /\ then' = "nothing"
         \/ at' = "settle" /\ then' = "due"
      /\ UNCHANGED <<local, hand, field, live, rc, bit, flagged, parity, phase, work,
                     scan, unswept, tlab, store, doomed, missed>>
  BY DEF Enroll, EnrollHand, heap, headers, markerVars, mutatorVars, history
<1>2. hand \in Objects /\ hand \notin buf.logged /\ buf.dec[hand] = 0 /\ hand \in Sound
  BY <1>1 DEF BufType, IInv, TypeOK, Procedure, Newborn, Listed, Apart, H!Held
<1>3. ASSUME NEW c \in Objects
      PROVE  /\ RefsIn(field, Sound \ (buf.logged \cup {hand}), c) <=
                  RefsIn(field, Sound \ buf.logged, c)
             /\ RefsIn(field, Sound \ (buf.logged \cup {hand}), c) \in Nat
             /\ RefsIn(field, Sound \ buf.logged, c) \in Nat
  <2>1. Sound \ buf.logged \in SUBSET Objects
    BY DEF IInv, TypeOK, Sound
  <2> QED
    BY <2>1, FewerRefer, PointersFinite
<1>4. Cardinality(buf.logged \X Fields) \in Nat
      /\ Cardinality((buf.logged \cup {hand}) \X Fields) \in Nat
      /\ Cardinality(buf.logged \X Fields) <= Cardinality((buf.logged \cup {hand}) \X Fields)
  <2>1. buf.logged \cup {hand} \in SUBSET Objects /\ buf.logged \in SUBSET (buf.logged \cup {hand})
    BY <1>2 DEF BufType, IInv, TypeOK
  <2> QED
    BY <2>1, SlotsWithin
<1>5. TypeOK'
  BY <1>1 DEF BufType, IInv, TypeOK, Procedure
<1>6. Procedure'
  BY <1>1 DEF IInv, TypeOK, Procedure
<1>7. Apart'
  BY <1>1 DEF IInv, TypeOK, Apart, Sound, Into, Listed, H!Held, Procedure
<1>8. Newborn'
  BY <1>1 DEF BufType, IInv, TypeOK, Procedure, Apart, Newborn, Sound, Listed
<1>9. Logging'
  <2>1. \A c \in Objects : buf'.dec[c] <= Cardinality(buf'.logged \X Fields)
    <3>1. buf'.dec = buf.dec /\ buf'.logged = buf.logged \cup {hand}
      BY <1>1 DEF IInv, TypeOK
    <3> QED
      BY <1>4, <3>1, CountsAreNumbers DEF IInv, Logging
  <2> QED
    BY <1>1, <2>1 DEF BufType, IInv, TypeOK, Procedure, Newborn, Logging, Unenrolled
<1>10. Counting'
  <2>1. buf'.dec = buf.dec /\ buf'.logged = buf.logged \cup {hand}
    BY <1>1 DEF IInv, TypeOK
  <2>2. ASSUME NEW c \in Sound
        PROVE  \/ rc[c] = RcMax
               \/ rc[c] >= RefsIn(field, Sound \ (buf.logged \cup {hand}), c) + buf.dec[c]
    <3>1. c \in Objects
      BY DEF IInv, TypeOK, Sound
    <3>2. rc[c] = RcMax \/ rc[c] >= RefsIn(field, Sound \ buf.logged, c) + buf.dec[c]
      BY DEF IInv, Counting
    <3>3. rc[c] \in Nat /\ buf.dec[c] \in Nat
      BY <3>1, CountsAreNumbers DEF IInv
    <3> QED
      BY <1>3, <3>1, <3>2, <3>3
  <2> QED
    BY <1>1, <2>1, <2>2 DEF Counting, Sound
<1>11. Snapshots'
  BY <1>1 DEF IInv, Procedure, Snapshots, Covers, Tracing, MarkerRuns, Marked, Sound, Into
<1>12. Unreached'
  BY <1>1 DEF IInv, Unreached, Marked
<1> QED
  BY <1>5, <1>6, <1>7, <1>8, <1>9, <1>10, <1>11, <1>12 DEF IInv

\* The new object gets to the stack.
LEMMA AssignInv ==
  ASSUME IInv, NEW x \in Locals, Assign(x)
  PROVE  IInv'
<1>1. /\ at = "assign" /\ at' = "run" /\ back' = "run"
      /\ local' = [local EXCEPT ![x] = hand] /\ hand' = Null
      /\ UNCHANGED <<field, live, rc, bit, flagged, parity, buf, phase, work, scan,
                     unswept, tlab, store, then, doomed, missed>>
  BY DEF Assign, heap, headers, markerVars, mutatorVars, history
<1>2. TypeOK'
  BY <1>1 DEF IInv, TypeOK
<1>3. Procedure'
  BY <1>1 DEF IInv, TypeOK, Procedure
<1>4. Apart'
  BY <1>1 DEF IInv, TypeOK, Apart, Sound, Into, Listed, H!Held
<1>5. Newborn'
  BY <1>1 DEF IInv, TypeOK, Procedure, Apart, Newborn, Sound, Listed
<1>6. Logging'
  BY <1>1 DEF IInv, TypeOK, Procedure, Logging, Unenrolled, Rooted
<1>7. Counting'
  BY <1>1 DEF IInv, Counting, Sound
<1>8. Snapshots'
  BY <1>1 DEF IInv, Procedure, Snapshots, Covers, Tracing, MarkerRuns, Marked, Sound, Into
<1>9. Unreached'
  BY <1>1 DEF IInv, Unreached, Marked
<1> QED
  BY <1>2, <1>3, <1>4, <1>5, <1>6, <1>7, <1>8, <1>9 DEF IInv

\* A collection begins.
LEMMA CollectInv ==
  ASSUME IInv, Collect
  PROVE  IInv'
<1>1. /\ at = "run" /\ at' = "settle" /\ then' = "nothing" /\ back' = "run"
      /\ UNCHANGED <<local, hand, field, live, rc, bit, flagged, parity, buf, phase, work,
                     scan, unswept, tlab, store, doomed, missed>>
  BY DEF Collect, Running, heap, headers, markerVars, mutatorVars, history
<1>2. TypeOK'
  BY <1>1 DEF IInv, TypeOK
<1>3. Procedure'
  BY <1>1 DEF IInv, TypeOK, Procedure
<1>4. Apart'
  BY <1>1 DEF IInv, TypeOK, Apart, Sound, Into, Listed, H!Held
<1>5. Newborn'
  BY <1>1 DEF IInv, TypeOK, Procedure, Apart, Newborn, Sound, Listed
<1>6. Logging'
  BY <1>1 DEF IInv, TypeOK, Procedure, Logging, Unenrolled, Rooted
<1>7. Counting'
  BY <1>1 DEF IInv, Counting, Sound
<1>8. Snapshots'
  BY <1>1 DEF IInv, Procedure, Snapshots, Covers, Tracing, MarkerRuns, Marked, Sound, Into
<1>9. Unreached'
  BY <1>1 DEF IInv, Unreached, Marked
<1> QED
  BY <1>2, <1>3, <1>4, <1>5, <1>6, <1>7, <1>8, <1>9 DEF IInv

\* A collection begins that a trace is to follow.
LEMMA TraceStartInv ==
  ASSUME IInv, TraceStart
  PROVE  IInv'
<1>1. /\ at = "run" /\ phase = "Idle"
      /\ at' = "settle" /\ then' = "begin" /\ back' \in {"run", "wait"}
      /\ UNCHANGED <<local, hand, field, live, rc, bit, flagged, parity, buf, phase, work,
                     scan, unswept, tlab, store, doomed, missed>>
  BY DEF TraceStart, Running, heap, headers, markerVars, mutatorVars, history
<1>2. TypeOK'
  BY <1>1 DEF IInv, TypeOK
<1>3. Procedure'
  BY <1>1 DEF IInv, TypeOK, Procedure
<1>4. Apart'
  BY <1>1 DEF IInv, TypeOK, Apart, Sound, Into, Listed, H!Held
<1>5. Newborn'
  BY <1>1 DEF IInv, TypeOK, Procedure, Apart, Newborn, Sound, Listed
<1>6. Logging'
  BY <1>1 DEF IInv, TypeOK, Procedure, Logging, Unenrolled, Rooted
<1>7. Counting'
  BY <1>1 DEF IInv, Counting, Sound
<1>8. Snapshots'
  BY <1>1 DEF IInv, Procedure, Snapshots, Covers, Tracing, MarkerRuns, Marked, Sound, Into
<1>9. Unreached'
  BY <1>1 DEF IInv, Unreached, Marked
<1> QED
  BY <1>2, <1>3, <1>4, <1>5, <1>6, <1>7, <1>8, <1>9 DEF IInv

\* The program waits for a trace, and goes on after it.
LEMMA WaitInv ==
  ASSUME IInv, TraceFinish \/ TraceFinished
  PROVE  IInv'
<1>1. /\ at \in {"run", "wait"} /\ at' \in {"run", "wait"} /\ back' = at'
      /\ UNCHANGED <<local, hand, field, live, rc, bit, flagged, parity, buf, phase, work,
                     scan, unswept, tlab, store, then, doomed, missed>>
  BY DEF TraceFinish, TraceFinished, Running, heap, headers, markerVars, mutatorVars,
    history
<1>2. TypeOK'
  BY <1>1 DEF IInv, TypeOK
<1>3. Procedure'
  BY <1>1 DEF IInv, TypeOK, Procedure
<1>4. Apart'
  BY <1>1 DEF IInv, TypeOK, Apart, Sound, Into, Listed, H!Held
<1>5. Newborn'
  BY <1>1 DEF IInv, TypeOK, Procedure, Apart, Newborn, Sound, Listed
<1>6. Logging'
  BY <1>1 DEF IInv, TypeOK, Procedure, Logging, Unenrolled, Rooted
<1>7. Counting'
  BY <1>1 DEF IInv, Counting, Sound
<1>8. Snapshots'
  BY <1>1 DEF IInv, Procedure, Snapshots, Covers, Tracing, MarkerRuns, Marked, Sound, Into
<1>9. Unreached'
  BY <1>1 DEF IInv, Unreached, Marked
<1> QED
  BY <1>2, <1>3, <1>4, <1>5, <1>6, <1>7, <1>8, <1>9 DEF IInv

\* The second pause begins.
LEMMA SafepointInv ==
  ASSUME IInv, Safepoint
  PROVE  IInv'
<1>1. /\ at \in {"run", "wait"} /\ phase = "MarkDone" /\ at' = "mark" /\ back' = at
      /\ UNCHANGED <<local, hand, field, live, rc, bit, flagged, parity, buf, phase, work,
                     scan, unswept, tlab, store, then, doomed, missed>>
  BY DEF Safepoint, heap, headers, markerVars, mutatorVars, history
<1>2. TypeOK'
  BY <1>1 DEF IInv, TypeOK
<1>3. Procedure'
  BY <1>1 DEF IInv, TypeOK, Procedure
<1>4. Apart'
  BY <1>1 DEF IInv, TypeOK, Apart, Sound, Into, Listed, H!Held
<1>5. Newborn'
  BY <1>1 DEF IInv, TypeOK, Procedure, Apart, Newborn, Sound, Listed
<1>6. Logging'
  BY <1>1 DEF IInv, TypeOK, Procedure, Logging, Unenrolled, Rooted
<1>7. Counting'
  BY <1>1 DEF IInv, Counting, Sound
<1>8. Snapshots'
  BY <1>1 DEF IInv, Procedure, Snapshots, Covers, Tracing, MarkerRuns, Marked, Sound, Into
<1>9. Unreached'
  BY <1>1 DEF IInv, Unreached, Marked
<1> QED
  BY <1>2, <1>3, <1>4, <1>5, <1>6, <1>7, <1>8, <1>9 DEF IInv

\* The sweep is over.
LEMMA SweepEndsInv ==
  ASSUME IInv, SweepEnds
  PROVE  IInv'
<1>1. /\ phase = "Sweeping" /\ unswept = {} /\ phase' = "Idle"
      /\ UNCHANGED <<local, hand, field, live, rc, bit, flagged, parity, buf, work, scan,
                     unswept, tlab, at, store, then, back, doomed, missed>>
  BY DEF SweepEnds, heap, headers, markerVars, mutatorVars, history
<1>2. TypeOK'
  BY <1>1 DEF IInv, TypeOK
<1>3. Procedure'
  BY <1>1 DEF IInv, TypeOK, Procedure
<1>4. Apart'
  BY <1>1 DEF IInv, TypeOK, Apart, Sound, Into, Listed, H!Held
<1>5. Newborn'
  BY <1>1 DEF IInv, TypeOK, Procedure, Apart, Newborn, Sound, Listed
<1>6. Logging'
  BY <1>1 DEF IInv, TypeOK, Procedure, Logging, Unenrolled, Rooted
<1>7. Counting'
  BY <1>1 DEF IInv, Counting, Sound
<1>8. Snapshots'
  BY <1>1 DEF IInv, Procedure, Snapshots, Covers, Tracing, MarkerRuns, Marked, Sound, Into
<1>9. Unreached'
  BY <1>1 DEF IInv, Unreached, Marked
<1> QED
  BY <1>2, <1>3, <1>4, <1>5, <1>6, <1>7, <1>8, <1>9 DEF IInv

\* The marker takes an object from its list.
LEMMA ClaimInv ==
  ASSUME IInv, NEW o \in Objects, Claim(o)
  PROVE  IInv'
<1>1. /\ MarkerRuns /\ scan.left = {} /\ o \in work /\ work' = work \ {o}
      /\ \/ Marked(o) /\ UNCHANGED <<bit, scan>>
         \/ /\ ~Marked(o) /\ bit' = [bit EXCEPT ![o] = parity]
            /\ scan' = [obj |-> o, left |-> Fields]
      /\ UNCHANGED <<local, hand, field, live, rc, flagged, parity, buf, phase, unswept,
                     tlab, at, store, then, back, doomed, missed>>
  BY DEF Claim, heap, headers, markerVars, mutatorVars, history
<1>2. o \in Sound /\ Tracing
  BY <1>1 DEF IInv, Apart, Listed, Procedure, MarkerRuns, Tracing
<1>3. \A p \in Objects : Marked(p)' <=> Marked(p) \/ (p = o /\ ~Marked(o))
  BY <1>1 DEF IInv, TypeOK, Marked
<1>4. TypeOK'
  <2>1. bit' \in [Objects -> BOOLEAN] /\ scan' \in ScanType
    BY <1>1 DEF ScanType, IInv, TypeOK
  <2> QED
    BY <1>1, <2>1 DEF IInv, TypeOK
<1>5. Procedure'
  BY <1>1 DEF IInv, TypeOK, Procedure
<1>6. Apart'
  BY <1>1 DEF IInv, TypeOK, Apart, Sound, Into, Listed, H!Held
<1>7. Newborn'
  BY <1>1 DEF IInv, TypeOK, Procedure, Apart, Newborn, Sound, Listed
<1>8. Logging'
  BY <1>1 DEF IInv, TypeOK, Procedure, Logging, Unenrolled, Rooted
<1>9. Counting'
  BY <1>1 DEF IInv, Counting, Sound
<1>10. Snapshots'
  <2>1. ASSUME NEW S \in SUBSET Objects, Tracing', Covers(S)'
        PROVE  Sound' \subseteq S
    <3>1. Tracing /\ Covers(S)
      BY <1>1, <2>1, <1>2, <1>3 DEF IInv, Procedure, Covers, Tracing, Marked, Sound, Into,
        TypeOK
    <3> QED
      BY <1>1, <2>1, <3>1, <1>2, <1>3 DEF IInv, Snapshots, Covers, Marked, Sound
  <2>2. /\ ~Tracing' => (\A p \in Sound : Marked(p))' /\ buf'.satb = {}
        /\ ~MarkerRuns' => work' = {} /\ scan'.left = {}
    BY <1>1, <1>2, <1>3 DEF IInv, Procedure, Snapshots, Tracing, MarkerRuns, Marked, Sound
  <2> QED
    BY <2>1, <2>2 DEF Snapshots
<1>11. Unreached'
  BY <1>1, <1>2, <1>3 DEF IInv, TypeOK, Apart, Unreached, Sound
<1> QED
  BY <1>4, <1>5, <1>6, <1>7, <1>8, <1>9, <1>10, <1>11 DEF IInv

\* The marker reads a field of the object it is in.
LEMMA ReadFieldInv ==
  ASSUME IInv, NEW f \in Fields, ReadField(f)
  PROVE  IInv'
<1>1. /\ MarkerRuns /\ f \in scan.left
      /\ work' = work \cup ({field[scan.obj][f]} \ {Null})
      /\ scan'.left = scan.left \ {f} /\ (scan'.left # {} => scan'.obj = scan.obj)
      /\ scan' \in ScanType
      /\ UNCHANGED <<local, hand, field, live, rc, bit, flagged, parity, buf, phase,
                     unswept, tlab, at, store, then, back, doomed, missed>>
  BY DEF ScanType, ReadField, heap, headers, markerVars, mutatorVars, history, IInv, TypeOK
<1>2. /\ scan.obj \in Sound /\ field[scan.obj][f] \in Into(Sound) /\ Tracing
      /\ back = "enroll" => field[scan.obj][f] # hand
  BY <1>1 DEF IInv, Apart, Newborn, Procedure, MarkerRuns, Tracing
<1>3. TypeOK'
  <2>1. work' \subseteq Objects
    BY <1>1, <1>2 DEF IInv, TypeOK, Sound, Into
  <2> QED
    BY <1>1, <2>1 DEF IInv, TypeOK
<1>4. Procedure'
  BY <1>1 DEF IInv, TypeOK, Procedure
<1>5. Apart'
  BY <1>1, <1>2 DEF IInv, TypeOK, Apart, Sound, Into, Listed, H!Held
<1>6. Newborn'
  BY <1>1, <1>2 DEF IInv, TypeOK, Procedure, Apart, Newborn, Sound, Listed
<1>7. Logging'
  BY <1>1 DEF IInv, TypeOK, Procedure, Logging, Unenrolled, Rooted
<1>8. Counting'
  BY <1>1 DEF IInv, Counting, Sound
<1>9. Snapshots'
  <2>1. ASSUME NEW S \in SUBSET Objects, Tracing', Covers(S)'
        PROVE  Sound' \subseteq S
    <3>1. Tracing /\ Covers(S)
      BY <1>1, <2>1, <1>2 DEF IInv, Procedure, Covers, Tracing, Marked, Sound, Into
    <3> QED
      BY <1>1, <2>1, <3>1, <1>2 DEF IInv, Snapshots, Covers, Marked, Sound
  <2>2. /\ ~Tracing' => (\A p \in Sound : Marked(p))' /\ buf'.satb = {}
        /\ ~MarkerRuns' => work' = {} /\ scan'.left = {}
    BY <1>1, <1>2 DEF IInv, Procedure, Snapshots, Tracing, MarkerRuns, Marked, Sound
  <2> QED
    BY <2>1, <2>2 DEF Snapshots
<1>10. Unreached'
  BY <1>1 DEF IInv, Unreached, Marked
<1> QED
  BY <1>3, <1>4, <1>5, <1>6, <1>7, <1>8, <1>9, <1>10 DEF IInv

\* The marker takes the barrier's record, or is done.
LEMMA TakeRecordInv ==
  ASSUME IInv, TakeRecord
  PROVE  IInv'
<1>1. /\ phase = "Marking" /\ scan.left = {} /\ work = {}
      /\ \/ buf.satb = {} /\ phase' = "MarkDone" /\ UNCHANGED <<work, buf>>
         \/ work' = buf.satb /\ buf' = [buf EXCEPT !.satb = {}] /\ UNCHANGED phase
      /\ UNCHANGED <<local, hand, field, live, rc, bit, flagged, parity, scan, unswept,
                     tlab, at, store, then, back, doomed, missed>>
  BY DEF TakeRecord, MarkerIdle, heap, headers, markerVars, mutatorVars, history
<1>2. /\ buf'.logged = buf.logged /\ buf'.dec = buf.dec /\ buf'.nursery = buf.nursery
      /\ buf'.fresh = buf.fresh /\ buf'.dead = buf.dead
      /\ work' \cup buf'.satb = work \cup buf.satb
      /\ work' \subseteq Objects
      /\ buf' \in BufType
  BY <1>1 DEF BufType, IInv, TypeOK
<1>3. Listed' = Listed
  BY <1>2 DEF Listed
<1>4. TypeOK'
  BY <1>1, <1>2 DEF IInv, TypeOK
<1>5. Procedure'
  BY <1>1 DEF BufType, IInv, TypeOK, Procedure
<1>6. Apart'
  <2>1. UNCHANGED <<local, hand, field, live, scan, tlab, doomed>>
    BY <1>1
  <2> QED
    BY <1>3, <2>1 DEF IInv, Apart, Sound, Into, H!Held
<1>7. Newborn'
  <2>1. UNCHANGED <<local, hand, field, live, flagged, scan, doomed, at, back>>
    BY <1>1
  <2> QED
    BY <1>2, <1>3, <2>1 DEF IInv, Newborn, Sound
<1>8. Logging'
  BY <1>1 DEF BufType, IInv, TypeOK, Procedure, Logging, Unenrolled, Rooted
<1>9. Counting'
  BY <1>1, <1>2 DEF IInv, Counting, Sound
<1>10. Snapshots'
  BY <1>1 DEF IInv, Procedure, Snapshots, Covers, Tracing, MarkerRuns, Marked, Sound, Into
<1>11. Unreached'
  BY <1>1 DEF IInv, Unreached, Marked
<1> QED
  BY <1>4, <1>5, <1>6, <1>7, <1>8, <1>9, <1>10, <1>11 DEF IInv

\* The second pause goes on marking, and then settles the counts.
LEMMA FinishMarkingInv ==
  ASSUME IInv, FinishMarking
  PROVE  IInv'
<1>1. /\ at = "mark" /\ scan.left = {} /\ work = {}
      /\ \/ /\ buf.satb # {} /\ work' = buf.satb /\ buf' = [buf EXCEPT !.satb = {}]
            /\ UNCHANGED <<tlab, at, then>>
         \/ /\ buf.satb = {} /\ at' = "settle" /\ then' = "sweep" /\ tlab' = NoBuffer
            /\ UNCHANGED <<work, buf>>
      /\ UNCHANGED <<local, hand, field, live, rc, bit, flagged, parity, phase, scan,
                     unswept, store, back, doomed, missed>>
  BY DEF FinishMarking, MarkerIdle, heap, headers, markerVars, mutatorVars, history
<1>2. /\ buf'.logged = buf.logged /\ buf'.dec = buf.dec /\ buf'.nursery = buf.nursery
      /\ buf'.fresh = buf.fresh /\ buf'.dead = buf.dead
      /\ work' \cup buf'.satb = work \cup buf.satb
      /\ work' \subseteq Objects
      /\ buf' \in BufType
  BY <1>1 DEF BufType, IInv, TypeOK
<1>3. Listed' = Listed
  BY <1>2 DEF Listed

<1>4. ASSUME at' = "settle"
      PROVE  \A o \in Sound : Marked(o)
  <2>1. Tracing /\ buf.satb = {} /\ work = {} /\ scan.left = {}
    BY <1>1, <1>4 DEF IInv, Procedure, Tracing
  <2> DEFINE S == {o \in Sound : Marked(o)}
  <2>2. S \in SUBSET Objects /\ Covers(S)
    BY <2>1 DEF IInv, TypeOK, Sound, Covers
  <2>3. Sound \subseteq S
    BY <2>1, <2>2 DEF IInv, Snapshots
  <2> QED
    BY <2>3
<1>5. /\ UNCHANGED <<local, hand, field, live, rc, bit, flagged, parity, phase, scan, unswept, back,
                     doomed, missed>>
      /\ tlab' \in TlabType /\ tlab'.hole \cap live = {}
      /\ at = "mark" /\ at' \in {"mark", "settle"} /\ then' \in {"nothing", "due", "begin", "sweep"}
  BY <1>1 DEF TlabType, IInv, TypeOK, Apart, NoBuffer
<1>6. TypeOK'
  BY <1>2, <1>5 DEF IInv, TypeOK
<1>7. Procedure'
  BY <1>1 DEF IInv, TypeOK, Procedure
<1>8. Apart'
  BY <1>3, <1>5 DEF IInv, Apart, Sound, Into, H!Held
<1>9. Newborn'
  BY <1>2, <1>3, <1>5 DEF IInv, Procedure, Newborn, Sound
<1>10. Logging'
  BY <1>1 DEF BufType, IInv, TypeOK, Procedure, Logging, Unenrolled, Rooted
<1>11. Counting'
  BY <1>1, <1>2 DEF IInv, Counting, Sound
<1>12. Snapshots'
  <2>1. ASSUME NEW S \in SUBSET Objects, Tracing', Covers(S)'
        PROVE  Sound' \subseteq S
    <3>1. Tracing /\ Covers(S)
      BY <1>1, <2>1, <1>2, <1>4 DEF IInv, Procedure, Covers, Tracing, Marked, Sound, Into
    <3> QED
      BY <1>1, <2>1, <3>1, <1>2, <1>4 DEF IInv, Snapshots, Covers, Marked, Sound
  <2>2. /\ ~Tracing' => (\A p \in Sound : Marked(p))' /\ buf'.satb = {}
        /\ ~MarkerRuns' => work' = {} /\ scan'.left = {}
    BY <1>1, <1>2, <1>4 DEF IInv, Procedure, Snapshots, Tracing, MarkerRuns, Marked, Sound
  <2> QED
    BY <2>1, <2>2 DEF Snapshots
<1>13. Unreached'
  BY <1>1 DEF IInv, Unreached, Marked
<1> QED
  BY <1>6, <1>7, <1>8, <1>9, <1>10, <1>11, <1>12, <1>13 DEF IInv

\* The counts are settled: nothing that covers a reference goes.
LEMMA SettleInv ==
  ASSUME IInv, Settle
  PROVE  IInv'
<1>1. /\ at = "settle" /\ at' = "free" /\ flagged' = flagged \ buf.logged
      /\ rc' = [o \in Objects |-> RcDec(RcInc(rc[o], RefsIn(field, buf.logged, o)), buf.dec[o])]
      /\ buf' \in BufType
      /\ buf'.logged = {} /\ (\A o \in Objects : buf'.dec[o] = 0)
      /\ buf'.satb = buf.satb /\ buf'.fresh = buf.fresh
      /\ buf'.dead \subseteq buf.dead \cup {o \in Objects : buf.dec[o] > 0} \cup buf.nursery
      /\ buf'.nursery \subseteq buf.nursery /\ \A o \in buf'.nursery : Rooted(o)
      /\ UNCHANGED <<local, hand, field, live, bit, parity, phase, work, scan, unswept, tlab, store,
                     then, back, doomed, missed>>
  <2>1. /\ buf \in BufType
        /\ [o \in Objects |-> 0] \in [Objects -> 0 .. Cardinality(Objects \X Fields)]
    <3> DEFINE m == Cardinality(Objects \X Fields)
    <3>1. m \in Nat
      BY CountsAreNumbers DEF IInv
    <3> HIDE DEF m
    <3>2. [o \in Objects |-> 0] \in [Objects -> 0 .. m]
      BY <3>1, NoneCounted
    <3>3. buf \in BufType
      BY BuffersTyped DEF IInv
    <3> QED
      BY <3>2, <3>3 DEF m
  <2>2. \E gone \in SUBSET Objects :
          buf' = [buf EXCEPT !.logged = {}, !.dec = [o \in Objects |-> 0],
                    !.dead = @ \cup (gone \cap ({o \in Objects : buf.dec[o] > 0} \cup buf.nursery)),
                    !.nursery = {o \in @ : Counted[o] = 0 /\ Rooted(o)}]
    BY Zenon DEF Settle
  <2>3. rc' = [o \in Objects |-> RcDec(RcInc(rc[o], RefsIn(field, buf.logged, o)), buf.dec[o])]
    BY ReferencesIn DEF Settle, Counted
  <2> QED
    BY <2>1, <2>2, <2>3, Zenon DEF BufType, Settle, headers, heap, markerVars, history
<1>2. Listed' \subseteq Listed
  BY <1>1 DEF Listed
<1>3. ASSUME NEW o \in Objects
      PROVE  /\ rc[o] \in 0 .. RcMax /\ RefsIn(field, buf.logged, o) \in Nat /\ buf.dec[o] \in Nat
             /\ RcInc(rc[o], RefsIn(field, buf.logged, o)) \in 0 .. RcMax
  <2>1. rc[o] \in 0 .. RcMax
    BY DEF IInv, TypeOK
  <2>2. RefsIn(field, buf.logged, o) \in Nat
    BY PointersFinite DEF BufType, IInv, TypeOK
  <2>3. buf.dec[o] \in Nat
    BY CountsAreNumbers DEF IInv
  <2> QED
    BY <2>1, <2>2, <2>3, CountsInRange
<1>4. TypeOK'
  <2>1. rc' \in [Objects -> 0 .. RcMax]
    BY <1>1, <1>3, CountsInRange
  <2> QED
    BY <1>1, <2>1 DEF IInv, TypeOK
<1>5. Procedure'
  BY <1>1 DEF IInv, Procedure
<1>6. Apart'
  <2>1. H!Held' = H!Held /\ Sound' = Sound
    BY <1>1 DEF H!Held, Sound
  <2> QED
    BY <1>1, <1>2, <2>1 DEF IInv, Apart
<1>7. Newborn'
  <2>1. buf'.fresh \cap (buf'.nursery \cup buf'.dead) = {}
    BY <1>1 DEF IInv, TypeOK, Newborn
  <2>2. \A o \in buf'.fresh : buf'.dec[o] = 0
    BY <1>1 DEF BufType, IInv, TypeOK
  <2>3. back = "enroll" => hand \notin buf.logged
    BY DEF IInv, Newborn, Listed
  <2> QED
    BY <1>1, <1>2, <2>1, <2>2, <2>3 DEF IInv, Newborn, Sound
<1>8. Logging'
  <2>1. Cardinality({} \X Fields) \in Nat
    BY SlotsWithin
  <2>2. buf.logged \cap Unenrolled = {}
    BY DEF IInv, Newborn, Listed, Unenrolled
  <2> QED
    BY <1>1, <2>1, <2>2 DEF IInv, TypeOK, Logging, Unenrolled, Rooted
<1>9. Counting'
  <2>1. ASSUME NEW o \in Sound
        PROVE  rc'[o] = RcMax \/ rc'[o] >= RefsIn(field, Sound, o) + 0
    <3>1. /\ o \in Objects /\ Sound \ buf.logged \in SUBSET Objects /\ buf.logged \in SUBSET Objects
          /\ (Sound \ buf.logged) \cap buf.logged = {}
          /\ Sound = (Sound \ buf.logged) \cup buf.logged
      BY DEF IInv, TypeOK, Sound, Apart, Listed
    <3>2. RefsIn(field, (Sound \ buf.logged) \cup buf.logged, o) =
            RefsIn(field, Sound \ buf.logged, o) + RefsIn(field, buf.logged, o)
      BY <3>1, ReferencesAdd
    <3>3. RefsIn(field, Sound \ buf.logged, o) \in Nat
      BY <3>1, PointersFinite
    <3>4. rc[o] = RcMax \/ rc[o] >= RefsIn(field, Sound \ buf.logged, o) + buf.dec[o]
      BY DEF IInv, Counting
    <3>5. \/ rc'[o] = RcMax
          \/ rc'[o] >= RefsIn(field, Sound \ buf.logged, o) + RefsIn(field, buf.logged, o)
      BY <1>1, <1>3, <3>1, <3>3, <3>4, SettledCovers
    <3>6. RefsIn(field, Sound, o) =
            RefsIn(field, Sound \ buf.logged, o) + RefsIn(field, buf.logged, o)
      BY <3>1, <3>2, Zenon
    <3> QED
      BY <1>3, <3>1, <3>3, <3>5, <3>6
  <2>2. Sound' = Sound /\ Sound' \ buf'.logged = Sound /\ \A o \in Sound : buf'.dec[o] = 0
    BY <1>1 DEF IInv, TypeOK, Sound
  <2> QED
    BY <1>1, <2>1, <2>2 DEF Counting
<1>10. Snapshots'
  <2>1. ASSUME NEW S \in SUBSET Objects, Tracing', Covers(S)'
        PROVE  Sound' \subseteq S
    <3>1. Tracing /\ Covers(S)
      BY <1>1, <2>1 DEF IInv, Procedure, Covers, Tracing, Marked, Sound, Into
    <3> QED
      BY <1>1, <2>1, <3>1 DEF IInv, Snapshots, Covers, Marked, Sound
  <2>2. /\ ~Tracing' => (\A p \in Sound : Marked(p))' /\ buf'.satb = {}
        /\ ~MarkerRuns' => work' = {} /\ scan'.left = {}
    BY <1>1 DEF IInv, Procedure, Snapshots, Tracing, MarkerRuns, Marked, Sound
  <2> QED
    BY <2>1, <2>2 DEF Snapshots
<1>11. Unreached'
  BY <1>1 DEF IInv, Unreached, Marked
<1> QED
  BY <1>4, <1>5, <1>6, <1>7, <1>8, <1>9, <1>10, <1>11 DEF IInv

\* What is listed as dead may not be: it is struck off.
LEMMA SpareInv ==
  ASSUME IInv, NEW o \in Objects, FreeOne(o), rc[o] > 0 \/ Rooted(o) \/ o \notin live
  PROVE  IInv'
<1>1. /\ at = "free" /\ buf' = [buf EXCEPT !.dead = @ \ {o}]
      /\ UNCHANGED <<local, hand, field, live, rc, bit, flagged, parity, phase, work,
                     scan, unswept, tlab, at, store, then, back, doomed, missed>>
  BY DEF FreeOne, FreeOneSparing, heap, headers, markerVars, mutatorVars, history
<1>2. /\ buf'.logged = buf.logged /\ buf'.dec = buf.dec /\ buf'.nursery = buf.nursery
      /\ buf'.fresh = buf.fresh /\ buf'.dead \subseteq buf.dead /\ buf'.satb = buf.satb
      /\ buf' \in BufType
  BY <1>1 DEF BufType, IInv, TypeOK
<1>3. Listed' \subseteq Listed
  BY <1>1, <1>2 DEF Listed
<1>4. TypeOK'
  BY <1>1, <1>2 DEF IInv, TypeOK
<1>5. Procedure'
  BY <1>1, <1>2 DEF IInv, Procedure
<1>6. Apart'
  BY <1>1, <1>3 DEF IInv, Apart, Sound, H!Held
<1>7. Newborn'
  BY <1>1, <1>2, <1>3 DEF IInv, Newborn, Sound
<1>8. Logging'
  BY <1>1, <1>2 DEF IInv, Logging, Unenrolled, Rooted
<1>9. Counting'
  BY <1>1, <1>2 DEF IInv, Counting, Sound
<1>10. Snapshots'
  <2>1. ASSUME NEW S \in SUBSET Objects, Tracing', Covers(S)'
        PROVE  Sound' \subseteq S
    <3>1. Tracing /\ Covers(S)
      BY <1>1, <2>1, <1>2 DEF IInv, Procedure, Covers, Tracing, Marked, Sound, Into
    <3> QED
      BY <1>1, <2>1, <3>1, <1>2 DEF IInv, Snapshots, Covers, Marked, Sound
  <2>2. /\ ~Tracing' => (\A p \in Sound : Marked(p))' /\ buf'.satb = {}
        /\ ~MarkerRuns' => work' = {} /\ scan'.left = {}
    BY <1>1, <1>2 DEF IInv, Procedure, Snapshots, Tracing, MarkerRuns, Marked, Sound
  <2> QED
    BY <2>1, <2>2 DEF Snapshots
<1>11. Unreached'
  BY <1>1 DEF IInv, Unreached, Marked
<1> QED
  BY <1>4, <1>5, <1>6, <1>7, <1>8, <1>9, <1>10, <1>11 DEF IInv

\* What the counts say no Sound object refers to goes, and its references with it.
LEMMA FreeInv ==
  ASSUME IInv, NEW o \in Objects, FreeOne(o), ~(rc[o] > 0 \/ Rooted(o) \/ o \notin live)
  PROVE  IInv'
<1>1. /\ at = "free" /\ ~Tracing /\ o \in buf.dead /\ o \in live /\ ~Rooted(o) /\ rc[o] = 0
      /\ \E orphans \in SUBSET (Snapshot(o) \ buf.fresh) :
           buf' = [buf EXCEPT !.dead = (@ \ {o}) \cup orphans]
      /\ live' = live \ {o} /\ flagged' = flagged \ {o}
      /\ doomed' = doomed \ {o} /\ missed' = missed \ {o}
      /\ field' = [p \in Objects |-> IF p = o THEN H!Empty ELSE field[p]]
      /\ bit' = [p \in Objects |-> IF p = o THEN FALSE ELSE bit[p]]
      /\ rc' = [p \in Objects |-> IF p = o THEN 0 ELSE RcDec(rc[p], RefsIn(field, {o}, p))]
      /\ UNCHANGED <<local, hand, parity, phase, work, scan, unswept, tlab, at, store, then, back>>
  <2>1. rc[o] = 0
    BY CountsAreNumbers DEF IInv
  <2>2. LET left == [c \in Objects |-> RcDec(rc[c], References({o}, c))]
            orphans == {c \in Snapshot(o) : left[c] = 0 /\ ~Rooted(c) /\ c \notin buf.fresh}
        IN buf' = [buf EXCEPT !.dead = (@ \ {o}) \cup orphans] /\ Free({o}, left)
    BY <2>1 DEF FreeOne, FreeOneSparing
  <2>3. \A p \in Objects : (rc' = [q \in Objects |-> IF q \in {o} THEN 0 ELSE
                              [c \in Objects |-> RcDec(rc[c], References({o}, c))][q]])
    BY <2>2 DEF Free
  <2>4. rc' = [p \in Objects |-> IF p = o THEN 0 ELSE RcDec(rc[p], RefsIn(field, {o}, p))]
    BY <2>3, ReferencesIn
  <2>5. \E orphans \in SUBSET (Snapshot(o) \ buf.fresh) :
           buf' = [buf EXCEPT !.dead = (@ \ {o}) \cup orphans]
    BY <2>2
  <2> QED
    BY <2>1, <2>2, <2>4, <2>5 DEF FreeOne, FreeOneSparing, Free, mutatorVars, markerVars
<1>2. o \in Sound /\ Sound' = Sound \ {o} /\ Sound \in SUBSET Objects /\ doomed' = doomed
  BY <1>1 DEF IInv, TypeOK, Apart, Listed, Sound
<1>3. /\ buf.logged = {} /\ (\A c \in Objects : buf.dec[c] = 0) /\ buf.satb = {} /\ work = {}
      /\ scan.left = {} /\ \A c \in buf.nursery : Rooted(c)
  BY <1>1 DEF IInv, Logging, Snapshots, MarkerRuns, Tracing
<1>4. \A p \in Sound, f \in Fields : field[p][f] # o
  <2>1. 0 = RcMax \/ 0 >= RefsIn(field, Sound \ buf.logged, o) + buf.dec[o]
    BY <1>1, <1>2 DEF IInv, Counting
  <2>2. RefsIn(field, Sound, o) \in Nat
    BY <1>2, PointersFinite
  <2>3. Sound \ buf.logged = Sound /\ buf.dec[o] = 0
    BY <1>3
  <2>4. RefsIn(field, Sound, o) = 0
    BY <2>1, <2>2, <2>3, ReclaimAssumption
  <2> QED
    BY <1>2, <2>4, ZeroMeansNone
<1>5. o # hand /\ \A x \in Locals : local[x] # o
  <2>1. o \in Listed /\ o \in Objects /\ o # Null
    BY <1>1, ReclaimAssumption DEF Listed
  <2>2. back = "enroll" => o # hand
    BY <2>1 DEF IInv, Newborn
  <2>3. back = "assign" => o # hand
    BY <1>1 DEF IInv, Newborn
  <2>4. back \notin {"enroll", "assign"} => o # hand
    BY <2>1 DEF IInv, TypeOK, Procedure
  <2> QED
    BY <1>1, <2>2, <2>3, <2>4 DEF Rooted
<1>6. PICK orphans \in SUBSET (Snapshot(o) \ buf.fresh) :
        buf' = [buf EXCEPT !.dead = (@ \ {o}) \cup orphans]
  BY <1>1
<1>7. /\ buf'.logged = {} /\ (\A c \in Objects : buf'.dec[c] = 0) /\ buf'.satb = {}
      /\ buf'.nursery = buf.nursery /\ buf'.fresh = buf.fresh
      /\ o \notin buf.nursery \cup buf.fresh
      /\ buf'.dead = (buf.dead \ {o}) \cup orphans
  BY <1>1, <1>3, <1>6 DEF BufType, IInv, TypeOK, Newborn, Rooted
<1>8. orphans \subseteq Sound \ {o}
  BY <1>2, <1>4, <1>6 DEF IInv, Apart, Snapshot, Into
<1>9. Listed' \subseteq (Listed \ {o}) \cup orphans
  BY <1>1, <1>3, <1>7, <1>8 DEF Listed
<1>10. ASSUME NEW p \in Objects
       PROVE  rc[p] \in 0 .. RcMax /\ RefsIn(field, {o}, p) \in Nat
  BY PointersFinite DEF IInv, TypeOK
<1>11. TypeOK'
  <2>1. buf' \in BufType
    BY <1>2, <1>6, <1>8 DEF BufType, IInv, TypeOK
  <2>2. rc' \in [Objects -> 0 .. RcMax]
    BY <1>1, <1>10, CountsInRange, ReclaimAssumption
  <2>3. field' \in [Objects -> [Fields -> Objects \cup {Null}]] /\ bit' \in [Objects -> BOOLEAN]
    BY <1>1 DEF IInv, TypeOK, H!Empty
  <2>4. live' \subseteq Objects /\ flagged' \subseteq Objects
    BY <1>1 DEF IInv, TypeOK
  <2> QED
    BY <1>1, <2>1, <2>2, <2>3, <2>4 DEF IInv, TypeOK
<1>12. Procedure'
  BY <1>1 DEF IInv, Procedure
<1>13. Apart'
  <2>1. \A p \in Sound', f \in Fields : field'[p][f] \in Into(Sound')
    BY <1>1, <1>2, <1>4 DEF IInv, Apart, Into
  <2>2. H!Held' \subseteq Sound'
    BY <1>1, <1>2, <1>5 DEF IInv, Apart, H!Held
  <2>3. Listed' \subseteq Sound'
    BY <1>2, <1>8, <1>9 DEF IInv, Apart
  <2>4. \A p \in Objects \ live' : field'[p] = H!Empty
    BY <1>1 DEF IInv, Apart
  <2> QED
    BY <1>1, <1>2, <1>3, <2>1, <2>2, <2>3, <2>4 DEF IInv, Apart, H!Empty
<1>14. Newborn'
  <2>1. back = "enroll" => hand \notin orphans /\ hand \notin Listed
    BY <1>2, <1>6 DEF IInv, Newborn, Snapshot
  <2>2. back = "enroll" => \A p \in Sound \ {o}, f \in Fields : field'[p][f] # hand
    BY <1>1, <1>2 DEF IInv, Newborn
  <2> QED
    BY <1>1, <1>2, <1>3, <1>5, <1>6, <1>7, <1>9, <2>1, <2>2 DEF IInv, TypeOK, Newborn
<1>15. Logging'
  <2>1. Cardinality({} \X Fields) \in Nat
    BY SlotsWithin
  <2> QED
    BY <1>1, <1>3, <1>7, <2>1 DEF IInv, Logging, Unenrolled, Rooted
<1>16. Counting'
  <2>1. ASSUME NEW c \in Sound \ {o}
        PROVE  rc'[c] = RcMax \/ rc'[c] >= RefsIn(field', Sound \ {o}, c) + 0
    <3>1. /\ Sound \ {o} \in SUBSET Objects /\ {o} \in SUBSET Objects
          /\ Sound = (Sound \ {o}) \cup {o} /\ (Sound \ {o}) \cap {o} = {}
          /\ Sound \ buf.logged = Sound /\ c \in Objects
      BY <1>2, <1>3
    <3>2. RefsIn(field, (Sound \ {o}) \cup {o}, c) =
            RefsIn(field, Sound \ {o}, c) + RefsIn(field, {o}, c)
      BY <3>1, ReferencesAdd
    <3>3. rc[c] = RcMax \/ rc[c] >= RefsIn(field, Sound \ buf.logged, c) + buf.dec[c]
      BY DEF IInv, Counting
    <3>4. RefsIn(field, Sound \ buf.logged, c) =
            RefsIn(field, Sound \ {o}, c) + RefsIn(field, {o}, c)
      BY <3>1, <3>2, Zenon
    <3>5. RefsIn(field, Sound \ {o}, c) \in Nat /\ buf.dec[c] = 0
      BY <1>3, <3>1, PointersFinite
    <3>6. rc'[c] = RcDec(rc[c], RefsIn(field, {o}, c))
      BY <1>1, <3>1
    <3>7. rc'[c] = RcMax \/ rc'[c] >= RefsIn(field, Sound \ {o}, c)
      <4>1. rc[c] \in 0 .. RcMax /\ RefsIn(field, {o}, c) \in Nat
        BY <1>10, <3>1
      <4>2. rc[c] \in Nat
        BY <3>1, CountsAreNumbers DEF IInv
      <4>3. rc[c] = RcMax \/ rc[c] >= RefsIn(field, Sound \ {o}, c) + RefsIn(field, {o}, c)
        BY <3>3, <3>4, <3>5, <4>1, <4>2
      <4> QED
        BY <3>5, <3>6, <4>1, <4>3, FreedCovers
    <3>8. \A p \in Sound \ {o} : field'[p] = field[p]
      BY <1>1, <1>2
    <3>9. RefsIn(field', Sound \ {o}, c) = RefsIn(field, Sound \ {o}, c)
      BY <3>8, SameReferences
    <3> QED
      BY <3>5, <3>7, <3>9
  <2>2. Sound' \ buf'.logged = Sound \ {o} /\ \A c \in Sound \ {o} : buf'.dec[c] = 0
    BY <1>2, <1>7
  <2> QED
    BY <1>2, <2>1, <2>2 DEF Counting
<1>17. Snapshots'
  <2>1. ~Tracing' /\ (~MarkerRuns)'
    BY <1>1 DEF IInv, Tracing, MarkerRuns
  <2>2. \A p \in Sound \ {o} : bit'[p] = bit[p]
    BY <1>1, <1>2
  <2> QED
    BY <1>1, <1>2, <1>3, <1>7, <2>1, <2>2 DEF IInv, Snapshots, Marked
<1>18. Unreached'
  BY <1>1, <1>2 DEF IInv, TypeOK, Apart, Unreached, Marked, Sound
<1> QED
  BY <1>11, <1>12, <1>13, <1>14, <1>15, <1>16, <1>17, <1>18 DEF IInv

\* The sweep frees what the trace left unmarked, none of it Sound.
LEMMA SweepBlockInv ==
  ASSUME IInv, NEW b \in Blocks, SweepBlock(b)
  PROVE  IInv'
<1> DEFINE garbage == {o \in InBlock(b) \cap live : ~Marked(o)}
<1>1. /\ phase = "Sweeping" /\ unswept' = unswept \ {b}
      /\ UNCHANGED <<local, hand, parity, buf, phase, work, scan, tlab, at, store, then, back>>
      /\ \/ missed' = missed \cup garbage /\ UNCHANGED <<field, live, rc, bit, flagged, doomed>>
         \/ /\ live' = live \ garbage /\ flagged' = flagged \ garbage
            /\ doomed' = doomed \ garbage /\ missed' = missed \ garbage
            /\ field' = [p \in Objects |-> IF p \in garbage THEN H!Empty ELSE field[p]]
            /\ bit' = [p \in Objects |-> IF p \in garbage THEN FALSE ELSE bit[p]]
            /\ rc' = [p \in Objects |-> IF p \in garbage THEN 0 ELSE rc[p]]
  BY DEF SweepBlock, Free, heap, headers, mutatorVars
<1> HIDE DEF garbage
<1>2. garbage \cap Sound = {} /\ garbage \subseteq doomed
  <2>1. \A o \in Sound : Marked(o)
    BY <1>1 DEF IInv, Procedure, Snapshots, Tracing
  <2> QED
    BY <2>1 DEF garbage, Sound
<1>3. /\ Sound' = Sound
      /\ \A p \in Sound : field'[p] = field[p] /\ bit'[p] = bit[p] /\ rc'[p] = rc[p]
      /\ live' \subseteq live /\ doomed' \subseteq doomed /\ doomed' \subseteq live'
      /\ flagged \cap Sound \subseteq flagged' /\ flagged' \subseteq flagged
      /\ \A p \in Objects \ live' : field'[p] = H!Empty
  <2>1. doomed \subseteq live /\ live \subseteq Objects /\ \A p \in Objects \ live : field[p] = H!Empty
    BY DEF IInv, TypeOK, Apart
  <2>2. CASE UNCHANGED <<field, live, rc, bit, flagged, doomed>>
    BY <2>1, <2>2 DEF Sound
  <2>3. CASE ~UNCHANGED <<field, live, rc, bit, flagged, doomed>>
    <3>1. /\ live' = live \ garbage /\ flagged' = flagged \ garbage /\ doomed' = doomed \ garbage
          /\ field' = [p \in Objects |-> IF p \in garbage THEN H!Empty ELSE field[p]]
          /\ bit' = [p \in Objects |-> IF p \in garbage THEN FALSE ELSE bit[p]]
          /\ rc' = [p \in Objects |-> IF p \in garbage THEN 0 ELSE rc[p]]
      BY <1>1, <2>3
    <3>2. Sound' = Sound /\ Sound \subseteq Objects
      BY <1>2, <2>1, <3>1 DEF Sound
    <3>3. \A p \in Sound : field'[p] = field[p] /\ bit'[p] = bit[p] /\ rc'[p] = rc[p]
      BY <1>2, <3>1, <3>2
    <3>4. flagged \cap Sound \subseteq flagged'
      BY <1>2, <3>1
    <3>5. \A p \in Objects \ live' : field'[p] = H!Empty
      BY <2>1, <3>1
    <3> QED
      BY <2>1, <3>1, <3>2, <3>3, <3>4, <3>5
  <2> QED
    BY <2>2, <2>3
<1>4. Listed' = Listed /\ UNCHANGED <<buf, scan>>
  BY <1>1 DEF Listed
<1>5. \A o \in doomed \ missed : BlockOf[o] = b => o \in garbage
  BY DEF IInv, TypeOK, Apart, Unreached, garbage, InBlock
<1>6. TypeOK'
  <2>1. /\ rc' \in [Objects -> 0 .. RcMax] /\ bit' \in [Objects -> BOOLEAN]
        /\ field' \in [Objects -> [Fields -> Objects \cup {Null}]]
    <3>1. CASE UNCHANGED <<field, rc, bit>>
      BY <3>1 DEF IInv, TypeOK
    <3>2. CASE /\ field' = [p \in Objects |-> IF p \in garbage THEN H!Empty ELSE field[p]]
               /\ bit' = [p \in Objects |-> IF p \in garbage THEN FALSE ELSE bit[p]]
               /\ rc' = [p \in Objects |-> IF p \in garbage THEN 0 ELSE rc[p]]
      <4>1. \A p \in Objects : rc'[p] \in 0 .. RcMax
        <5>1. 0 \in 0 .. RcMax
          BY ReclaimAssumption
        <5> QED
          BY <3>2, <5>1 DEF IInv, TypeOK
      <4>2. \A p \in Objects : field'[p] \in [Fields -> Objects \cup {Null}] /\ bit'[p] \in BOOLEAN
        BY <3>2 DEF IInv, TypeOK, H!Empty
      <4> QED
        BY <3>2, <4>1, <4>2
    <3> QED
      BY <1>1, <3>1, <3>2
  <2>3. live' \subseteq Objects /\ flagged' \subseteq Objects /\ unswept' \subseteq Blocks
    BY <1>1, <1>3 DEF IInv, TypeOK
  <2>4. UNCHANGED <<local, hand, parity, buf, phase, work, scan, tlab, at, then, back>>
    BY <1>1
  <2>5. buf' \in BufType
    BY <2>4 DEF IInv, TypeOK
  <2>6. /\ local' \in [Locals -> Objects \cup {Null}] /\ hand' \in Objects \cup {Null}
        /\ scan' \in ScanType
        /\ tlab' \in TlabType
    BY <2>4 DEF IInv, TypeOK
  <2> QED
    BY <2>1, <2>3, <2>4, <2>5, <2>6 DEF IInv, TypeOK
<1>7. Procedure'
  BY <1>1 DEF IInv, Procedure
<1>8. Apart'
  <2>1. UNCHANGED <<local, hand, scan, tlab>>
    BY <1>1
  <2> QED
    BY <1>3, <1>4, <2>1 DEF IInv, Apart, Into, H!Held, H!Empty
<1>9. Newborn'
  <2>1. UNCHANGED <<local, hand, scan, at, back>>
    BY <1>1
  <2>2. back = "enroll" => hand \in Sound
    BY DEF IInv, Procedure, Apart, H!Held
  <2> QED
    BY <1>3, <1>4, <2>1, <2>2 DEF IInv, Newborn
<1>10. Logging'
  <2>1. buf.logged \subseteq Sound
    BY DEF IInv, Apart, Listed
  <2> QED
    BY <1>1, <1>3, <1>4, <2>1 DEF IInv, Logging, Unenrolled, Rooted
<1>11. Counting'
  <2>1. \A c : RefsIn(field', Sound \ buf.logged, c) = RefsIn(field, Sound \ buf.logged, c)
    BY <1>3, SameReferences
  <2> QED
    BY <1>3, <1>4, <2>1 DEF IInv, Counting
<1>12. Snapshots'
  <2>1. ~Tracing /\ ~Tracing' /\ (MarkerRuns' <=> MarkerRuns) /\ UNCHANGED <<parity, work, scan>>
    BY <1>1 DEF IInv, Procedure, Tracing, MarkerRuns
  <2> QED
    BY <1>3, <1>4, <2>1 DEF IInv, Snapshots, Marked
<1>13. Unreached'
  <2>1. CASE UNCHANGED <<bit, doomed>> /\ missed' = missed \cup garbage
    BY <1>1, <1>5, <2>1 DEF IInv, TypeOK, Apart, Unreached, Marked
  <2>2. CASE doomed' = doomed \ garbage /\ missed' = missed \ garbage
             /\ bit' = [p \in Objects |-> IF p \in garbage THEN FALSE ELSE bit[p]]
    BY <1>1, <1>5, <2>2 DEF IInv, TypeOK, Apart, Unreached, Marked
  <2> QED
    BY <1>1, <2>1, <2>2
<1> QED
  BY <1>6, <1>7, <1>8, <1>9, <1>10, <1>11, <1>12, <1>13 DEF IInv

\* The end of a collection that starts no trace and ends none.
LEMMA CollectOnlyInv ==
  ASSUME IInv, CollectEnds, then # "sweep", ~Begins
  PROVE  IInv'
<1>1. /\ at = "free" /\ at' = back /\ then' = "nothing"
      /\ \E N \in SUBSET (buf.nursery \cup buf.fresh) :
           buf' = [buf EXCEPT !.fresh = {}, !.nursery = N]
      /\ UNCHANGED <<local, hand, field, live, rc, bit, flagged, parity, phase, work,
                     scan, unswept, tlab, store, back, doomed, missed>>
  BY Zenon DEF CollectEnds, BeginSweep, heap, headers, markerVars, mutatorVars, history
<1>2. /\ buf'.fresh = {} /\ buf'.nursery \subseteq buf.nursery \cup buf.fresh
      /\ buf'.logged = {} /\ buf'.dead = buf.dead /\ buf'.satb = buf.satb
      /\ buf'.dec = buf.dec /\ buf.logged = {} /\ \A o \in Objects : buf.dec[o] = 0
  BY <1>1 DEF IInv, TypeOK, Logging
<1>3. buf' \in BufType
  BY <1>1 DEF BufType, IInv, TypeOK
<1>4. Listed' \subseteq Listed
  BY <1>1, <1>2 DEF Listed
<1>5. Sound' = Sound
  BY <1>1 DEF Sound
<1>6. TypeOK'
  BY <1>1, <1>3 DEF IInv, TypeOK
<1>7. Procedure'
  BY <1>1 DEF IInv, TypeOK, Procedure
<1>8. Apart'
  BY <1>1, <1>4, <1>5 DEF IInv, Apart, H!Held
<1>9. Newborn'
  BY <1>1, <1>2, <1>4, <1>5 DEF IInv, TypeOK, Newborn, Procedure
<1>10. Logging'
  <2>1. Cardinality({} \X Fields) \in Nat
    BY SlotsWithin
  <2> QED
    BY <1>1, <1>2, <2>1 DEF IInv, TypeOK, Procedure, Logging, Unenrolled
<1>11. Counting'
  BY <1>1, <1>2, <1>5 DEF IInv, Counting
<1>12. Snapshots'
  <2>1. ASSUME NEW S \in SUBSET Objects, Tracing', Covers(S)'
        PROVE  Sound' \subseteq S
    <3>1. Tracing /\ Covers(S)
      BY <1>1, <2>1, <1>2 DEF IInv, Procedure, Covers, Tracing, Marked, Sound, Into
    <3> QED
      BY <1>1, <2>1, <3>1, <1>2 DEF IInv, Snapshots, Covers, Marked, Sound
  <2>2. /\ ~Tracing' => (\A p \in Sound : Marked(p))' /\ buf'.satb = {}
        /\ ~MarkerRuns' => work' = {} /\ scan'.left = {}
    BY <1>1, <1>2 DEF IInv, Procedure, Snapshots, Tracing, MarkerRuns, Marked, Sound
  <2> QED
    BY <2>1, <2>2 DEF Snapshots
<1>13. Unreached'
  BY <1>1 DEF IInv, Unreached, Marked
<1> QED
  BY <1>6, <1>7, <1>8, <1>9, <1>10, <1>11, <1>12, <1>13 DEF IInv

\* The end of the collection a trace ends with.
LEMMA BeginSweepInv ==
  ASSUME IInv, CollectEnds, then = "sweep"
  PROVE  IInv'
<1>1. /\ at = "free" /\ at' = back /\ then' = "nothing"
      /\ \E N \in SUBSET (buf.nursery \cup buf.fresh) :
           buf' = [buf EXCEPT !.fresh = {}, !.nursery = N]
      /\ phase' = "Sweeping" /\ unswept' = Blocks
      /\ UNCHANGED <<local, hand, field, live, rc, bit, flagged, parity, work, scan, tlab,
                     store, back, doomed, missed>>
  BY Zenon DEF CollectEnds, Begins, BeginSweep, heap, headers, markerVars, mutatorVars, history
<1>2. /\ buf'.fresh = {} /\ buf'.nursery \subseteq buf.nursery \cup buf.fresh
      /\ buf'.logged = {} /\ buf'.dead = buf.dead /\ buf'.satb = buf.satb
      /\ buf'.dec = buf.dec /\ buf.logged = {} /\ \A o \in Objects : buf.dec[o] = 0
  BY <1>1 DEF IInv, TypeOK, Logging
<1>3. buf' \in BufType
  BY <1>1 DEF BufType, IInv, TypeOK
<1>4. Listed' \subseteq Listed
  BY <1>1, <1>2 DEF Listed
<1>5. Sound' = Sound
  BY <1>1 DEF Sound
<1>6. phase = "MarkDone" /\ ~Tracing /\ ~MarkerRuns /\ ~Tracing' /\ ~MarkerRuns'
  BY <1>1 DEF IInv, TypeOK, Procedure, Tracing, MarkerRuns
<1>7. TypeOK'
  BY <1>1, <1>3 DEF IInv, TypeOK
<1>8. Procedure'
  BY <1>1 DEF IInv, TypeOK, Procedure
<1>9. Apart'
  BY <1>1, <1>4, <1>5 DEF IInv, Apart, H!Held
<1>10. Newborn'
  BY <1>1, <1>2, <1>4, <1>5 DEF IInv, TypeOK, Newborn, Procedure
<1>11. Logging'
  <2>1. Cardinality({} \X Fields) \in Nat
    BY SlotsWithin
  <2> QED
    BY <1>1, <1>2, <2>1 DEF IInv, TypeOK, Procedure, Logging, Unenrolled
<1>12. Counting'
  BY <1>1, <1>2, <1>5 DEF IInv, Counting
<1>13. Snapshots'
  BY <1>1, <1>2, <1>5, <1>6 DEF IInv, Snapshots, Marked
<1>14. Unreached'
  BY <1>1, <1>6, ReclaimAssumption DEF IInv, TypeOK, Apart, Unreached, Marked
<1> QED
  BY <1>7, <1>8, <1>9, <1>10, <1>11, <1>12, <1>13, <1>14 DEF IInv

\* The end of the collection a trace begins with.
LEMMA BeginTraceInv ==
  ASSUME IInv, CollectEnds, Begins
  PROVE  IInv'
<1> DEFINE roots == {o \in Objects : Rooted(o)} \cup buf.fresh \cup
                      (buf.nursery \cup {o \in buf.fresh : rc[o] = 0})
           reached == H!ReachableFrom(roots)
<1>1. /\ at = "free" /\ (Tracing \/ buf.dead = {}) /\ at' = back /\ then' = "nothing"
      /\ buf' = [buf EXCEPT !.fresh = {},
                            !.nursery = buf.nursery \cup {o \in buf.fresh : rc[o] = 0}]
      /\ parity' = ~parity /\ work' = roots /\ phase' = "Marking" /\ doomed' = live \ reached
      /\ UNCHANGED <<local, hand, field, live, rc, bit, flagged, scan, unswept, tlab, store,
                     back, missed>>
  BY DEF CollectEnds, Begins, BeginTrace, heap, headers
<1>2. phase = "Idle" /\ back # "enroll" /\ ~Tracing /\ ~MarkerRuns
  BY <1>1 DEF IInv, Procedure, Begins, Tracing, MarkerRuns

<1>3. /\ buf'.fresh = {} /\ buf'.nursery \subseteq buf.nursery \cup buf.fresh
      /\ buf'.logged = {} /\ buf'.dead = buf.dead /\ buf'.satb = buf.satb
      /\ buf'.dec = buf.dec /\ buf.logged = {} /\ \A o \in Objects : buf.dec[o] = 0
  BY <1>1 DEF IInv, TypeOK, Logging
<1>4. buf' \in BufType
  <2>1. buf.nursery \cup {o \in buf.fresh : rc[o] = 0} \in SUBSET Objects
    BY DEF BufType, IInv, TypeOK
  <2> QED
    BY <1>1, <2>1 DEF BufType, IInv, TypeOK
<1>5. /\ flagged = {} /\ buf.dead = {} /\ buf.satb = {} /\ scan.left = {}
      /\ \A o \in Sound : Marked(o)
      /\ \A o \in doomed : o \in missed
  BY <1>1, <1>2, <1>3 DEF IInv, Logging, Unenrolled, Snapshots, Unreached
<1>6. /\ roots \subseteq Sound /\ roots \subseteq Objects
      /\ Sound \subseteq Objects /\ H!Held \subseteq roots
  <2>1. roots \subseteq Sound /\ Sound \subseteq Objects
    <3>1. \A o \in Objects : Rooted(o) => o \in Sound
      BY ReclaimAssumption DEF IInv, Apart, H!Held, Rooted
    <3>2. buf.fresh \cup buf.nursery \subseteq Sound
      BY DEF IInv, Apart, Listed
    <3> QED
      BY <3>1, <3>2 DEF IInv, TypeOK, Sound
  <2>2. H!Held \subseteq roots
    BY <1>1, <1>2, ReclaimAssumption DEF IInv, TypeOK, Procedure, Newborn, H!Held, Rooted
  <2> QED
    BY <2>1, <2>2
<1> HIDE DEF roots
<1>7. H!Closed(Sound)
  BY DEF IInv, Apart, Into, H!Closed
<1>8. field \in [Objects -> [Fields -> Objects \cup {Null}]]
  BY DEF IInv, TypeOK
<1>9. /\ roots \subseteq reached /\ reached \subseteq Sound /\ H!Closed(reached)
      /\ \A T \in SUBSET Objects : roots \subseteq T /\ H!Closed(T) => reached \subseteq T
  BY <1>6, <1>7, <1>8, Leads
<1> HIDE DEF reached
<1>10. Sound' = reached /\ reached \subseteq live
  BY <1>1, <1>6, <1>9 DEF Sound
<1>11. Listed' \subseteq roots
  BY <1>1, <1>3, <1>5 DEF Listed, roots
<1>12. \A o \in Objects : Marked(o)' <=> ~Marked(o)
  BY <1>1 DEF IInv, TypeOK, Marked
<1>13. TypeOK'
  <2>1. parity' \in BOOLEAN /\ work' \subseteq Objects
    BY <1>1, <1>6 DEF IInv, TypeOK
  <2> QED
    BY <1>1, <1>4, <2>1 DEF IInv, TypeOK
<1>14. Procedure'
  BY <1>1 DEF IInv, TypeOK, Procedure
<1>15. Apart'
  <2>1. H!Held' = H!Held
    BY <1>1 DEF H!Held
  <2>2. \A o \in reached, f \in Fields : field[o][f] \in Into(reached)
    BY <1>6, <1>8, <1>9 DEF H!Closed, Into
  <2>3. doomed' \subseteq live' /\ UNCHANGED <<field, live, scan, tlab>>
    BY <1>1
  <2> QED
    BY <1>5, <1>6, <1>9, <1>10, <1>11, <2>1, <2>2, <2>3 DEF IInv, Apart, Into, H!Empty
<1>16. Newborn'
  BY <1>1, <1>2, <1>3 DEF IInv, TypeOK, Newborn, Procedure
<1>17. Logging'
  <2>1. Cardinality({} \X Fields) \in Nat
    BY SlotsWithin
  <2> QED
    BY <1>1, <1>3, <2>1 DEF IInv, TypeOK, Procedure, Logging, Unenrolled
<1>18. Counting'
  <2>1. ASSUME NEW c \in reached
        PROVE  rc[c] = RcMax \/ rc[c] >= RefsIn(field, reached, c) + buf.dec[c]
    <3>1. c \in Objects /\ c \in Sound /\ Sound \in SUBSET Objects /\ reached \in SUBSET Sound
      BY <1>6, <1>9
    <3>2. rc[c] = RcMax \/ rc[c] >= RefsIn(field, Sound \ buf.logged, c) + buf.dec[c]
      BY <3>1 DEF IInv, Counting
    <3>3. Sound \ buf.logged = Sound
      BY <1>3
    <3>4. rc[c] = RcMax \/ rc[c] >= RefsIn(field, Sound, c) + buf.dec[c]
      BY <3>2, <3>3
    <3>5. rc[c] \in Nat /\ buf.dec[c] \in Nat
      BY <3>1, CountsAreNumbers DEF IInv
    <3>6. /\ RefsIn(field, reached, c) <= RefsIn(field, Sound, c)
          /\ RefsIn(field, reached, c) \in Nat /\ RefsIn(field, Sound, c) \in Nat
      BY <3>1, FewerRefer, PointersFinite
    <3> QED
      BY <3>4, <3>5, <3>6
  <2>2. Sound' \ buf'.logged = reached
    BY <1>3, <1>10
  <2> QED
    BY <1>1, <1>3, <1>10, <2>1, <2>2 DEF Counting
<1>19. Snapshots'
  <2>1. ASSUME NEW S \in SUBSET Objects, Covers(S)'
        PROVE  reached \subseteq S
    <3>1. roots \subseteq S
      BY <1>1, <2>1 DEF Covers
    <3>2. ASSUME NEW o \in S \cap reached, NEW f \in Fields
          PROVE  field[o][f] \in Into(S \cap reached)
      <4>1. ~Marked(o)'
        BY <1>5, <1>6, <1>9, <1>12
      <4>2. field[o][f] \in Into(S)
        BY <1>1, <1>5, <2>1, <4>1 DEF Covers, Into
      <4>3. field[o][f] \in Into(reached)
        BY <1>6, <1>8, <1>9 DEF H!Closed, Into
      <4> QED
        BY <4>2, <4>3 DEF Into
    <3>3. H!Closed(S \cap reached)
      BY <3>2 DEF H!Closed, Into
    <3>4. S \cap reached \in SUBSET Objects /\ roots \subseteq S \cap reached
      BY <1>9, <3>1
    <3> QED
      BY <1>9, <3>3, <3>4
  <2>2. Tracing' /\ MarkerRuns'
    BY <1>1 DEF Tracing, MarkerRuns
  <2> QED
    BY <1>10, <2>1, <2>2 DEF Snapshots
<1>20. Unreached'
  <2>1. \A o \in doomed' \ missed' : o \in Sound /\ o \in Objects
    BY <1>1, <1>5, <1>6 DEF IInv, TypeOK, Sound
  <2> QED
    BY <1>1, <1>5, <1>12, <2>1 DEF Unreached
<1> QED
  BY <1>13, <1>14, <1>15, <1>16, <1>17, <1>18, <1>19, <1>20 DEF IInv

\* Whoever takes a step, ...
LEMMA ProgramInv ==
  ASSUME IInv, Program
  PROVE  IInv'
<1>1. CASE \E x, y \in Locals, f \in Fields : Load(x, y, f) \/ Barrier(x, f, local[y])
  BY <1>1, LoadInv, BarrierInv
<1>2. CASE \E x \in Locals : Forget(x) \/ Assign(x)
  BY <1>2, ForgetInv, AssignInv
<1>3. CASE \E x \in Locals, f \in Fields : Barrier(x, f, Null)
  BY <1>3, BarrierInv
<1>4. CASE Store \/ Allocate \/ RetireBuffer \/ Enroll
  BY <1>4, StoreInv, AllocateInv, RetireBufferInv, EnrollInv
<1>5. CASE Settle \/ Collect
  BY <1>5, SettleInv, CollectInv
<1>6. CASE CollectEnds
  BY <1>6, CollectOnlyInv, BeginSweepInv, BeginTraceInv DEF CollectEnds
<1>7. CASE \E o \in Objects : FreeOne(o)
  BY <1>7, SpareInv, FreeInv
<1>8. CASE TraceStart \/ TraceFinish \/ TraceFinished \/ Safepoint \/ FinishMarking
  BY <1>8, TraceStartInv, WaitInv, SafepointInv, FinishMarkingInv
<1> QED
  BY <1>1, <1>2, <1>3, <1>4, <1>5, <1>6, <1>7, <1>8 DEF Program

\* ... or nobody.
LEMMA StutterInv ==
  ASSUME IInv, UNCHANGED vars
  PROVE  IInv'
<1>1. UNCHANGED <<local, hand, field, live, rc, bit, flagged, parity, buf, phase, work, scan,
                  unswept, tlab, at, store, then, back, doomed, missed>>
  BY DEF vars, heap, headers, markerVars, mutatorVars, history
<1>2. TypeOK' /\ Procedure'
  BY <1>1 DEF IInv, TypeOK, Procedure
<1>3. Listed' = Listed /\ Sound' = Sound
  BY <1>1 DEF Listed, Sound
<1>4. Apart' /\ Newborn'
  BY <1>1, <1>3 DEF IInv, Apart, Newborn, H!Held
<1>5. Logging' /\ Counting'
  BY <1>1, <1>3 DEF IInv, Logging, Unenrolled, Rooted, Counting
<1>6. Snapshots' /\ Unreached'
  BY <1>1, <1>3 DEF IInv, Snapshots, Covers, Tracing, MarkerRuns, Marked, Unreached
<1> QED
  BY <1>2, <1>4, <1>5, <1>6 DEF IInv

LEMMA NextInv ==
  IInv /\ [Next]_vars => IInv'
<1> SUFFICES ASSUME IInv, [Next]_vars PROVE IInv'
  OBVIOUS
<1>1. CASE Program
  BY <1>1, ProgramInv
<1>2. CASE Collector
  BY <1>2, ClaimInv, ReadFieldInv, TakeRecordInv, SweepBlockInv, SweepEndsInv DEF Collector
<1>3. CASE UNCHANGED vars
  BY <1>3, StutterInv
<1> QED
  BY <1>1, <1>2, <1>3 DEF Next

-----------------------------------------------------------------------------
(* What follows.                                                            *)

\* At every moment the lists, the counts and the marks are right about the Sound
\* objects.
THEOREM Invariance == Spec => []IInv
  BY InitInv, NextInv, PTL DEF Spec

\* All the program can reach is Sound.
LEMMA ReachableIsSound ==
  ASSUME IInv
  PROVE  H!Reachable \subseteq Sound /\ Sound \subseteq Objects
<1>1. H!Held \subseteq Sound /\ Sound \subseteq Objects /\ H!Held \subseteq Objects
  BY DEF IInv, Apart, TypeOK, Sound
<1>2. H!Closed(Sound)
  BY DEF IInv, Apart, Into, H!Closed
<1>3. field \in [Objects -> [Fields -> Objects \cup {Null}]]
  BY DEF IInv, TypeOK
<1> QED
  BY <1>1, <1>2, <1>3, Leads DEF H!Reachable

\* No list of the collector's (the buffers of gc.rs, the marker's work of mark.rs)
\* ever names a freed object, and while the sweep runs none names an object it
\* will free, nor can the program reach one.
THEOREM ListsSafe == Spec => []ListsAreSafe
<1>1. ASSUME IInv PROVE ListsAreSafe
  <2>1. ListsNameLive
    BY <1>1 DEF IInv, Apart, Sound, ListsNameLive
  <2>2. SweepSparesTheCounted
    <3>1. ASSUME phase = "Sweeping" PROVE \A o \in Sound : Marked(o)
      BY <1>1, <3>1 DEF IInv, Snapshots, Tracing
    <3> QED
      BY <1>1, <3>1, ReachableIsSound DEF IInv, Apart, SweepSparesTheCounted
  <2> QED
    BY <1>1, <2>1, <2>2 DEF IInv, ListsAreSafe
<1> QED
  BY <1>1, Invariance, PTL

\* A count is never too low for what the program can reach, whatever stores the
\* barrier has put off and whatever decrements are still to come.
THEOREM CountsCovered == Spec => []CountsCover
<1>1. ASSUME IInv PROVE CountsCover
  <2> USE <1>1
  <2>1. ASSUME NEW o \in live
        PROVE  rc[o] = RcMax \/ rc[o] >= RefsIn(field, H!Reachable \ buf.logged, o) + buf.dec[o]
    <3>1. /\ H!Reachable \ buf.logged \in SUBSET (Sound \ buf.logged)
          /\ Sound \ buf.logged \in SUBSET Objects /\ o \in Objects
      BY ReachableIsSound DEF IInv, TypeOK
    <3>2. /\ RefsIn(field, H!Reachable \ buf.logged, o) \in Nat
          /\ RefsIn(field, Sound \ buf.logged, o) \in Nat
          /\ RefsIn(field, H!Reachable \ buf.logged, o) <= RefsIn(field, Sound \ buf.logged, o)
      BY <3>1, FewerRefer, PointersFinite
    <3>3. rc[o] \in Nat /\ buf.dec[o] \in Nat
      BY <3>1, CountsAreNumbers DEF IInv
    <3>4. CASE o \in Sound
      <4>1. rc[o] = RcMax \/ rc[o] >= RefsIn(field, Sound \ buf.logged, o) + buf.dec[o]
        BY <3>4 DEF IInv, Counting
      <4> QED
        BY <3>2, <3>3, <4>1
    <3>5. CASE o \notin Sound
      <4>1. \A p \in Sound \ buf.logged, f \in Fields : field[p][f] # o
        BY <3>1, <3>5, ReclaimAssumption DEF IInv, Apart, Into
      <4>2. RefsIn(field, Sound \ buf.logged, o) = 0
        BY <3>1, <4>1, ZeroMeansNone
      <4>3. ~(buf.dec[o] > 0)
        BY <3>1, <3>5 DEF IInv, Apart, Listed
      <4> QED
        BY <3>2, <3>3, <4>2, <4>3
    <3> QED
      BY <3>4, <3>5
  <2> QED
    BY <2>1, ReferencesIn DEF CountsCover
<1> QED
  BY <1>1, Invariance, PTL

\* When a trace is over, all its snapshot did not reach is gone, but for what the
\* sweep passed over in a block an allocator held.
THEOREM EverythingReclaimed == Spec => []TraceReclaims
<1>1. ASSUME IInv PROVE TraceReclaims
  BY <1>1 DEF IInv, Unreached, TraceReclaims
<1> QED
  BY <1>1, Invariance, PTL

\* Counting takes one object, and the program cannot reach it.
LEMMA FreeKeepsPromise ==
  ASSUME IInv, NEW o \in Objects, FreeOne(o)
  PROVE  [H!HNext]_(H!heapVars)
<1>1. CASE rc[o] > 0 \/ Rooted(o) \/ o \notin live
  BY <1>1 DEF FreeOne, FreeOneSparing, heap, H!heapVars
<1>2. CASE ~(rc[o] > 0 \/ Rooted(o) \/ o \notin live)
  <2>1. /\ live' = live \ {o} /\ UNCHANGED <<local, hand>>
        /\ field' = [p \in Objects |-> IF p \in {o} THEN H!Empty ELSE field[p]]
    BY <1>2 DEF FreeOne, FreeOneSparing, Free
  <2>2. IInv' /\ doomed' = doomed \ {o}
    BY <1>2, FreeInv DEF FreeOne, FreeOneSparing, Free
  <2>3. H!Held \subseteq Sound \ {o} /\ Sound \ {o} \subseteq Objects
    <3>1. H!Held' \subseteq Sound'
      BY <2>2 DEF IInv, Apart
    <3> QED
      BY <2>1, <2>2, <3>1 DEF IInv, TypeOK, Sound, H!Held
  <2>4. H!Closed(Sound \ {o})
    <3>1. \A p \in Sound', f \in Fields : field'[p][f] \in Into(Sound')
      BY <2>2 DEF IInv, Apart
    <3>2. Sound' = Sound \ {o} /\ \A p \in Sound \ {o} : field'[p] = field[p]
      BY <2>1, <2>2 DEF IInv, TypeOK, Sound
    <3> QED
      BY <3>1, <3>2 DEF H!Closed, Into
  <2>5. H!Reachable \subseteq Sound \ {o}
    <3>1. H!Held \in SUBSET Objects /\ Sound \ {o} \in SUBSET Objects
      BY <2>3
    <3>2. field \in [Objects -> [Fields -> Objects \cup {Null}]]
      BY DEF IInv, TypeOK
    <3> QED
      BY <2>3, <2>4, <3>1, <3>2, Leads DEF H!Reachable
  <2>6. H!Reclaim({o}) /\ {o} \in SUBSET live
    BY <1>2, <2>1, <2>5 DEF H!Reclaim
  <2> QED
    BY <2>6 DEF H!HNext
<1> QED
  BY <1>1, <1>2

\* The sweep takes a block's garbage, and the program can reach none of it.
LEMMA SweepKeepsPromise ==
  ASSUME IInv, NEW b \in Blocks, SweepBlock(b)
  PROVE  [H!HNext]_(H!heapVars)
<1> DEFINE garbage == {o \in InBlock(b) \cap live : ~Marked(o)}
<1>1. CASE UNCHANGED heap
  BY <1>1 DEF SweepBlock, heap, H!heapVars
<1>2. CASE Free(garbage, rc)
  <2>1. /\ live' = live \ garbage /\ UNCHANGED <<local, hand>>
        /\ field' = [p \in Objects |-> IF p \in garbage THEN H!Empty ELSE field[p]]
    BY <1>2 DEF SweepBlock, Free
  <2>2. \A o \in Sound : Marked(o)
    BY DEF SweepBlock, IInv, Snapshots, Tracing
  <2>3. garbage \cap H!Reachable = {} /\ garbage \subseteq live
    BY <2>2, ReachableIsSound
  <2> HIDE DEF garbage
  <2>4. CASE garbage = {}
    <3>1. \A p \in Objects : field'[p] = field[p]
      BY <2>1, <2>4
    <3>2. field' = field /\ live' = live
      BY <2>1, <2>4, <3>1 DEF IInv, TypeOK
    <3> QED
      BY <2>1, <3>2 DEF H!heapVars
  <2>5. CASE garbage # {}
    <3>1. H!Reclaim(garbage) /\ garbage \in SUBSET live
      BY <2>1, <2>3, <2>5 DEF H!Reclaim
    <3> QED
      BY <3>1 DEF H!HNext
  <2> QED
    BY <2>4, <2>5
<1> QED
  BY <1>1, <1>2 DEF SweepBlock

\* What the program does to the heap is what it may do.
LEMMA StepKeepsPromise ==
  IInv /\ [Next]_vars => [H!HNext]_(H!heapVars)
<1> SUFFICES ASSUME IInv, [Next]_vars PROVE [H!HNext]_(H!heapVars)
  OBVIOUS
<1>1. ASSUME NEW x \in Locals, NEW y \in Locals, NEW f \in Fields, Load(x, y, f)
      PROVE  H!HNext
  <2>1. H!Load(x, y, f)
    BY <1>1 DEF Load, H!Load, heap
  <2> QED
    BY <2>1 DEF H!HNext
<1>2. ASSUME NEW x \in Locals, Forget(x) PROVE H!HNext
  <2>1. H!Forget(x)
    BY <1>2 DEF Forget, H!Forget, heap
  <2> QED
    BY <2>1 DEF H!HNext
<1>3. ASSUME NEW x \in Locals, Assign(x) PROVE H!HNext
  <2>1. H!Take(x)
    BY <1>3 DEF Assign, H!Take, heap, IInv, Procedure
  <2> QED
    BY <2>1 DEF H!HNext
<1>4. ASSUME Store PROVE H!HNext
  <2>1. PICK x \in Locals : local[x] = store.obj
    BY <1>4 DEF Store, IInv, Procedure
  <2>2. local[x] # Null /\ store.fld \in Fields
    BY <1>4, <2>1, ReclaimAssumption DEF BufType, Store, IInv, TypeOK, Procedure
  <2>3. H!Write(x, store.fld, store.val)
    BY <1>4, <2>1, <2>2 DEF Store, H!Write
  <2>4. store.val = Null \/ \E y \in Locals : local[y] = store.val
    BY <1>4 DEF Store, IInv, Procedure
  <2> QED
    BY <2>2, <2>3, <2>4 DEF H!HNext
<1>5. ASSUME Allocate PROVE H!HNext
  <2>1. \A t \in Buffers : t.hole \in SUBSET Objects /\ t.hole \cap live = {}
    BY DEF TlabType, Buffers, InBlock, IInv, TypeOK, Apart
  <2>2. PICK o \in Objects \ live : hand' = o /\ live' = live \cup {o}
    BY <1>5, <2>1 DEF Allocate
  <2>3. hand = Null
    BY <1>5 DEF Allocate, Running, IInv, Procedure
  <2>4. H!New(o)
    BY <1>5, <2>2, <2>3 DEF Allocate, H!New
  <2> QED
    BY <2>4 DEF H!HNext
<1>6. ASSUME NEW x \in Locals, NEW f \in Fields, NEW v, Barrier(x, f, v)
      PROVE  UNCHANGED H!heapVars
  BY <1>6 DEF Barrier, H!heapVars
<1>7. ASSUME RetireBuffer \/ Enroll \/ Settle \/ CollectEnds \/ Collect \/ TraceStart
             \/ TraceFinish \/ TraceFinished \/ Safepoint \/ FinishMarking
      PROVE  UNCHANGED H!heapVars
  BY <1>7 DEF RetireBuffer, Enroll, Settle, CollectEnds, Collect, TraceStart, TraceFinish,
    TraceFinished, Safepoint, FinishMarking, heap, H!heapVars
<1>8. CASE Program
  BY <1>1, <1>2, <1>3, <1>4, <1>5, <1>6, <1>7, <1>8, FreeKeepsPromise DEF Program
<1>9. ASSUME \/ \E o \in Objects : Claim(o)
             \/ \E f \in Fields : ReadField(f)
             \/ TakeRecord \/ SweepEnds
      PROVE  UNCHANGED H!heapVars
  BY <1>9 DEF Claim, ReadField, TakeRecord, SweepEnds, heap, H!heapVars
<1>10. CASE Collector
  BY <1>9, <1>10, SweepKeepsPromise DEF Collector
<1>11. CASE UNCHANGED vars
  BY <1>11 DEF vars, heap, H!heapVars
<1> QED
  BY <1>8, <1>10, <1>11 DEF Next

\* The collector is invisible: what it takes the program could not have reached,
\* and it changes nothing else of the heap (gc.rs, mark.rs).
THEOREM PromiseKept == Spec => KeepsPromise
<1>1. Init => H!HInit
  BY DEF Init
<1> QED
  BY <1>1, Invariance, StepKeepsPromise, PTL DEF Spec, KeepsPromise, H!HSpec

=============================================================================
