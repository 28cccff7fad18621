---------------------------- MODULE EvacuationProofs ----------------------------
(***************************************************************************)
(* A trace that moves objects is safe for any number of objects, fields    *)
(* and locals, any choice of the block and any initial graph: the program  *)
(* holds nothing in the block while it is emptied, nothing leads into it   *)
(* when it is released, and ManagedHeap's promise is kept throughout.      *)
(*                                                                         *)
(* Marking is a snapshot: there is a set of addresses that has all that is *)
(* known of and all that leads to, and that is the least to have what is   *)
(* marked, what is still to be marked and what that leads to. When there   *)
(* is nothing left to be marked, the marked addresses are that set. From   *)
(* then on it is Keep, which copies join and originals leave.              *)
(*                                                                         *)
(* Two copies of an object are told apart by the forwarding word of the    *)
(* original. A copy it does not name is one in hand, or one whose own      *)
(* header was overwritten before it lost (Losers). So once the block has   *)
(* been copied an object that is anywhere is where the word says it is,    *)
(* and a slot that leads into the block was noted or is in an object that  *)
(* is to be looked at again (Noted).                                       *)
(*                                                                         *)
(* All this is of a trace in whose marking no other worker's evacuation    *)
(* has moved anything (~early). From the step that ends that on, nothing   *)
(* is claimed: the forwarding word that the load barrier then leaves where *)
(* the marker and the counts expect a header is what IInv excludes.        *)
(*                                                                         *)
(* A worker's state must not be in the block: worker_main refers to it by  *)
(* a word of its own, which no pause repoints.                             *)
(***************************************************************************)
EXTENDS Evacuation, TLAPS

Into(S) == S \cup {Null}
Copy(o, side) == <<o, side>>

\* Where references lead: to where the trace found an object, or to the copy that won.
Settled == {a \in Addresses : a = At(Obj(a)) \/ a = fwd[At(Obj(a))]}

\* Where an object is.
Cur(o) == WhereItIs(At(o))

\* What remains of the heap once it has been marked.
Keep == alloc \cap marked \cap Settled

Copying == prog.at \in {"copy", "memcpy", "forward"}
Resolving == prog.at = "resolve" \/ Copying

\* Between ws_alloc's two halves.
Newborn == prog.at = "enroll" \/ (prog.at = "mark" /\ prog.task = "enroll")

-----------------------------------------------------------------------------
ProgOK ==
  prog \in [at : {"run", "store", "enroll", "assign", "mark", "log", "resolve", "copy",
                  "memcpy", "forward"},
            task : {"none", "load", "log", "run", "enroll"},
            reg : Addresses \cup {Null}, dst : Locals \cup {Null},
            obj : Addresses \cup {Null}, fld : Fields \cup {Null}, val : Addresses \cup {Null},
            left : SUBSET Fields, snap : SUBSET Addresses]

\* The rest of the types.
Types ==
  /\ TypeOK /\ ProgOK
  /\ visit \in [obj : Addresses \cup {Null}, left : SUBSET Fields]
  /\ visit.left # {} => visit.obj \in Addresses
  /\ coll \in [on : BOOLEAN, queue : SUBSET Addresses, obj : Addresses \cup {Null},
               copies : SUBSET Addresses]
  /\ image \in [Objects -> [Fields -> Objects \cup {Null}]]

\* What the program is in the middle of.
Procedure ==
  /\ prog.at \in {"run", "enroll", "assign", "mark"} =>
       prog.reg = Null /\ prog.obj = Null /\ prog.val = Null /\ prog.snap = {}
  /\ prog.at \in {"run", "enroll", "assign"} => prog.task = "none"
  /\ prog.at = "mark" => phase = "MarkDone" /\ prog.task \in {"run", "enroll"}
  /\ hand # Null <=> Newborn \/ prog.at = "assign"
  /\ hand \in {At(o) : o \in Fresh} \cup {Null}
  /\ state = At(State) /\ pinned = At(State)
  /\ Resolving \/ prog.at = "log" => Moving
  /\ Resolving => prog.reg # Null /\ prog.task \in {"load", "log"}
  /\ Copying => InCset(prog.reg)
  /\ prog.at \in {"log", "store"} => prog.task = "log"
  /\ Resolving /\ prog.task = "load" =>
       /\ prog.obj = Null /\ prog.val = Null /\ prog.dst \in Locals
       /\ \E y \in Locals, f \in Fields : local[y] # Null /\ image[Obj(local[y])][f] = Obj(prog.reg)
  /\ prog.task = "log" =>
       /\ prog.fld \in Fields /\ \E x \in Locals : local[x] = prog.obj
       /\ prog.obj # Null /\ (prog.val = Null \/ \E y \in Locals : local[y] = prog.val)
       /\ Tracing => prog.obj \in buf.logged
       /\ stores < MaxStores

\* Who has what of the copying.
Copies ==
  /\ Tracing => /\ \A a \in Addresses : fwd[a] = Null
                /\ alloc \subseteq {At(o) : o \in Objects}
  /\ \A o \in Objects \ Cset : fwd[At(o)] = Null
  /\ \A o \in Cset : /\ fwd[At(o)] \in {Null, Copy(o, "program"), Copy(o, "collector")}
                     /\ fwd[At(o)] # Null => fwd[At(o)] \in alloc /\ At(o) \in marked
  /\ \A a \in Addresses : a # At(Obj(a)) =>
       /\ fwd[a] # Null => fwd[a] = fwd[At(Obj(a))] /\ fwd[a] # a
       /\ a \in alloc => a \in marked
  /\ prog.at \in {"memcpy", "forward"} => fwd[prog.reg] \in {Null, Copy(Obj(prog.reg), "collector")}
  /\ prog.at = "forward" => /\ Copy(Obj(prog.reg), "program") \in alloc
                            /\ field[Copy(Obj(prog.reg), "program")] = field[prog.reg]
  /\ coll = NoCopy \/ (coll.on /\ phase = "Evacuating")
  /\ coll.obj \notin coll.queue
  /\ \A a \in coll.queue \cup ({coll.obj} \ {Null}) :
       /\ InCset(a) /\ a \in marked
       /\ fwd[a] \in {Null, Copy(Obj(a), "program")}
  /\ coll.obj # Null => /\ Copy(Obj(coll.obj), "collector") \in alloc
                        /\ field[Copy(Obj(coll.obj), "collector")] = field[coll.obj]

\* A copy that is not where its object is carries a forwarding word, or is in hand.
InHand ==
  (IF prog.at = "forward" THEN {Copy(Obj(prog.reg), "program")} ELSE {}) \cup
  (IF coll.obj # Null THEN {Copy(Obj(coll.obj), "collector")} ELSE {})

Losers == \A a \in alloc : a \in Settled \/ Forwarded(a) \/ a \in InHand

\* Everything that is marked in the block is moved.
Gathered ==
  phase = "EvacDone" \/ (phase = "Evacuating" /\ coll.on) =>
    \A a \in marked : InCset(a) => Forwarded(a) \/ a \in coll.queue \/ a = coll.obj

\* Which objects there are.
Existing ==
  /\ Tracing \/ Moving => \A o \in Objects \ Fresh : At(o) \in alloc
  /\ ~Tracing /\ ~Moving => \A a \in alloc : ~InCset(a)
  /\ \A o \in Fresh : IF At(o) \in alloc THEN At(o) \in marked
                      ELSE \A f \in Fields : field[At(o)][f] = Null

\* Where the program finds what it last stored.
Imaged ==
  \A o \in Objects :
    image[o] = IF Cur(o) \in alloc
               THEN [f \in Fields |-> IF field[Cur(o)][f] = Null THEN Null ELSE Obj(field[Cur(o)][f])]
               ELSE H!Empty

\* The barrier is down for what is logged, and what is being born.
Logging ==
  Tracing => /\ buf.logged \subseteq flagged
             /\ flagged \subseteq buf.logged \cup (IF Newborn THEN {hand} ELSE {})
             /\ Newborn => hand \in flagged

\* A slot that leads into the block is known of.
Noted ==
  \A a \in Addresses, f \in Fields : InCset(field[a][f]) /\ a \in marked /\ a \in alloc =>
    /\ Tracing => \/ <<a, f>> \in noted \/ a \in buf.logged \cup buf.scan
                  \/ a = visit.obj /\ f \in visit.left
    /\ Moving /\ ~InCset(a) /\ a \in Settled =>
         <<a, f>> \in noted \/ a \in buf.scan \cup coll.copies

\* All that the program, its registers and the collector's lists name.
Known == Held \cup ({prog.reg} \ {Null}) \cup prog.snap \cup buf.logged \cup buf.named

\* S has what is known, and what that leads to.
Closed(S) ==
  /\ S \subseteq alloc \cap Settled /\ Known \subseteq S
  /\ \A a \in S, f \in Fields : field[a][f] \in Into(S)

\* S has what is marked and what is to be marked ...
Covers(S) ==
  /\ marked \cup work \cup buf.satb \subseteq S
  /\ \A f \in visit.left : visit.obj \notin flagged => field[visit.obj][f] \in Into(S)
  /\ \A a \in S : a \notin marked \cup flagged => \A f \in Fields : field[a][f] \in Into(S)

Snapshot(S) ==
  /\ marked \cup work \cup buf.satb \subseteq S /\ (visit.left # {} => visit.obj \in marked)
  /\ \A T \in SUBSET Addresses : Covers(T) => S \subseteq T

Sound ==
  /\ \E S \in SUBSET Addresses : Closed(S) /\ IF Tracing THEN Snapshot(S) ELSE S = Keep
  /\ ~MarkerRuns => work = {} /\ visit.left = {}

\* While objects move the program holds only what has been.
HeldMoved ==
  Moving => \A a \in Held \cup buf.logged \cup prog.snap : ~InCset(a)

IInv ==
  /\ Types /\ Procedure /\ Copies /\ Losers /\ Gathered /\ Existing /\ Imaged
  /\ Logging /\ Noted /\ Sound /\ HeldMoved

-----------------------------------------------------------------------------
(* Addresses.                                                               *)

\* An object is at an address of its own, or at one of two more if it is in the block.
LEMMA AddressForms ==
  /\ Null \notin Addresses /\ Cset \subseteq Objects
  /\ \A o \in Objects : At(o) \in Addresses /\ Obj(At(o)) = o
  /\ \A o \in Cset : /\ {Copy(o, "program"), Copy(o, "collector")} \subseteq Addresses
                     /\ Obj(Copy(o, "program")) = o /\ Obj(Copy(o, "collector")) = o
                     /\ At(o) \notin {Copy(o, "program"), Copy(o, "collector")}
                     /\ Copy(o, "program") # Copy(o, "collector")
  /\ \A a \in Addresses :
       /\ Obj(a) \in Objects
       /\ a # At(Obj(a)) =>
            Obj(a) \in Cset /\ a \in {Copy(Obj(a), "program"), Copy(Obj(a), "collector")}
<1>1. Cset \subseteq Objects /\ Null \notin Objects \X {"here", "program", "collector"}
  BY EvacuationAssumption
<1>2. "here" # "program" /\ "here" # "collector" /\ "program" # "collector"
  OBVIOUS
<1>3. Places \ {"here"} = {"program", "collector"}
  BY <1>2 DEF Places
<1>4. Addresses = {<<o, "here">> : o \in Objects} \cup Cset \X {"program", "collector"}
  BY <1>3 DEF Addresses, At
<1>5. \A o \in Objects : At(o) \in Addresses /\ Obj(At(o)) = o
  BY <1>4 DEF At, Obj
<1>6. ASSUME NEW o \in Cset
      PROVE  /\ {Copy(o, "program"), Copy(o, "collector")} \subseteq Addresses
             /\ Obj(Copy(o, "program")) = o /\ Obj(Copy(o, "collector")) = o
             /\ At(o) \notin {Copy(o, "program"), Copy(o, "collector")}
             /\ Copy(o, "program") # Copy(o, "collector")
  BY <1>2, <1>4 DEF Copy, Obj, At
<1>7. ASSUME NEW a \in Addresses
      PROVE  /\ Obj(a) \in Objects
             /\ a # At(Obj(a)) =>
                  Obj(a) \in Cset /\ a \in {Copy(Obj(a), "program"), Copy(Obj(a), "collector")}
  <2>1. CASE a \in {<<o, "here">> : o \in Objects}
    BY <2>1 DEF At, Obj
  <2>2. CASE a \in Cset \X {"program", "collector"}
    BY <1>1, <2>2 DEF Copy, Obj
  <2> QED
    BY <1>4, <2>1, <2>2
<1>8. Null \notin Addresses
  BY <1>1, <1>4
<1> QED
  BY <1>1, <1>5, <1>6, <1>7, <1>8

\* Forwarding words and references lead from an object to itself.
LEMMA StaysItself ==
  ASSUME Types, Copies
  PROVE  /\ \A a \in Addresses : /\ WhereItIs(a) \in Addresses /\ Obj(WhereItIs(a)) = Obj(a)
                                 /\ Forwarded(a) => fwd[a] = fwd[At(Obj(a))]
         /\ \A o \in Objects : /\ Cur(o) \in Addresses /\ Obj(Cur(o)) = o
                               /\ Cur(o) \in Settled
         /\ \A o \in Objects : Forwarded(At(o)) =>
              /\ InCset(At(o)) /\ o \in Cset /\ fwd[At(o)] # At(o) /\ ~InCset(fwd[At(o)])
              /\ fwd[At(o)] \in alloc \cap marked \cap Settled
<1>1. fwd \in [Addresses -> Addresses \cup {Null}]
  BY DEF Types, TypeOK
<1>2. ASSUME NEW o \in Objects, Forwarded(At(o))
      PROVE  /\ o \in Cset /\ InCset(At(o))
             /\ fwd[At(o)] \in {Copy(o, "program"), Copy(o, "collector")}
             /\ fwd[At(o)] \in Addresses \cap alloc
             /\ Obj(fwd[At(o)]) = o /\ fwd[At(o)] # At(o)
             /\ ~InCset(fwd[At(o)])
  <2>1. o \in Cset
    BY <1>2 DEF Copies, Forwarded
  <2>2. fwd[At(o)] \in {Copy(o, "program"), Copy(o, "collector")} /\ fwd[At(o)] \in alloc
    BY <1>2, <2>1 DEF Copies, Forwarded
  <2> QED
    BY <2>1, <2>2, AddressForms DEF InCset
<1>3. ASSUME NEW a \in Addresses
      PROVE  /\ WhereItIs(a) \in Addresses /\ Obj(WhereItIs(a)) = Obj(a)
             /\ Forwarded(a) => fwd[a] = fwd[At(Obj(a))]
  <2>1. Obj(a) \in Objects /\ a # Null
    BY AddressForms
  <2>2. Forwarded(a) => fwd[a] = fwd[At(Obj(a))]
    BY DEF Copies, Forwarded
  <2>3. Forwarded(a) => Obj(fwd[a]) = Obj(a) /\ fwd[a] \in Addresses
    BY <1>2, <2>1, <2>2 DEF Forwarded
  <2> QED
    BY <2>1, <2>2, <2>3 DEF WhereItIs
<1>4. ASSUME NEW o \in Objects
      PROVE  /\ Cur(o) \in Addresses /\ Obj(Cur(o)) = o
             /\ Cur(o) \in Settled
  <2>1. At(o) \in Addresses /\ Obj(At(o)) = o /\ At(o) # Null
    BY AddressForms
  <2>2. Cur(o) \in Addresses /\ Obj(Cur(o)) = o
    BY <1>3, <2>1 DEF Cur
  <2> QED
    BY <2>1, <2>2 DEF Cur, WhereItIs, Settled
<1>5. ASSUME NEW o \in Objects, Forwarded(At(o))
      PROVE  fwd[At(o)] \in alloc \cap marked \cap Settled
  <2> DEFINE c == fwd[At(o)]
  <2>1. c \in Addresses \cap alloc /\ Obj(c) = o /\ c # At(Obj(c))
    BY <1>2, <1>5
  <2>2. c \in marked
    BY <2>1 DEF Copies
  <2>3. c \in Settled
    BY <2>1 DEF Settled
  <2> QED
    BY <2>1, <2>2, <2>3
<1> QED
  BY <1>2, <1>3, <1>4, <1>5

\* What is not in the block is where its object is.
LEMMA Current ==
  ASSUME Types, Copies, NEW a \in Settled, Tracing \/ ~InCset(a)
  PROVE  /\ a \in Addresses /\ a # Null /\ ~Forwarded(a)
         /\ WhereItIs(a) = a /\ a = Cur(Obj(a))
<1>1. a \in Addresses /\ Obj(a) \in Objects /\ a # Null /\ Null \notin Addresses
  BY AddressForms DEF Settled
<1>2. CASE Tracing
  <2>1. \A b \in Addresses : fwd[b] = Null
    BY <1>2 DEF Copies
  <2>2. At(Obj(a)) \in Addresses
    BY <1>1, AddressForms
  <2> QED
    BY <1>1, <2>1, <2>2 DEF Settled, Forwarded, WhereItIs, Cur
<1>3. CASE ~InCset(a)
  <2>1. CASE a = At(Obj(a))
    <3>1. Obj(a) \notin Cset
      BY <1>1, <1>3, <2>1 DEF InCset
    <3>2. fwd[At(Obj(a))] = Null
      BY <1>1, <3>1 DEF Copies
    <3> QED
      BY <1>1, <2>1, <3>2 DEF Forwarded, WhereItIs, Cur
  <2>2. CASE a # At(Obj(a))
    <3>1. a = fwd[At(Obj(a))]
      BY <2>2 DEF Settled
    <3>2. fwd[a] = Null
      BY <1>1, <2>2, <3>1 DEF Copies
    <3>3. At(Obj(a)) # Null
      BY <1>1, AddressForms
    <3> QED
      BY <1>1, <3>1, <3>2, <3>3 DEF Forwarded, WhereItIs, Cur
  <2> QED
    BY <2>1, <2>2
<1> QED
  BY <1>2, <1>3, <1>1

\* Following a forwarding word stays within what remains, and leaves the block.
LEMMA Follow ==
  ASSUME Types, Copies, NEW a \in Keep
  PROVE  /\ a \in Addresses /\ WhereItIs(a) \in Keep /\ WhereItIs(a) # Null
         /\ Obj(WhereItIs(a)) = Obj(a)
         /\ WhereItIs(a) = a \/ Forwarded(At(Obj(a)))
         /\ Forwarded(a) \/ ~InCset(a) => ~InCset(WhereItIs(a))
<1>1. a \in Addresses /\ Obj(a) \in Objects /\ a # Null /\ a \in Settled
  BY AddressForms DEF Keep, Settled
<1>2. CASE ~Forwarded(a)
  BY <1>1, <1>2 DEF WhereItIs
<1>3. CASE Forwarded(a)
  <2>1. fwd[a] = fwd[At(Obj(a))] /\ Forwarded(At(Obj(a)))
    BY <1>1, <1>3, StaysItself DEF Forwarded
  <2>2. fwd[a] \in Keep /\ ~InCset(fwd[a])
    BY <1>1, <2>1, StaysItself DEF Keep
  <2>3. WhereItIs(a) = fwd[a]
    BY <1>1, <1>3 DEF WhereItIs
  <2> QED
    BY <1>1, <2>1, <2>2, <2>3, StaysItself, AddressForms
<1> QED
  BY <1>2, <1>3

-----------------------------------------------------------------------------
(* What a step leaves alone.                                                *)

\* Where things are is decided by the forwarding words.
LEMMA PlacesKept ==
  ASSUME UNCHANGED fwd
  PROVE  Settled' = Settled /\ (\A o : Cur(o)' = Cur(o)) /\ (\A a : Forwarded(a)' = Forwarded(a))
         /\ (\A a : WhereItIs(a)' = WhereItIs(a))
  BY DEF Settled, Cur, WhereItIs, Forwarded

\* A step that leaves the heap to itself.
LEMMA HeapKept ==
  ASSUME IInv, UNCHANGED <<field, alloc, fwd, marked, phase, coll, image>>
  PROVE  Gathered' /\ Existing' /\ Imaged' /\ Keep' = Keep
<1>1. /\ Settled' = Settled /\ (\A o \in Objects : Cur(o)' = Cur(o))
      /\ (\A a : Forwarded(a)' = Forwarded(a))
  BY PlacesKept
<1>2. Tracing' = Tracing /\ Moving' = Moving /\ (\A a : InCset(a)' = InCset(a))
  BY DEF Tracing, Moving, InCset
<1>3. Gathered'
  BY <1>1, <1>2 DEF IInv, Gathered
<1>4. Existing'
  BY <1>2 DEF IInv, Existing
<1>5. Imaged'
  BY <1>1 DEF IInv, Imaged
<1> QED
  BY <1>1, <1>3, <1>4, <1>5 DEF Keep

\* A step of the program that copies nothing, and is not copying after it.
LEMMA CopiesKept ==
  ASSUME IInv, UNCHANGED <<field, alloc, fwd, marked, phase, coll>>,
         prog.at # "forward", prog'.at \notin {"memcpy", "forward"}
  PROVE  Copies' /\ Losers'
<1>1. Settled' = Settled /\ (\A a : Forwarded(a)' = Forwarded(a)) /\ Tracing' = Tracing
  BY PlacesKept DEF Tracing
<1>2. Copies'
  BY <1>1 DEF IInv, Copies, InCset, NoCopy
<1>3. InHand' = InHand
  BY DEF InHand
<1>4. Losers'
  BY <1>1, <1>3 DEF IInv, Losers
<1> QED
  BY <1>2, <1>4

\* What is known is still in the set it was in.
LEMMA SoundKept ==
  ASSUME IInv, UNCHANGED <<field, alloc, fwd, marked, flagged, phase, work, visit>>,
         buf'.satb = buf.satb, MarkerRuns => MarkerRuns',
         \A S \in SUBSET Addresses : Closed(S) /\ (Tracing \/ S = Keep) => Known' \subseteq S
  PROVE  Sound'
<1>1. PICK S \in SUBSET Addresses : Closed(S) /\ IF Tracing THEN Snapshot(S) ELSE S = Keep
  BY DEF IInv, Sound
<1>2. Settled' = Settled /\ Tracing' = Tracing /\ Keep' = Keep
  BY PlacesKept DEF Tracing, Keep
<1>3. Closed(S)'
  BY <1>1, <1>2 DEF Closed, Into
<1>4. Snapshot(S) => Snapshot(S)'
  BY DEF Snapshot, Covers, Into
<1>5. ~MarkerRuns' => work' = {} /\ visit'.left = {}
  BY DEF IInv, Sound
<1> QED
  BY <1>1, <1>2, <1>3, <1>4, <1>5 DEF Sound

\* What the program holds is where its object is, and what it finds there is what it
\* last stored.
LEMMA HeldIsCurrent ==
  ASSUME IInv, NEW a \in Held \cup buf.logged \cup prog.snap
  PROVE  /\ a \in Addresses \cap alloc \cap Settled /\ a # Null /\ ~Forwarded(a)
         /\ a = Cur(Obj(a))
         /\ \A f \in Fields : image[Obj(a)][f] = IF field[a][f] = Null THEN Null ELSE Obj(field[a][f])
<1>1. PICK S \in SUBSET Addresses : Closed(S)
  BY DEF IInv, Sound
<1>2. a \in alloc \cap Settled
  BY <1>1 DEF Closed, Known
<1>3. Tracing \/ ~InCset(a)
  <2>1. CASE Moving
    BY <2>1 DEF IInv, HeldMoved
  <2>2. CASE ~Moving
    BY <1>2, <2>2 DEF IInv, Existing
  <2> QED
    BY <2>1, <2>2
<1>4. /\ a \in Addresses /\ a # Null /\ ~Forwarded(a)
      /\ WhereItIs(a) = a /\ a = Cur(Obj(a))
  BY <1>2, <1>3, Current DEF IInv
<1>5. Obj(a) \in Objects
  BY <1>4, AddressForms
<1>6. image[Obj(a)] = [f \in Fields |-> IF field[a][f] = Null THEN Null ELSE Obj(field[a][f])]
  BY <1>2, <1>4, <1>5 DEF IInv, Imaged
<1> QED
  BY <1>2, <1>4, <1>6

-----------------------------------------------------------------------------
(* The steps.                                                               *)

\* At the first pause nothing is marked, and the marker has what is pinned.
LEMMA InitInv == Init => IInv
<1> SUFFICES ASSUME Init PROVE IInv
  OBVIOUS
<1> DEFINE linked == {At(o) : o \in Objects \ (Fresh \cup Loose)}
           there == {At(o) : o \in Objects \ Fresh}
<1>1. /\ linked \subseteq there /\ there \subseteq Addresses /\ alloc = there
      /\ State \in Objects \ Fresh /\ At(State) \in there
      /\ \A o \in Objects : At(o) \in there <=> o \notin Fresh
  <2>1. \A o \in Objects : At(o) \in there => o \notin Fresh
    BY AddressForms
  <2> QED
    BY <2>1, AddressForms, EvacuationAssumption DEF Init
<1>2. /\ field \in [Addresses -> [Fields -> linked \cup {Null}]]
      /\ \A a \in Addresses \ linked : field[a] = [f \in Fields |-> Null]
  BY DEF Init
<1>3. /\ local = [x \in Locals |-> Null] /\ hand = Null /\ state = At(State) /\ pinned = At(State)
      /\ fwd = [a \in Addresses |-> Null] /\ marked = {} /\ flagged = {}
      /\ buf = [logged |-> {}, satb |-> {}, scan |-> {}, named |-> {}]
      /\ noted = {} /\ phase = "Marking"
      /\ visit = [obj |-> Null, left |-> {}]
      /\ prog = Idle /\ coll = NoCopy /\ stores = 0
  BY DEF Init
<1>4. image = [o \in Objects |-> [f \in Fields |->
                 IF field[At(o)][f] = Null THEN Null ELSE Obj(field[At(o)][f])]]
  BY DEF Init
<1>5. Null \notin Addresses
  BY AddressForms
<1>6. work = {At(State)}
  BY <1>1, <1>3, <1>5 DEF Init, Rooted
<1>7. Tracing /\ ~Moving
  BY <1>3 DEF Tracing, Moving
<1>8. Settled = {a \in Addresses : a = At(Obj(a))}
  BY <1>3, <1>5, AddressForms DEF Settled
<1>9. \A o \in Objects : Cur(o) = At(o)
  BY <1>3, AddressForms DEF Cur, WhereItIs, Forwarded
<1> HIDE DEF linked, there
<1>10. Types
  <2>1. field \in [Addresses -> [Fields -> Addresses \cup {Null}]]
    BY <1>1, <1>2
  <2>2. fwd \in [Addresses -> Addresses \cup {Null}] /\ local \in [Locals -> Addresses \cup {Null}]
    BY <1>3
  <2>3. stores \in 0 .. MaxStores
    BY <1>3, EvacuationAssumption
  <2>4. TypeOK
    BY <1>1, <1>3, <1>6, <2>1, <2>2, <2>3 DEF TypeOK
  <2>5. ProgOK
    BY <1>3 DEF ProgOK, Idle
  <2>6. image \in [Objects -> [Fields -> Objects \cup {Null}]]
    <3>1. \A o \in Objects, f \in Fields : field[At(o)][f] # Null => Obj(field[At(o)][f]) \in Objects
      BY <2>1, AddressForms
    <3> QED
      BY <1>4, <3>1
  <2> QED
    BY <1>3, <2>4, <2>5, <2>6 DEF Types, NoCopy
<1>11. Procedure
  BY <1>3, <1>7 DEF Procedure, Idle, Newborn, Resolving, Copying
<1>12. Copies
  <2>1. /\ \A a \in there : a = At(Obj(a))
        /\ there \subseteq {At(o) : o \in Objects}
    BY AddressForms DEF there
  <2>2. \A o \in Objects : fwd[At(o)] = Null
    BY <1>3, AddressForms
  <2>3. \A a \in Addresses : fwd[a] = Null
    BY <1>3
  <2>4. /\ coll = NoCopy /\ coll.queue = {} /\ coll.obj = Null
        /\ prog.at = "run"
    BY <1>3 DEF Idle, NoCopy
  <2> QED
    BY <1>1, <2>1, <2>2, <2>3, <2>4, AddressForms DEF Copies
<1>13. Losers
  <2>1. \A a \in there : a \in Addresses /\ a = At(Obj(a))
    BY AddressForms DEF there
  <2> QED
    BY <1>1, <1>8, <2>1 DEF Losers
<1>14. Gathered /\ Noted /\ HeldMoved
  BY <1>3, <1>7 DEF Gathered, Noted, HeldMoved
<1>15. Existing
  <2>1. \A o \in Fresh : At(o) \in Addresses \ linked
    BY <1>1, AddressForms, EvacuationAssumption
  <2> QED
    BY <1>1, <1>2, <1>7, <2>1, EvacuationAssumption DEF Existing
<1>16. Imaged
  <2>1. ASSUME NEW o \in Objects
        PROVE  image[o] = IF Cur(o) \in alloc
               THEN [f \in Fields |-> IF field[Cur(o)][f] = Null THEN Null ELSE Obj(field[Cur(o)][f])]
               ELSE H!Empty
    <3>1. CASE o \notin Fresh
      BY <1>1, <1>4, <1>9, <3>1
    <3>2. CASE o \in Fresh
      <4>1. At(o) \in Addresses \ linked
        BY <1>1, <3>2, AddressForms
      <4>2. \A f \in Fields : field[At(o)][f] = Null
        BY <1>2, <4>1
      <4>3. image[o] = [f \in Fields |-> Null]
        BY <1>4, <4>2
      <4> QED
        BY <1>1, <1>9, <3>2, <4>3 DEF H!Empty
    <3> QED
      BY <3>1, <3>2
  <2> QED
    BY <2>1 DEF Imaged
<1>17. Logging
  BY <1>3 DEF Logging, Newborn, Idle
<1>18. Sound
  <2> DEFINE S == {a \in Addresses : \A T \in SUBSET Addresses : Covers(T) => a \in T}
  <2>1. Covers(there)
    <3>1. \A a \in there, f \in Fields : field[a][f] \in Into(there)
      BY <1>1, <1>2 DEF Into
    <3> QED
      BY <1>1, <1>3, <1>6, <3>1 DEF Covers
  <2>2. S \subseteq there
    BY <1>1, <2>1
  <2>3. \A T \in SUBSET Addresses : Covers(T) => At(State) \in T
    BY <1>6 DEF Covers
  <2>4. At(State) \in S
    BY <1>1, <2>3
  <2>5. ASSUME NEW a \in S, NEW f \in Fields PROVE field[a][f] \in Into(S)
    <3>1. \A T \in SUBSET Addresses : Covers(T) => field[a][f] \in Into(T)
      BY <1>3, <2>5 DEF Covers
    <3>2. field[a][f] \in Addresses \cup {Null}
      BY <1>10, <2>5 DEF Types, TypeOK
    <3> QED
      BY <3>1, <3>2 DEF Into
  <2>6. S \in SUBSET Addresses /\ \A T \in SUBSET Addresses : Covers(T) => S \subseteq T
    OBVIOUS
  <2> HIDE DEF S
  <2>7. Known = {At(State)}
    BY <1>1, <1>3, <1>5 DEF Known, Held, Idle
  <2>8. S \subseteq Settled
    BY <1>1, <1>8, <2>2, AddressForms DEF there
  <2>9. Closed(S)
    BY <1>1, <2>2, <2>4, <2>5, <2>7, <2>8 DEF Closed
  <2>10. Snapshot(S)
    BY <1>3, <1>6, <2>4, <2>6 DEF Snapshot
  <2> QED
    BY <1>3, <1>7, <2>6, <2>9, <2>10 DEF Sound, MarkerRuns
<1> QED
  BY <1>10, <1>11, <1>12, <1>13, <1>14, <1>15, <1>16, <1>17, <1>18 DEF IInv

\* A step of the program that touches no more than its variables and registers.
LEMMA ProgramMoves ==
  ASSUME IInv, UNCHANGED <<state, pinned, heap, buf, trace, coll, stores, image>>,
         local' \in [Locals -> Addresses \cup {Null}], hand' \in Addresses \cup {Null}, ProgOK',
         prog.at # "forward", prog'.at \notin {"memcpy", "forward"},
         MarkerRuns => MarkerRuns', Newborn' /\ hand' = hand <=> Newborn,
         Newborn' => Newborn,
         \A S \in SUBSET Addresses : Closed(S) /\ (Tracing \/ S = Keep) => Known' \subseteq S,
         Procedure', HeldMoved'
  PROVE  IInv'
<1>1. UNCHANGED <<field, alloc, fwd, marked, flagged, noted, phase, work, visit>>
  BY DEF heap, trace
<1>2. Types'
  <2>1. TypeOK'
    BY <1>1 DEF IInv, Types, TypeOK, Tracing
  <2> QED
    BY <1>1, <2>1 DEF IInv, Types
<1>3. Copies' /\ Losers'
  BY <1>1, CopiesKept
<1>4. Gathered' /\ Existing' /\ Imaged'
  BY <1>1, HeapKept
<1>5. Logging'
  BY <1>1 DEF IInv, Logging, Tracing
<1>6. Noted'
  <2>1. Settled' = Settled
    BY <1>1, PlacesKept
  <2> QED
    BY <1>1, <2>1 DEF IInv, Noted, Tracing, Moving, InCset
<1>7. Sound'
  BY <1>1, SoundKept
<1> QED
  BY <1>2, <1>3, <1>4, <1>5, <1>6, <1>7 DEF IInv

\* The program is in the middle of nothing.
LEMMA AtEase ==
  ASSUME IInv, prog.at = "run"
  PROVE  /\ hand = Null /\ ~Newborn
         /\ prog.obj = Null /\ prog.val = Null /\ prog.reg = Null /\ prog.snap = {} /\ prog.task = "none"
  BY DEF IInv, Procedure, Newborn

\* A load of what has not to be looked at, or of what has.
LEMMA LoadInv ==
  ASSUME IInv, NEW x \in Locals, NEW y \in Locals, NEW f \in Fields, Load(x, y, f), ~early'
  PROVE  IInv'
<1> DEFINE v == field[local[y]][f]
<1>1. prog.at = "run" /\ local[y] # Null
  BY DEF Load, Running
<1>2. local[y] \in Held
  BY <1>1 DEF Held
<1>3. v \in Addresses \cup {Null} /\ local[y] \in Addresses
  BY <1>2, HeldIsCurrent DEF IInv, Types, TypeOK
<1>4. \A S \in SUBSET Addresses : Closed(S) => v \in Into(S)
  BY <1>2 DEF Closed, Known
<1>5. v # Null => image[Obj(local[y])][f] = Obj(v)
  BY <1>2, HeldIsCurrent
<1>6. /\ IF Moving /\ v # Null
         THEN prog' = [Idle EXCEPT !.at = "resolve", !.task = "load", !.reg = v, !.dst = x]
              /\ UNCHANGED local
         ELSE local' = [local EXCEPT ![x] = v] /\ UNCHANGED prog
      /\ UNCHANGED <<hand, state, pinned, heap, buf, trace, coll, stores, image>>
  BY DEF Load
<1> HIDE DEF v
<1>7. /\ UNCHANGED <<field, alloc, fwd, marked, flagged, noted, phase, work, visit>>
      /\ Moving' = Moving /\ Tracing' = Tracing
  BY <1>6 DEF heap, trace, Moving, Tracing
<1>8. hand' \in Addresses \cup {Null}
  BY <1>6 DEF IInv, Types, TypeOK
<1>9. CASE Moving /\ v # Null
  <2>1. /\ prog' = [at |-> "resolve", task |-> "load", reg |-> v, dst |-> x,
                    obj |-> Null, fld |-> Null, val |-> Null, left |-> {}, snap |-> {}]
        /\ local' = local
    BY <1>6, <1>9 DEF Idle
  <2>2. /\ prog'.at = "resolve" /\ prog'.task = "load" /\ prog'.reg = v /\ prog'.dst = x
        /\ prog'.obj = Null /\ prog'.val = Null /\ prog'.snap = {}
    BY <2>1
  <2>3. ProgOK'
    BY <1>3, <2>1 DEF ProgOK
  <2>4. Known' \subseteq Known \cup {v} /\ Held' \subseteq Held
    BY <1>6, <2>1, <2>2 DEF Known, Held
  <2>5. \A S \in SUBSET Addresses : Closed(S) => Known' \subseteq S
    BY <1>4, <1>9, <2>4 DEF Closed, Into
  <2>6. Procedure'
    BY <1>1, <1>5, <1>6, <1>7, <1>9, <2>1, <2>2, AtEase DEF IInv, Procedure, Newborn, Resolving, Copying
  <2>7. HeldMoved'
    BY <1>6, <1>7, <2>2, <2>4 DEF IInv, HeldMoved, InCset
  <2> QED
    BY <1>1, <1>6, <1>7, <1>8, <2>1, <2>2, <2>3, <2>5, <2>6, <2>7, ProgramMoves, AtEase
      DEF MarkerRuns, Newborn, IInv, Types, TypeOK
<1>10. CASE ~(Moving /\ v # Null)
  <2>1. local' = [local EXCEPT ![x] = v] /\ UNCHANGED prog
    BY <1>6, <1>10
  <2>2. ProgOK' /\ local' \in [Locals -> Addresses \cup {Null}]
    BY <1>3, <2>1 DEF ProgOK, IInv, Types, TypeOK
  <2>3. Known' \subseteq Known \cup ({v} \ {Null}) /\ Held' \subseteq Held \cup ({v} \ {Null})
    BY <1>6, <2>1 DEF Known, Held, IInv, Types, TypeOK
  <2>4. \A S \in SUBSET Addresses : Closed(S) => Known' \subseteq S
    BY <1>4, <2>3 DEF Closed, Into
  <2>5. Procedure'
    BY <1>1, <1>6, <1>7, <2>1, AtEase DEF IInv, Procedure, Newborn, Resolving, Copying
  <2>6. HeldMoved'
    BY <1>6, <1>7, <1>10, <2>1, <2>3 DEF IInv, HeldMoved, InCset
  <2> QED
    BY <1>1, <1>6, <1>7, <1>8, <2>1, <2>2, <2>4, <2>5, <2>6, ProgramMoves, AtEase
      DEF MarkerRuns, Newborn
<1> QED
  BY <1>9, <1>10

\* The stack lets go of a reference.
LEMMA ForgetInv ==
  ASSUME IInv, NEW x \in Locals, Forget(x)
  PROVE  IInv'
<1>1. /\ prog.at = "run" /\ hand = Null
      /\ local' = [local EXCEPT ![x] = Null]
      /\ UNCHANGED <<hand, state, pinned, heap, buf, trace, prog, coll, stores, image>>
  BY DEF Forget, Running, IInv, Procedure, Idle, Newborn
<1>2. /\ local' \in [Locals -> Addresses \cup {Null}] /\ hand' \in Addresses \cup {Null}
      /\ ProgOK'
  BY <1>1 DEF IInv, Types, TypeOK, ProgOK
<1>3. Known' \subseteq Known /\ Held' \subseteq Held
  BY <1>1 DEF Known, Held, IInv, Types, TypeOK
<1>4. \A S \in SUBSET Addresses : Closed(S) => Known' \subseteq S
  BY <1>3 DEF Closed
<1>5. UNCHANGED <<phase, field, flagged>>
  BY <1>1 DEF heap, trace
<1>6. Procedure' /\ HeldMoved'
  BY <1>1, <1>3, <1>5 DEF IInv, Procedure, Idle, Newborn, Resolving, Copying, Moving, HeldMoved, InCset
<1> QED
  BY <1>1, <1>2, <1>4, <1>5, <1>6, ProgramMoves DEF Idle, MarkerRuns, Newborn

\* A method is handed the worker's state, which has not moved.
LEMMA CallInv ==
  ASSUME State \notin Cset, IInv, NEW x \in Locals, Call(x)
  PROVE  IInv'
<1>1. /\ prog.at = "run" /\ hand = Null /\ state = pinned /\ pinned # Null
      /\ pinned \in Addresses
      /\ local' = [local EXCEPT ![x] = pinned]
      /\ UNCHANGED <<hand, state, pinned, heap, buf, trace, prog, coll, stores, image>>
  <2>1. State \in Objects /\ state = At(State) /\ pinned = At(State)
    BY EvacuationAssumption DEF IInv, Procedure
  <2>2. prog.at = "run" /\ hand = Null
    BY AtEase DEF Call, Running
  <2> QED
    BY <2>1, <2>2, AddressForms DEF Call
<1>2. /\ local' \in [Locals -> Addresses \cup {Null}] /\ hand' \in Addresses \cup {Null}
      /\ ProgOK'
  BY <1>1 DEF IInv, Types, TypeOK, ProgOK
<1>3. Known' \subseteq Known /\ Held' \subseteq Held
  BY <1>1 DEF Known, Held, IInv, Types, TypeOK
<1>4. \A S \in SUBSET Addresses : Closed(S) => Known' \subseteq S
  BY <1>3 DEF Closed
<1>5. UNCHANGED <<phase, field, flagged>>
  BY <1>1 DEF heap, trace
<1>6. Procedure' /\ HeldMoved'
  BY <1>1, <1>3, <1>5 DEF IInv, Procedure, Idle, Newborn, Resolving, Copying, Moving, HeldMoved, InCset
<1> QED
  BY <1>1, <1>2, <1>4, <1>5, <1>6, ProgramMoves DEF Idle, MarkerRuns, Newborn

\* Once marking is over, what is known is among what remains.
LEMMA Remains ==
  ASSUME IInv, ~Tracing
  PROVE  /\ Closed(Keep) /\ Keep \subseteq Addresses
         /\ Known \subseteq Keep
         /\ \A a \in Keep, f \in Fields : field[a][f] \in Into(Keep)
<1>1. Closed(Keep) /\ Keep \subseteq Addresses
  BY DEF IInv, Sound
<1> QED
  BY <1>1 DEF Closed

\* The load barrier is asked about something that remains, while objects move.
LEMMA Asked ==
  ASSUME IInv, Resolving
  PROVE  /\ Moving /\ ~Tracing /\ prog.reg \in Keep /\ prog.reg \in Addresses
         /\ ~Newborn /\ hand = Null /\ ~MarkerRuns
         /\ Obj(prog.reg) \in Objects
         /\ prog.task = "load" \/ prog.task = "log"
<1>1. Moving /\ prog.reg # Null /\ (prog.task = "load" \/ prog.task = "log")
  BY DEF IInv, Procedure
<1>2. prog.at \in {"resolve", "copy", "memcpy", "forward"}
  BY DEF Resolving, Copying
<1>3. ~Newborn /\ hand = Null
  BY <1>2 DEF IInv, Procedure, Newborn
<1>4. ~Tracing /\ ~MarkerRuns
  BY <1>1, <1>2 DEF Moving, Tracing, MarkerRuns
<1>5. prog.reg \in Keep
  BY <1>1, <1>4, Remains DEF Known
<1>6. prog.reg \in Addresses
  BY <1>4, <1>5, Remains
<1> QED
  BY <1>1, <1>3, <1>4, <1>5, <1>6, AddressForms

\* The load barrier answers.
LEMMA Answered ==
  ASSUME IInv, Resolving, NEW v \in Addresses, ~InCset(v), Answer(v),
         UNCHANGED <<hand, state, pinned, phase, stores, image>>,
         buf'.logged = buf.logged, buf'.named = buf.named
  PROVE  /\ local' \in [Locals -> Addresses \cup {Null}] /\ ProgOK'
         /\ Procedure' /\ HeldMoved' /\ Known' \subseteq Known \cup {v}
         /\ prog'.at \in {"run", "log"} /\ ~Newborn' /\ ~MarkerRuns'
<1>1. /\ Moving /\ ~Tracing /\ ~Newborn /\ hand = Null /\ ~MarkerRuns
      /\ prog.task = "load" \/ prog.task = "log"
  BY Asked
<1>2. Moving' /\ ~Tracing' /\ hand' = Null
  BY <1>1 DEF Moving, Tracing
<1>3. v # Null
  BY AddressForms
<1>4. CASE prog.task = "load"
  <2>1. prog' = Idle /\ local' = [local EXCEPT ![prog.dst] = v] /\ prog.dst \in Locals
    BY <1>4 DEF Answer, IInv, Procedure
  <2>2. /\ prog'.at = "run" /\ prog'.task = "none" /\ prog'.obj = Null /\ prog'.val = Null
        /\ prog'.reg = Null /\ prog'.snap = {}
    BY <2>1 DEF Idle
  <2>3. local' \in [Locals -> Addresses \cup {Null}] /\ ProgOK'
    BY <2>1 DEF IInv, Types, TypeOK, ProgOK, Idle
  <2>4. Known' \subseteq Known \cup {v} /\ Held' \subseteq Held \cup {v}
    BY <2>1, <2>2 DEF Known, Held, IInv, Types, TypeOK
  <2>5. Procedure'
    BY <1>2, <2>1, <2>2 DEF IInv, Procedure, Newborn, Resolving, Copying, Idle
  <2>6. HeldMoved'
    BY <1>1, <2>2, <2>4 DEF IInv, HeldMoved, InCset
  <2> QED
    BY <1>2, <2>2, <2>3, <2>4, <2>5, <2>6 DEF Newborn, MarkerRuns, Tracing
<1>5. CASE prog.task = "log"
  <2>1. /\ prog' = [prog EXCEPT !.at = "log", !.reg = Null, !.snap = @ \cup {v}]
        /\ local' = local
    BY <1>5 DEF Answer
  <2>2. ProgOK
    BY DEF IInv, Types
  <2>3. /\ prog'.at = "log" /\ prog'.task = "log" /\ prog'.obj = prog.obj /\ prog'.val = prog.val
        /\ prog'.fld = prog.fld
        /\ prog'.reg = Null /\ prog'.snap = prog.snap \cup {v}
    BY <1>5, <2>1, <2>2 DEF ProgOK
  <2>4. local' \in [Locals -> Addresses \cup {Null}] /\ ProgOK'
    BY <2>1, <2>2 DEF IInv, Types, TypeOK, ProgOK
  <2>5. Known' \subseteq Known \cup {v} /\ Held' \subseteq Held
    BY <2>1, <2>3 DEF Known, Held
  <2>6. Procedure'
    BY <1>1, <1>2, <1>5, <2>1, <2>3 DEF IInv, Procedure, Newborn, Resolving, Copying
  <2>7. HeldMoved'
    BY <1>1, <2>3, <2>5 DEF IInv, HeldMoved, InCset
  <2> QED
    BY <1>2, <2>3, <2>4, <2>5, <2>6, <2>7 DEF Newborn, MarkerRuns, Tracing
<1> QED
  BY <1>1, <1>4, <1>5

\* An answer without a copy.
LEMMA AnswerInv ==
  ASSUME IInv, prog.at \in {"resolve", "copy"}, Forwarded(prog.reg) \/ ~InCset(prog.reg),
         Answer(WhereItIs(prog.reg)),
         UNCHANGED <<hand, state, pinned, heap, buf, trace, coll, stores, image>>
  PROVE  IInv'
<1> DEFINE v == WhereItIs(prog.reg)
<1>1. Resolving
  BY DEF Resolving, Copying
<1>2. ~Tracing /\ prog.reg \in Keep /\ ~Newborn /\ ~MarkerRuns
  BY <1>1, Asked
<1>3. v \in Keep /\ ~InCset(v) /\ v \in Addresses
  BY <1>2, Follow, Remains DEF IInv
<1> HIDE DEF v
<1>4. UNCHANGED <<phase, hand, state, pinned, stores, image, buf>>
  BY DEF trace
<1>5. Answer(v)
  BY DEF v
<1>6. /\ local' \in [Locals -> Addresses \cup {Null}] /\ ProgOK'
      /\ Procedure' /\ HeldMoved' /\ Known' \subseteq Known \cup {v}
      /\ prog'.at \in {"run", "log"} /\ ~Newborn' /\ ~MarkerRuns'
  BY <1>1, <1>3, <1>4, <1>5, Answered
<1>7. \A S \in SUBSET Addresses : Closed(S) /\ (Tracing \/ S = Keep) => Known' \subseteq S
  BY <1>2, <1>3, <1>6 DEF Closed
<1> QED
  BY <1>2, <1>4, <1>6, <1>7, ProgramMoves DEF IInv, Types, TypeOK

\* The load barrier goes one step further.
LEMMA FurtherInv ==
  ASSUME IInv, NEW next \in {"copy", "memcpy"}, prog.at \in {"resolve", "copy"},
         InCset(prog.reg), ~Forwarded(prog.reg),
         next = "memcpy" => prog.at = "copy",
         prog' = [prog EXCEPT !.at = next],
         UNCHANGED <<roots, heap, buf, trace, coll, stores, image>>
  PROVE  IInv'
<1>1. /\ Moving /\ ~Tracing /\ ~Newborn /\ hand = Null /\ ~MarkerRuns
      /\ prog.task = "load" \/ prog.task = "log"
  BY Asked DEF Resolving, Copying
<1>2. UNCHANGED <<local, hand, state, pinned, field, alloc, fwd, marked, flagged, noted, phase,
                  work, visit>>
  BY DEF roots, heap, trace
<1>3. ProgOK
  BY DEF IInv, Types
<1>4. /\ prog'.at = next /\ prog'.task = prog.task /\ prog'.reg = prog.reg /\ prog'.dst = prog.dst
      /\ prog'.obj = prog.obj /\ prog'.val = prog.val /\ prog'.fld = prog.fld
      /\ prog'.snap = prog.snap
  BY <1>3 DEF ProgOK
<1>5. ProgOK'
  BY <1>3 DEF ProgOK
<1>6. Known' = Known /\ Held' = Held
  BY <1>2, <1>4 DEF Known, Held
<1>7. Moving' /\ ~Tracing' /\ ~MarkerRuns' /\ ~Newborn'
  BY <1>1, <1>2, <1>4 DEF Moving, Tracing, MarkerRuns, Newborn
<1>8. Resolving /\ Resolving'
  BY <1>4 DEF Resolving, Copying
<1>9. Procedure'
  BY <1>1, <1>2, <1>4, <1>7, <1>8 DEF IInv, Procedure, Copying, InCset
<1>10. HeldMoved'
  BY <1>1, <1>4, <1>6 DEF IInv, HeldMoved, InCset
<1>11. Types'
  <2>1. TypeOK'
    BY <1>2, <1>7 DEF IInv, Types, TypeOK, Tracing
  <2> QED
    BY <1>2, <1>5, <2>1 DEF IInv, Types
<1>12. Settled' = Settled /\ InHand' = InHand /\ \A a : Forwarded(a)' = Forwarded(a)
  BY <1>2, <1>4, PlacesKept DEF InHand
<1>13. Copies'
  <2>1. fwd'[prog'.reg] = Null
    BY <1>2, <1>4 DEF Forwarded
  <2> QED
    BY <1>2, <1>4, <1>7, <2>1 DEF IInv, Copies, InCset, NoCopy
<1>14. Losers'
  BY <1>2, <1>12 DEF IInv, Losers
<1>15. Gathered' /\ Existing' /\ Imaged'
  BY <1>2, HeapKept
<1>16. Logging' /\ Noted'
  BY <1>2, <1>7, <1>12 DEF IInv, Logging, Noted, InCset, Moving
<1>17. Sound'
  <2>1. \A S \in SUBSET Addresses : Closed(S) => Known' \subseteq S
    BY <1>6 DEF Closed
  <2> QED
    BY <1>1, <1>2, <2>1, SoundKept
<1> QED
  BY <1>9, <1>10, <1>11, <1>13, <1>14, <1>15, <1>16, <1>17 DEF IInv

\* The load barrier looks whether the object has been moved, and whether it must be ...
LEMMA ResolveInv ==
  ASSUME IInv, Resolve
  PROVE  IInv'
<1>1. CASE Forwarded(prog.reg) \/ ~InCset(prog.reg)
  BY <1>1, AnswerInv DEF Resolve
<1>2. CASE ~(Forwarded(prog.reg) \/ ~InCset(prog.reg))
  BY <1>2, FurtherInv DEF Resolve, roots
<1> QED
  BY <1>1, <1>2

\* ... and again before it copies.
LEMMA EvacuateOneInv ==
  ASSUME IInv, EvacuateOne
  PROVE  IInv'
<1>1. prog.at = "copy" /\ InCset(prog.reg)
  BY DEF EvacuateOne, IInv, Procedure, Copying
<1>2. CASE Forwarded(prog.reg)
  <2>1. WhereItIs(prog.reg) = fwd[prog.reg]
    BY <1>1, <1>2 DEF WhereItIs, InCset
  <2> QED
    BY <1>1, <1>2, <2>1, AnswerInv DEF EvacuateOne
<1>3. CASE ~Forwarded(prog.reg)
  BY <1>1, <1>3, FurtherInv DEF EvacuateOne, roots
<1> QED
  BY <1>2, <1>3

\* The barrier of a store reads a field of the object it logs.
LEMMA LogFieldInv ==
  ASSUME IInv, NEW f \in Fields, LogField(f)
  PROVE  IInv'
<1> DEFINE v == field[prog.obj][f]
<1>1. /\ prog.at = "log" /\ prog.task = "log" /\ prog.obj # Null
      /\ Moving /\ ~Tracing
  BY DEF LogField, IInv, Procedure, Moving, Tracing
<1>2. prog.obj \in Held
  BY <1>1 DEF Held
<1>3. v \in Addresses \cup {Null}
  BY <1>2, HeldIsCurrent DEF IInv, Types, TypeOK
<1>4. prog' = [prog EXCEPT !.left = @ \ {f}, !.at = IF v = Null THEN "log" ELSE "resolve", !.reg = v]
  BY DEF LogField
<1>5. \A S \in SUBSET Addresses : Closed(S) => v \in Into(S)
  BY <1>2 DEF Closed, Known
<1> HIDE DEF v
<1>6. UNCHANGED <<local, hand, state, pinned, phase, buf, stores, image>>
  BY DEF LogField, roots, trace
<1>7. ProgOK
  BY DEF IInv, Types
<1>8. /\ prog'.at = (IF v = Null THEN "log" ELSE "resolve") /\ prog'.task = "log" /\ prog'.reg = v
      /\ prog'.obj = prog.obj /\ prog'.val = prog.val /\ prog'.fld = prog.fld
      /\ prog'.snap = prog.snap
  BY <1>1, <1>4, <1>7 DEF ProgOK
<1>9. ProgOK'
  <2>1. (IF v = Null THEN "log" ELSE "resolve") \in {"log", "resolve"}
    OBVIOUS
  <2>2. PICK at \in {"log", "resolve"} : prog' = [prog EXCEPT !.left = @ \ {f}, !.at = at, !.reg = v]
    BY <1>4, <2>1
  <2> QED
    BY <1>3, <1>7, <2>2 DEF ProgOK
<1>10. Known' \subseteq Known \cup ({v} \ {Null}) /\ Held' = Held
  BY <1>6, <1>8 DEF Known, Held
<1>11. \A S \in SUBSET Addresses : Closed(S) => Known' \subseteq S
  BY <1>5, <1>10 DEF Closed, Into
<1>12. Moving' /\ ~Tracing' /\ ~Newborn' /\ ~Newborn /\ ~MarkerRuns
  BY <1>1, <1>6, <1>8 DEF Moving, Tracing, Newborn, MarkerRuns
<1>13. Procedure'
  BY <1>1, <1>6, <1>8, <1>12 DEF IInv, Procedure, Copying, Resolving
<1>14. HeldMoved'
  BY <1>1, <1>6, <1>8, <1>10 DEF IInv, HeldMoved, InCset
<1> QED
  BY <1>1, <1>6, <1>8, <1>9, <1>11, <1>12, <1>13, <1>14, ProgramMoves
    DEF LogField, roots, IInv, Types, TypeOK

\* What has been allocated is assigned.
LEMMA AssignInv ==
  ASSUME IInv, NEW x \in Locals, Assign(x)
  PROVE  IInv'
<1>1. /\ prog.at = "assign" /\ hand # Null
      /\ local' = [local EXCEPT ![x] = hand] /\ hand' = Null /\ prog' = Idle
      /\ UNCHANGED <<state, pinned, heap, buf, trace, coll, stores, image>>
  BY DEF Assign, IInv, Procedure
<1>2. UNCHANGED <<phase, buf, image>>
  BY <1>1 DEF trace
<1>3. /\ prog'.at = "run" /\ prog'.task = "none" /\ prog'.obj = Null /\ prog'.val = Null
      /\ prog'.reg = Null /\ prog'.snap = {}
  BY <1>1 DEF Idle
<1>4. ProgOK' /\ local' \in [Locals -> Addresses \cup {Null}]
  BY <1>1 DEF IInv, Types, TypeOK, ProgOK, Idle
<1>5. Known' \subseteq Known /\ Held' \subseteq Held
  BY <1>1, <1>3 DEF Known, Held, IInv, Types, TypeOK
<1>6. \A S \in SUBSET Addresses : Closed(S) => Known' \subseteq S
  BY <1>5 DEF Closed
<1>7. Moving' = Moving /\ Tracing' = Tracing /\ ~Newborn /\ ~Newborn' /\ MarkerRuns' = MarkerRuns
  BY <1>1, <1>2, <1>3 DEF Moving, Tracing, Newborn, MarkerRuns
<1>8. Procedure'
  BY <1>1, <1>2, <1>3, <1>7 DEF IInv, Procedure, Copying, Resolving, Idle
<1>9. HeldMoved'
  BY <1>1, <1>2, <1>3, <1>5, <1>7 DEF IInv, HeldMoved, InCset
<1> QED
  BY <1>1, <1>3, <1>4, <1>6, <1>7, <1>8, <1>9, ProgramMoves

\* The program comes to the second pause.
LEMMA SafepointInv ==
  ASSUME IInv, Safepoint
  PROVE  IInv'
<1>1. /\ prog.at \in {"run", "enroll"} /\ phase = "MarkDone" /\ prog.task = "none"
      /\ prog.reg = Null /\ prog.obj = Null /\ prog.val = Null /\ prog.snap = {} /\ ProgOK
      /\ prog' = [prog EXCEPT !.at = "mark", !.task = prog.at]
      /\ UNCHANGED <<local, hand, state, pinned, phase, buf, image>>
  BY DEF Safepoint, IInv, Types, Procedure, roots, trace
<1>2. /\ prog'.at = "mark" /\ prog'.task = prog.at
      /\ prog'.reg = Null /\ prog'.obj = Null /\ prog'.val = Null /\ prog'.snap = {}
  BY <1>1 DEF ProgOK
<1>3. ProgOK'
  BY <1>1 DEF ProgOK
<1>4. Known' = Known /\ Held' = Held
  BY <1>1, <1>2 DEF Known, Held
<1>5. \A S \in SUBSET Addresses : Closed(S) => Known' \subseteq S
  BY <1>4 DEF Closed
<1>6. Newborn' = Newborn /\ ~Moving /\ ~Moving' /\ MarkerRuns'
  BY <1>1, <1>2 DEF Newborn, Moving, MarkerRuns
<1>7. Procedure'
  BY <1>1, <1>2, <1>6 DEF IInv, Procedure, Copying, Resolving, Newborn
<1>8. HeldMoved'
  BY <1>6 DEF HeldMoved
<1> QED
  BY <1>1, <1>2, <1>3, <1>5, <1>6, <1>7, <1>8, ProgramMoves
    DEF Safepoint, roots, IInv, Types, TypeOK

\* All it holds has been read: the object is logged.
LEMMA LogInv ==
  ASSUME IInv, Log
  PROVE  IInv'
<1>1. /\ prog.at = "log" /\ prog.task = "log" /\ prog.obj # Null
      /\ Moving /\ ~Tracing
  BY DEF Log, IInv, Procedure, Moving, Tracing
<1>2. prog.obj \in Held /\ prog.obj \in Addresses /\ prog.snap \subseteq Addresses
  BY <1>1, HeldIsCurrent DEF Held, IInv, Types, ProgOK
<1>3. /\ buf' = [buf EXCEPT !.logged = @ \cup {prog.obj}, !.named = @ \cup prog.snap]
      /\ prog' = [prog EXCEPT !.at = "store"]
      /\ UNCHANGED <<local, hand, state, pinned, field, alloc, fwd, marked, flagged, noted, phase,
                     work, visit, coll, stores, image>>
  BY DEF Log, roots, heap, trace
<1>4. buf \in [logged : SUBSET Addresses, satb : SUBSET Addresses,
              scan : SUBSET Addresses, named : SUBSET Addresses]
  BY DEF IInv, Types, TypeOK
<1>5. /\ buf'.logged = buf.logged \cup {prog.obj} /\ buf'.named = buf.named \cup prog.snap
      /\ buf'.scan = buf.scan /\ buf'.satb = buf.satb
  BY <1>3, <1>4
<1>6. ProgOK
  BY DEF IInv, Types
<1>7. /\ prog'.at = "store" /\ prog'.task = "log" /\ prog'.reg = prog.reg
      /\ prog'.obj = prog.obj /\ prog'.val = prog.val /\ prog'.fld = prog.fld
      /\ prog'.snap = prog.snap
  BY <1>1, <1>3, <1>6 DEF ProgOK
<1>8. Moving' /\ ~Tracing' /\ ~Newborn /\ ~Newborn' /\ ~MarkerRuns /\ ~MarkerRuns'
  BY <1>1, <1>3, <1>7 DEF Moving, Tracing, Newborn, MarkerRuns
<1>9. Types'
  <2>1. ProgOK'
    BY <1>3, <1>6 DEF ProgOK
  <2>2. buf' \in [logged : SUBSET Addresses, satb : SUBSET Addresses,
                  scan : SUBSET Addresses, named : SUBSET Addresses]
    BY <1>2, <1>3, <1>4
  <2>3. TypeOK'
    BY <1>3, <1>5, <1>8, <2>2 DEF IInv, Types, TypeOK, Tracing
  <2> QED
    BY <1>3, <2>1, <2>3 DEF IInv, Types
<1>10. Procedure'
  BY <1>1, <1>3, <1>7, <1>8 DEF IInv, Procedure, Copying, Resolving
<1>11. Copies' /\ Losers' /\ Gathered' /\ Existing' /\ Imaged'
  BY <1>1, <1>3, <1>7, CopiesKept, HeapKept
<1>12. Logging' /\ Noted'
  <2>1. Settled' = Settled
    BY <1>3, PlacesKept
  <2> QED
    BY <1>3, <1>5, <1>8, <2>1 DEF IInv, Logging, Noted, Moving, InCset
<1>13. Held' = Held /\ Known' \subseteq Known
  BY <1>2, <1>3, <1>5, <1>7 DEF Known, Held
<1>14. Sound'
  <2>1. \A S \in SUBSET Addresses : Closed(S) => Known' \subseteq S
    BY <1>13 DEF Closed
  <2> QED
    BY <1>3, <1>5, <1>8, <2>1, SoundKept
<1>15. HeldMoved'
  BY <1>1, <1>2, <1>5, <1>7, <1>13 DEF IInv, HeldMoved, InCset
<1> QED
  BY <1>9, <1>10, <1>11, <1>12, <1>14, <1>15 DEF IInv

\* What has been allocated is listed as new.
LEMMA EnrollInv ==
  ASSUME IInv, Enroll
  PROVE  IInv'
<1>1. /\ prog.at = "enroll" /\ prog.task = "none" /\ Newborn
      /\ prog.reg = Null /\ prog.obj = Null /\ prog.val = Null /\ prog.snap = {} /\ ProgOK
      /\ hand # Null
  BY DEF Enroll, IInv, Types, Procedure, Newborn
<1>2. hand \in Held /\ hand \in Addresses
  BY <1>1, HeldIsCurrent DEF Held
<1>3. /\ buf' = [buf EXCEPT !.logged = @ \cup {hand}, !.named = @ \cup {hand}]
      /\ prog' = [prog EXCEPT !.at = "assign"]
      /\ UNCHANGED <<local, hand, state, pinned, field, alloc, fwd, marked, flagged, noted, phase,
                     work, visit, coll, stores, image>>
  BY DEF Enroll, roots, heap, trace
<1>4. buf \in [logged : SUBSET Addresses, satb : SUBSET Addresses,
              scan : SUBSET Addresses, named : SUBSET Addresses]
  BY DEF IInv, Types, TypeOK
<1>5. /\ buf'.logged = buf.logged \cup {hand} /\ buf'.named = buf.named \cup {hand}
      /\ buf'.scan = buf.scan /\ buf'.satb = buf.satb
  BY <1>3, <1>4
<1>6. /\ prog'.at = "assign" /\ prog'.task = "none" /\ prog'.reg = Null
      /\ prog'.obj = Null /\ prog'.val = Null /\ prog'.snap = {}
  BY <1>1, <1>3 DEF ProgOK
<1>7. /\ Moving' = Moving /\ Tracing' = Tracing /\ ~Newborn' /\ MarkerRuns' = MarkerRuns
  BY <1>1, <1>3, <1>6 DEF Moving, Tracing, Newborn, MarkerRuns
<1>8. Types'
  <2>1. ProgOK'
    BY <1>1, <1>3 DEF ProgOK
  <2>2. buf' \in [logged : SUBSET Addresses, satb : SUBSET Addresses,
                  scan : SUBSET Addresses, named : SUBSET Addresses]
    BY <1>2, <1>3, <1>4
  <2>3. TypeOK'
    BY <1>3, <1>5, <1>7, <2>2 DEF IInv, Types, TypeOK
  <2> QED
    BY <1>3, <2>1, <2>3 DEF IInv, Types
<1>9. Procedure'
  BY <1>1, <1>3, <1>6, <1>7 DEF IInv, Procedure, Copying, Resolving
<1>10. Copies' /\ Losers' /\ Gathered' /\ Existing' /\ Imaged'
  BY <1>1, <1>3, <1>6, CopiesKept, HeapKept
<1>11. Logging'
  BY <1>1, <1>3, <1>5, <1>7 DEF IInv, Logging
<1>12. Noted'
  <2>1. Settled' = Settled
    BY <1>3, PlacesKept
  <2> QED
    BY <1>3, <1>5, <1>7, <2>1 DEF IInv, Noted, InCset
<1>13. Held' = Held /\ Known' \subseteq Known
  BY <1>2, <1>3, <1>5, <1>6 DEF Known, Held
<1>14. Sound'
  <2>1. \A S \in SUBSET Addresses : Closed(S) => Known' \subseteq S
    BY <1>13 DEF Closed
  <2> QED
    BY <1>3, <1>5, <1>7, <2>1, SoundKept
<1>15. HeldMoved'
  BY <1>2, <1>5, <1>6, <1>7, <1>13 DEF IInv, HeldMoved, InCset
<1> QED
  BY <1>8, <1>9, <1>10, <1>11, <1>12, <1>14, <1>15 DEF IInv

\* Counting looks at what is logged, and arms the barrier anew.
LEMMA CollectInv ==
  ASSUME IInv, Collect
  PROVE  IInv'
<1>1. /\ prog.at \in {"run", "assign"} /\ prog.task = "none" /\ Tracing /\ ~Newborn /\ ~Moving
  BY DEF Collect, IInv, Procedure, Newborn, Tracing, Moving
<1>2. buf \in [logged : SUBSET Addresses, satb : SUBSET Addresses,
              scan : SUBSET Addresses, named : SUBSET Addresses]
  BY DEF IInv, Types, TypeOK
<1>3. /\ buf' = [buf EXCEPT !.logged = {}, !.scan = @ \cup buf.logged]
      /\ flagged' = flagged \ buf.logged
      /\ UNCHANGED <<local, hand, state, pinned, field, alloc, fwd, marked, noted, phase,
                     work, visit, prog, coll, stores, image>>
  BY DEF Collect, Counted, roots, trace
<1>4. /\ buf'.logged = {} /\ buf'.named = buf.named
      /\ buf'.scan = buf.scan \cup buf.logged /\ buf'.satb = buf.satb
  BY <1>2, <1>3
<1>5. flagged' = {}
  BY <1>1, <1>3 DEF IInv, Logging
<1>6. Moving' = Moving /\ Tracing' = Tracing /\ Newborn' = Newborn /\ MarkerRuns' = MarkerRuns
  BY <1>3 DEF Moving, Tracing, Newborn, MarkerRuns
<1>7. Types'
  <2>1. buf' \in [logged : SUBSET Addresses, satb : SUBSET Addresses,
                  scan : SUBSET Addresses, named : SUBSET Addresses]
    BY <1>2, <1>3
  <2>2. TypeOK'
    BY <1>1, <1>3, <1>5, <1>6, <2>1 DEF IInv, Types, TypeOK
  <2> QED
    BY <1>3, <2>2 DEF IInv, Types, ProgOK
<1>8. Procedure'
  BY <1>1, <1>3, <1>6 DEF IInv, Procedure, Copying, Resolving, Newborn
<1>9. Copies' /\ Losers' /\ Gathered' /\ Existing' /\ Imaged'
  BY <1>1, <1>3, CopiesKept, HeapKept
<1>10. Logging'
  BY <1>1, <1>4, <1>5, <1>6 DEF IInv, Logging
<1>11. Noted'
  BY <1>1, <1>3, <1>4, <1>6 DEF IInv, Noted, InCset
<1>12. Known' \subseteq Known
  BY <1>3, <1>4 DEF Known, Held
<1>13. Sound'
  <2>1. PICK S \in SUBSET Addresses : Closed(S) /\ Snapshot(S)
    BY <1>1 DEF IInv, Sound
  <2>2. Settled' = Settled
    BY <1>3, PlacesKept
  <2>3. Closed(S)'
    BY <1>3, <1>12, <2>1, <2>2 DEF Closed, Into
  <2>4. \A T \in SUBSET Addresses : Covers(T)' => Covers(T)
    BY <1>3, <1>4, <1>5 DEF Covers, Into
  <2>5. Snapshot(S)'
    BY <1>3, <1>4, <2>1, <2>4 DEF Snapshot
  <2> QED
    BY <1>1, <1>3, <1>6, <2>3, <2>5 DEF Sound, IInv
<1>14. HeldMoved'
  BY <1>1, <1>6 DEF HeldMoved
<1> QED
  BY <1>7, <1>8, <1>9, <1>10, <1>11, <1>13, <1>14 DEF IInv

\* The write barrier logs the object, at once or, while objects move, a field at a
\* time.
LEMMA BarrierInv ==
  ASSUME IInv, NEW x \in Locals, NEW f \in Fields,
         NEW v, v = Null \/ \E y \in Locals : v = local[y],
         Barrier(x, f, v)
  PROVE  IInv'
<1> DEFINE o == local[x]
           snapshot == {field[o][g] : g \in Fields} \ {Null}
           slow == o \notin flagged /\ Moving
<1>1. prog.at = "run" /\ o # Null
  BY DEF Barrier, Running
<1>2. o \in Held /\ o \in Addresses
  BY <1>1, HeldIsCurrent DEF Held
<1>3. v \in Addresses \cup {Null} /\ v \in Held \cup {Null}
  BY <1>1, HeldIsCurrent DEF Held
<1>4. snapshot \subseteq Addresses
  BY <1>2 DEF IInv, Types, TypeOK
<1>5. \A S \in SUBSET Addresses : Closed(S) => o \in S /\ snapshot \subseteq S
  BY <1>2 DEF Closed, Known, Into
<1>6. /\ prog' = [Idle EXCEPT !.at = IF slow THEN "log" ELSE "store", !.task = "log",
                              !.left = IF slow THEN Fields ELSE {},
                              !.obj = o, !.fld = f, !.val = v]
      /\ flagged' = flagged \cup {o}
      /\ buf' = IF o \in flagged \/ slow THEN buf
                ELSE [buf EXCEPT !.logged = @ \cup {o}, !.named = @ \cup snapshot,
                                 !.satb = IF Tracing THEN @ \cup snapshot ELSE @]
      /\ UNCHANGED <<local, hand, state, pinned, field, alloc, fwd, marked, noted, phase,
                     work, visit, coll, stores, image>>
      /\ stores < MaxStores
  BY DEF Barrier, roots, trace
<1>7. \A g \in Fields : field[o][g] \in Into(snapshot)
  BY DEF Into
<1> HIDE DEF snapshot
<1>8. prog' = [at |-> IF slow THEN "log" ELSE "store", task |-> "log", reg |-> Null, dst |-> Null,
               obj |-> o, fld |-> f, val |-> v, left |-> IF slow THEN Fields ELSE {}, snap |-> {}]
  BY <1>6 DEF Idle
<1>9. /\ prog'.at = (IF slow THEN "log" ELSE "store") /\ prog'.task = "log" /\ prog'.reg = Null
      /\ prog'.obj = o /\ prog'.fld = f /\ prog'.val = v /\ prog'.snap = {}
  BY <1>8
<1>10. ProgOK'
  BY <1>2, <1>3, <1>8 DEF ProgOK
<1>11. buf \in [logged : SUBSET Addresses, satb : SUBSET Addresses,
               scan : SUBSET Addresses, named : SUBSET Addresses]
  BY DEF IInv, Types, TypeOK
<1>12. /\ buf'.scan = buf.scan
       /\ o \in flagged \/ slow =>
            buf'.logged = buf.logged /\ buf'.named = buf.named /\ buf'.satb = buf.satb
       /\ ~(o \in flagged \/ slow) =>
            /\ buf'.logged = buf.logged \cup {o} /\ buf'.named = buf.named \cup snapshot
            /\ buf'.satb = IF Tracing THEN buf.satb \cup snapshot ELSE buf.satb
  BY <1>6, <1>11
<1>13. buf' \in [logged : SUBSET Addresses, satb : SUBSET Addresses,
                 scan : SUBSET Addresses, named : SUBSET Addresses]
  BY <1>2, <1>4, <1>6, <1>11
<1>14. /\ Moving' = Moving /\ Tracing' = Tracing /\ ~Newborn' /\ ~Newborn /\ hand = Null
       /\ ~(Moving /\ Tracing)
  BY <1>1, <1>6, <1>9, AtEase DEF Moving, Tracing, Newborn
<1>15. prog'.at \in {"log", "store"} /\ MarkerRuns' = MarkerRuns
  BY <1>1, <1>6, <1>9 DEF MarkerRuns
<1>16. Types'
  <2>1. TypeOK'
    BY <1>2, <1>6, <1>12, <1>13, <1>14 DEF IInv, Types, TypeOK
  <2> QED
    BY <1>6, <1>10, <2>1 DEF IInv, Types
<1>17. Tracing => o \in buf'.logged
  BY <1>12, <1>14 DEF IInv, Logging
<1>18. Procedure'
  <2>1. \E z \in Locals : local'[z] = prog'.obj
    BY <1>6, <1>9
  <2>2. v = Null \/ \E z \in Locals : local'[z] = v
    BY <1>6
  <2>3. Resolving' = FALSE /\ Copying' = FALSE
    BY <1>15 DEF Resolving, Copying
  <2>4. prog'.at = "log" => Moving'
    BY <1>9, <1>14
  <2> QED
    BY <1>1, <1>6, <1>9, <1>14, <1>15, <1>17, <2>1, <2>2, <2>3, <2>4 DEF IInv, Procedure
<1>19. Copies' /\ Losers' /\ Gathered' /\ Existing' /\ Imaged'
  BY <1>1, <1>6, <1>15, CopiesKept, HeapKept
<1>20. Logging'
  BY <1>6, <1>12, <1>14 DEF IInv, Logging
<1>21. Noted'
  <2>1. Settled' = Settled
    BY <1>6, PlacesKept
  <2> QED
    BY <1>6, <1>12, <1>14, <2>1 DEF IInv, Noted, InCset
<1>22. Held' \subseteq Held
  BY <1>2, <1>3, <1>6, <1>9 DEF Held
<1>23. \A S \in SUBSET Addresses : Closed(S) => Known' \subseteq S
  BY <1>5, <1>9, <1>12, <1>22 DEF Closed, Known
<1>24. Sound'
  <2>1. CASE ~Tracing \/ o \in flagged
    <3>1. flagged' = flagged \/ ~Tracing
      BY <1>6, <2>1
    <3>2. PICK S \in SUBSET Addresses : Closed(S) /\ IF Tracing THEN Snapshot(S) ELSE S = Keep
      BY DEF IInv, Sound
    <3>3. Settled' = Settled /\ Keep' = Keep
      BY <1>6, PlacesKept DEF Keep
    <3>4. Closed(S)'
      BY <1>6, <1>23, <3>2, <3>3 DEF Closed, Into
    <3>5. Tracing => Snapshot(S)'
      BY <1>6, <1>12, <2>1, <3>1, <3>2 DEF Snapshot, Covers, Into
    <3> QED
      BY <1>6, <1>14, <1>15, <3>2, <3>3, <3>4, <3>5 DEF Sound, IInv
  <2>2. CASE Tracing /\ o \notin flagged
    <3>1. PICK S \in SUBSET Addresses : Closed(S) /\ Snapshot(S)
      BY <2>2 DEF IInv, Sound
    <3>2. Settled' = Settled
      BY <1>6, PlacesKept
    <3>3. Closed(S)'
      BY <1>6, <1>23, <3>1, <3>2 DEF Closed, Into
    <3>4. buf'.satb = buf.satb \cup snapshot
      BY <1>12, <1>14, <2>2
    <3>5. ASSUME NEW T \in SUBSET Addresses, Covers(T)'
          PROVE  Covers(T)
      <4>1. snapshot \subseteq T /\ marked \cup work \cup buf.satb \subseteq T
        BY <1>6, <3>4, <3>5 DEF Covers
      <4>2. \A g \in Fields : field[o][g] \in Into(T)
        BY <1>7, <4>1 DEF Into
      <4>3. visit.left \subseteq Fields
        BY DEF IInv, Types
      <4> QED
        BY <1>6, <3>5, <4>1, <4>2, <4>3 DEF Covers, Into
    <3>6. Snapshot(S)'
      BY <1>5, <1>6, <3>1, <3>4, <3>5 DEF Snapshot
    <3> QED
      BY <1>6, <1>14, <1>15, <2>2, <3>3, <3>6 DEF Sound, IInv
  <2> QED
    BY <2>1, <2>2
<1>25. HeldMoved'
  BY <1>2, <1>9, <1>12, <1>14, <1>22 DEF IInv, HeldMoved, InCset
<1> QED
  BY <1>16, <1>18, <1>19, <1>20, <1>21, <1>24, <1>25 DEF IInv

\* The store itself.
LEMMA StoreInv ==
  ASSUME IInv, Store
  PROVE  IInv'
<1> DEFINE o == prog.obj
           v == prog.val
           g == prog.fld
<1>1. /\ prog.at = "store" /\ prog.task = "log" /\ o # Null /\ g \in Fields
      /\ hand = Null /\ ~Newborn /\ MarkerRuns' = MarkerRuns
      /\ Tracing => o \in buf.logged
      /\ stores < MaxStores
  <2>1. prog.at = "store" /\ prog.task = "log"
    BY DEF Store, IInv, Procedure
  <2>2. /\ prog.fld \in Fields /\ prog.obj # Null /\ stores < MaxStores
        /\ Tracing => prog.obj \in buf.logged
    BY <2>1 DEF IInv, Procedure
  <2>3. ~Newborn /\ hand = Null
    BY <2>1 DEF IInv, Procedure, Newborn
  <2>4. MarkerRuns' = MarkerRuns
    BY <2>1 DEF Store, MarkerRuns, Idle, trace
  <2> QED
    BY <2>1, <2>2, <2>3, <2>4
<1>2. o \in Held /\ o \in Addresses \cap alloc \cap Settled /\ o = Cur(Obj(o))
  BY <1>1, HeldIsCurrent DEF Held
<1>3. /\ v \in Addresses \cup {Null} /\ v \in Held \cup {Null}
      /\ v # Null => Obj(v) \in Objects
  BY HeldIsCurrent, AddressForms DEF Held
<1>4. /\ field' = [field EXCEPT ![o][g] = v]
      /\ image' = [image EXCEPT ![Obj(o)][g] = IF v = Null THEN Null ELSE Obj(v)]
      /\ stores' = stores + 1 /\ prog' = Idle
      /\ UNCHANGED <<local, hand, state, pinned, alloc, fwd, marked, flagged, buf, noted, phase,
                     work, visit, coll>>
  BY DEF Store, roots, trace
<1> HIDE DEF o, v, g
<1>5. /\ prog'.at = "run" /\ prog'.task = "none" /\ prog'.reg = Null /\ prog'.obj = Null
      /\ prog'.val = Null /\ prog'.snap = {}
  BY <1>4 DEF Idle
<1>6. /\ Moving' = Moving /\ Tracing' = Tracing /\ ~Newborn' /\ MarkerRuns' = MarkerRuns
      /\ ~(Moving /\ Tracing)
  BY <1>1, <1>4, <1>5 DEF Moving, Tracing, Newborn, MarkerRuns
<1>7. field \in [Addresses -> [Fields -> Addresses \cup {Null}]]
      /\ image \in [Objects -> [Fields -> Objects \cup {Null}]]
  BY DEF IInv, Types, TypeOK
<1>8. /\ \A a \in Addresses, f \in Fields :
           field'[a][f] = IF a = o /\ f = g THEN v ELSE field[a][f]
      /\ \A a \in Addresses : a # o => field'[a] = field[a]
  BY <1>1, <1>2, <1>4, <1>7
<1>9. Settled' = Settled /\ Keep' = Keep /\ \A p \in Objects : Cur(p)' = Cur(p)
  BY <1>4, PlacesKept DEF Keep
<1>10. Types'
  <2>1. field' \in [Addresses -> [Fields -> Addresses \cup {Null}]]
    BY <1>1, <1>2, <1>3, <1>4, <1>7
  <2>2. image' \in [Objects -> [Fields -> Objects \cup {Null}]]
    BY <1>1, <1>3, <1>4, <1>7
  <2>3. stores' \in 0 .. MaxStores
    BY <1>1, <1>4, EvacuationAssumption DEF IInv, Types, TypeOK
  <2>4. ProgOK'
    BY <1>4 DEF ProgOK, Idle
  <2>5. TypeOK'
    BY <1>4, <1>6, <2>1, <2>3 DEF IInv, Types, TypeOK
  <2> QED
    BY <1>4, <2>2, <2>4, <2>5 DEF IInv, Types
<1>11. Procedure'
  BY <1>1, <1>4, <1>5, <1>6 DEF IInv, Procedure, Copying, Resolving, Idle
<1>12. Moving => ~InCset(o) /\ (v # Null => ~InCset(v))
  BY <1>2, <1>3 DEF IInv, HeldMoved
<1>13. coll.obj # Null => o # coll.obj /\ o # Copy(Obj(coll.obj), "collector")
  <2> SUFFICES ASSUME coll.obj # Null PROVE o # coll.obj /\ o # Copy(Obj(coll.obj), "collector")
    OBVIOUS
  <2>1. InCset(coll.obj) /\ fwd[coll.obj] \in {Null, Copy(Obj(coll.obj), "program")}
    BY DEF IInv, Copies
  <2>2. Moving
    BY DEF IInv, Copies, NoCopy, Moving
  <2>3. /\ Obj(coll.obj) \in Cset /\ coll.obj = At(Obj(coll.obj))
    BY <2>1 DEF InCset
  <2>4. ASSUME o = Copy(Obj(coll.obj), "collector") PROVE FALSE
    <3>1. Obj(o) = Obj(coll.obj) /\ o # At(Obj(o))
      BY <2>3, <2>4, AddressForms
    <3>2. o = fwd[coll.obj]
      BY <1>2, <2>3, <3>1 DEF Settled
    <3> QED
      BY <1>2, <2>1, <2>3, <2>4, <3>2, AddressForms
  <2> QED
    BY <1>12, <2>1, <2>2, <2>4
<1>14. Copies'
  <2>1. coll.obj # Null => coll.obj \in Addresses /\ Copy(Obj(coll.obj), "collector") \in Addresses
    <3> SUFFICES ASSUME coll.obj # Null
                 PROVE  coll.obj \in Addresses /\ Copy(Obj(coll.obj), "collector") \in Addresses
      OBVIOUS
    <3>1. InCset(coll.obj)
      BY DEF IInv, Copies
    <3> QED
      BY <3>1, AddressForms DEF InCset
  <2>2. coll.obj # Null => field'[Copy(Obj(coll.obj), "collector")] = field'[coll.obj]
    BY <1>8, <1>13, <2>1 DEF IInv, Copies
  <2> QED
    BY <1>4, <1>5, <1>6, <2>2 DEF IInv, Copies, NoCopy, InCset
<1>15. Losers'
  <2>1. InHand' = InHand /\ \A a : Forwarded(a)' = Forwarded(a)
    BY <1>1, <1>4, <1>5 DEF InHand, Forwarded
  <2> QED
    BY <1>4, <1>9, <2>1 DEF IInv, Losers
<1>16. Gathered'
  BY <1>4, <1>6 DEF IInv, Gathered, Forwarded, InCset
<1>17. Existing'
  <2>1. \A p \in Fresh : At(p) \notin alloc => field'[At(p)] = field[At(p)]
    BY <1>2, <1>8, AddressForms, EvacuationAssumption
  <2> QED
    BY <1>4, <1>6, <2>1 DEF IInv, Existing, InCset
<1>18. Imaged'
  <2>1. ASSUME NEW p \in Objects
        PROVE  image'[p] = IF Cur(p)' \in alloc'
                 THEN [f \in Fields |-> IF field'[Cur(p)'][f] = Null THEN Null ELSE Obj(field'[Cur(p)'][f])]
                 ELSE H!Empty
    <3>1. Cur(p) \in Addresses /\ Obj(Cur(p)) = p
      BY StaysItself DEF IInv
    <3>2. image[p] = IF Cur(p) \in alloc
                     THEN [f \in Fields |-> IF field[Cur(p)][f] = Null THEN Null ELSE Obj(field[Cur(p)][f])]
                     ELSE H!Empty
      BY DEF IInv, Imaged
    <3>3. CASE p = Obj(o)
      <4>1. Cur(p) = o /\ o \in alloc
        BY <1>2, <3>3
      <4>2. image[p] = [f \in Fields |-> IF field[o][f] = Null THEN Null ELSE Obj(field[o][f])]
        BY <3>2, <4>1
      <4>3. image'[p] = [f \in Fields |-> IF f = g THEN (IF v = Null THEN Null ELSE Obj(v)) ELSE image[p][f]]
        BY <1>1, <1>4, <1>7, <3>3
      <4>4. \A f \in Fields : field'[o][f] = IF f = g THEN v ELSE field[o][f]
        BY <1>2, <1>8
      <4>5. image'[p] = [f \in Fields |-> IF field'[o][f] = Null THEN Null ELSE Obj(field'[o][f])]
        BY <4>2, <4>3, <4>4
      <4> QED
        BY <1>4, <1>9, <4>1, <4>5
    <3>4. CASE p # Obj(o)
      <4>1. image'[p] = image[p] /\ field'[Cur(p)] = field[Cur(p)]
        BY <1>4, <1>7, <1>8, <3>1, <3>4
      <4> QED
        BY <1>4, <1>9, <3>2, <4>1
    <3> QED
      BY <3>3, <3>4
  <2>2. H!Empty' = H!Empty
    BY DEF H!Empty
  <2> QED
    BY <2>1, <2>2 DEF Imaged
<1>19. Logging'
  BY <1>1, <1>4, <1>6 DEF IInv, Logging
<1>20. Noted'
  <2>1. ASSUME NEW a \in Addresses, NEW f \in Fields, InCset(field'[a][f]), a \in marked, a \in alloc
        PROVE  /\ Tracing => \/ <<a, f>> \in noted \/ a \in buf.logged \cup buf.scan
                             \/ a = visit.obj /\ f \in visit.left
               /\ Moving /\ ~InCset(a) /\ a \in Settled =>
                     <<a, f>> \in noted \/ a \in buf.scan \cup coll.copies
    <3>1. CASE a = o /\ f = g
      <4>1. InCset(v) /\ v # Null
        BY <1>8, <2>1, <3>1 DEF InCset
      <4> QED
        BY <1>1, <1>12, <3>1, <4>1
    <3>2. CASE ~(a = o /\ f = g)
      <4>1. InCset(field[a][f])
        BY <1>8, <2>1, <3>2
      <4> QED
        BY <2>1, <4>1 DEF IInv, Noted
    <3> QED
      BY <3>1, <3>2
  <2> QED
    BY <1>4, <1>6, <1>9, <2>1 DEF Noted, InCset
<1>21. Known' \subseteq Known
  BY <1>4, <1>5 DEF Known, Held
<1>22. Sound'
  <2>1. PICK S \in SUBSET Addresses : Closed(S) /\ IF Tracing THEN Snapshot(S) ELSE S = Keep
    BY DEF IInv, Sound
  <2>2. v \in Into(S) /\ o \in S
    BY <1>2, <1>3, <2>1 DEF Closed, Known, Into
  <2>3. Closed(S)'
    BY <1>4, <1>8, <1>9, <1>21, <2>1, <2>2 DEF Closed, Into
  <2>4. Tracing => Snapshot(S)'
    <3> SUFFICES ASSUME Tracing PROVE Snapshot(S)'
      OBVIOUS
    <3>1. o \in flagged /\ Snapshot(S)
      BY <1>1, <2>1 DEF IInv, Logging
    <3>2. visit.left # {} => visit.obj \in Addresses
      BY DEF IInv, Types
    <3>3. \A T \in SUBSET Addresses : Covers(T)' => Covers(T)
      BY <1>4, <1>8, <3>1, <3>2 DEF Covers, Into, IInv, Types
    <3> QED
      BY <1>4, <3>1, <3>3 DEF Snapshot
  <2> QED
    BY <1>1, <1>4, <1>6, <1>9, <2>1, <2>3, <2>4 DEF Sound, IInv
<1>23. HeldMoved'
  <2>1. Held' \subseteq Held
    BY <1>4, <1>5 DEF Held
  <2> QED
    BY <1>4, <1>5, <1>6, <2>1 DEF IInv, HeldMoved, InCset
<1> QED
  BY <1>10, <1>11, <1>14, <1>15, <1>16, <1>17, <1>18, <1>19, <1>20, <1>22, <1>23 DEF IInv

\* An object comes into being, in hand, marked and logged.
LEMMA AllocateInv ==
  ASSUME IInv, NEW o \in Fresh, Allocate(o)
  PROVE  IInv'
<1> DEFINE a == At(o)
<1>1. /\ prog.at = "run" /\ a \notin alloc
      /\ hand' = a /\ alloc' = alloc \cup {a}
      /\ marked' = marked \cup {a} /\ flagged' = flagged \cup {a}
      /\ prog' = [Idle EXCEPT !.at = "enroll"]
      /\ UNCHANGED <<local, state, pinned, field, fwd, buf, noted, phase, work, visit, coll, stores,
                     image>>
  BY DEF Allocate, Running, trace
<1>2. /\ o \in Objects /\ o \notin Cset /\ a \in Addresses /\ Obj(a) = o /\ a = At(Obj(a))
      /\ a # Null /\ ~InCset(a) /\ a \in Settled
  BY AddressForms, EvacuationAssumption DEF InCset, Settled
<1>3. /\ fwd[a] = Null /\ Cur(o) = a
      /\ \A f \in Fields : field[a][f] = Null
  <2>1. fwd[a] = Null
    BY <1>2 DEF IInv, Copies
  <2>2. Cur(o) = a
    BY <1>2, <2>1 DEF Cur, WhereItIs, Forwarded
  <2> QED
    BY <1>1, <2>1, <2>2 DEF IInv, Existing
<1>4. a \in {At(p) : p \in Fresh} /\ a \in {At(p) : p \in Objects}
  BY <1>2
<1> HIDE DEF a
<1>5. /\ prog'.at = "enroll" /\ prog'.task = "none" /\ prog'.reg = Null /\ prog'.obj = Null
      /\ prog'.val = Null /\ prog'.snap = {}
  BY <1>1 DEF Idle
<1>6. hand = Null /\ ~Newborn /\ prog.snap = {} /\ prog.reg = Null /\ prog.obj = Null /\ prog.val = Null
  BY <1>1, AtEase
<1>7. /\ Moving' = Moving /\ Tracing' = Tracing /\ Newborn' /\ MarkerRuns' = MarkerRuns
  BY <1>1, <1>5 DEF Moving, Tracing, Newborn, MarkerRuns
<1>8. /\ Settled' = Settled /\ (\A p \in Objects : Cur(p)' = Cur(p))
      /\ (\A b : Forwarded(b)' = Forwarded(b))
  BY <1>1, PlacesKept
<1>9. Types'
  <2>1. ProgOK'
    BY <1>1 DEF ProgOK, Idle
  <2>2. TypeOK'
    BY <1>1, <1>2, <1>7 DEF IInv, Types, TypeOK
  <2> QED
    BY <1>1, <2>1, <2>2 DEF IInv, Types
<1>10. Procedure'
  BY <1>1, <1>2, <1>4, <1>5, <1>7 DEF IInv, Procedure, Copying, Resolving
<1>11. Copies'
  BY <1>1, <1>2, <1>4, <1>5, <1>7 DEF IInv, Copies, NoCopy, InCset
<1>12. Losers'
  <2>1. InHand' = InHand
    BY <1>1, <1>5 DEF InHand
  <2> QED
    BY <1>1, <1>2, <1>8, <2>1 DEF IInv, Losers
<1>13. Gathered'
  BY <1>1, <1>2, <1>7, <1>8 DEF IInv, Gathered, InCset
<1>14. Existing'
  <2>1. \A p \in Fresh : At(p) = a <=> p = o
    BY <1>2, AddressForms, EvacuationAssumption DEF a
  <2> QED
    BY <1>1, <1>2, <1>7, <2>1 DEF IInv, Existing, InCset
<1>15. Imaged'
  <2>1. ASSUME NEW p \in Objects
        PROVE  image'[p] = IF Cur(p)' \in alloc'
                 THEN [f \in Fields |-> IF field'[Cur(p)'][f] = Null THEN Null ELSE Obj(field'[Cur(p)'][f])]
                 ELSE H!Empty
    <3>1. Obj(Cur(p)) = p
      BY StaysItself DEF IInv
    <3>2. image[p] = IF Cur(p) \in alloc
                     THEN [f \in Fields |-> IF field[Cur(p)][f] = Null THEN Null ELSE Obj(field[Cur(p)][f])]
                     ELSE H!Empty
      BY DEF IInv, Imaged
    <3>3. CASE p = o
      <4>1. image[p] = H!Empty
        BY <1>1, <1>3, <3>2, <3>3
      <4>2. [f \in Fields |-> IF field[a][f] = Null THEN Null ELSE Obj(field[a][f])] = H!Empty
        BY <1>3 DEF H!Empty
      <4> QED
        BY <1>1, <1>3, <1>8, <3>3, <4>1, <4>2
    <3>4. CASE p # o
      <4>1. Cur(p) # a
        BY <1>2, <3>1, <3>4
      <4> QED
        BY <1>1, <1>8, <3>2, <4>1
    <3> QED
      BY <3>3, <3>4
  <2>2. H!Empty' = H!Empty
    BY DEF H!Empty
  <2> QED
    BY <2>1, <2>2 DEF Imaged
<1>16. Logging'
  BY <1>1, <1>6, <1>7 DEF IInv, Logging
<1>17. Noted'
  <2>1. \A f \in Fields : ~InCset(field[a][f])
    BY <1>3 DEF InCset
  <2> QED
    BY <1>1, <1>7, <1>8, <2>1 DEF IInv, Noted, InCset
<1>18. Known' \subseteq Known \cup {a} /\ Held' \subseteq Held \cup {a}
  BY <1>1, <1>5 DEF Known, Held
<1>19. Sound'
  <2>1. PICK S \in SUBSET Addresses : Closed(S) /\ IF Tracing THEN Snapshot(S) ELSE S = Keep
    BY DEF IInv, Sound
  <2>2. S \cup {a} \in SUBSET Addresses
    BY <1>2
  <2>3. Closed(S \cup {a})'
    <3>1. S \cup {a} \subseteq alloc' \cap Settled'
      BY <1>1, <1>2, <1>8, <2>1 DEF Closed
    <3>2. Known' \subseteq S \cup {a}
      BY <1>18, <2>1 DEF Closed
    <3>3. \A b \in S \cup {a}, f \in Fields : field'[b][f] \in Into(S \cup {a})
      BY <1>1, <1>3, <2>1 DEF Closed, Into
    <3> QED
      BY <3>1, <3>2, <3>3 DEF Closed, Into
  <2>4. Tracing => Snapshot(S \cup {a})'
    <3> SUFFICES ASSUME Tracing PROVE Snapshot(S \cup {a})'
      OBVIOUS
    <3>1. Snapshot(S)
      BY <2>1
    <3>2. ASSUME NEW T \in SUBSET Addresses, Covers(T)'
          PROVE  a \in T /\ Covers(T)
      <4>1. a \in T
        BY <1>1, <3>2 DEF Covers
      <4>2. \A f \in Fields : field[a][f] \in Into(T)
        BY <1>3 DEF Into
      <4>3. visit.left \subseteq Fields
        BY DEF IInv, Types
      <4> QED
        BY <1>1, <3>2, <4>1, <4>2, <4>3 DEF Covers, Into
    <3> QED
      BY <1>1, <3>1, <3>2 DEF Snapshot
  <2>5. ~Tracing => S \cup {a} = Keep'
    BY <1>1, <1>2, <1>8, <2>1 DEF Keep
  <2> QED
    BY <1>1, <1>7, <2>2, <2>3, <2>4, <2>5 DEF Sound, IInv
<1>20. HeldMoved'
  BY <1>1, <1>2, <1>5, <1>7, <1>18 DEF IInv, HeldMoved, InCset
<1> QED
  BY <1>9, <1>10, <1>11, <1>12, <1>13, <1>14, <1>15, <1>16, <1>17, <1>19, <1>20 DEF IInv

\* The marker runs only while the trace marks.
LEMMA Marking ==
  ASSUME IInv, MarkerRuns
  PROVE  /\ Tracing /\ ~Moving /\ prog.at \notin {"memcpy", "forward"} /\ coll = NoCopy
         /\ \E S \in SUBSET Addresses : Closed(S) /\ Snapshot(S)
<1>1. phase \in {"Marking", "MarkDone"}
  BY DEF MarkerRuns, IInv, Procedure
<1>2. Tracing /\ ~Moving
  BY <1>1 DEF Tracing, Moving
<1>3. prog.at \notin {"memcpy", "forward"}
  BY <1>2 DEF IInv, Procedure, Resolving, Copying
<1>4. coll = NoCopy
  BY <1>1 DEF IInv, Copies
<1> QED
  BY <1>2, <1>3, <1>4 DEF IInv, Sound

\* A step of the marker, which has nothing but its lists, the record and the marks.
LEMMA MarkerMoves ==
  ASSUME IInv, MarkerRuns,
         UNCHANGED <<local, hand, state, pinned, field, alloc, fwd, flagged, prog, coll, stores, image>>,
         Types', Noted', marked \subseteq marked',
         buf'.logged = buf.logged, buf'.named = buf.named, buf'.scan = buf.scan,
         Tracing', ~MarkerRuns' => work' = {} /\ visit'.left = {},
         \A S \in SUBSET Addresses : Closed(S) /\ Snapshot(S) => Snapshot(S)',
         prog.at = "mark" => phase' = "MarkDone"
  PROVE  IInv'
<1>1. /\ Tracing /\ ~Moving /\ prog.at \notin {"memcpy", "forward"} /\ coll = NoCopy
  BY Marking
<1>2. ~Moving'
  BY DEF Tracing, Moving
<1>3. /\ Settled' = Settled /\ (\A p \in Objects : Cur(p)' = Cur(p))
      /\ (\A b : Forwarded(b)' = Forwarded(b))
  BY PlacesKept
<1>4. Procedure'
  BY <1>1, <1>2 DEF IInv, Procedure, Resolving, Copying, Newborn, InCset
<1>5. Copies'
  BY <1>1 DEF IInv, Copies, InCset, NoCopy
<1>6. Losers'
  <2>1. InHand' = InHand
    BY DEF InHand
  <2> QED
    BY <1>3, <2>1 DEF IInv, Losers
<1>7. Gathered' /\ HeldMoved'
  BY <1>2 DEF Gathered, HeldMoved, Tracing
<1>8. Existing'
  BY <1>1, <1>2 DEF IInv, Existing
<1>9. Imaged'
  BY <1>3 DEF IInv, Imaged, H!Empty
<1>10. Logging'
  BY <1>1 DEF IInv, Logging, Newborn
<1>11. Sound'
  <2>1. PICK S \in SUBSET Addresses : Closed(S) /\ Snapshot(S)
    BY Marking
  <2>2. Known' = Known
    BY DEF Known, Held
  <2>3. Closed(S)'
    BY <1>3, <2>1, <2>2 DEF Closed, Into
  <2> QED
    BY <2>1, <2>3 DEF Sound
<1> QED
  BY <1>4, <1>5, <1>6, <1>7, <1>8, <1>9, <1>10, <1>11 DEF IInv

\* The marker takes an object from its list, and marks it if it is not.
LEMMA ClaimInv ==
  ASSUME IInv, NEW a \in Addresses, Claim(a)
  PROVE  IInv'
<1>2. Tracing /\ ~Moving
  BY Marking DEF Claim
<1>1. /\ MarkerRuns /\ visit.left = {} /\ a \in work /\ work' = work \ {a}
      /\ \/ a \in marked /\ UNCHANGED <<marked, visit>>
         \/ a \notin marked /\ marked' = marked \cup {a} /\ visit' = [obj |-> a, left |-> Fields]
      /\ UNCHANGED <<local, hand, state, pinned, field, alloc, fwd, flagged, buf, noted, phase, prog,
                     coll, stores, image>>
  <2>1. ~Forwarded(a)
    BY <1>2 DEF IInv, Copies, Forwarded
  <2> QED
    BY <2>1 DEF Claim, roots
<1>3. Tracing' /\ MarkerRuns' /\ ~Moving'
  BY <1>1, <1>2 DEF Tracing, MarkerRuns, Moving
<1>4. Types'
  <2>1. TypeOK'
    BY <1>1, <1>3 DEF IInv, Types, TypeOK, Tracing
  <2> QED
    BY <1>1, <2>1 DEF IInv, Types, ProgOK
<1>5. Noted'
  BY <1>1, <1>2, <1>3 DEF IInv, Noted, InCset
<1>6. ASSUME NEW S \in SUBSET Addresses, Closed(S), Snapshot(S)
      PROVE  Snapshot(S)'
  <2>1. marked \cup work \cup buf.satb \subseteq S /\ \A T \in SUBSET Addresses : Covers(T) => S \subseteq T
    BY <1>6 DEF Snapshot
  <2>2. ASSUME NEW T \in SUBSET Addresses, Covers(T)'
        PROVE  Covers(T)
    <3>1. marked \cup work \cup buf.satb \subseteq T
      BY <1>1, <2>2 DEF Covers
    <3> QED
      BY <1>1, <2>2, <3>1 DEF Covers, Into
  <2>3. visit'.left # {} => visit'.obj \in marked'
    BY <1>1
  <2> QED
    BY <1>1, <2>1, <2>2, <2>3 DEF Snapshot
<1> QED
  BY <1>1, <1>3, <1>4, <1>5, <1>6, MarkerMoves DEF MarkerRuns, IInv, Procedure

\* The marker reads a field, and notes the slot if it must be repointed.
LEMMA ReadFieldInv ==
  ASSUME IInv, NEW f \in Fields, ReadField(f)
  PROVE  IInv'
<1> DEFINE v == field[visit.obj][f]
<1>1. /\ MarkerRuns /\ f \in visit.left
      /\ work' = work \cup ({v} \ {Null})
      /\ noted' = IF InCset(v) THEN noted \cup {<<visit.obj, f>>} ELSE noted
      /\ visit' = [visit EXCEPT !.left = @ \ {f}]
      /\ UNCHANGED <<local, hand, state, pinned, field, alloc, fwd, marked, flagged, buf, phase, prog,
                     coll, stores, image>>
  BY DEF ReadField, roots, heap
<1>2. /\ visit.obj \in Addresses /\ visit.left \subseteq Fields
      /\ visit'.obj = visit.obj /\ visit'.left = visit.left \ {f}
      /\ visit' \in [obj : Addresses \cup {Null}, left : SUBSET Fields]
  BY <1>1 DEF IInv, Types
<1>3. v \in Addresses \cup {Null}
  BY <1>2 DEF IInv, Types, TypeOK
<1>4. Tracing /\ ~Moving
  BY <1>1, Marking
<1>5. Tracing' /\ MarkerRuns' /\ ~Moving'
  BY <1>1, <1>4 DEF Tracing, MarkerRuns, Moving
<1>6. \A S \in SUBSET Addresses : Closed(S) /\ Snapshot(S) => v \in Into(S)
  BY <1>1 DEF Closed, Snapshot
<1>7. Noted'
  <2>1. noted \subseteq noted' /\ (InCset(v) => <<visit.obj, f>> \in noted')
    BY <1>1
  <2>2. ASSUME NEW a \in Addresses, NEW g \in Fields, InCset(field[a][g]), a \in marked, a \in alloc
        PROVE  \/ <<a, g>> \in noted' \/ a \in buf.logged \cup buf.scan
               \/ a = visit.obj /\ g \in visit.left \ {f}
    <3>1. \/ <<a, g>> \in noted \/ a \in buf.logged \cup buf.scan
          \/ a = visit.obj /\ g \in visit.left
      BY <1>4, <2>2 DEF IInv, Noted
    <3> QED
      BY <2>1, <2>2, <3>1
  <2> QED
    BY <1>1, <1>2, <1>5, <2>2 DEF Noted, InCset
<1> HIDE DEF v
<1>8. Types'
  <2>1. work' \subseteq Addresses /\ noted' \subseteq Addresses \X Fields
    BY <1>1, <1>2, <1>3 DEF IInv, Types, TypeOK
  <2>2. TypeOK'
    BY <1>1, <1>5, <2>1 DEF IInv, Types, TypeOK
  <2> QED
    BY <1>1, <1>2, <2>2 DEF IInv, Types, ProgOK
<1>9. ASSUME NEW S \in SUBSET Addresses, Closed(S), Snapshot(S)
      PROVE  Snapshot(S)'
  <2>1. /\ marked \cup work \cup buf.satb \subseteq S /\ \A T \in SUBSET Addresses : Covers(T) => S \subseteq T
        /\ visit.obj \in marked
    BY <1>1, <1>9 DEF Snapshot
  <2>2. ASSUME NEW T \in SUBSET Addresses, Covers(T)'
        PROVE  Covers(T)
    <3>1. marked \cup work' \cup buf.satb \subseteq T
      BY <1>1, <2>2 DEF Covers
    <3>2. v \in Into(T)
      BY <1>1, <1>3, <3>1 DEF Into
    <3>3. \A g \in visit.left : visit.obj \notin flagged => field[visit.obj][g] \in Into(T)
      <4>1. \A g \in visit.left \ {f} : visit.obj \notin flagged => field[visit.obj][g] \in Into(T)
        BY <1>1, <1>2, <2>2 DEF Covers, Into
      <4> QED
        BY <3>2, <4>1 DEF v
    <3> QED
      BY <1>1, <2>2, <3>1, <3>3 DEF Covers, Into
  <2>3. work' \subseteq S
    BY <1>1, <1>6, <1>9, <2>1 DEF Into
  <2> QED
    BY <1>1, <1>2, <2>1, <2>2, <2>3 DEF Snapshot
<1> QED
  BY <1>1, <1>5, <1>7, <1>8, <1>9, MarkerMoves DEF MarkerRuns, IInv, Procedure

\* The record is the marker's as well; when there is none, marking is done.
LEMMA TakeRecordInv ==
  ASSUME IInv, \/ TakeRecord
               \/ FinishMarking /\ buf.satb # {}
  PROVE  IInv'
<1>1. /\ MarkerRuns /\ visit.left = {} /\ work = {}
      /\ \/ phase = "Marking" /\ buf.satb = {} /\ phase' = "MarkDone" /\ UNCHANGED <<work, buf, prog>>
         \/ /\ work' = buf.satb /\ buf' = [buf EXCEPT !.satb = {}]
            /\ UNCHANGED <<phase, prog>>
      /\ UNCHANGED <<local, hand, state, pinned, field, alloc, fwd, marked, flagged, noted, visit,
                     coll, stores, image>>
  BY DEF TakeRecord, FinishMarking, MarkerDone, MarkerRuns, roots, heap
<1>2. Tracing /\ ~Moving
  BY <1>1, Marking
<1>3. buf \in [logged : SUBSET Addresses, satb : SUBSET Addresses,
              scan : SUBSET Addresses, named : SUBSET Addresses]
  BY DEF IInv, Types, TypeOK
<1>4. /\ buf'.logged = buf.logged /\ buf'.named = buf.named /\ buf'.scan = buf.scan
      /\ work' \cup buf'.satb = work \cup buf.satb
      /\ buf' \in [logged : SUBSET Addresses, satb : SUBSET Addresses,
                   scan : SUBSET Addresses, named : SUBSET Addresses]
  BY <1>1, <1>3
<1>5. Tracing' /\ ~Moving'
  BY <1>1, <1>2 DEF Tracing, Moving
<1>6. phase' \in {"Marking", "MarkDone"} /\ work' \subseteq Addresses
  BY <1>1, <1>3, <1>5 DEF Tracing
<1>7. Types'
  <2>1. TypeOK'
    BY <1>1, <1>4, <1>5, <1>6 DEF IInv, Types, TypeOK
  <2> QED
    BY <1>1, <2>1 DEF IInv, Types, ProgOK
<1>8. Noted'
  BY <1>1, <1>2, <1>4, <1>5 DEF IInv, Noted, InCset
<1>9. ASSUME NEW S \in SUBSET Addresses, Closed(S), Snapshot(S)
      PROVE  Snapshot(S)'
  <2>1. \A T : marked' \cup work' \cup buf'.satb \subseteq T <=> marked \cup work \cup buf.satb \subseteq T
    BY <1>1, <1>4
  <2>2. \A T \in SUBSET Addresses : Covers(T)' => Covers(T)
    BY <1>1, <2>1 DEF Covers, Into
  <2> QED
    BY <1>1, <1>9, <2>1, <2>2 DEF Snapshot
<1>10. ~MarkerRuns' => work' = {} /\ visit'.left = {}
  BY <1>1 DEF MarkerRuns
<1>11. prog.at = "mark" => phase' = "MarkDone"
  BY <1>1 DEF IInv, Procedure
<1>12. prog' = prog
  BY <1>1
<1> QED
  BY <1>1, <1>4, <1>5, <1>7, <1>8, <1>9, <1>10, <1>11, <1>12, MarkerMoves

\* When marking ends, what is marked is all there is to know of.
LEMMA AllMarked ==
  ASSUME IInv, Tracing, visit.left = {}, work = {}, buf.satb = {}
  PROVE  Closed(marked)
<1>1. PICK S \in SUBSET Addresses : Closed(S) /\ Snapshot(S)
  BY DEF IInv, Sound
<1>2. marked \subseteq S /\ marked \in SUBSET Addresses
  BY <1>1 DEF Snapshot
<1>3. Covers(marked)
  BY DEF Covers
<1>4. S \subseteq marked
  BY <1>1, <1>2, <1>3 DEF Snapshot
<1>5. S = marked
  BY <1>2, <1>4
<1> QED
  BY <1>1, <1>5

\* The second pause: what the stack refers to moves, and the load barrier is armed.
LEMMA FinishMarkingInv ==
  ASSUME State \notin Cset, IInv, FinishMarking, buf.satb = {}
  PROVE  IInv'
<1> DEFINE copies == {Moved(a) : a \in Movable}
<1>1. /\ prog.at = "mark" /\ visit.left = {} /\ work = {}
      /\ alloc' = alloc \cup copies
      /\ field' = [a \in Addresses |-> IF a \in copies THEN field[At(Obj(a))] ELSE field[a]]
      /\ fwd' = [a \in Addresses |-> IF a \in Movable THEN Moved(a) ELSE fwd[a]]
      /\ marked' = marked \cup copies
      /\ flagged' = flagged \ buf.logged
      /\ local' = [x \in Locals |-> Moved(local[x])]
      /\ pinned' = Moved(pinned)
      /\ buf' = [Counted EXCEPT !.scan = @ \cup copies]
      /\ phase' = "Evacuating"
      /\ prog' = [prog EXCEPT !.at = prog.task, !.task = "none"]
      /\ UNCHANGED <<hand, state, work, noted, visit, coll, stores, image>>
  BY DEF FinishMarking, MarkerDone
<1>2. /\ MarkerRuns /\ Tracing /\ ~Moving /\ coll = NoCopy /\ phase = "MarkDone"
      /\ prog.task \in {"run", "enroll"}
      /\ prog.reg = Null /\ prog.obj = Null /\ prog.val = Null /\ prog.snap = {}
  BY <1>1, Marking DEF MarkerRuns, IInv, Procedure
<1>3. Closed(marked) /\ marked \subseteq Addresses /\ marked \subseteq alloc
  BY <1>1, <1>2, AllMarked DEF Closed, IInv, Types, TypeOK
<1>4. /\ \A a \in Addresses : fwd[a] = Null
      /\ alloc \subseteq {At(o) : o \in Objects}
      /\ \A a \in alloc : a \in Addresses /\ a = At(Obj(a))
  BY <1>2, AddressForms DEF IInv, Copies
<1>34. /\ \A a \in Addresses : ~Forwarded(a)
       /\ \A a \in Addresses \cup {Null} : WhereItIs(a) = a
  BY <1>4 DEF Forwarded, WhereItIs
<1>35. Rooted \cup {Null} \subseteq Addresses \cup {Null} /\ Movable \subseteq Addresses
  BY DEF IInv, Types, TypeOK, Rooted, Movable
<1>5. Movable \subseteq marked /\ Rooted \subseteq Known
  BY <1>3 DEF Movable, Rooted, Closed, Known, Held
<1>6. \A a \in Movable : /\ Obj(a) \in Cset /\ a = At(Obj(a)) /\ a \in marked /\ a \in alloc
                         /\ a \in Addresses
                         /\ Moved(a) = Copy(Obj(a), "program") /\ Moved(a) \in Addresses
                         /\ Obj(Moved(a)) = Obj(a) /\ Moved(a) # At(Obj(a)) /\ Moved(a) # Null
                         /\ ~InCset(Moved(a))
  <2>1. \A a \in Movable : Obj(a) \in Cset /\ a = At(Obj(a))
    BY DEF Movable, InCset
  <2>2. \A a \in Movable : Moved(a) = Copy(Obj(a), "program")
    BY DEF Moved, Copy
  <2> QED
    BY <1>3, <1>5, <2>1, <2>2, AddressForms DEF InCset
<1>7. /\ \A c \in copies : /\ c \in Addresses /\ c # At(Obj(c)) /\ Obj(c) \in Cset /\ ~InCset(c)
                           /\ At(Obj(c)) \in Movable /\ c = Moved(At(Obj(c)))
                           /\ c = Copy(Obj(c), "program")
      /\ \A a \in Movable : Moved(a) \in copies
  BY <1>6
<1>8. \A a \in Addresses \cup {Null} : a \notin Movable => Moved(a) = a
  BY <1>34 DEF Moved
<1>9. \A a \in Rooted \cup {Null} : /\ Moved(a) \in (marked \cup copies) \cup {Null}
                                    /\ Moved(a) = Null <=> a = Null
                                    /\ ~InCset(Moved(a))
  <2>1. ASSUME NEW a \in Rooted \cup {Null}
        PROVE  /\ Moved(a) \in (marked \cup copies) \cup {Null}
               /\ Moved(a) = Null <=> a = Null
               /\ ~InCset(Moved(a))
    <3>1. CASE a \in Movable
      BY <1>6, <1>7, <3>1, AddressForms
    <3>2. CASE a \notin Movable
      <4>1. Moved(a) = a /\ ~InCset(a)
        BY <1>8, <1>34, <1>35, <2>1, <3>2 DEF Movable, InCset
      <4>2. a # Null => a \in marked
        BY <1>3, <1>5, <2>1 DEF Closed
      <4> QED
        BY <4>1, <4>2
    <3> QED
      BY <3>1, <3>2
  <2> QED
    BY <2>1
<1> HIDE DEF copies
<1>10. buf \in [logged : SUBSET Addresses, satb : SUBSET Addresses,
               scan : SUBSET Addresses, named : SUBSET Addresses]
  BY DEF IInv, Types, TypeOK
<1>11. /\ buf'.logged = {} /\ buf'.named = buf.named /\ buf'.satb = {}
       /\ buf'.scan = buf.scan \cup buf.logged \cup copies
       /\ buf' \in [logged : SUBSET Addresses, satb : SUBSET Addresses,
                    scan : SUBSET Addresses, named : SUBSET Addresses]
  <2>1. buf' = [logged |-> {}, satb |-> {}, scan |-> buf.scan \cup buf.logged \cup copies,
                named |-> buf.named]
    BY <1>1, <1>10 DEF Counted
  <2> QED
    BY <1>7, <1>10, <2>1
<1>12. ProgOK
  BY DEF IInv, Types
<1>13. /\ prog'.at = prog.task /\ prog'.task = "none" /\ prog'.reg = Null /\ prog'.obj = Null
       /\ prog'.val = Null /\ prog'.snap = {}
  BY <1>1, <1>2, <1>12 DEF ProgOK
<1>14. ~Tracing' /\ Moving' /\ ~MarkerRuns' /\ Newborn' = Newborn
  BY <1>1, <1>2, <1>13 DEF Tracing, Moving, MarkerRuns, Newborn
<1>15. pinned' = pinned /\ pinned \in Rooted
  <2>1. pinned = At(State) /\ State \in Objects
    BY EvacuationAssumption DEF IInv, Procedure
  <2>2. ~InCset(pinned) /\ pinned # Null /\ pinned \in Addresses
    BY <2>1, AddressForms DEF InCset
  <2> QED
    BY <1>1, <1>8, <2>2 DEF Movable, Rooted
<1>16. \A x \in Locals : local[x] \in Rooted \cup {Null} /\ local'[x] = Moved(local[x])
  BY <1>1 DEF Rooted
<1>17. hand' = hand /\ ~InCset(hand) /\ hand \in marked \cup {Null}
  <2>1. hand # Null => hand \in Known
    BY DEF Known, Held
  <2>2. ~InCset(hand)
    BY AddressForms, EvacuationAssumption DEF IInv, Procedure, InCset
  <2> QED
    BY <1>1, <1>3, <2>1, <2>2 DEF Closed
<1>18. Held' \subseteq marked \cup copies /\ \A a \in Held' : ~InCset(a)
  <2>1. \A x \in Locals : /\ local'[x] \in (marked \cup copies) \cup {Null}
                          /\ ~InCset(local'[x])
    BY <1>9, <1>16
  <2>2. pinned' \in (marked \cup copies) \cup {Null} /\ ~InCset(pinned')
    <3>1. pinned \in Rooted \cup {Null} /\ pinned' = Moved(pinned)
      BY <1>1, <1>15, Zenon
    <3> QED
      BY <3>1, <1>9, Zenon
  <2>3. Held' = ({local'[x] : x \in Locals} \cup {hand, pinned'}) \ {Null}
    BY <1>13, <1>17 DEF Held
  <2> QED
    BY <1>17, <2>1, <2>2, <2>3
<1>19. /\ \A a \in Addresses : fwd'[a] = IF a \in Movable THEN Moved(a) ELSE Null
       /\ \A a \in Addresses \ copies : field'[a] = field[a]
       /\ \A c \in copies : field'[c] = field[At(Obj(c))]
  BY <1>1, <1>4, <1>7
<1>20. \A o \in Objects : /\ At(o) \in Movable => Cur(o)' = Moved(At(o))
                          /\ At(o) \notin Movable => Cur(o)' = At(o)
  BY <1>6, <1>19, AddressForms DEF Cur, WhereItIs, Forwarded
<1>21. \A a \in Addresses : /\ a = At(Obj(a)) => a \in Settled'
                            /\ a \in copies => a \in Settled'
                            /\ a \in Settled' => a = At(Obj(a)) \/ a \in copies
  <2>1. \A a \in Addresses : a \in copies => a = fwd'[At(Obj(a))]
    BY <1>6, <1>7, <1>19
  <2>2. \A a \in Addresses : a = fwd'[At(Obj(a))] => a \in copies
    BY <1>7, <1>19, AddressForms
  <2> QED
    BY <2>1, <2>2 DEF Settled
<1>22. Keep' = marked \cup copies
  <2>1. \A a \in alloc : a \in Settled'
    BY <1>4, <1>21
  <2>2. \A a \in copies : a \in Settled'
    BY <1>7, <1>21
  <2> QED
    BY <1>1, <1>3, <2>1, <2>2 DEF Keep
<1>23. Types'
  <2>1. field' \in [Addresses -> [Fields -> Addresses \cup {Null}]]
    <3>1. \A a \in copies : At(Obj(a)) \in Addresses
      BY <1>6, <1>7
    <3> QED
      BY <1>1, <3>1 DEF IInv, Types, TypeOK
  <2>2. fwd' \in [Addresses -> Addresses \cup {Null}]
    BY <1>1, <1>6 DEF IInv, Types, TypeOK
  <2>3. local' \in [Locals -> Addresses \cup {Null}]
    BY <1>1, <1>3, <1>7, <1>9, <1>16
  <2>4. ProgOK'
    BY <1>1, <1>2, <1>12 DEF ProgOK
  <2>5. alloc' \cup marked' \cup flagged' \cup work' \subseteq Addresses
    BY <1>1, <1>7 DEF IInv, Types, TypeOK
  <2>6. {hand', state', pinned'} \subseteq Addresses \cup {Null} /\ stores' \in 0 .. MaxStores
        /\ noted' \subseteq Addresses \X Fields
    BY <1>1, <1>15 DEF IInv, Types, TypeOK
  <2>7. TypeOK'
    BY <1>1, <1>11, <2>1, <2>2, <2>3, <2>5, <2>6 DEF TypeOK
  <2> QED
    BY <1>1, <2>4, <2>7 DEF IInv, Types
<1>24. Procedure'
  <2>1. prog'.at \in {"run", "enroll"} /\ prog'.task = "none" /\ ~Resolving' /\ ~Copying'
    BY <1>2, <1>13 DEF Resolving, Copying
  <2>2. hand' # Null <=> Newborn' \/ prog'.at = "assign"
    BY <1>2, <1>14, <1>17, <2>1 DEF IInv, Procedure, Newborn
  <2>3. state' = At(State) /\ pinned' = At(State)
    BY <1>1, <1>15 DEF IInv, Procedure
  <2> QED
    BY <1>13, <1>17, <2>1, <2>2, <2>3 DEF IInv, Procedure
<1>25. Copies'
  <2>1. \A o \in Objects \ Cset : fwd'[At(o)] = Null
    BY <1>6, <1>19, AddressForms
  <2>2. ASSUME NEW o \in Cset
        PROVE  /\ fwd'[At(o)] \in {Null, Copy(o, "program"), Copy(o, "collector")}
               /\ fwd'[At(o)] # Null => fwd'[At(o)] \in alloc' /\ At(o) \in marked'
    <3>1. At(o) \in Addresses /\ Obj(At(o)) = o
      BY AddressForms
    <3> QED
      BY <1>1, <1>6, <1>7, <1>19, <3>1
  <2>3. ASSUME NEW a \in Addresses, a # At(Obj(a))
        PROVE  /\ fwd'[a] = Null /\ (a \in alloc' => a \in marked')
    BY <1>1, <1>4, <1>6, <1>19, <2>3
  <2>4. coll' = NoCopy /\ coll'.queue = {} /\ coll'.obj = Null /\ prog'.at \notin {"memcpy", "forward"}
    BY <1>1, <1>2, <1>13 DEF NoCopy
  <2> QED
    BY <1>14, <2>1, <2>2, <2>3, <2>4 DEF Copies
<1>26. Losers'
  BY <1>1, <1>4, <1>7, <1>21 DEF Losers
<1>27. Gathered'
  BY <1>1, <1>2 DEF Gathered, NoCopy
<1>28. Existing'
  <2>1. \A o \in Objects : At(o) \in copies => FALSE
    BY <1>7, AddressForms
  <2>2. \A o \in Fresh : o \in Objects /\ At(o) \in Addresses /\ field'[At(o)] = field[At(o)]
    BY <1>19, <2>1, AddressForms, EvacuationAssumption
  <2> QED
    BY <1>1, <1>2, <1>14, <2>1, <2>2, EvacuationAssumption DEF IInv, Existing
<1>29. Imaged'
  <2>1. ASSUME NEW o \in Objects
        PROVE  image'[o] = IF Cur(o)' \in alloc'
                 THEN [f \in Fields |-> IF field'[Cur(o)'][f] = Null THEN Null ELSE Obj(field'[Cur(o)'][f])]
                 ELSE H!Empty
    <3>1. Cur(o) = At(o) /\ At(o) \in Addresses /\ Obj(At(o)) = o
      BY <1>4, AddressForms DEF Cur, WhereItIs, Forwarded
    <3>2. image[o] = IF At(o) \in alloc
                     THEN [f \in Fields |-> IF field[At(o)][f] = Null THEN Null ELSE Obj(field[At(o)][f])]
                     ELSE H!Empty
      BY <3>1 DEF IInv, Imaged
    <3>3. CASE At(o) \in Movable
      <4>1. Cur(o)' \in copies /\ field'[Cur(o)'] = field[At(o)] /\ At(o) \in alloc
        BY <1>6, <1>7, <1>19, <1>20, <3>1, <3>3
      <4> QED
        BY <1>1, <3>2, <4>1
    <3>4. CASE At(o) \notin Movable
      <4>1. Cur(o)' = At(o) /\ At(o) \notin copies
        BY <1>7, <1>20, <3>1, <3>4
      <4> QED
        BY <1>1, <1>19, <3>1, <3>2, <4>1
    <3> QED
      BY <3>3, <3>4
  <2>2. H!Empty' = H!Empty
    BY DEF H!Empty
  <2> QED
    BY <2>1, <2>2 DEF Imaged
<1>30. Logging'
  BY <1>14 DEF Logging
<1>31. Noted'
  <2>1. ASSUME NEW a \in Addresses, NEW f \in Fields, InCset(field'[a][f]), a \in marked', a \in alloc'
        PROVE  <<a, f>> \in noted' \/ a \in buf'.scan
    <3>1. CASE a \in copies
      BY <1>11, <3>1
    <3>2. CASE a \notin copies
      <4>1. InCset(field[a][f]) /\ a \in marked /\ a \in alloc
        BY <1>1, <1>19, <2>1, <3>2
      <4>2. <<a, f>> \in noted \/ a \in buf.logged \cup buf.scan
        BY <1>1, <1>2, <4>1 DEF IInv, Noted
      <4> QED
        BY <1>1, <1>11, <4>2
    <3> QED
      BY <3>1, <3>2
  <2> QED
    BY <1>14, <2>1 DEF Noted, InCset
<1>32. Sound'
  <2>1. Known' \subseteq marked \cup copies
    <3>1. buf.named \subseteq marked
      BY <1>3 DEF Closed, Known
    <3> QED
      BY <1>11, <1>13, <1>18, <3>1 DEF Known
  <2>2. ASSUME NEW a \in marked \cup copies, NEW f \in Fields
        PROVE  field'[a][f] \in Into(marked)
    <3>1. \A b \in marked : field[b][f] \in Into(marked)
      BY <1>3 DEF Closed
    <3>2. CASE a \in copies
      BY <1>6, <1>7, <1>19, <3>1, <3>2
    <3>3. CASE a \notin copies
      BY <1>3, <1>19, <2>2, <3>1, <3>3
    <3> QED
      BY <3>2, <3>3
  <2>3. Keep' \subseteq alloc' \cap Settled' /\ Keep' \in SUBSET Addresses
    BY <1>3, <1>7, <1>22 DEF Keep
  <2>4. Closed(Keep)'
    BY <1>22, <2>1, <2>2, <2>3 DEF Closed, Into
  <2> QED
    BY <1>1, <1>14, <2>3, <2>4 DEF Sound
<1>33. HeldMoved'
  BY <1>11, <1>13, <1>18 DEF HeldMoved, InCset
<1> QED
  BY <1>23, <1>24, <1>25, <1>26, <1>27, <1>28, <1>29, <1>30, <1>31, <1>32, <1>33 DEF IInv

\* A copy is made, of which nobody knows as yet.
LEMMA Copied ==
  ASSUME IInv, Moving, NEW side \in {"program", "collector"}, NEW a,
         InCset(a), a \in marked, a \in alloc, fwd[a] # Copy(Obj(a), side),
         CopyTo(a, Copy(Obj(a), side)),
         UNCHANGED <<local, hand, state, pinned, buf, noted, phase, work, visit, stores, image>>,
         Known' = Known, ProgOK', ~MarkerRuns',
         coll'.copies = coll.copies,
         coll' \in [on : BOOLEAN, queue : SUBSET Addresses, obj : Addresses \cup {Null},
                    copies : SUBSET Addresses]
  PROVE  /\ Types' /\ Existing' /\ Imaged' /\ Logging' /\ Noted' /\ Sound'
         /\ Settled' = Settled
         /\ \A b \in Addresses : /\ b = At(Obj(b)) => fwd'[b] = fwd[b] /\ (b \in marked' <=> b \in marked)
                                 /\ b # Copy(Obj(a), side) =>
                                      field'[b] = field[b] /\ fwd'[b] = fwd[b]
         /\ LET c == Copy(Obj(a), side) IN
            /\ c \in Addresses /\ c # At(Obj(c)) /\ Obj(c) = Obj(a) /\ a = At(Obj(a)) /\ a \in Addresses
            /\ Obj(a) \in Cset /\ c \in marked' /\ field'[c] = field'[a] /\ fwd'[c] = fwd[a]
            /\ alloc' = alloc \cup {c} /\ marked' = marked \cup {c}
<1> DEFINE c == Copy(Obj(a), side)
<1>1. /\ Obj(a) \in Cset /\ a = At(Obj(a)) /\ Obj(a) \in Objects
      /\ c \in Addresses /\ a \in Addresses /\ c # At(Obj(c)) /\ Obj(c) = Obj(a) /\ c # a
      /\ ~InCset(c) /\ fwd[a] # c
  <2>1. Obj(a) \in Cset /\ a = At(Obj(a))
    BY DEF InCset
  <2> QED
    BY <2>1, AddressForms DEF InCset
<1>2. /\ alloc' = alloc \cup {c}
      /\ field' = [field EXCEPT ![c] = field[a]]
      /\ fwd' = [fwd EXCEPT ![c] = fwd[a]]
      /\ marked' = marked \cup {c}
      /\ flagged' \in {flagged, flagged \cup {c}}
  BY DEF CopyTo
<1> HIDE DEF c
<1>3. /\ ~Tracing /\ ~Tracing' /\ Moving'
  BY DEF Moving, Tracing
<1>4. /\ field \in [Addresses -> [Fields -> Addresses \cup {Null}]]
      /\ fwd \in [Addresses -> Addresses \cup {Null}]
  BY DEF IInv, Types, TypeOK
<1>5. \A b \in Addresses : /\ fwd'[b] = IF b = c THEN fwd[a] ELSE fwd[b]
                           /\ field'[b] = IF b = c THEN field[a] ELSE field[b]
  BY <1>1, <1>2, <1>4
<1>6. \A o \in Objects : At(o) # c /\ At(o) \in Addresses /\ Obj(At(o)) = o
  BY <1>1, AddressForms
<1>7. Settled' = Settled
  <2>1. \A b \in Addresses : fwd'[At(Obj(b))] = fwd[At(Obj(b))]
    BY <1>5, <1>6, AddressForms
  <2> QED
    BY <2>1 DEF Settled
<1>8. c \notin Settled
  BY <1>1 DEF Settled
<1>9. \A o \in Objects : Cur(o)' = Cur(o) /\ Cur(o) \in Addresses /\ Cur(o) # c
  <2>1. \A o \in Objects : Cur(o) \in Addresses /\ Cur(o) \in Settled
    BY StaysItself DEF IInv
  <2>2. \A o \in Objects : Cur(o)' = Cur(o)
    BY <1>5, <1>6 DEF Cur, WhereItIs, Forwarded
  <2> QED
    BY <1>8, <2>1, <2>2
<1>10. Keep' = Keep
  BY <1>2, <1>7, <1>8 DEF Keep
<1>11. Types'
  <2>1. field' \in [Addresses -> [Fields -> Addresses \cup {Null}]]
    BY <1>1, <1>2, <1>4
  <2>2. fwd' \in [Addresses -> Addresses \cup {Null}]
    BY <1>1, <1>2, <1>4
  <2>3. alloc' \cup marked' \cup flagged' \subseteq Addresses
    BY <1>1, <1>2 DEF IInv, Types, TypeOK
  <2>4. TypeOK'
    BY <1>3, <2>1, <2>2, <2>3 DEF IInv, Types, TypeOK
  <2> QED
    BY <2>4 DEF IInv, Types
<1>12. Existing'
  <2>1. \A o \in Fresh : o \in Objects /\ field'[At(o)] = field[At(o)]
    BY <1>5, <1>6, EvacuationAssumption
  <2> QED
    BY <1>2, <1>3, <1>6, <2>1 DEF IInv, Existing
<1>13. Imaged'
  <2>1. H!Empty' = H!Empty
    BY DEF H!Empty
  <2>2. \A o \in Objects : /\ field'[Cur(o)] = field[Cur(o)]
                           /\ Cur(o) \in alloc' <=> Cur(o) \in alloc
    BY <1>2, <1>5, <1>9
  <2> QED
    BY <1>9, <2>1, <2>2 DEF IInv, Imaged
<1>14. Logging'
  BY <1>3 DEF Logging
<1>15. Noted'
  <2>1. ASSUME NEW b \in Addresses, NEW f \in Fields, InCset(field'[b][f]), b \in marked', b \in alloc',
               ~InCset(b), b \in Settled
        PROVE  <<b, f>> \in noted \/ b \in buf.scan \cup coll.copies
    <3>1. b # c
      BY <1>8, <2>1
    <3>2. InCset(field[b][f]) /\ b \in marked /\ b \in alloc
      BY <1>2, <1>5, <2>1, <3>1
    <3> QED
      BY <2>1, <3>2 DEF IInv, Noted
  <2> QED
    BY <1>3, <1>7, <2>1 DEF Noted, InCset
<1>16. Sound'
  <2>1. Closed(Keep) /\ Keep \in SUBSET Addresses
    BY <1>3, Remains
  <2>2. \A b \in Keep : b # c /\ b \in Addresses
    BY <1>8, <2>1 DEF Keep
  <2>3. Closed(Keep)'
    BY <1>2, <1>5, <1>7, <1>10, <2>1, <2>2 DEF Closed, Into
  <2>4. ~MarkerRuns
    BY <1>3, Marking
  <2> QED
    BY <1>3, <1>10, <2>1, <2>3, <2>4 DEF Sound, IInv
<1>17. \A b \in Addresses : /\ b = At(Obj(b)) => fwd'[b] = fwd[b] /\ (b \in marked' <=> b \in marked)
                            /\ b # c => field'[b] = field[b] /\ fwd'[b] = fwd[b]
  BY <1>1, <1>2, <1>5
<1>18. field'[c] = field'[a] /\ fwd'[c] = fwd[a]
  BY <1>1, <1>5
<1> QED
  BY <1>1, <1>2, <1>7, <1>11, <1>12, <1>13, <1>14, <1>15, <1>16, <1>17, <1>18 DEF c

\* The program copies what it was to load.
LEMMA MemCopyInv ==
  ASSUME IInv, MemCopy
  PROVE  IInv'
<1> DEFINE a == prog.reg
           c == Copy(Obj(a), "program")
<1>1. /\ prog.at = "memcpy" /\ CopyTo(a, c) /\ prog' = [prog EXCEPT !.at = "forward"]
      /\ UNCHANGED <<local, hand, state, pinned, buf, noted, phase, work, visit, coll, stores, image>>
  BY DEF MemCopy, Copy, trace
<1>2. Resolving /\ Copying
  BY <1>1 DEF Resolving, Copying
<1>3. /\ Moving /\ ~Tracing /\ ~MarkerRuns /\ ~Newborn /\ hand = Null
      /\ a \in marked /\ a \in alloc /\ InCset(a)
      /\ prog.task = "load" \/ prog.task = "log"
  BY <1>2, Asked DEF Keep, IInv, Procedure
<1>4. fwd[a] \in {Null, Copy(Obj(a), "collector")} /\ fwd[a] # c
  <2>1. fwd[a] \in {Null, Copy(Obj(a), "collector")}
    BY <1>1 DEF IInv, Copies
  <2>2. Obj(a) \in Cset
    BY <1>3 DEF InCset
  <2> QED
    BY <2>1, <2>2, AddressForms
<1>5. ProgOK
  BY DEF IInv, Types
<1>6. /\ prog'.at = "forward" /\ prog'.task = prog.task /\ prog'.reg = prog.reg
      /\ prog'.dst = prog.dst /\ prog'.obj = prog.obj /\ prog'.val = prog.val /\ prog'.fld = prog.fld
      /\ prog'.snap = prog.snap
  BY <1>1, <1>5 DEF ProgOK
<1>7. ProgOK'
  BY <1>1, <1>5 DEF ProgOK
<1>8. Known' = Known /\ Held' = Held
  BY <1>1, <1>6 DEF Known, Held
<1>9. Moving' /\ ~Tracing' /\ ~MarkerRuns' /\ ~Newborn'
  BY <1>1, <1>3, <1>6 DEF Moving, Tracing, MarkerRuns, Newborn
<1>10. coll \in [on : BOOLEAN, queue : SUBSET Addresses, obj : Addresses \cup {Null},
                 copies : SUBSET Addresses]
  BY DEF IInv, Types
<1> HIDE DEF a
<1>11. /\ Types' /\ Existing' /\ Imaged' /\ Logging' /\ Noted' /\ Sound'
       /\ Settled' = Settled
       /\ \A b \in Addresses : /\ b = At(Obj(b)) => fwd'[b] = fwd[b] /\ (b \in marked' <=> b \in marked)
                               /\ b # c => field'[b] = field[b] /\ fwd'[b] = fwd[b]
       /\ c \in Addresses /\ c # At(Obj(c)) /\ Obj(c) = Obj(a) /\ a = At(Obj(a)) /\ a \in Addresses
       /\ Obj(a) \in Cset /\ c \in marked' /\ field'[c] = field'[a] /\ fwd'[c] = fwd[a]
       /\ alloc' = alloc \cup {c} /\ marked' = marked \cup {c}
  BY <1>1, <1>3, <1>4, <1>7, <1>8, <1>9, <1>10, Copied
<1> HIDE DEF c
<1>12. Procedure'
  <2>1. Resolving' /\ Copying'
    BY <1>6 DEF Resolving, Copying
  <2>2. prog'.reg # Null /\ InCset(prog'.reg) /\ prog'.task \in {"load", "log"}
    BY <1>3, <1>6 DEF InCset, a
  <2> QED
    BY <1>1, <1>2, <1>3, <1>6, <1>9, <2>1, <2>2 DEF IInv, Procedure
<1>13. Copies'
  <2>1. \A o \in Objects : fwd'[At(o)] = fwd[At(o)] /\ (At(o) \in marked' <=> At(o) \in marked)
    BY <1>11, AddressForms
  <2>2. ASSUME NEW b \in Addresses, b # At(Obj(b))
        PROVE  /\ fwd'[b] # Null => fwd'[b] = fwd'[At(Obj(b))] /\ fwd'[b] # b
               /\ b \in alloc' => b \in marked'
    <3>1. fwd'[At(Obj(b))] = fwd[At(Obj(b))]
      BY <2>1, AddressForms
    <3>2. CASE b = c
      BY <1>4, <1>11, <3>1, <3>2 DEF c
    <3>3. CASE b # c
      BY <1>11, <2>2, <3>1, <3>3 DEF IInv, Copies
    <3> QED
      BY <3>2, <3>3
  <2>3. prog'.reg = a /\ fwd'[a] = fwd[a] /\ field'[c] = field'[a] /\ c \in alloc'
        /\ c = Copy(Obj(prog'.reg), "program")
    BY <1>6, <1>11 DEF a, c
  <2>4. \A b \in coll.queue \cup ({coll.obj} \ {Null}) :
           b \in Addresses /\ b \in marked' /\ fwd'[b] = fwd[b] /\ InCset(b)
    <3>1. \A b \in coll.queue \cup ({coll.obj} \ {Null}) : b \in Addresses /\ b \in marked /\ InCset(b)
      BY <1>10 DEF IInv, Copies
    <3> QED
      BY <1>11, <3>1 DEF InCset
  <2>5. coll.obj # Null =>
          /\ Copy(Obj(coll.obj), "collector") \in alloc'
          /\ field'[Copy(Obj(coll.obj), "collector")] = field'[coll.obj]
    <3> SUFFICES ASSUME coll.obj # Null
                 PROVE  /\ Copy(Obj(coll.obj), "collector") \in alloc'
                        /\ field'[Copy(Obj(coll.obj), "collector")] = field'[coll.obj]
      OBVIOUS
    <3>1. coll.obj \in Addresses /\ InCset(coll.obj)
      BY <2>4
    <3>2. Obj(coll.obj) \in Cset /\ coll.obj = At(Obj(coll.obj))
      BY <3>1 DEF InCset
    <3>3. Copy(Obj(coll.obj), "collector") \in Addresses /\ Copy(Obj(coll.obj), "collector") # c
          /\ coll.obj # c
      BY <1>11, <3>2, AddressForms DEF c
    <3> QED
      BY <1>11, <3>1, <3>3 DEF IInv, Copies
  <2> QED
    <3>1. /\ \A o \in Objects \ Cset : fwd'[At(o)] = Null
          /\ \A o \in Cset : /\ fwd'[At(o)] \in {Null, Copy(o, "program"), Copy(o, "collector")}
                             /\ fwd'[At(o)] # Null => fwd'[At(o)] \in alloc' /\ At(o) \in marked'
      BY <1>11, <2>1, AddressForms DEF IInv, Copies
    <3>2. fwd'[prog'.reg] \in {Null, Copy(Obj(prog'.reg), "collector")}
      BY <1>4, <2>3
    <3>3. coll' = NoCopy \/ (coll'.on /\ phase' = "Evacuating")
      BY <1>1 DEF IInv, Copies
    <3>4. /\ coll'.obj \notin coll'.queue
          /\ \A b \in coll'.queue \cup ({coll'.obj} \ {Null}) :
               /\ InCset(b) /\ b \in marked'
               /\ fwd'[b] \in {Null, Copy(Obj(b), "program")}
      BY <1>1, <2>4 DEF IInv, Copies
    <3> QED
      BY <1>1, <1>9, <2>2, <2>3, <2>5, <3>1, <3>2, <3>3, <3>4 DEF Copies, InCset, NoCopy
<1>14. Losers'
  <2>1. InHand \cup {c} \subseteq InHand'
    BY <1>1, <1>6 DEF InHand, a, c
  <2>2. ASSUME NEW b \in alloc', b # c
        PROVE  b \in Settled' \/ Forwarded(b)' \/ b \in InHand'
    <3>1. b \in alloc /\ b \in Addresses
      BY <1>11, <2>2 DEF IInv, Types, TypeOK
    <3>2. Forwarded(b)' = Forwarded(b)
      BY <1>11, <2>2, <3>1 DEF Forwarded
    <3> QED
      BY <1>11, <2>1, <3>1, <3>2 DEF IInv, Losers
  <2> QED
    BY <2>1, <2>2 DEF Losers
<1>15. Gathered'
  <2>1. \A b \in marked' : InCset(b) => b \in marked /\ b \in Addresses /\ fwd'[b] = fwd[b]
    BY <1>11 DEF InCset, IInv, Types, TypeOK
  <2> QED
    BY <1>1, <2>1 DEF IInv, Gathered, Forwarded, InCset
<1>16. HeldMoved'
  BY <1>1, <1>3, <1>6, <1>8 DEF IInv, HeldMoved, InCset
<1> QED
  BY <1>11, <1>12, <1>13, <1>14, <1>15, <1>16 DEF IInv

\* The collector copies what it has gathered.
LEMMA CopyOneInv ==
  ASSUME IInv, NEW a \in Addresses, CopyOne(a)
  PROVE  IInv'
<1> DEFINE c == Copy(Obj(a), "collector")
<1>1. /\ phase = "Evacuating" /\ coll.obj = Null /\ a \in coll.queue /\ CopyTo(a, c)
      /\ coll' = [coll EXCEPT !.queue = @ \ {a}, !.obj = a]
      /\ UNCHANGED <<local, hand, state, pinned, buf, noted, phase, work, visit, prog, stores, image>>
  BY DEF CopyOne, Copy, roots, trace
<1>2. coll \in [on : BOOLEAN, queue : SUBSET Addresses, obj : Addresses \cup {Null},
                copies : SUBSET Addresses]
  BY DEF IInv, Types
<1>3. /\ coll'.on = coll.on /\ coll'.queue = coll.queue \ {a} /\ coll'.obj = a
      /\ coll'.copies = coll.copies
      /\ coll' \in [on : BOOLEAN, queue : SUBSET Addresses, obj : Addresses \cup {Null},
                    copies : SUBSET Addresses]
  BY <1>1, <1>2
<1>4. /\ InCset(a) /\ a \in marked /\ fwd[a] \in {Null, Copy(Obj(a), "program")}
      /\ coll.on /\ a # Null
  <2>1. coll # NoCopy
    BY <1>1 DEF NoCopy
  <2> QED
    BY <1>1, <2>1, AddressForms DEF IInv, Copies
<1>5. Obj(a) \in Cset /\ a = At(Obj(a)) /\ fwd[a] # c
  BY <1>4, AddressForms DEF InCset
<1>6. /\ Moving /\ ~Tracing /\ Moving' /\ ~Tracing' /\ ~MarkerRuns' /\ Newborn' = Newborn
  BY <1>1 DEF Moving, Tracing, MarkerRuns, IInv, Procedure, Newborn
<1>7. a \in alloc
  BY <1>5, <1>6, EvacuationAssumption DEF IInv, Existing
<1>8. Known' = Known /\ Held' = Held /\ ProgOK'
  BY <1>1 DEF Known, Held, IInv, Types, ProgOK
<1>9. /\ Types' /\ Existing' /\ Imaged' /\ Logging' /\ Noted' /\ Sound'
      /\ Settled' = Settled
      /\ \A b \in Addresses : /\ b = At(Obj(b)) => fwd'[b] = fwd[b] /\ (b \in marked' <=> b \in marked)
                              /\ b # c => field'[b] = field[b] /\ fwd'[b] = fwd[b]
      /\ c \in Addresses /\ c # At(Obj(c)) /\ Obj(c) = Obj(a) /\ a = At(Obj(a)) /\ a \in Addresses
      /\ Obj(a) \in Cset /\ c \in marked' /\ field'[c] = field'[a] /\ fwd'[c] = fwd[a]
      /\ alloc' = alloc \cup {c} /\ marked' = marked \cup {c}
  BY <1>1, <1>3, <1>4, <1>5, <1>6, <1>7, <1>8, Copied
<1> HIDE DEF c
<1>10. Procedure'
  BY <1>1, <1>6 DEF IInv, Procedure, Resolving, Copying, InCset, Newborn
<1>11. Copies'
  <2>1. \A o \in Objects : fwd'[At(o)] = fwd[At(o)] /\ (At(o) \in marked' <=> At(o) \in marked)
    BY <1>9, AddressForms
  <2>2. ASSUME NEW b \in Addresses, b # At(Obj(b))
        PROVE  /\ fwd'[b] # Null => fwd'[b] = fwd'[At(Obj(b))] /\ fwd'[b] # b
               /\ b \in alloc' => b \in marked'
    <3>1. fwd'[At(Obj(b))] = fwd[At(Obj(b))]
      BY <2>1, AddressForms
    <3>2. CASE b = c
      BY <1>5, <1>9, <3>1, <3>2
    <3>3. CASE b # c
      BY <1>9, <2>2, <3>1, <3>3 DEF IInv, Copies
    <3> QED
      BY <3>2, <3>3
  <2>3. \A b \in coll.queue \cup {a} :
           b \in Addresses /\ b \in marked' /\ fwd'[b] = fwd[b] /\ InCset(b)
           /\ fwd[b] \in {Null, Copy(Obj(b), "program")}
    <3>1. \A b \in coll.queue \cup {a} : /\ b \in Addresses /\ b \in marked /\ InCset(b)
                                         /\ fwd[b] \in {Null, Copy(Obj(b), "program")}
      BY <1>2, <1>4 DEF IInv, Copies
    <3> QED
      BY <1>9, <3>1 DEF InCset
  <2>4. /\ \A o \in Objects \ Cset : fwd'[At(o)] = Null
        /\ \A o \in Cset : /\ fwd'[At(o)] \in {Null, Copy(o, "program"), Copy(o, "collector")}
                           /\ fwd'[At(o)] # Null => fwd'[At(o)] \in alloc' /\ At(o) \in marked'
    BY <1>9, <2>1, AddressForms DEF IInv, Copies
  <2>5. prog.at \in {"memcpy", "forward"} => fwd'[prog.reg] \in {Null, Copy(Obj(prog.reg), "collector")}
    <3>1. prog.at \in {"memcpy", "forward"} => InCset(prog.reg) /\ prog.reg \in Addresses
      BY Asked DEF IInv, Procedure, Copying, Resolving
    <3> QED
      BY <1>9, <3>1 DEF IInv, Copies, InCset
  <2>6. prog.at = "forward" => /\ Copy(Obj(prog.reg), "program") \in alloc'
                               /\ field'[Copy(Obj(prog.reg), "program")] = field'[prog.reg]
    <3> SUFFICES ASSUME prog.at = "forward"
                 PROVE  /\ Copy(Obj(prog.reg), "program") \in alloc'
                        /\ field'[Copy(Obj(prog.reg), "program")] = field'[prog.reg]
      OBVIOUS
    <3>1. InCset(prog.reg) /\ prog.reg \in Addresses
      BY Asked DEF IInv, Procedure, Copying, Resolving
    <3>2. Obj(prog.reg) \in Cset /\ prog.reg = At(Obj(prog.reg))
      BY <3>1 DEF InCset
    <3>3. Copy(Obj(prog.reg), "program") \in Addresses /\ Copy(Obj(prog.reg), "program") # c
          /\ prog.reg # c
      BY <1>9, <3>2, AddressForms DEF c
    <3> QED
      BY <1>9, <3>1, <3>3 DEF IInv, Copies
  <2>7. coll'.on /\ phase' = "Evacuating" /\ coll'.obj \notin coll'.queue
    BY <1>1, <1>3, <1>4
  <2>8. c \in alloc' /\ field'[c] = field'[coll'.obj] /\ c = Copy(Obj(coll'.obj), "collector")
    BY <1>3, <1>9 DEF c
  <2>9. \A b \in coll'.queue \cup ({coll'.obj} \ {Null}) :
          /\ InCset(b) /\ b \in marked'
          /\ fwd'[b] \in {Null, Copy(Obj(b), "program")}
    BY <1>3, <2>3
  <2> QED
    BY <1>1, <1>6, <2>2, <2>4, <2>5, <2>6, <2>7, <2>8, <2>9 DEF Copies, InCset
<1>12. Losers'
  <2>1. InHand \cup {c} \subseteq InHand'
    BY <1>1, <1>3, <1>4 DEF InHand, c
  <2>2. ASSUME NEW b \in alloc', b # c
        PROVE  b \in Settled' \/ Forwarded(b)' \/ b \in InHand'
    <3>1. b \in alloc /\ b \in Addresses
      BY <1>9, <2>2 DEF IInv, Types, TypeOK
    <3>2. Forwarded(b)' = Forwarded(b)
      BY <1>9, <2>2, <3>1 DEF Forwarded
    <3> QED
      BY <1>9, <2>1, <3>1, <3>2 DEF IInv, Losers
  <2> QED
    BY <2>1, <2>2 DEF Losers
<1>13. Gathered'
  <2>1. \A b \in marked' : InCset(b) => b \in marked /\ b \in Addresses /\ fwd'[b] = fwd[b]
    BY <1>9 DEF InCset, IInv, Types, TypeOK
  <2> QED
    BY <1>1, <1>3, <1>4, <2>1 DEF IInv, Gathered, Forwarded, InCset
<1>14. HeldMoved'
  BY <1>1, <1>6, <1>8 DEF IInv, HeldMoved, InCset
<1> QED
  BY <1>9, <1>10, <1>11, <1>12, <1>13, <1>14 DEF IInv

\* A copy that lost is handed back, unless its header is a forwarding word already.
LEMMA Discarded ==
  ASSUME IInv, Moving, NEW side \in {"program", "collector"}, NEW a \in Addresses,
         InCset(a), Forwarded(a), fwd[a] # Copy(Obj(a), side), Discard(Copy(Obj(a), side)),
         UNCHANGED <<hand, state, pinned, buf, noted, phase, work, visit, stores, image>>,
         Known' \subseteq Known \cup {fwd[a]}, ~MarkerRuns', coll'.copies = coll.copies
  PROVE  /\ Existing' /\ Imaged' /\ Logging' /\ Noted' /\ Sound'
         /\ UNCHANGED <<field, fwd, marked, flagged>> /\ Settled' = Settled
         /\ alloc' \subseteq alloc /\ alloc \ {Copy(Obj(a), side)} \subseteq alloc'
         /\ Copy(Obj(a), side) \in alloc' => Forwarded(Copy(Obj(a), side))
<1> DEFINE c == Copy(Obj(a), side)
<1>1. /\ Obj(a) \in Cset /\ a = At(Obj(a)) /\ c # At(Obj(c)) /\ Obj(c) = Obj(a) /\ c \in Addresses
      /\ fwd[a] # c
  <2>1. Obj(a) \in Cset /\ a = At(Obj(a))
    BY DEF InCset
  <2> QED
    BY <2>1, AddressForms
<1>2. /\ \/ alloc' = alloc \ {c}
         \/ Forwarded(c) /\ UNCHANGED alloc
      /\ UNCHANGED <<field, fwd, marked, flagged>>
  BY DEF Discard
<1> HIDE DEF c
<1>3. ~Tracing /\ ~Tracing' /\ Moving'
  BY DEF Moving, Tracing
<1>4. Settled' = Settled /\ \A o \in Objects : Cur(o)' = Cur(o)
  BY <1>2, PlacesKept
<1>5. c \notin Settled
  BY <1>1 DEF Settled
<1>6. \A b \in Settled : b \in alloc' <=> b \in alloc
  BY <1>2, <1>5
<1>7. Keep' = Keep
  BY <1>2, <1>4, <1>6 DEF Keep
<1>8. Existing'
  <2>1. \A o \in Objects : At(o) \in alloc' <=> At(o) \in alloc
    BY <1>6, AddressForms DEF Settled
  <2> QED
    BY <1>2, <1>3, <2>1, EvacuationAssumption DEF IInv, Existing
<1>9. Imaged'
  <2>1. \A o \in Objects : Cur(o) \in alloc' <=> Cur(o) \in alloc
    BY <1>6, StaysItself DEF IInv
  <2> QED
    BY <1>2, <1>4, <2>1 DEF IInv, Imaged, H!Empty
<1>10. Logging'
  BY <1>3 DEF Logging
<1>11. Noted'
  BY <1>2, <1>3, <1>4 DEF IInv, Noted, InCset
<1>12. Sound'
  <2>1. Closed(Keep) /\ Keep \in SUBSET Addresses
    BY <1>3, Remains
  <2>2. fwd[a] \in Keep
    BY <1>1, StaysItself, AddressForms DEF IInv, Keep
  <2>3. Closed(Keep)'
    BY <1>2, <1>4, <1>6, <1>7, <2>1, <2>2 DEF Closed, Into
  <2>4. ~MarkerRuns
    BY <1>3, Marking
  <2> QED
    BY <1>3, <1>7, <2>1, <2>3, <2>4 DEF Sound, IInv
<1> QED
  BY <1>2, <1>4, <1>8, <1>9, <1>10, <1>11, <1>12 DEF c

\* A copy that won is where the object is, and is to be looked at again.
LEMMA Installed ==
  ASSUME IInv, Moving, NEW side \in {"program", "collector"}, NEW a \in Addresses,
         InCset(a), ~Forwarded(a), a \in marked, a \in alloc,
         Copy(Obj(a), side) \in alloc, field[Copy(Obj(a), side)] = field[a],
         fwd' = [fwd EXCEPT ![a] = Copy(Obj(a), side)],
         marked' = marked \cup {Copy(Obj(a), side)},
         buf'.scan \cup coll'.copies = buf.scan \cup coll.copies \cup {Copy(Obj(a), side)},
         UNCHANGED <<hand, state, pinned, field, alloc, flagged, noted, phase, work, visit, stores,
                     image>>,
         Known' \subseteq Known \cup {Copy(Obj(a), side)}, ~MarkerRuns'
  PROVE  /\ Existing' /\ Imaged' /\ Logging' /\ Noted' /\ Sound'
         /\ fwd' \in [Addresses -> Addresses \cup {Null}]
         /\ Obj(a) \in Cset /\ a = At(Obj(a)) /\ Copy(Obj(a), side) \in Addresses
         /\ Obj(Copy(Obj(a), side)) = Obj(a) /\ Copy(Obj(a), side) # a
         /\ \A b \in Addresses : fwd'[b] = IF b = a THEN Copy(Obj(a), side) ELSE fwd[b]
         /\ Settled \subseteq Settled' /\ Copy(Obj(a), side) \in Settled'
<1> DEFINE c == Copy(Obj(a), side)
<1>1. /\ Obj(a) \in Cset /\ a = At(Obj(a)) /\ c # At(Obj(c)) /\ Obj(c) = Obj(a) /\ c \in Addresses
      /\ c # a /\ c # Null /\ a # Null /\ ~InCset(c)
  <2>1. Obj(a) \in Cset /\ a = At(Obj(a))
    BY DEF InCset
  <2> QED
    BY <2>1, AddressForms DEF InCset
<1>2. /\ fwd' = [fwd EXCEPT ![a] = c] /\ marked' = marked \cup {c}
      /\ buf'.scan \cup coll'.copies = buf.scan \cup coll.copies \cup {c}
      /\ c \in alloc /\ field[c] = field[a] /\ Known' \subseteq Known \cup {c}
  OBVIOUS
<1> HIDE DEF c
<1>3. /\ fwd \in [Addresses -> Addresses \cup {Null}] /\ fwd' \in [Addresses -> Addresses \cup {Null}]
      /\ \A b \in Addresses : fwd'[b] = IF b = a THEN c ELSE fwd[b]
  BY <1>1, <1>2 DEF IInv, Types, TypeOK
<1>4. ~Tracing /\ ~Tracing' /\ Moving'
  BY DEF Moving, Tracing
<1>5. fwd[a] = Null
  BY DEF Forwarded
<1>6. /\ \A b \in Settled : b \in Settled'
      /\ c \in Settled' /\ \A b \in Settled' : b = c \/ b \in Settled
  <2>1. \A b \in Addresses : At(Obj(b)) \in Addresses
    BY AddressForms
  <2>2. \A b \in Addresses : b # c /\ b = fwd'[At(Obj(b))] => b = fwd[At(Obj(b))]
    BY <1>3, <2>1
  <2>3. \A b \in Addresses : b = fwd[At(Obj(b))] => b = fwd'[At(Obj(b))]
    BY <1>3, <1>5, <2>1, AddressForms
  <2>4. c = fwd'[At(Obj(c))]
    BY <1>1, <1>3
  <2> QED
    BY <1>1, <2>2, <2>3, <2>4 DEF Settled
<1>7. Keep' = Keep \cup {c} /\ a \in Keep
  <2>1. a \in Settled
    BY <1>1 DEF Settled
  <2> QED
    BY <1>2, <1>6, <2>1 DEF Keep
<1>8. \A o \in Objects : /\ o = Obj(a) => Cur(o) = a /\ Cur(o)' = c
                         /\ o # Obj(a) => Cur(o)' = Cur(o)
  <2>1. \A o \in Objects : At(o) \in Addresses /\ Obj(At(o)) = o /\ At(o) # Null
    BY AddressForms
  <2>2. \A o \in Objects : o # Obj(a) => fwd'[At(o)] = fwd[At(o)]
    BY <1>3, <2>1
  <2> QED
    BY <1>1, <1>3, <1>5, <2>1, <2>2 DEF Cur, WhereItIs, Forwarded
<1>9. Existing'
  BY <1>2, <1>4 DEF IInv, Existing
<1>10. Imaged'
  <2>1. ASSUME NEW o \in Objects
        PROVE  image'[o] = IF Cur(o)' \in alloc'
                 THEN [f \in Fields |-> IF field'[Cur(o)'][f] = Null THEN Null ELSE Obj(field'[Cur(o)'][f])]
                 ELSE H!Empty
    <3>1. image[o] = IF Cur(o) \in alloc
                     THEN [f \in Fields |-> IF field[Cur(o)][f] = Null THEN Null ELSE Obj(field[Cur(o)][f])]
                     ELSE H!Empty
      BY DEF IInv, Imaged
    <3>2. CASE o = Obj(a)
      BY <1>2, <1>8, <3>1, <3>2
    <3>3. CASE o # Obj(a)
      BY <1>8, <3>1, <3>3
    <3> QED
      BY <3>2, <3>3
  <2>2. H!Empty' = H!Empty
    BY DEF H!Empty
  <2> QED
    BY <2>1, <2>2 DEF Imaged
<1>11. Logging'
  BY <1>4 DEF Logging
<1>12. Noted'
  <2>1. ASSUME NEW b \in Addresses, NEW f \in Fields, InCset(field[b][f]), b \in marked', b \in alloc,
               ~InCset(b), b \in Settled'
        PROVE  <<b, f>> \in noted \/ b \in buf'.scan \cup coll'.copies
    <3>1. CASE b = c
      BY <1>2, <3>1
    <3>2. CASE b # c
      <4>1. b \in marked /\ b \in Settled
        BY <1>2, <1>6, <2>1, <3>2
      <4> QED
        BY <1>2, <2>1, <4>1 DEF IInv, Noted
    <3> QED
      BY <3>1, <3>2
  <2> QED
    BY <1>4, <2>1 DEF Noted, InCset
<1>13. Sound'
  <2>1. Closed(Keep) /\ Keep \in SUBSET Addresses
    BY <1>4, Remains
  <2>2. Keep' \in SUBSET Addresses /\ Keep' \subseteq alloc' \cap Settled'
    BY <1>1, <1>7, <2>1 DEF Keep
  <2>3. Known' \subseteq Keep'
    BY <1>2, <1>7, <2>1 DEF Closed
  <2>4. \A b \in Keep', f \in Fields : field'[b][f] \in Into(Keep')
    BY <1>2, <1>7, <2>1 DEF Closed, Into
  <2>5. Closed(Keep)'
    BY <2>2, <2>3, <2>4 DEF Closed, Into
  <2>6. ~MarkerRuns
    BY <1>4, Marking
  <2> QED
    BY <1>4, <2>2, <2>5, <2>6 DEF Sound, IInv
<1> QED
  BY <1>1, <1>3, <1>6, <1>9, <1>10, <1>11, <1>12, <1>13 DEF c

\* Whose copy it is that the program made.
LEMMA ForwardInv ==
  ASSUME IInv, Forward
  PROVE  IInv'
<1> DEFINE a == prog.reg
           c == Copy(Obj(a), "program")
           d == Copy(Obj(a), "collector")
<1>1. /\ prog.at = "forward"
      /\ IF Forwarded(a)
         THEN Discard(c) /\ Answer(fwd[a]) /\ UNCHANGED buf
         ELSE /\ fwd' = [fwd EXCEPT ![a] = c]
              /\ marked' = marked \cup {c}
              /\ buf' = [buf EXCEPT !.scan = @ \cup {c}]
              /\ Answer(c) /\ UNCHANGED <<field, alloc, flagged>>
      /\ UNCHANGED <<hand, state, pinned, noted, phase, work, visit, coll, stores, image>>
  BY DEF Forward, Copy, trace
<1>2. Resolving /\ Copying
  BY <1>1 DEF Resolving, Copying
<1>3. /\ Moving /\ ~Tracing /\ a \in Keep /\ a \in Addresses /\ InCset(a)
      /\ a \in marked /\ a \in alloc
  BY <1>2, Asked DEF IInv, Procedure, Keep
<1>4. /\ Obj(a) \in Cset /\ a = At(Obj(a)) /\ c \in Addresses /\ d \in Addresses /\ c # d
      /\ Obj(c) = Obj(a) /\ c # At(Obj(a)) /\ ~InCset(c) /\ c # Null
  <2>1. Obj(a) \in Cset /\ a = At(Obj(a))
    BY <1>3 DEF InCset
  <2> QED
    BY <2>1, AddressForms DEF InCset
<1>5. fwd[a] \in {Null, d} /\ c \in alloc /\ field[c] = field[a]
  BY <1>1 DEF IInv, Copies
<1>6. /\ buf \in [logged : SUBSET Addresses, satb : SUBSET Addresses,
                  scan : SUBSET Addresses, named : SUBSET Addresses]
      /\ coll \in [on : BOOLEAN, queue : SUBSET Addresses, obj : Addresses \cup {Null},
                   copies : SUBSET Addresses]
      /\ alloc \subseteq Addresses /\ marked \subseteq Addresses
  BY DEF IInv, Types, TypeOK
<1>7. coll.obj # Null => /\ coll.obj \in Addresses /\ Copy(Obj(coll.obj), "collector") # c
                         /\ Copy(Obj(coll.obj), "collector") \in alloc
  <2> SUFFICES ASSUME coll.obj # Null
               PROVE  /\ coll.obj \in Addresses /\ Copy(Obj(coll.obj), "collector") # c
                      /\ Copy(Obj(coll.obj), "collector") \in alloc
    OBVIOUS
  <2>1. InCset(coll.obj) /\ coll.obj \in Addresses /\ Copy(Obj(coll.obj), "collector") \in alloc
    BY <1>6 DEF IInv, Copies
  <2>2. Obj(coll.obj) \in Cset
    BY <2>1 DEF InCset
  <2>3. Obj(Copy(Obj(coll.obj), "collector")) = Obj(coll.obj)
    BY <2>2, AddressForms
  <2>4. CASE Obj(coll.obj) = Obj(a)
    BY <1>4, <2>1, <2>4
  <2>5. CASE Obj(coll.obj) # Obj(a)
    BY <1>4, <2>1, <2>3, <2>5
  <2> QED
    BY <2>4, <2>5
<1>8. InHand = {c} \cup (IF coll.obj # Null THEN {Copy(Obj(coll.obj), "collector")} ELSE {})
  BY <1>1 DEF InHand
<1> HIDE DEF a, c, d
<1>9. CASE Forwarded(a)
  <2>1. Discard(c) /\ Answer(fwd[a]) /\ UNCHANGED <<buf, coll, phase>>
    BY <1>1, <1>9
  <2>2. fwd[a] = d /\ fwd[a] # c /\ fwd[a] \in Addresses
    BY <1>4, <1>5, <1>9 DEF Forwarded
  <2>3. ~InCset(fwd[a])
    BY <1>3, <1>4, <1>9, StaysItself, AddressForms DEF IInv
  <2>4. /\ local' \in [Locals -> Addresses \cup {Null}] /\ ProgOK'
        /\ Procedure' /\ HeldMoved' /\ Known' \subseteq Known \cup {fwd[a]}
        /\ prog'.at \in {"run", "log"} /\ ~Newborn' /\ ~MarkerRuns'
    BY <1>1, <1>2, <2>1, <2>2, <2>3, Answered
  <2>5. /\ Existing' /\ Imaged' /\ Logging' /\ Noted' /\ Sound'
        /\ UNCHANGED <<field, fwd, marked, flagged>> /\ Settled' = Settled
        /\ alloc' \subseteq alloc /\ alloc \ {c} \subseteq alloc'
        /\ c \in alloc' => Forwarded(c)
    BY <1>1, <1>3, <1>9, <2>1, <2>2, <2>4, Discarded DEF c
  <2>6. Types'
    <3>1. TypeOK'
      BY <1>1, <1>3, <1>6, <2>1, <2>4, <2>5 DEF IInv, Types, TypeOK, Tracing
    <3> QED
      BY <1>1, <2>4, <3>1 DEF IInv, Types
  <2>7. Copies'
    <3>1. \A o \in Cset : fwd[At(o)] # Null => fwd[At(o)] # c
      <4> SUFFICES ASSUME NEW o \in Cset, fwd[At(o)] = c
                   PROVE  FALSE
        BY <1>4
      <4>1. fwd[At(o)] \in {Null, Copy(o, "program"), Copy(o, "collector")}
        BY DEF IInv, Copies
      <4>2. o = Obj(a)
        BY <1>4, <4>1, AddressForms
      <4> QED
        BY <1>4, <2>2, <4>2
    <3>2. \A o \in Cset : /\ fwd'[At(o)] \in {Null, Copy(o, "program"), Copy(o, "collector")}
                          /\ fwd'[At(o)] # Null => fwd'[At(o)] \in alloc' /\ At(o) \in marked'
      BY <2>5, <3>1 DEF IInv, Copies
    <3>3. coll'.obj # Null => /\ Copy(Obj(coll'.obj), "collector") \in alloc'
                              /\ field'[Copy(Obj(coll'.obj), "collector")] = field'[coll'.obj]
      BY <1>7, <2>1, <2>5 DEF IInv, Copies
    <3>4. ~Tracing'
      BY <1>1, <1>3 DEF Tracing
    <3>5. \A b \in Addresses : b # At(Obj(b)) =>
            /\ fwd'[b] # Null => fwd'[b] = fwd'[At(Obj(b))] /\ fwd'[b] # b
            /\ b \in alloc' => b \in marked'
      BY <2>5 DEF IInv, Copies
    <3> QED
      BY <2>1, <2>4, <2>5, <3>2, <3>3, <3>4, <3>5 DEF IInv, Copies, InCset, NoCopy
  <2>8. Losers'
    <3>1. InHand' = InHand \ {c}
      BY <1>7, <1>8, <2>1, <2>4 DEF InHand
    <3>2. \A b : Forwarded(b)' = Forwarded(b)
      BY <2>5 DEF Forwarded
    <3> QED
      BY <2>5, <3>1, <3>2 DEF IInv, Losers
  <2>9. Gathered'
    BY <2>1, <2>5 DEF IInv, Gathered, InCset, Forwarded
  <2> QED
    BY <2>4, <2>5, <2>6, <2>7, <2>8, <2>9 DEF IInv
<1>10. CASE ~Forwarded(a)
  <2>1. /\ fwd' = [fwd EXCEPT ![a] = c] /\ marked' = marked \cup {c}
        /\ buf' = [buf EXCEPT !.scan = @ \cup {c}]
        /\ Answer(c) /\ UNCHANGED <<field, alloc, flagged, coll, phase>>
    BY <1>1, <1>10
  <2>2. /\ buf'.logged = buf.logged /\ buf'.named = buf.named /\ buf'.satb = buf.satb
        /\ buf'.scan = buf.scan \cup {c}
        /\ buf' \in [logged : SUBSET Addresses, satb : SUBSET Addresses,
                     scan : SUBSET Addresses, named : SUBSET Addresses]
    BY <1>4, <1>6, <2>1
  <2>3. /\ local' \in [Locals -> Addresses \cup {Null}] /\ ProgOK'
        /\ Procedure' /\ HeldMoved' /\ Known' \subseteq Known \cup {c}
        /\ prog'.at \in {"run", "log"} /\ ~Newborn' /\ ~MarkerRuns'
    BY <1>1, <1>2, <1>4, <2>1, <2>2, Answered
  <2>4. buf'.scan \cup coll'.copies = buf.scan \cup coll.copies \cup {c}
    BY <2>1, <2>2
  <2>5. /\ Existing' /\ Imaged' /\ Logging' /\ Noted' /\ Sound'
        /\ fwd' \in [Addresses -> Addresses \cup {Null}]
        /\ \A b \in Addresses : fwd'[b] = IF b = a THEN c ELSE fwd[b]
        /\ Settled \subseteq Settled' /\ c \in Settled'
    BY <1>1, <1>3, <1>5, <1>10, <2>1, <2>3, <2>4, Installed DEF c
  <2>6. ~Tracing'
    BY <1>1, <1>3 DEF Tracing
  <2>7. Types'
    <3>1. TypeOK'
      BY <1>1, <1>3, <1>4, <1>6, <2>1, <2>2, <2>3, <2>5 DEF IInv, Types, TypeOK, Tracing
    <3> QED
      BY <1>1, <2>3, <3>1 DEF IInv, Types
  <2>8. Copies'
    <3>1. \A o \in Objects : At(o) \in Addresses /\ (o # Obj(a) => fwd'[At(o)] = fwd[At(o)])
      BY <1>4, <2>5, AddressForms
    <3>2. fwd'[At(Obj(a))] = c /\ a \in marked'
      BY <1>3, <1>4, <2>1, <2>5
    <3>3. \A o \in Objects \ Cset : fwd'[At(o)] = Null
      BY <1>4, <3>1 DEF IInv, Copies
    <3>4. ASSUME NEW o \in Cset
          PROVE  /\ fwd'[At(o)] \in {Null, Copy(o, "program"), Copy(o, "collector")}
                 /\ fwd'[At(o)] # Null => fwd'[At(o)] \in alloc' /\ At(o) \in marked'
      <4>1. CASE o = Obj(a)
        BY <1>4, <1>5, <2>1, <3>2, <4>1 DEF c
      <4>2. CASE o # Obj(a)
        BY <2>1, <3>1, <4>2, AddressForms DEF IInv, Copies
      <4> QED
        BY <4>1, <4>2
    <3>5. ASSUME NEW b \in Addresses, b # At(Obj(b))
          PROVE  /\ fwd'[b] # Null => fwd'[b] = fwd'[At(Obj(b))] /\ fwd'[b] # b
                 /\ b \in alloc' => b \in marked'
      <4>1. fwd'[b] = fwd[b] /\ At(Obj(b)) \in Addresses /\ b # a
        BY <1>4, <2>5, <3>5, AddressForms
      <4>2. /\ fwd[b] # Null => fwd[b] = fwd[At(Obj(b))] /\ fwd[b] # b
            /\ b \in alloc => b \in marked
        BY <3>5 DEF IInv, Copies
      <4>3. At(Obj(b)) = a => fwd[b] = Null
        BY <1>10, <4>2 DEF Forwarded
      <4> QED
        BY <2>1, <2>5, <4>1, <4>2, <4>3
    <3>6. /\ coll'.obj \notin coll'.queue
          /\ \A b \in coll'.queue \cup ({coll'.obj} \ {Null}) :
               /\ InCset(b) /\ b \in marked'
               /\ fwd'[b] \in {Null, Copy(Obj(b), "program")}
      <4>1. \A b \in coll.queue \cup ({coll.obj} \ {Null}) :
               /\ b \in Addresses /\ InCset(b) /\ b \in marked
               /\ fwd[b] \in {Null, Copy(Obj(b), "program")}
        BY <1>6 DEF IInv, Copies
      <4>2. \A b \in coll.queue \cup ({coll.obj} \ {Null}) :
               fwd'[b] \in {Null, Copy(Obj(b), "program")}
        BY <2>5, <4>1 DEF c
      <4> QED
        BY <2>1, <4>1, <4>2 DEF IInv, Copies
    <3>7. coll'.obj # Null => /\ Copy(Obj(coll'.obj), "collector") \in alloc'
                              /\ field'[Copy(Obj(coll'.obj), "collector")] = field'[coll'.obj]
      BY <2>1 DEF IInv, Copies
    <3>8. coll' = NoCopy \/ (coll'.on /\ phase' = "Evacuating")
      BY <2>1 DEF IInv, Copies
    <3> QED
      BY <2>3, <2>6, <3>3, <3>4, <3>5, <3>6, <3>7, <3>8 DEF Copies, InCset, NoCopy
  <2>9. Losers'
    <3>1. InHand \subseteq InHand' \cup {c}
      BY <1>8, <2>1 DEF InHand
    <3>2. \A b \in Addresses : Forwarded(b) => Forwarded(b)'
      BY <1>4, <2>5 DEF Forwarded
    <3> QED
      BY <1>6, <2>1, <2>5, <3>1, <3>2 DEF IInv, Losers
  <2>10. Gathered'
    <3>1. \A b \in marked' : InCset(b) => b \in marked
      BY <1>4, <2>1
    <3>2. \A b \in Addresses : Forwarded(b) => Forwarded(b)'
      BY <1>4, <2>5 DEF Forwarded
    <3> QED
      BY <1>6, <2>1, <3>1, <3>2 DEF IInv, Gathered, InCset
  <2> QED
    BY <2>3, <2>5, <2>7, <2>8, <2>9, <2>10 DEF IInv
<1> QED
  BY <1>9, <1>10

\* Whose copy it is that the collector made.
LEMMA ForwardOneInv ==
  ASSUME IInv, ForwardOne
  PROVE  IInv'
<1> DEFINE a == coll.obj
           c == Copy(Obj(a), "collector")
           d == Copy(Obj(a), "program")
<1>1. /\ a # Null
      /\ IF Forwarded(a)
         THEN Discard(c) /\ coll' = [coll EXCEPT !.obj = Null]
         ELSE /\ fwd' = [fwd EXCEPT ![a] = c]
              /\ coll' = [coll EXCEPT !.obj = Null, !.copies = @ \cup {c}]
              /\ UNCHANGED <<field, alloc, marked, flagged>>
      /\ UNCHANGED <<local, hand, state, pinned, buf, noted, phase, work, visit, prog, stores, image>>
  BY DEF ForwardOne, Copy, trace, roots
<1>2. /\ coll \in [on : BOOLEAN, queue : SUBSET Addresses, obj : Addresses \cup {Null},
                   copies : SUBSET Addresses]
      /\ alloc \subseteq Addresses /\ marked \subseteq Addresses
  BY DEF IInv, Types, TypeOK
<1>3. /\ coll.on /\ phase = "Evacuating" /\ a \in Addresses /\ InCset(a) /\ a \in marked
      /\ fwd[a] \in {Null, d} /\ c \in alloc /\ field[c] = field[a] /\ a \notin coll.queue
  <2>1. coll # NoCopy
    BY <1>1 DEF NoCopy
  <2> QED
    BY <1>1, <1>2, <2>1 DEF IInv, Copies
<1>4. /\ Moving /\ ~Tracing /\ Moving' /\ ~Tracing' /\ ~MarkerRuns' /\ Newborn' = Newborn
  BY <1>1, <1>3 DEF Moving, Tracing, MarkerRuns, IInv, Procedure, Newborn
<1>5. /\ Obj(a) \in Cset /\ a = At(Obj(a)) /\ c \in Addresses /\ d \in Addresses /\ c # d
      /\ Obj(c) = Obj(a) /\ c # At(Obj(a)) /\ ~InCset(c) /\ c # Null /\ c # a
  <2>1. Obj(a) \in Cset /\ a = At(Obj(a))
    BY <1>3 DEF InCset
  <2> QED
    BY <2>1, AddressForms DEF InCset
<1>6. a \in alloc /\ c \in marked
  BY <1>3, <1>4, <1>5, EvacuationAssumption DEF IInv, Existing, Copies
<1>7. Known' = Known /\ Held' = Held /\ ProgOK'
  BY <1>1 DEF Known, Held, IInv, Types, ProgOK
<1>8. /\ coll'.on = coll.on /\ coll'.queue = coll.queue /\ coll'.obj = Null
      /\ coll'.copies \in {coll.copies, coll.copies \cup {c}}
      /\ coll' \in [on : BOOLEAN, queue : SUBSET Addresses, obj : Addresses \cup {Null},
                    copies : SUBSET Addresses]
  <2> DEFINE Collectors == [on : BOOLEAN, queue : SUBSET Addresses, obj : Addresses \cup {Null},
                            copies : SUBSET Addresses]
  <2>1. \E s \in {coll.copies, coll.copies \cup {c}} : coll' = [coll EXCEPT !.obj = Null, !.copies = s]
    <3>1. CASE Forwarded(a)
      <4>1. coll' = [coll EXCEPT !.obj = Null]
        BY <1>1, <3>1
      <4> QED
        BY <4>1, <1>2
    <3>2. CASE ~Forwarded(a)
      BY <1>1, <3>2
    <3> QED
      BY <3>1, <3>2
  <2>2. c \in Addresses
    BY <1>5
  <2>3. coll \in Collectors
    BY <1>2
  <2> HIDE DEF c, a
  <2>4. PICK s \in SUBSET Addresses : /\ s \in {coll.copies, coll.copies \cup {c}}
                                      /\ coll' = [coll EXCEPT !.obj = Null, !.copies = s]
    BY <2>1, <2>2, <2>3
  <2> QED
    BY <2>3, <2>4
<1>9. InHand = (IF prog.at = "forward" THEN {Copy(Obj(prog.reg), "program")} ELSE {}) \cup {c}
      /\ InHand' = (IF prog.at = "forward" THEN {Copy(Obj(prog.reg), "program")} ELSE {})
  BY <1>1, <1>8 DEF InHand
<1>10. prog.at \in {"memcpy", "forward"} => /\ InCset(prog.reg) /\ prog.reg \in Addresses
                                            /\ prog.reg # Null
                                            /\ Obj(prog.reg) \in Cset /\ prog.reg = At(Obj(prog.reg))
  BY Asked DEF IInv, Procedure, Copying, Resolving, InCset
<1>11. Copy(Obj(prog.reg), "program") # c \/ prog.at # "forward"
  <2>1. CASE prog.at = "forward" /\ Obj(prog.reg) = Obj(a)
    BY <1>5, <2>1
  <2>2. CASE prog.at = "forward" /\ Obj(prog.reg) # Obj(a)
    BY <1>5, <1>10, <2>2, AddressForms
  <2> QED
    BY <2>1, <2>2
<1>12. \A b \in coll.queue : /\ b \in Addresses /\ InCset(b) /\ b \in marked /\ b # a
                             /\ fwd[b] \in {Null, Copy(Obj(b), "program")}
  BY <1>2, <1>3 DEF IInv, Copies
<1> HIDE DEF a, c, d
<1>13. Procedure' /\ HeldMoved'
  BY <1>1, <1>4, <1>7 DEF IInv, Procedure, Resolving, Copying, InCset, HeldMoved
<1>14. CASE Forwarded(a)
  <2>1. Discard(c) /\ coll'.copies = coll.copies
    BY <1>1, <1>2, <1>14
  <2>2. fwd[a] = d /\ fwd[a] # c
    BY <1>3, <1>5, <1>14 DEF Forwarded
  <2>3. /\ Existing' /\ Imaged' /\ Logging' /\ Noted' /\ Sound'
        /\ UNCHANGED <<field, fwd, marked, flagged>> /\ Settled' = Settled
        /\ alloc' \subseteq alloc /\ alloc \ {c} \subseteq alloc'
        /\ c \in alloc' => Forwarded(c)
    BY <1>1, <1>3, <1>4, <1>7, <1>14, <2>1, <2>2, Discarded DEF c
  <2>4. Types'
    <3>1. TypeOK'
      BY <1>1, <1>2, <1>4, <2>3 DEF IInv, Types, TypeOK
    <3> QED
      BY <1>1, <1>7, <1>8, <3>1 DEF IInv, Types
  <2>5. Copies'
    <3>1. \A o \in Cset : fwd[At(o)] # Null => fwd[At(o)] # c
      <4> SUFFICES ASSUME NEW o \in Cset, fwd[At(o)] = c
                   PROVE  FALSE
        BY <1>5
      <4>1. fwd[At(o)] \in {Null, Copy(o, "program"), Copy(o, "collector")}
        BY DEF IInv, Copies
      <4>2. o = Obj(a)
        BY <1>5, <4>1, AddressForms
      <4> QED
        BY <1>5, <2>2, <4>2
    <3>2. \A o \in Cset : /\ fwd'[At(o)] \in {Null, Copy(o, "program"), Copy(o, "collector")}
                          /\ fwd'[At(o)] # Null => fwd'[At(o)] \in alloc' /\ At(o) \in marked'
      BY <2>3, <3>1 DEF IInv, Copies
    <3>3. \A b \in Addresses : b # At(Obj(b)) =>
            /\ fwd'[b] # Null => fwd'[b] = fwd'[At(Obj(b))] /\ fwd'[b] # b
            /\ b \in alloc' => b \in marked'
      BY <2>3 DEF IInv, Copies
    <3>4. prog'.at \in {"memcpy", "forward"} => fwd'[prog'.reg] \in {Null, Copy(Obj(prog'.reg), "collector")}
      BY <1>1, <2>3 DEF IInv, Copies
    <3>5. prog'.at = "forward" => /\ Copy(Obj(prog'.reg), "program") \in alloc'
                                  /\ field'[Copy(Obj(prog'.reg), "program")] = field'[prog'.reg]
      BY <1>1, <1>11, <2>3 DEF IInv, Copies
    <3>6. coll'.on /\ phase' = "Evacuating"
      BY <1>1, <1>3, <1>8
    <3>7. /\ coll'.obj \notin coll'.queue
          /\ \A b \in coll'.queue \cup ({coll'.obj} \ {Null}) :
               /\ InCset(b) /\ b \in marked'
               /\ fwd'[b] \in {Null, Copy(Obj(b), "program")}
      BY <1>8, <1>12, <2>3, AddressForms
    <3>8. \A o \in Objects \ Cset : fwd'[At(o)] = Null
      BY <2>3 DEF IInv, Copies
    <3> QED
      BY <1>4, <1>8, <3>2, <3>3, <3>4, <3>5, <3>6, <3>7, <3>8 DEF Copies, InCset
  <2>6. Losers'
    <3>1. \A b : Forwarded(b)' = Forwarded(b)
      BY <2>3 DEF Forwarded
    <3> QED
      BY <1>9, <2>3, <3>1 DEF IInv, Losers
  <2>7. Gathered'
    BY <1>1, <1>8, <1>14, <2>3 DEF IInv, Gathered, InCset, Forwarded, a
  <2> QED
    BY <1>13, <2>3, <2>4, <2>5, <2>6, <2>7 DEF IInv
<1>15. CASE ~Forwarded(a)
  <2>1. /\ fwd' = [fwd EXCEPT ![a] = c] /\ coll'.copies = coll.copies \cup {c}
        /\ UNCHANGED <<field, alloc, marked, flagged>>
    BY <1>1, <1>2, <1>15
  <2>2. buf'.scan \cup coll'.copies = buf.scan \cup coll.copies \cup {c} /\ marked' = marked \cup {c}
    BY <1>1, <1>6, <2>1
  <2>3. /\ Existing' /\ Imaged' /\ Logging' /\ Noted' /\ Sound'
        /\ fwd' \in [Addresses -> Addresses \cup {Null}]
        /\ \A b \in Addresses : fwd'[b] = IF b = a THEN c ELSE fwd[b]
        /\ Settled \subseteq Settled' /\ c \in Settled'
    BY <1>1, <1>3, <1>4, <1>6, <1>7, <1>15, <2>1, <2>2, Installed DEF c
  <2>4. Types'
    <3>1. TypeOK'
      BY <1>1, <1>4, <2>1, <2>3 DEF IInv, Types, TypeOK
    <3> QED
      BY <1>1, <1>7, <1>8, <3>1 DEF IInv, Types
  <2>5. Copies'
    <3>1. \A o \in Objects : At(o) \in Addresses /\ (o # Obj(a) => fwd'[At(o)] = fwd[At(o)])
      BY <1>5, <2>3, AddressForms
    <3>2. fwd'[At(Obj(a))] = c /\ a \in marked'
      BY <1>3, <1>5, <2>1, <2>3
    <3>3. \A o \in Objects \ Cset : fwd'[At(o)] = Null
      BY <1>5, <3>1 DEF IInv, Copies
    <3>4. ASSUME NEW o \in Cset
          PROVE  /\ fwd'[At(o)] \in {Null, Copy(o, "program"), Copy(o, "collector")}
                 /\ fwd'[At(o)] # Null => fwd'[At(o)] \in alloc' /\ At(o) \in marked'
      <4>1. CASE o = Obj(a)
        BY <1>3, <1>5, <2>1, <3>2, <4>1 DEF c
      <4>2. CASE o # Obj(a)
        BY <2>1, <3>1, <4>2, AddressForms DEF IInv, Copies
      <4> QED
        BY <4>1, <4>2
    <3>5. ASSUME NEW b \in Addresses, b # At(Obj(b))
          PROVE  /\ fwd'[b] # Null => fwd'[b] = fwd'[At(Obj(b))] /\ fwd'[b] # b
                 /\ b \in alloc' => b \in marked'
      <4>1. fwd'[b] = fwd[b] /\ At(Obj(b)) \in Addresses /\ b # a
        BY <1>5, <2>3, <3>5, AddressForms
      <4>2. /\ fwd[b] # Null => fwd[b] = fwd[At(Obj(b))] /\ fwd[b] # b
            /\ b \in alloc => b \in marked
        BY <3>5 DEF IInv, Copies
      <4>3. At(Obj(b)) = a => fwd[b] = Null
        BY <1>15, <4>2 DEF Forwarded
      <4> QED
        BY <2>1, <2>3, <4>1, <4>2, <4>3
    <3>6. /\ coll'.obj \notin coll'.queue
          /\ \A b \in coll'.queue \cup ({coll'.obj} \ {Null}) :
               /\ InCset(b) /\ b \in marked'
               /\ fwd'[b] \in {Null, Copy(Obj(b), "program")}
      BY <1>8, <1>12, <2>1, <2>3, AddressForms
    <3>7. coll'.on /\ phase' = "Evacuating"
      BY <1>1, <1>3, <1>8
    <3>8. prog'.at \in {"memcpy", "forward"} => fwd'[prog'.reg] \in {Null, Copy(Obj(prog'.reg), "collector")}
      BY <1>1, <1>10, <2>3 DEF IInv, Copies, c
    <3>9. prog'.at = "forward" => /\ Copy(Obj(prog'.reg), "program") \in alloc'
                                  /\ field'[Copy(Obj(prog'.reg), "program")] = field'[prog'.reg]
      BY <1>1, <2>1 DEF IInv, Copies
    <3> QED
      BY <1>4, <1>8, <3>3, <3>4, <3>5, <3>6, <3>7, <3>8, <3>9 DEF Copies, InCset
  <2>6. Losers'
    <3>1. \A b \in Addresses : Forwarded(b) => Forwarded(b)'
      BY <1>5, <2>3 DEF Forwarded
    <3> QED
      BY <1>2, <1>9, <2>1, <2>3, <3>1 DEF IInv, Losers
  <2>7. Gathered'
    <3>1. \A b \in Addresses : (Forwarded(b) \/ b = a) => Forwarded(b)'
      BY <1>5, <2>3 DEF Forwarded
    <3> QED
      BY <1>1, <1>2, <1>3, <1>8, <2>1, <3>1 DEF IInv, Gathered, InCset, a
  <2> QED
    BY <1>13, <2>3, <2>4, <2>5, <2>6, <2>7 DEF IInv
<1> QED
  BY <1>14, <1>15

\* The collector gathers what is left to be moved.
LEMMA GatherInv ==
  ASSUME IInv, Gather
  PROVE  IInv'
<1>1. /\ phase = "Evacuating" /\ coll = NoCopy
      /\ coll' = [NoCopy EXCEPT !.on = TRUE, !.queue = {a \in marked : InCset(a) /\ ~Forwarded(a)}]
      /\ UNCHANGED <<local, hand, state, pinned, field, alloc, fwd, marked, flagged, buf, noted,
                     phase, work, visit, prog, stores, image>>
  BY DEF Gather, roots, heap, trace
<1>2. /\ coll'.on /\ coll'.obj = Null /\ coll'.copies = {} /\ coll.copies = {} /\ coll.obj = Null
      /\ coll'.queue = {a \in marked : InCset(a) /\ ~Forwarded(a)}
      /\ coll' = [on |-> TRUE, queue |-> {a \in marked : InCset(a) /\ ~Forwarded(a)}, obj |-> Null,
                  copies |-> {}]
  BY <1>1 DEF NoCopy
<1>3. marked \subseteq Addresses
  BY DEF IInv, Types, TypeOK
<1>4. /\ Tracing' = Tracing /\ Moving' = Moving /\ ~Tracing /\ Settled' = Settled
      /\ \A a : Forwarded(a)' = Forwarded(a)
  BY <1>1, PlacesKept DEF Tracing, Moving
<1>5. Types'
  <2>1. TypeOK' /\ ProgOK'
    BY <1>1, <1>4 DEF IInv, Types, TypeOK, ProgOK
  <2>2. coll' \in [on : BOOLEAN, queue : SUBSET Addresses, obj : Addresses \cup {Null},
                   copies : SUBSET Addresses]
    BY <1>2, <1>3
  <2> QED
    BY <1>1, <2>1, <2>2, Zenon DEF IInv, Types
<1>6. Copies'
  <2>1. /\ coll'.obj \notin coll'.queue
        /\ \A a \in coll'.queue \cup ({coll'.obj} \ {Null}) :
             /\ InCset(a) /\ a \in marked'
             /\ fwd'[a] \in {Null, Copy(Obj(a), "program")}
    BY <1>1, <1>2, <1>3, AddressForms DEF Forwarded
  <2> QED
    BY <1>1, <1>2, <1>4, <2>1, Zenon DEF IInv, Copies, InCset
<1>7. Losers'
  <2>1. InHand' = InHand
    BY <1>1, <1>2 DEF InHand
  <2> QED
    BY <1>1, <1>4, <2>1 DEF IInv, Losers
<1>8. Gathered'
  BY <1>1, <1>2 DEF Gathered, Forwarded, InCset
<1>9. Procedure' /\ Existing' /\ Logging' /\ HeldMoved'
  BY <1>1, <1>4 DEF IInv, Procedure, Existing, Logging, HeldMoved, Newborn, Resolving, Copying,
                    InCset, Held
<1>10. Imaged'
  BY <1>1, PlacesKept DEF IInv, Imaged, H!Empty
<1>11. Noted'
  BY <1>1, <1>2, <1>4 DEF IInv, Noted, InCset
<1>12. Sound'
  BY <1>1, SoundKept DEF Known, Held, Closed, MarkerRuns
<1> QED
  BY <1>5, <1>6, <1>7, <1>8, <1>9, <1>10, <1>11, <1>12 DEF IInv

\* The collector is through: what it copied is to be looked at again.
LEMMA CopyEndsInv ==
  ASSUME IInv, CopyEnds
  PROVE  IInv'
<1>1. /\ phase = "Evacuating" /\ coll.on /\ coll.queue = {} /\ coll.obj = Null
      /\ buf' = [buf EXCEPT !.scan = @ \cup coll.copies]
      /\ coll' = NoCopy /\ phase' = "EvacDone"
      /\ UNCHANGED <<local, hand, state, pinned, field, alloc, fwd, marked, flagged, noted, work,
                     visit, prog, stores, image>>
  BY DEF CopyEnds, roots, heap, trace
<1>2. /\ buf \in [logged : SUBSET Addresses, satb : SUBSET Addresses,
                  scan : SUBSET Addresses, named : SUBSET Addresses]
      /\ coll.copies \subseteq Addresses
  BY DEF IInv, Types, TypeOK
<1>3. /\ buf'.logged = buf.logged /\ buf'.satb = buf.satb /\ buf'.named = buf.named
      /\ buf'.scan = buf.scan \cup coll.copies
      /\ buf' \in [logged : SUBSET Addresses, satb : SUBSET Addresses,
                   scan : SUBSET Addresses, named : SUBSET Addresses]
  BY <1>1, <1>2
<1>4. /\ Moving /\ ~Tracing /\ Moving' /\ ~Tracing' /\ ~MarkerRuns' /\ Newborn' = Newborn
      /\ ~MarkerRuns
  BY <1>1 DEF Moving, Tracing, MarkerRuns, IInv, Procedure, Newborn
<1>5. Settled' = Settled /\ (\A a : Forwarded(a)' = Forwarded(a)) /\ Keep' = Keep
  BY <1>1, PlacesKept DEF Keep
<1>6. Known' = Known /\ Held' = Held
  BY <1>1, <1>3 DEF Known, Held
<1>7. /\ coll'.queue = {} /\ coll'.obj = Null /\ coll'.copies = {} /\ ~coll'.on
  BY <1>1 DEF NoCopy
<1>8. Types'
  <2>1. TypeOK' /\ ProgOK'
    <3>1. ProgOK'
      <4>1. ProgOK /\ prog' = prog
        BY <1>1 DEF IInv, Types
      <4> QED
        BY <4>1 DEF ProgOK
    <3>2. buf' \in [logged : SUBSET Addresses, satb : SUBSET Addresses,
                    scan : SUBSET Addresses, named : SUBSET Addresses]
      BY <1>3
    <3>3. ~Tracing' => buf'.satb = {}
      BY <1>3, <1>4 DEF IInv, Types, TypeOK
    <3> QED
      BY <1>1, <3>1, <3>2, <3>3, Zenon DEF IInv, Types, TypeOK
  <2>2. coll' \in [on : BOOLEAN, queue : SUBSET Addresses, obj : Addresses \cup {Null},
                   copies : SUBSET Addresses]
    BY <1>1 DEF NoCopy
  <2> QED
    BY <1>1, <2>1, <2>2 DEF IInv, Types
<1>9. Copies'
  BY <1>1, <1>4, <1>5, <1>7 DEF IInv, Copies, InCset
<1>10. Losers'
  <2>1. InHand' = InHand
    BY <1>1, <1>7 DEF InHand
  <2> QED
    BY <1>1, <1>5, <2>1 DEF IInv, Losers
<1>11. Gathered'
  <2>1. \A a \in marked : InCset(a) => Forwarded(a)
    BY <1>1 DEF IInv, Gathered, InCset
  <2> QED
    BY <1>1, <1>5, <2>1 DEF Gathered, InCset
<1>12. Procedure' /\ Existing' /\ Logging' /\ HeldMoved'
  BY <1>1, <1>3, <1>4, <1>6 DEF IInv, Procedure, Existing, Logging, HeldMoved, Resolving, Copying,
                                InCset
<1>13. Imaged'
  BY <1>1, PlacesKept DEF IInv, Imaged, H!Empty
<1>14. Noted'
  BY <1>1, <1>3, <1>4, <1>5, <1>7 DEF IInv, Noted, InCset
<1>15. Sound'
  <2>1. Closed(Keep) /\ Keep \in SUBSET Addresses
    BY <1>4, Remains
  <2>2. Closed(Keep)'
    BY <1>1, <1>5, <1>6, <2>1 DEF Closed, Into
  <2> QED
    BY <1>1, <1>4, <1>5, <2>1, <2>2 DEF Sound, IInv
<1> QED
  BY <1>8, <1>9, <1>10, <1>11, <1>12, <1>13, <1>14, <1>15 DEF IInv

\* With no copy in hand, an object that is anywhere is where it is said to be.
LEMMA Home ==
  ASSUME Types, Copies, Losers, InHand = {}, NEW a \in alloc
  PROVE  /\ Cur(Obj(a)) \in alloc
         /\ a = Cur(Obj(a)) \/ (/\ Forwarded(At(Obj(a))) /\ Cur(Obj(a)) \in marked
                                /\ ~InCset(Cur(Obj(a))))
<1>1. a \in Addresses /\ Obj(a) \in Objects /\ At(Obj(a)) \in Addresses /\ At(Obj(a)) # Null
  BY AddressForms DEF Types, TypeOK
<1>2. CASE Forwarded(At(Obj(a)))
  <2>1. Cur(Obj(a)) = fwd[At(Obj(a))]
    BY <1>1, <1>2 DEF Cur, WhereItIs
  <2> QED
    BY <1>1, <1>2, <2>1, StaysItself
<1>3. CASE ~Forwarded(At(Obj(a)))
  <2>1. Cur(Obj(a)) = At(Obj(a))
    BY <1>3 DEF Cur, WhereItIs
  <2>2. ~Forwarded(a)
    BY <1>1, <1>3, StaysItself DEF Forwarded
  <2>3. a \in Settled
    BY <2>2 DEF Losers
  <2>4. a # Null
    BY <1>1, AddressForms
  <2> QED
    BY <1>3, <2>1, <2>3, <2>4 DEF Settled, Forwarded
<1> QED
  BY <1>2, <1>3

\* The third pause: every reference is repointed, and the block released.
LEMMA FinishEvacuationInv ==
  ASSUME IInv, FinishEvacuation
  PROVE  IInv'
<1>1. /\ prog.at \in {"run", "enroll"} /\ phase = "EvacDone" /\ phase' = "Sweeping"
      /\ field' = Fixed
      /\ local' = [x \in Locals |-> WhereItIs(local[x])] /\ pinned' = WhereItIs(pinned)
      /\ buf' = [logged |-> {WhereItIs(a) : a \in buf.logged},
                 satb |-> {WhereItIs(a) : a \in buf.satb},
                 named |-> {WhereItIs(a) : a \in buf.named}, scan |-> {}]
      /\ alloc' = alloc \ {a \in alloc : InCset(a)}
      /\ image' = [o \in Objects |-> IF \E a \in alloc' : Obj(a) = o THEN image[o] ELSE H!Empty]
      /\ noted' = {}
      /\ UNCHANGED <<hand, state, fwd, marked, flagged, work, visit, prog, coll, stores>>
  BY DEF FinishEvacuation, Free
<1>2. /\ Moving /\ ~Tracing /\ ~Moving' /\ ~Tracing' /\ ~MarkerRuns /\ ~MarkerRuns'
      /\ coll = NoCopy /\ coll.obj = Null /\ coll.queue = {} /\ coll.copies = {}
      /\ ~Resolving /\ ~Copying /\ Newborn' = Newborn
      /\ prog.reg = Null /\ prog.obj = Null /\ prog.val = Null /\ prog.snap = {} /\ prog.task = "none"
  BY <1>1 DEF Moving, Tracing, MarkerRuns, IInv, Copies, Procedure, Resolving, Copying, NoCopy, Newborn
<1>3. InHand = {} /\ InHand' = {}
  BY <1>1, <1>2 DEF InHand
<1>4. Types /\ Copies /\ Losers
  BY DEF IInv
<1>5. /\ local \in [Locals -> Addresses \cup {Null}]
      /\ field \in [Addresses -> [Fields -> Addresses \cup {Null}]]
      /\ fwd \in [Addresses -> Addresses \cup {Null}]
      /\ buf \in [logged : SUBSET Addresses, satb : SUBSET Addresses,
                  scan : SUBSET Addresses, named : SUBSET Addresses]
      /\ alloc \subseteq Addresses /\ marked \subseteq Addresses /\ buf.satb = {}
      /\ Null \notin Addresses
  BY <1>2, AddressForms DEF IInv, Types, TypeOK
<1>6. /\ Settled' = Settled /\ (\A o : Cur(o)' = Cur(o)) /\ (\A a : Forwarded(a)' = Forwarded(a))
      /\ \A a : WhereItIs(a)' = WhereItIs(a)
  BY <1>1, PlacesKept
<1>7. Closed(Keep) /\ Keep \subseteq Addresses /\ Known \subseteq Keep
      /\ \A a \in Keep, f \in Fields : field[a][f] \in Into(Keep)
  BY <1>2, Remains
<1>8. \A a \in Keep : WhereItIs(a) \in Keep /\ ~InCset(WhereItIs(a))
  <2>1. \A a \in Keep : Forwarded(a) \/ ~InCset(a)
    BY <1>1, <1>2, <1>5, <1>7 DEF IInv, Gathered, Keep
  <2> QED
    BY <1>4, <2>1, Follow
<1>9. WhereItIs(Null) = Null
  BY DEF WhereItIs
<1>10. \A a \in Held \cup buf.logged : WhereItIs(a) = a /\ ~InCset(a)
  <2>1. \A a \in Held \cup buf.logged : ~Forwarded(a)
    BY HeldIsCurrent
  <2> QED
    BY <1>2, <2>1 DEF WhereItIs, IInv, HeldMoved
<1>11. local' = local /\ pinned' = pinned
  <2>1. \A x \in Locals : local[x] \in Held \cup {Null}
    BY DEF Held
  <2>2. pinned \in Held \cup {Null}
    BY DEF Held
  <2> QED
    BY <1>1, <1>5, <1>9, <1>10, <2>1, <2>2
<1>12. /\ buf'.logged = buf.logged /\ buf'.satb = {} /\ buf'.scan = {}
       /\ buf'.named = {WhereItIs(a) : a \in buf.named}
       /\ buf'.named \subseteq Addresses
       /\ buf' \in [logged : SUBSET Addresses, satb : SUBSET Addresses,
                    scan : SUBSET Addresses, named : SUBSET Addresses]
  <2>1. {WhereItIs(a) : a \in buf.logged} = buf.logged
    BY <1>10
  <2>2. {WhereItIs(a) : a \in buf.satb} = {}
    BY <1>5
  <2>3. {WhereItIs(a) : a \in buf.named} \subseteq Addresses
    BY <1>7, <1>8 DEF Known
  <2>4. buf' = [logged |-> buf.logged, satb |-> {}, named |-> {WhereItIs(a) : a \in buf.named},
                scan |-> {}]
    BY <1>1, <2>1, <2>2
  <2> QED
    BY <1>5, <2>3, <2>4
<1>13. Keep' = {a \in Keep : ~InCset(a)}
  BY <1>1, <1>6 DEF Keep
<1>14. Held' = Held
  BY <1>1, <1>11 DEF Held
<1>15. Known' \subseteq Keep'
  <2>1. Held \cup buf.logged \cup buf.named \subseteq Keep
    BY <1>7 DEF Known
  <2>2. Known' = Held \cup buf.logged \cup {WhereItIs(a) : a \in buf.named}
    BY <1>1, <1>2, <1>12, <1>14 DEF Known
  <2> QED
    BY <1>8, <1>10, <1>13, <2>1, <2>2
<1>16. \A a \in Addresses, f \in Fields :
         /\ field'[a][f] \in {field[a][f], WhereItIs(field[a][f])}
         /\ <<a, f>> \in noted \cup ScannedSlots => field'[a][f] = WhereItIs(field[a][f])
  BY <1>1 DEF Fixed
<1>17. ASSUME NEW a \in Keep, ~InCset(a), NEW f \in Fields
       PROVE  field'[a][f] \in Into({b \in Keep : ~InCset(b)})
  <2>1. a \in Addresses /\ a \in Settled /\ a \in marked /\ a \in alloc /\ ~Forwarded(a)
    BY <1>4, <1>17, Current DEF Keep
  <2>2. field[a][f] \in Into(Keep)
    BY <1>7
  <2>3. CASE InCset(field[a][f])
    <3>1. <<a, f>> \in noted \/ a \in buf.scan
      BY <1>2, <1>17, <2>1, <2>3 DEF IInv, Noted
    <3>2. <<a, f>> \in noted \cup ScannedSlots
      BY <2>1, <3>1 DEF ScannedSlots
    <3> QED
      BY <1>8, <1>9, <1>16, <2>1, <2>2, <3>2 DEF Into
  <2>4. CASE ~InCset(field[a][f])
    BY <1>8, <1>9, <1>16, <2>1, <2>2, <2>4 DEF Into
  <2> QED
    BY <2>3, <2>4
<1>18. Sound'
  <2>1. Keep' \in SUBSET Addresses /\ Keep' \subseteq alloc' \cap Settled'
    BY <1>7, <1>13 DEF Keep
  <2>2. \A a \in Keep', f \in Fields : field'[a][f] \in Into(Keep')
    BY <1>13, <1>17
  <2>3. Closed(Keep)'
    BY <1>15, <2>1, <2>2 DEF Closed, Into
  <2> QED
    BY <1>1, <1>2, <2>1, <2>3 DEF Sound, IInv
<1>19. /\ \A a \in Addresses : WhereItIs(a) \in Addresses /\ Obj(WhereItIs(a)) = Obj(a)
       /\ \A a \in Addresses \cup {Null} : WhereItIs(a) = Null <=> a = Null
  BY <1>4, <1>5, <1>9, StaysItself
<1>20. field' \in [Addresses -> [Fields -> Addresses \cup {Null}]]
  <2>1. ASSUME NEW a \in Addresses, NEW f \in Fields
        PROVE  field'[a][f] \in Addresses \cup {Null}
    <3>1. field[a][f] \in Addresses \cup {Null}
      BY <1>5
    <3>2. WhereItIs(field[a][f]) \in Addresses \cup {Null}
      BY <1>9, <1>19, <3>1
    <3> QED
      BY <1>16, <3>1, <3>2
  <2>2. field' = [a \in Addresses |-> [f \in Fields |-> field'[a][f]]]
    BY <1>1 DEF Fixed
  <2> QED
    BY <2>1, <2>2
<1>21. Types'
  <2>1. TypeOK'
    BY <1>1, <1>2, <1>5, <1>11, <1>12, <1>20 DEF IInv, Types, TypeOK
  <2>2. image' \in [Objects -> [Fields -> Objects \cup {Null}]]
    BY <1>1 DEF IInv, Types, H!Empty
  <2> QED
    BY <1>1, <2>1, <2>2 DEF IInv, Types, ProgOK
<1>22. Procedure'
  BY <1>1, <1>2, <1>11 DEF IInv, Procedure, Resolving, Copying
<1>23. Copies'
  <2>1. ASSUME NEW o \in Cset
        PROVE  /\ fwd'[At(o)] \in {Null, Copy(o, "program"), Copy(o, "collector")}
               /\ fwd'[At(o)] # Null => fwd'[At(o)] \in alloc' /\ At(o) \in marked'
    <3>1. o \in Objects
      BY AddressForms
    <3>2. fwd[At(o)] # Null => ~InCset(fwd[At(o)])
      BY <1>4, <3>1, StaysItself DEF Forwarded
    <3> QED
      BY <1>1, <3>2 DEF IInv, Copies
  <2>2. \A b \in Addresses : b # At(Obj(b)) =>
          /\ fwd'[b] # Null => fwd'[b] = fwd'[At(Obj(b))] /\ fwd'[b] # b
          /\ b \in alloc' => b \in marked'
    BY <1>1 DEF IInv, Copies
  <2>3. \A o \in Objects \ Cset : fwd'[At(o)] = Null
    BY <1>1 DEF IInv, Copies
  <2>4. coll' = NoCopy /\ coll'.obj = Null /\ coll'.queue = {} /\ prog'.at \notin {"memcpy", "forward"}
    BY <1>1, <1>2
  <2> QED
    BY <1>2, <2>1, <2>2, <2>3, <2>4 DEF Copies
<1>24. Losers'
  BY <1>1, <1>3, <1>6 DEF IInv, Losers
<1>25. Gathered'
  BY <1>1 DEF Gathered
<1>26. Existing'
  <2>1. \A o \in Fresh : o \in Objects /\ At(o) \in Addresses /\ ~InCset(At(o))
    BY AddressForms, EvacuationAssumption DEF InCset
  <2>2. \A o \in Fresh : IF At(o) \in alloc' THEN At(o) \in marked'
                         ELSE \A f \in Fields : field'[At(o)][f] = Null
    BY <1>1, <1>9, <1>16, <2>1 DEF IInv, Existing
  <2>3. \A a \in alloc' : ~InCset(a)
    BY <1>1
  <2> QED
    BY <1>2, <2>2, <2>3 DEF Existing, InCset
<1>27. Imaged'
  <2>1. ASSUME NEW o \in Objects
        PROVE  image'[o] = IF Cur(o)' \in alloc'
                 THEN [f \in Fields |-> IF field'[Cur(o)'][f] = Null THEN Null ELSE Obj(field'[Cur(o)'][f])]
                 ELSE H!Empty
    <3>1. Cur(o) \in Addresses /\ Obj(Cur(o)) = o /\ Cur(o)' = Cur(o)
      BY <1>4, <1>6, StaysItself
    <3>2. CASE \E a \in alloc' : Obj(a) = o
      <4>1. PICK a \in alloc' : Obj(a) = o
        BY <3>2
      <4>2. a \in alloc /\ ~InCset(a)
        BY <1>1
      <4>3. Cur(o) \in alloc /\ ~InCset(Cur(o))
        BY <1>3, <1>4, <4>1, <4>2, Home
      <4>4. Cur(o) \in alloc' /\ image'[o] = image[o]
        BY <1>1, <3>2, <4>3
      <4>5. image[o] = [f \in Fields |-> IF field[Cur(o)][f] = Null THEN Null ELSE Obj(field[Cur(o)][f])]
        BY <4>3 DEF IInv, Imaged
      <4>6. ASSUME NEW f \in Fields
            PROVE  /\ field'[Cur(o)][f] = Null <=> field[Cur(o)][f] = Null
                   /\ field[Cur(o)][f] # Null => Obj(field'[Cur(o)][f]) = Obj(field[Cur(o)][f])
        <5>1. field[Cur(o)][f] \in Addresses \cup {Null}
          BY <1>5, <3>1
        <5>2. field'[Cur(o)][f] \in {field[Cur(o)][f], WhereItIs(field[Cur(o)][f])}
          BY <1>16, <3>1
        <5> QED
          BY <1>19, <5>1, <5>2
      <4> QED
        BY <3>1, <4>4, <4>5, <4>6
    <3>3. CASE ~ \E a \in alloc' : Obj(a) = o
      BY <1>1, <3>1, <3>3
    <3> QED
      BY <3>2, <3>3
  <2>2. H!Empty' = H!Empty
    BY DEF H!Empty
  <2> QED
    BY <2>1, <2>2 DEF Imaged
<1>28. Logging' /\ Noted' /\ HeldMoved'
  BY <1>2 DEF Logging, Noted, HeldMoved
<1> QED
  BY <1>18, <1>21, <1>22, <1>23, <1>24, <1>25, <1>26, <1>27, <1>28 DEF IInv

\* The sweep frees what was left unmarked.
LEMMA SweepInv ==
  ASSUME IInv, NEW a \in Addresses, Sweep(a)
  PROVE  IInv'
<1>1. /\ phase = "Sweeping" /\ a \in alloc /\ a \notin marked /\ ~Forwarded(a)
      /\ alloc' = alloc \ {a}
      /\ image' = [o \in Objects |-> IF \E b \in alloc' : Obj(b) = o THEN image[o] ELSE H!Empty]
      /\ UNCHANGED <<local, hand, state, pinned, field, fwd, marked, flagged, buf, noted, phase,
                     work, visit, prog, coll, stores>>
  BY DEF Sweep, Garbage, Free, roots, trace
<1>2. /\ ~Moving /\ ~Tracing /\ ~Moving' /\ ~Tracing' /\ ~MarkerRuns /\ ~MarkerRuns'
      /\ coll = NoCopy /\ coll.obj = Null /\ coll.queue = {} /\ ~Resolving /\ ~Copying
  BY <1>1 DEF Moving, Tracing, MarkerRuns, IInv, Copies, Procedure, NoCopy, Resolving
<1>3. prog.at \notin {"memcpy", "forward"} /\ InHand = {} /\ InHand' = {}
  BY <1>1, <1>2 DEF InHand, Copying
<1>4. Types /\ Copies /\ Losers
  BY DEF IInv
<1>5. /\ Settled' = Settled /\ (\A o : Cur(o)' = Cur(o)) /\ (\A b : Forwarded(b)' = Forwarded(b))
  BY <1>1, PlacesKept
<1>6. Keep' = Keep
  BY <1>1, <1>5 DEF Keep
<1>7. Types'
  <2>1. TypeOK'
    BY <1>1, <1>2 DEF IInv, Types, TypeOK
  <2>2. image' \in [Objects -> [Fields -> Objects \cup {Null}]]
    BY <1>1 DEF IInv, Types, H!Empty
  <2> QED
    BY <1>1, <2>1, <2>2 DEF IInv, Types, ProgOK
<1>8. Procedure'
  BY <1>1, <1>2 DEF IInv, Procedure, Resolving, Copying, Newborn, Moving, Tracing
<1>9. Copies'
  <2>1. ASSUME NEW o \in Cset
        PROVE  /\ fwd'[At(o)] \in {Null, Copy(o, "program"), Copy(o, "collector")}
               /\ fwd'[At(o)] # Null => fwd'[At(o)] \in alloc' /\ At(o) \in marked'
    <3>1. o \in Objects
      BY AddressForms
    <3>2. fwd[At(o)] # Null => fwd[At(o)] \in marked
      BY <1>4, <3>1, StaysItself DEF Forwarded
    <3> QED
      BY <1>1, <3>2 DEF IInv, Copies
  <2>2. \A b \in Addresses : b # At(Obj(b)) =>
          /\ fwd'[b] # Null => fwd'[b] = fwd'[At(Obj(b))] /\ fwd'[b] # b
          /\ b \in alloc' => b \in marked'
    BY <1>1 DEF IInv, Copies
  <2>3. \A o \in Objects \ Cset : fwd'[At(o)] = Null
    BY <1>1 DEF IInv, Copies
  <2>4. coll' = NoCopy /\ coll'.obj = Null /\ coll'.queue = {} /\ prog'.at \notin {"memcpy", "forward"}
    BY <1>1, <1>2, <1>3
  <2> QED
    BY <1>2, <2>1, <2>2, <2>3, <2>4 DEF Copies
<1>10. Losers'
  BY <1>1, <1>3, <1>5 DEF IInv, Losers
<1>11. Gathered'
  BY <1>1 DEF Gathered
<1>12. Existing'
  BY <1>1, <1>2 DEF IInv, Existing, InCset
<1>13. Imaged'
  <2>1. ASSUME NEW o \in Objects
        PROVE  image'[o] = IF Cur(o)' \in alloc'
                 THEN [f \in Fields |-> IF field'[Cur(o)'][f] = Null THEN Null ELSE Obj(field'[Cur(o)'][f])]
                 ELSE H!Empty
    <3>1. Cur(o) \in Addresses /\ Obj(Cur(o)) = o /\ Cur(o)' = Cur(o)
      BY <1>4, <1>5, StaysItself
    <3>2. CASE \E b \in alloc' : Obj(b) = o
      <4>1. PICK b \in alloc' : Obj(b) = o
        BY <3>2
      <4>2. b \in alloc /\ b # a
        BY <1>1
      <4>3. Cur(o) \in alloc'
        BY <1>1, <1>3, <1>4, <4>1, <4>2, Home
      <4> QED
        BY <1>1, <3>1, <3>2, <4>3 DEF IInv, Imaged
    <3>3. CASE ~ \E b \in alloc' : Obj(b) = o
      BY <1>1, <3>1, <3>3
    <3> QED
      BY <3>2, <3>3
  <2>2. H!Empty' = H!Empty
    BY DEF H!Empty
  <2> QED
    BY <2>1, <2>2 DEF Imaged
<1>14. Logging' /\ Noted' /\ HeldMoved'
  BY <1>2 DEF Logging, Noted, HeldMoved
<1>15. Sound'
  <2>1. Closed(Keep) /\ Keep \in SUBSET Addresses
    BY <1>2, Remains
  <2>2. Known' = Known /\ Keep \subseteq alloc'
    BY <1>1 DEF Known, Held, Keep
  <2>3. Closed(Keep)'
    BY <1>1, <1>5, <1>6, <2>1, <2>2 DEF Closed, Into
  <2> QED
    BY <1>1, <1>2, <1>6, <2>1, <2>3 DEF Sound, IInv
<1> QED
  BY <1>7, <1>8, <1>9, <1>10, <1>11, <1>12, <1>13, <1>14, <1>15 DEF IInv

\* ... until there is nothing left to free.
LEMMA SweepEndsInv ==
  ASSUME IInv, SweepEnds
  PROVE  IInv'
<1>1. /\ phase = "Sweeping" /\ phase' = "Idle"
      /\ UNCHANGED <<local, hand, state, pinned, field, alloc, fwd, marked, flagged, buf, noted,
                     work, visit, prog, coll, stores, image>>
  BY DEF SweepEnds, roots, heap
<1>2. /\ ~Moving /\ ~Tracing /\ ~Moving' /\ ~Tracing' /\ ~MarkerRuns /\ ~MarkerRuns'
      /\ ~Resolving /\ ~Copying
  BY <1>1 DEF Moving, Tracing, MarkerRuns, IInv, Procedure, Resolving
<1>3. Settled' = Settled /\ (\A o : Cur(o)' = Cur(o)) /\ (\A b : Forwarded(b)' = Forwarded(b))
      /\ Keep' = Keep /\ InHand' = InHand
  BY <1>1, PlacesKept DEF Keep, InHand
<1>4. Types'
  <2>1. TypeOK'
    BY <1>1, <1>2 DEF IInv, Types, TypeOK
  <2> QED
    BY <1>1, <2>1 DEF IInv, Types, ProgOK
<1>5. Procedure'
  BY <1>1, <1>2 DEF IInv, Procedure, Resolving, Copying, Newborn, Moving, Tracing
<1>6. Copies' /\ Losers'
  <2>1. coll = NoCopy
    BY <1>1 DEF IInv, Copies
  <2> QED
    BY <1>1, <1>2, <1>3, <2>1 DEF IInv, Copies, Losers, InCset, NoCopy
<1>7. Gathered' /\ Existing' /\ Logging' /\ Noted' /\ HeldMoved'
  BY <1>1, <1>2 DEF Gathered, IInv, Existing, InCset, Logging, Noted, HeldMoved
<1>8. Imaged'
  BY <1>1, <1>3 DEF IInv, Imaged, H!Empty
<1>9. Sound'
  <2>1. Closed(Keep) /\ Keep \in SUBSET Addresses
    BY <1>2, Remains
  <2>2. Known' = Known
    BY <1>1 DEF Known, Held
  <2>3. Closed(Keep)'
    BY <1>1, <1>3, <2>1, <2>2 DEF Closed, Into
  <2> QED
    BY <1>1, <1>2, <1>3, <2>1, <2>3 DEF Sound, IInv
<1> QED
  BY <1>4, <1>5, <1>6, <1>7, <1>8, <1>9 DEF IInv

\* Nothing happens.
LEMMA StutterInv ==
  ASSUME IInv, UNCHANGED vars
  PROVE  IInv'
<1>1. /\ UNCHANGED <<local, hand, state, pinned, field, alloc, fwd, marked, flagged, buf, noted,
                     phase, work, visit, prog, coll, stores, image>>
  BY DEF vars, roots, heap, trace
<1>2. /\ Tracing' = Tracing /\ Moving' = Moving /\ Settled' = Settled /\ InHand' = InHand
      /\ Newborn' = Newborn /\ Resolving' = Resolving /\ Copying' = Copying /\ Held' = Held
      /\ \A a : Forwarded(a)' = Forwarded(a)
  BY <1>1, PlacesKept DEF Tracing, Moving, InHand, Newborn, Resolving, Copying, Held
<1>3. Types' /\ Procedure'
  BY <1>1, <1>2 DEF IInv, Types, TypeOK, ProgOK, Procedure, InCset
<1>4. Copies' /\ Losers'
  BY <1>1, <1>2 DEF IInv, Copies, Losers, InCset, NoCopy
<1>5. Gathered' /\ Existing' /\ Imaged'
  BY <1>1, HeapKept
<1>6. Logging' /\ Noted' /\ HeldMoved'
  BY <1>1, <1>2 DEF IInv, Logging, Noted, HeldMoved, InCset
<1>7. Sound'
  BY <1>1, <1>2, SoundKept DEF Known, Closed, MarkerRuns
<1> QED
  BY <1>3, <1>4, <1>5, <1>6, <1>7 DEF IInv

\* The invariant is inductive, so long as the worker's state is not in the block.
LEMMA NextInv ==
  ASSUME State \notin Cset, IInv, [Next]_vars, ~early'
  PROVE  IInv'
<1>1. CASE UNCHANGED vars
  BY <1>1, StutterInv
<1>2. CASE Program
  <2>1. CASE \E x, y \in Locals, f \in Fields : Load(x, y, f) \/ Barrier(x, f, local[y])
    BY <2>1, LoadInv, BarrierInv
  <2>2. CASE \E x \in Locals : Forget(x) \/ Call(x) \/ Assign(x)
    BY <2>2, ForgetInv, CallInv, AssignInv
  <2>3. CASE \E x \in Locals, f \in Fields : Barrier(x, f, Null)
    BY <2>3, BarrierInv
  <2>4. CASE Resolve \/ EvacuateOne \/ MemCopy \/ Forward
    BY <2>4, ResolveInv, EvacuateOneInv, MemCopyInv, ForwardInv
  <2>5. CASE \E f \in Fields : LogField(f)
    BY <2>5, LogFieldInv
  <2>6. CASE Log \/ Store \/ Enroll \/ Collect
    BY <2>6, LogInv, StoreInv, EnrollInv, CollectInv
  <2>7. CASE \E o \in Fresh : Allocate(o)
    BY <2>7, AllocateInv
  <2>8. CASE Safepoint
    BY <2>8, SafepointInv
  <2>9. CASE FinishMarking
    BY <2>9, TakeRecordInv, FinishMarkingInv
  <2>10. CASE FinishEvacuation
    BY <2>10, FinishEvacuationInv
  <2> QED
    BY <1>2, <2>1, <2>2, <2>3, <2>4, <2>5, <2>6, <2>7, <2>8, <2>9, <2>10 DEF Program
<1>3. CASE Collector
  <2>1. CASE \E a \in Addresses : Claim(a) \/ CopyOne(a) \/ Sweep(a)
    BY <2>1, ClaimInv, CopyOneInv, SweepInv
  <2>2. CASE \E f \in Fields : ReadField(f)
    BY <2>2, ReadFieldInv
  <2>3. CASE TakeRecord \/ Gather \/ ForwardOne \/ CopyEnds \/ SweepEnds
    BY <2>3, TakeRecordInv, GatherInv, ForwardOneInv, CopyEndsInv, SweepEndsInv
  <2> QED
    BY <1>3, <2>1, <2>2, <2>3 DEF Collector
<1> QED
  BY <1>1, <1>2, <1>3 DEF Next

-----------------------------------------------------------------------------
(* The theorems.                                                            *)

\* What has moved early has moved early ever after.
LEMMA EarlyStays ==
  ASSUME [Next]_vars, early
  PROVE  early'
<1>1. CASE UNCHANGED vars
  BY <1>1 DEF vars
<1>2. CASE Program
  <2>1. ASSUME NEW x \in Locals, NEW y \in Locals, NEW f \in Fields, Load(x, y, f)
        PROVE  early'
    BY <2>1, Zenon DEF Load
  <2>2. ASSUME NEW x \in Locals, NEW f \in Fields, NEW v, Barrier(x, f, v)
        PROVE  early'
    BY <2>2, Zenon DEF Barrier
  <2>3. CASE \E x \in Locals : Forget(x) \/ Call(x) \/ Assign(x)
    BY <2>3, Zenon DEF Forget, Call, Assign
  <2>4. CASE Resolve \/ EvacuateOne \/ MemCopy \/ Forward
    BY <2>4, Zenon DEF Resolve, EvacuateOne, MemCopy, Forward
  <2>5. CASE \/ Log \/ Store \/ Enroll \/ Collect \/ \E f \in Fields : LogField(f)
             \/ \E o \in Fresh : Allocate(o)
    BY <2>5, Zenon DEF Log, Store, Enroll, Collect, LogField, Allocate
  <2>6. CASE Safepoint \/ FinishMarking \/ FinishEvacuation
    BY <2>6, Zenon DEF Safepoint, FinishMarking, FinishEvacuation
  <2> QED
    BY <1>2, <2>1, <2>2, <2>3, <2>4, <2>5, <2>6, Zenon DEF Program
<1>3. CASE Collector
  BY <1>3, Zenon DEF Collector, Claim, CopyOne, Sweep, ReadField, TakeRecord, Gather, ForwardOne,
    CopyEnds, SweepEnds
<1> QED
  BY <1>1, <1>2, <1>3 DEF Next

\* The strengthening is an invariant until another worker's evacuation moves something
\* while the trace marks (of a worker's heap, whose state is not in the block: rpc.rs,
\* worker_main keeps a reference of its own to that).
THEOREM Invariance ==
  ASSUME State \notin Cset
  PROVE  Spec => [](early \/ IInv)
<1>1. Init => IInv
  BY InitInv
<1>2. (early \/ IInv) /\ [Next]_vars => (early \/ IInv)'
  BY NextInv, EarlyStays
<1> QED
  BY <1>1, <1>2, PTL DEF Spec

\* While objects move, nothing the program holds or has recorded is in the block
\* being emptied, unless another worker's evacuation has moved something while this
\* trace was marking (mark.rs, finish_marking; evacuate.rs, ws_resolve).
THEOREM HoldsTheMoved ==
  ASSUME State \notin Cset
  PROVE  Spec => []ProgramHoldsTheMoved
<1>1. early \/ IInv => ProgramHoldsTheMoved
  <2>4. early => ProgramHoldsTheMoved
    BY DEF ProgramHoldsTheMoved
  <2> SUFFICES ASSUME IInv
               PROVE  ProgramHoldsTheMoved
    BY <2>4
  <2>1. TypeOK
    BY DEF IInv, Types
  <2>2. Moving => \A a \in Held \cup buf.logged : ~InCset(a)
    BY DEF IInv, HeldMoved
  <2>3. \A a \in Held \cup buf.logged : ~Forwarded(a)
    BY HeldIsCurrent
  <2> QED
    BY <2>1, <2>2, <2>3 DEF ProgramHoldsTheMoved
<1> QED
  BY <1>1, Invariance, PTL

\* Once the block is released, nothing points into it (evacuate.rs, fix_references and
\* verify_no_stale_references), unless another worker's evacuation had moved something
\* while the trace was marking.
THEOREM NothingStale ==
  ASSUME State \notin Cset
  PROVE  Spec => []NoStaleReferences
<1>1. early \/ IInv => NoStaleReferences
  <2>7. early \/ phase \notin {"Sweeping", "Idle"} => NoStaleReferences
    BY DEF NoStaleReferences
  <2> SUFFICES ASSUME IInv, phase \in {"Sweeping", "Idle"}
               PROVE  NoStaleReferences
    BY <2>7
  <2>1. ~Tracing /\ ~Moving
    BY DEF Tracing, Moving
  <2>2. /\ Closed(Keep) /\ Keep \subseteq Addresses
        /\ Known \subseteq Keep
        /\ \A a \in Keep, f \in Fields : field[a][f] \in Into(Keep)
    BY <2>1, Remains
  <2>3. \A a \in Keep \cup {Null} : ~InCset(a)
    BY <2>1 DEF IInv, Existing, Keep, InCset
  <2>4. prog.at # "forward" /\ coll = NoCopy
    BY <2>1 DEF IInv, Procedure, Resolving, Copying, Copies
  <2>5. InHand = {}
    BY <2>4 DEF InHand, NoCopy
  <2>6. \A b \in {c \in alloc \cap marked : ~Forwarded(c)} : b \in Keep
    BY <2>5 DEF IInv, Losers, Keep
  <2>8. \A a \in Held \cup buf.logged \cup buf.named
             \cup {field[b][f] : b \in {c \in alloc \cap marked : ~Forwarded(c)}, f \in Fields} :
          ~InCset(a)
    BY <2>2, <2>3, <2>6 DEF Known, Into
  <2> QED
    BY <2>8 DEF NoStaleReferences
<1> QED
  BY <1>1, Invariance, PTL

-----------------------------------------------------------------------------
(* The abstract heap.                                                       *)

\* What the program sees of a reference, and of the heap.
Name(a) == IF a = Null THEN Null ELSE Obj(a)
HLocals == Locals \cup {"state"}
HLocal == [x \in HLocals |-> IF x = "state" THEN Named(pinned) ELSE Named(local[x])]
HLive == {Obj(a) : a \in alloc}

\* What the abstract heap's variables and steps come to.
LEMMA Mapped ==
  /\ H!heapVars = <<HLocal, Named(hand), image, HLive>>
  /\ \A o : /\ o \notin HLive /\ Named(hand) = Null
            /\ Named(hand)' = o /\ HLive' = HLive \cup {o}
            /\ HLocal' = HLocal /\ image' = image
            => H!New(o)
  /\ \A x : /\ Named(hand) # Null
            /\ HLocal' = [HLocal EXCEPT ![x] = Named(hand)] /\ Named(hand)' = Null
            /\ image' = image /\ HLive' = HLive
            => H!Take(x)
  /\ \A x, y, f : /\ HLocal[y] # Null
                  /\ HLocal' = [HLocal EXCEPT ![x] = image[HLocal[y]][f]]
                  /\ Named(hand)' = Named(hand) /\ image' = image /\ HLive' = HLive
                  => H!Load(x, y, f)
  /\ \A x, y : /\ HLocal' = [HLocal EXCEPT ![x] = HLocal[y]]
               /\ Named(hand)' = Named(hand) /\ image' = image /\ HLive' = HLive
               => H!Copy(x, y)
  /\ \A x : /\ HLocal' = [HLocal EXCEPT ![x] = Null]
            /\ Named(hand)' = Named(hand) /\ image' = image /\ HLive' = HLive
            => H!Forget(x)
  /\ \A x, f, v : /\ HLocal[x] # Null
                  /\ image' = [image EXCEPT ![HLocal[x]][f] = v]
                  /\ HLocal' = HLocal /\ Named(hand)' = Named(hand) /\ HLive' = HLive
                  => H!Write(x, f, v)
  /\ \A S : /\ S # {} /\ HLive' = HLive \ S /\ S \cap H!Reachable = {}
            /\ image' = [o \in Objects |-> IF o \in S THEN H!Empty ELSE image[o]]
            /\ HLocal' = HLocal /\ Named(hand)' = Named(hand)
            => H!Reclaim(S)
<1>1. H!heapVars = <<HLocal, Named(hand), image, HLive>>
  BY DEF H!heapVars, HLocal, HLocals, HLive
<1>2. ASSUME NEW o, o \notin HLive, Named(hand) = Null,
             Named(hand)' = o, HLive' = HLive \cup {o}, HLocal' = HLocal, image' = image
      PROVE  H!New(o)
  BY <1>2 DEF H!New, HLocal, HLocals, HLive
<1>3. ASSUME NEW x, Named(hand) # Null,
             HLocal' = [HLocal EXCEPT ![x] = Named(hand)], Named(hand)' = Null,
             image' = image, HLive' = HLive
      PROVE  H!Take(x)
  BY <1>3 DEF H!Take, HLocal, HLocals, HLive
<1>4. ASSUME NEW x, NEW y, NEW f, HLocal[y] # Null,
             HLocal' = [HLocal EXCEPT ![x] = image[HLocal[y]][f]],
             Named(hand)' = Named(hand), image' = image, HLive' = HLive
      PROVE  H!Load(x, y, f)
  BY <1>4 DEF H!Load, HLocal, HLocals, HLive
<1>5. ASSUME NEW x, NEW y, HLocal' = [HLocal EXCEPT ![x] = HLocal[y]],
             Named(hand)' = Named(hand), image' = image, HLive' = HLive
      PROVE  H!Copy(x, y)
  BY <1>5 DEF H!Copy, HLocal, HLocals, HLive
<1>6. ASSUME NEW x, HLocal' = [HLocal EXCEPT ![x] = Null],
             Named(hand)' = Named(hand), image' = image, HLive' = HLive
      PROVE  H!Forget(x)
  BY <1>6 DEF H!Forget, HLocal, HLocals, HLive
<1>7. ASSUME NEW x, NEW f, NEW v, HLocal[x] # Null,
             image' = [image EXCEPT ![HLocal[x]][f] = v],
             HLocal' = HLocal, Named(hand)' = Named(hand), HLive' = HLive
      PROVE  H!Write(x, f, v)
  BY <1>7 DEF H!Write, HLocal, HLocals, HLive
<1>8. ASSUME NEW S, S # {}, HLive' = HLive \ S, S \cap H!Reachable = {},
             image' = [o \in Objects |-> IF o \in S THEN H!Empty ELSE image[o]],
             HLocal' = HLocal, Named(hand)' = Named(hand)
      PROVE  H!Reclaim(S)
  BY <1>8 DEF H!Reclaim, HLocal, HLocals, HLive
<1> QED
  BY <1>1, <1>2, <1>3, <1>4, <1>5, <1>6, <1>7, <1>8

\* What the program holds exists, before a step and after it.
LEMMA Seen ==
  ASSUME IInv, IInv'
  PROVE  /\ Named(hand) = Name(hand) /\ Named(hand)' = Name(hand')
         /\ HLocal = [x \in HLocals |-> IF x = "state" THEN Name(pinned) ELSE Name(local[x])]
         /\ HLocal' = [x \in HLocals |-> IF x = "state" THEN Name(pinned') ELSE Name(local'[x])]
<1>1. /\ \A x \in Locals : local[x] \in Held \cup {Null} /\ local'[x] \in Held' \cup {Null}
      /\ hand \in Held \cup {Null} /\ hand' \in Held' \cup {Null}
      /\ pinned \in Held \cup {Null} /\ pinned' \in Held' \cup {Null}
  BY DEF Held
<1>2. Held \subseteq alloc
  BY DEF IInv, Sound, Closed, Known
<1>3. Held' \subseteq alloc'
  BY DEF IInv, Sound, Closed, Known
<1>4. \A a \in Held \cup {Null} : Named(a) = Name(a)
  BY <1>2 DEF Named, Name
<1>5. \A a \in Held' \cup {Null} : Named(a)' = Name(a)
  BY <1>3 DEF Named, Name
<1>6. "state" \notin Locals
  BY EvacuationAssumption
<1>7. \A x \in HLocals : x # "state" => x \in Locals
  BY DEF HLocals
<1>8. Named(hand) = Name(hand) /\ Named(hand)' = Name(hand')
  <2>1. Named(hand)' = IF hand' = Null THEN Null ELSE IF hand' \in alloc' THEN Obj(hand') ELSE "gone"
    BY DEF Named
  <2> QED
    BY <1>1, <1>3, <1>4, <2>1 DEF Name
<1>9. HLocal = [x \in HLocals |-> IF x = "state" THEN Name(pinned) ELSE Name(local[x])]
  <2>1. \A x \in HLocals : (IF x = "state" THEN Named(pinned) ELSE Named(local[x]))
                            = (IF x = "state" THEN Name(pinned) ELSE Name(local[x]))
    BY <1>1, <1>4, <1>7
  <2> QED
    BY <2>1 DEF HLocal
<1>10. HLocal' = [x \in HLocals |-> IF x = "state" THEN Name(pinned') ELSE Name(local'[x])]
  <2>1. \A a : Named(a)' = IF a = Null THEN Null ELSE IF a \in alloc' THEN Obj(a) ELSE "gone"
    BY DEF Named
  <2>2. HLocal' = [x \in HLocals |->
                     IF x = "state"
                     THEN IF pinned' = Null THEN Null ELSE IF pinned' \in alloc' THEN Obj(pinned') ELSE "gone"
                     ELSE IF local'[x] = Null THEN Null
                          ELSE IF local'[x] \in alloc' THEN Obj(local'[x]) ELSE "gone"]
    BY DEF HLocal, Named, HLocals
  <2>3. \A x \in HLocals :
          (IF x = "state"
           THEN IF pinned' = Null THEN Null ELSE IF pinned' \in alloc' THEN Obj(pinned') ELSE "gone"
           ELSE IF local'[x] = Null THEN Null
                ELSE IF local'[x] \in alloc' THEN Obj(local'[x]) ELSE "gone")
          = (IF x = "state" THEN Name(pinned') ELSE Name(local'[x]))
    BY <1>1, <1>3, <1>7 DEF Name
  <2> QED
    BY <2>2, <2>3
<1> QED
  BY <1>8, <1>9, <1>10

\* A step that changes nothing the program could see.
LEMMA Unseen ==
  ASSUME IInv, IInv', Name(pinned') = Name(pinned), Name(hand') = Name(hand),
         \A x \in Locals : Name(local'[x]) = Name(local[x]), image' = image, HLive' = HLive
  PROVE  UNCHANGED H!heapVars
<1>1. HLocal' = HLocal
  <2>1. \A x \in HLocals : (IF x = "state" THEN Name(pinned') ELSE Name(local'[x]))
                            = (IF x = "state" THEN Name(pinned) ELSE Name(local[x]))
    BY DEF HLocals
  <2> QED
    BY <2>1, Seen
<1>2. Named(hand)' = Named(hand)
  BY Seen
<1>3. H!heapVars = <<HLocal, Named(hand), image, HLive>>
  BY Mapped
<1>4. H!heapVars' = <<HLocal', Named(hand)', image', HLive'>>
  BY DEF H!heapVars, HLocal, HLocals, HLive
<1> QED
  BY <1>1, <1>2, <1>3, <1>4

\* A step that leaves the program's references and the addresses in use alone.
LEMMA Aside ==
  ASSUME IInv, IInv', UNCHANGED <<local, hand, pinned, alloc, image>>
  PROVE  UNCHANGED H!heapVars
<1>1. HLive' = HLive
  BY DEF HLive
<1> QED
  BY <1>1, Unseen

\* One of the program's variables is given what it is to refer to.
LEMMA GivenOne ==
  ASSUME IInv, IInv', NEW x \in Locals, NEW v, local' = [local EXCEPT ![x] = v],
         UNCHANGED <<hand, pinned, image>>
  PROVE  /\ HLocal' = [HLocal EXCEPT ![x] = Name(v)] /\ Named(hand)' = Named(hand)
         /\ x # "state" /\ x \in HLocals /\ "state" \in HLocals
         /\ \A y \in Locals : HLocal[y] = Name(local[y]) /\ y \in HLocals
         /\ HLocal["state"] = Name(pinned)
<1>1. /\ local \in [Locals -> Addresses \cup {Null}] /\ "state" \notin Locals
  BY EvacuationAssumption DEF IInv, Types, TypeOK
<1>2. /\ \A y \in Locals : y \in HLocals /\ y # "state"
      /\ \A y \in HLocals : y # "state" => y \in Locals
      /\ "state" \in HLocals
  BY <1>1 DEF HLocals
<1>3. HLocal' = [HLocal EXCEPT ![x] = Name(v)]
  <2>1. HLocal = [y \in HLocals |-> IF y = "state" THEN Name(pinned) ELSE Name(local[y])]
    BY Seen
  <2>2. HLocal' = [y \in HLocals |-> IF y = "state" THEN Name(pinned) ELSE Name(local'[y])]
    BY Seen
  <2>3. \A y \in HLocals : HLocal'[y] = IF y = x THEN Name(v) ELSE HLocal[y]
    BY <1>1, <1>2, <2>1, <2>2
  <2> QED
    BY <2>1, <2>2, <2>3
<1>4. /\ \A y \in Locals : HLocal[y] = Name(local[y])
      /\ HLocal["state"] = Name(pinned)
  BY <1>2, Seen
<1> QED
  BY <1>2, <1>3, <1>4, Seen

\* A variable is loaded.
LEMMA Loaded ==
  ASSUME IInv, IInv', NEW x \in Locals, NEW y \in Locals, NEW f \in Fields, NEW v,
         local[y] # Null, local' = [local EXCEPT ![x] = v],
         Name(v) = image[Obj(local[y])][f],
         UNCHANGED <<hand, pinned, image>>, HLive' = HLive
  PROVE  H!HNext
<1>1. /\ HLocal' = [HLocal EXCEPT ![x] = Name(v)] /\ Named(hand)' = Named(hand)
      /\ HLocal[y] = Name(local[y]) /\ x \in HLocals /\ y \in HLocals
  BY GivenOne
<1>2. HLocal[y] = Obj(local[y]) /\ HLocal[y] # Null
  <2>1. local[y] \in Addresses
    BY DEF IInv, Types, TypeOK
  <2>2. Obj(local[y]) \in Objects /\ Null \notin Objects
    BY <2>1, AddressForms, EvacuationAssumption
  <2> QED
    BY <1>1, <2>2 DEF Name
<1>3. H!Load(x, y, f)
  BY <1>1, <1>2, Mapped
<1> QED
  BY <1>1, <1>3 DEF H!HNext, HLocals

\* The load barrier's answer is the object that was asked about.
LEMMA AnswerKeeps ==
  ASSUME IInv, IInv', Resolving, NEW v \in Addresses, Obj(v) = Obj(prog.reg), Answer(v),
         UNCHANGED <<hand, pinned, image>>, HLive' = HLive
  PROVE  [H!HNext]_(H!heapVars)
<1>1. CASE prog.task = "load"
  <2>1. local' = [local EXCEPT ![prog.dst] = v] /\ prog.dst \in Locals
    BY <1>1 DEF Answer, IInv, Procedure
  <2>2. PICK y \in Locals, f \in Fields : local[y] # Null /\ image[Obj(local[y])][f] = Obj(prog.reg)
    BY <1>1 DEF IInv, Procedure
  <2>3. Name(v) = image[Obj(local[y])][f]
    BY <2>2, AddressForms DEF Name
  <2> QED
    BY <2>1, <2>2, <2>3, Loaded
<1>2. CASE prog.task # "load"
  BY <1>2, Unseen DEF Answer
<1> QED
  BY <1>1, <1>2

\* What remains is out of reach of what is freed.
LEMMA OnlyGarbage ==
  ASSUME IInv, IInv', ~Tracing, UNCHANGED <<hand>>, Name(pinned') = Name(pinned),
         \A x \in Locals : Name(local'[x]) = Name(local[x]),
         alloc' \subseteq alloc, \A a \in Keep : \E b \in alloc' : Obj(b) = Obj(a),
         image' = [o \in Objects |-> IF \E a \in alloc' : Obj(a) = o THEN image[o] ELSE H!Empty]
  PROVE  [H!HNext]_(H!heapVars)
<1> DEFINE S == HLive \ HLive'
           T == {Obj(a) : a \in Keep}
<1>1. HLive' = {Obj(a) : a \in alloc'} /\ HLive' \subseteq HLive /\ HLive' = HLive \ S
  BY DEF HLive
<1>2. /\ Closed(Keep) /\ Keep \subseteq Addresses
      /\ Known \subseteq Keep
      /\ \A a \in Keep, f \in Fields : field[a][f] \in Into(Keep)
  BY Remains
<1>3. T \subseteq Objects /\ T \cap S = {}
  BY <1>1, <1>2, AddressForms
<1>4. \A a \in Keep : Cur(Obj(a)) \in Keep
  <2> SUFFICES ASSUME NEW a \in Keep
               PROVE  Cur(Obj(a)) \in Keep
    OBVIOUS
  <2>1. a \in Addresses /\ At(Obj(a)) \in Addresses /\ At(Obj(a)) # Null /\ a # Null
    BY <1>2, AddressForms
  <2>2. CASE a = At(Obj(a))
    BY <2>2, Follow DEF Cur, IInv
  <2>3. CASE a # At(Obj(a))
    <3>1. a = fwd[At(Obj(a))]
      BY <2>3 DEF Keep, Settled
    <3>2. Cur(Obj(a)) = a
      BY <2>1, <3>1 DEF Cur, WhereItIs, Forwarded
    <3> QED
      BY <3>2
  <2> QED
    BY <2>2, <2>3
<1>5. \A o \in T, f \in Fields : image[o][f] \in T \cup {Null}
  <2> SUFFICES ASSUME NEW o \in T, NEW f \in Fields
               PROVE  image[o][f] \in T \cup {Null}
    OBVIOUS
  <2>1. o \in Objects /\ Cur(o) \in Keep
    BY <1>3, <1>4
  <2>2. image[o][f] = IF field[Cur(o)][f] = Null THEN Null ELSE Obj(field[Cur(o)][f])
    BY <2>1 DEF IInv, Imaged, Keep
  <2>3. field[Cur(o)][f] \in Keep \cup {Null}
    BY <1>2, <2>1 DEF Into
  <2> QED
    BY <2>2, <2>3
<1>6. HLocal' = HLocal /\ Named(hand)' = Named(hand)
  <2>1. \A x \in HLocals : (IF x = "state" THEN Name(pinned') ELSE Name(local'[x]))
                            = (IF x = "state" THEN Name(pinned) ELSE Name(local[x]))
    BY DEF HLocals
  <2> QED
    BY <2>1, Seen
<1>7. H!Held \subseteq T
  <2>1. /\ \A x \in Locals : local[x] \in Keep \cup {Null}
        /\ pinned \in Keep \cup {Null} /\ hand \in Keep \cup {Null}
    BY <1>2 DEF Known, Held
  <2>2. \A a \in Keep \cup {Null} : Name(a) \in T \cup {Null}
    BY DEF Name
  <2>3. \A x \in HLocals : HLocal[x] \in T \cup {Null}
    BY <2>1, <2>2, Seen DEF HLocals
  <2>4. Named(hand) \in T \cup {Null}
    BY <2>1, <2>2, Seen
  <2>5. H!Held = ({HLocal[x] : x \in HLocals} \cup {Named(hand)}) \ {Null}
    BY DEF H!Held, HLocal, HLocals
  <2> QED
    BY <2>3, <2>4, <2>5
<1>8. H!Closed(T)
  BY <1>5 DEF H!Closed
<1>9. H!Reachable \subseteq T
  <2>1. T \in SUBSET Objects
    BY <1>3
  <2> HIDE DEF T
  <2>2. \A o \in H!Reachable : \A U \in SUBSET Objects : H!Held \subseteq U /\ H!Closed(U) => o \in U
    BY DEF H!Reachable, H!ReachableFrom
  <2> QED
    BY <1>7, <1>8, <2>1, <2>2
<1>10. \A o \in Objects : o \notin HLive => image[o] = H!Empty
  <2>1. \A o \in Objects : o \notin HLive => Cur(o) \notin alloc
    BY StaysItself DEF IInv, HLive
  <2> QED
    BY <2>1 DEF IInv, Imaged
<1>11. image' = [o \in Objects |-> IF o \in S THEN H!Empty ELSE image[o]]
  <2>1. \A o \in Objects : (IF \E a \in alloc' : Obj(a) = o THEN image[o] ELSE H!Empty)
                            = (IF o \in S THEN H!Empty ELSE image[o])
    BY <1>1, <1>10
  <2> QED
    BY <2>1
<1>12. CASE S = {}
  <2>1. HLive' = HLive
    BY <1>1, <1>12
  <2>2. image' = image
    BY <1>11, <1>12 DEF IInv, Types
  <2> QED
    BY <2>1, <2>2, Unseen
<1>13. CASE S # {}
  <2>1. S \cap H!Reachable = {}
    BY <1>3, <1>9
  <2>2. H!Reclaim(S)
    BY <1>1, <1>6, <1>11, <1>13, <2>1, Mapped
  <2>3. S \in SUBSET {Obj(a) : a \in alloc}
    BY DEF HLive
  <2> QED
    BY <2>2, <2>3 DEF H!HNext
<1> QED
  BY <1>12, <1>13

\* The program's own steps are those of the abstract heap.
LEMMA ProgramKeeps ==
  ASSUME IInv, IInv', NEW x \in Locals, NEW y \in Locals, NEW f,
         (f \in Fields /\ Load(x, y, f)) \/ Forget(x) \/ Call(x) \/ Assign(x) \/ Store
  PROVE  [H!HNext]_(H!heapVars)
<1>1. /\ local \in [Locals -> Addresses \cup {Null}] /\ Null \notin Addresses /\ Null \notin Objects
      /\ \A a \in Addresses : Obj(a) \in Objects
      /\ image \in [Objects -> [Fields -> Objects \cup {Null}]]
  BY AddressForms, EvacuationAssumption DEF IInv, Types, TypeOK
<1>2. CASE f \in Fields /\ Load(x, y, f)
  <2> DEFINE v == field[local[y]][f]
  <2>1. /\ f \in Fields /\ local[y] # Null /\ local[y] \in Held
        /\ UNCHANGED <<hand, pinned, alloc, image>>
    BY <1>2 DEF Load, Held, heap
  <2>2. image[Obj(local[y])][f] = Name(v)
    BY <2>1, HeldIsCurrent DEF Name
  <2>3. HLive' = HLive
    BY <2>1 DEF HLive
  <2>4. CASE UNCHANGED local
    BY <2>1, <2>4, Aside
  <2>5. CASE local' = [local EXCEPT ![x] = v]
    <3> HIDE DEF v
    <3> QED
      BY <2>1, <2>2, <2>3, <2>5, Loaded
  <2> QED
    BY <1>2, <2>4, <2>5 DEF Load
<1>3. CASE Forget(x)
  <2>1. local' = [local EXCEPT ![x] = Null] /\ UNCHANGED <<hand, pinned, alloc, image>>
    BY <1>3 DEF Forget, heap
  <2>2. /\ HLocal' = [HLocal EXCEPT ![x] = Name(Null)] /\ Named(hand)' = Named(hand) /\ x \in HLocals
        /\ HLive' = HLive
    BY <2>1, GivenOne DEF HLive
  <2>3. H!Forget(x)
    BY <2>1, <2>2, Mapped DEF Name
  <2> QED
    BY <2>2, <2>3 DEF H!HNext, HLocals
<1>4. CASE Call(x)
  <2>1. local' = [local EXCEPT ![x] = pinned] /\ UNCHANGED <<hand, pinned, alloc, image>>
    BY <1>4 DEF Call, heap, IInv, Procedure
  <2>2. /\ HLocal' = [HLocal EXCEPT ![x] = Name(pinned)] /\ Named(hand)' = Named(hand)
        /\ x \in HLocals /\ "state" \in HLocals /\ HLocal["state"] = Name(pinned)
        /\ HLive' = HLive
    BY <2>1, GivenOne DEF HLive
  <2>3. H!Copy(x, "state")
    BY <2>1, <2>2, Mapped
  <2> QED
    BY <2>2, <2>3 DEF H!HNext, HLocals
<1>5. CASE Assign(x)
  <2>1. /\ prog.at = "assign" /\ local' = [local EXCEPT ![x] = hand] /\ hand' = Null
        /\ UNCHANGED <<pinned, alloc, image>>
    BY <1>5 DEF Assign, heap
  <2>2. hand # Null /\ hand \in Addresses
    BY <2>1 DEF IInv, Procedure, Types, TypeOK
  <2>3. HLocal' = [HLocal EXCEPT ![x] = Name(hand)]
    <3>1. x \in HLocals /\ x # "state" /\ \A z \in HLocals : z # "state" => z \in Locals
      BY EvacuationAssumption DEF HLocals
    <3>2. HLocal = [z \in HLocals |-> IF z = "state" THEN Name(pinned) ELSE Name(local[z])]
      BY Seen
    <3>3. HLocal' = [z \in HLocals |-> IF z = "state" THEN Name(pinned') ELSE Name(local'[z])]
      BY Seen
    <3>4. \A z \in HLocals : HLocal'[z] = IF z = x THEN Name(hand) ELSE HLocal[z]
      BY <1>1, <2>1, <3>1, <3>2, <3>3
    <3> QED
      BY <3>2, <3>3, <3>4
  <2>4. Named(hand) = Name(hand) /\ Named(hand)' = Null /\ Named(hand) # Null
    BY <1>1, <2>1, <2>2, Seen DEF Name
  <2>5. HLive' = HLive /\ x \in HLocals
    BY <2>1 DEF HLive, HLocals
  <2>6. H!Take(x)
    BY <2>1, <2>3, <2>4, <2>5, Mapped
  <2> QED
    BY <2>5, <2>6 DEF H!HNext, HLocals
<1>6. CASE Store
  <2> DEFINE v == IF prog.val = Null THEN Null ELSE Obj(prog.val)
  <2>1. /\ prog.at = "store" /\ image' = [image EXCEPT ![Obj(prog.obj)][prog.fld] = v]
        /\ UNCHANGED <<local, hand, pinned, alloc>>
    BY <1>6 DEF Store, roots
  <2>2. prog.task = "log"
    BY <2>1 DEF IInv, Procedure
  <2>3. /\ prog.fld \in Fields /\ prog.obj # Null
        /\ \E z \in Locals : local[z] = prog.obj
        /\ prog.val = Null \/ \E z \in Locals : local[z] = prog.val
    BY <2>2 DEF IInv, Procedure
  <2>4. PICK z \in Locals : local[z] = prog.obj
    BY <2>3
  <2>5. HLocal' = HLocal /\ Named(hand)' = Named(hand) /\ HLive' = HLive
    <3>1. HLocal = [w \in HLocals |-> IF w = "state" THEN Name(pinned) ELSE Name(local[w])]
      BY Seen
    <3>2. HLocal' = [w \in HLocals |-> IF w = "state" THEN Name(pinned') ELSE Name(local'[w])]
      BY Seen
    <3> QED
      BY <2>1, <3>1, <3>2, Seen DEF HLive
  <2>6. \A w \in Locals : w \in HLocals /\ HLocal[w] = Name(local[w])
    BY Seen, EvacuationAssumption DEF HLocals
  <2>7. HLocal[z] = Obj(prog.obj) /\ HLocal[z] # Null
    BY <1>1, <2>3, <2>4, <2>6 DEF Name
  <2> HIDE DEF v
  <2>8. H!Write(z, prog.fld, v)
    BY <2>1, <2>5, <2>7, Mapped
  <2>9. CASE prog.val = Null
    <3>1. v = Null
      BY <2>9 DEF v
    <3> QED
      BY <2>3, <2>6, <2>8, <3>1 DEF H!HNext, HLocals
  <2>10. CASE prog.val # Null
    <3>1. PICK w \in Locals : local[w] = prog.val
      BY <2>3, <2>10
    <3>2. v = HLocal[w]
      BY <2>6, <2>10, <3>1 DEF v, Name
    <3>3. H!Write(z, prog.fld, HLocal[w]) /\ z \in HLocals /\ w \in HLocals
      BY <2>6, <2>8, <3>2
    <3> QED
      BY <2>3, <3>3 DEF H!HNext, HLocals, HLocal
  <2> QED
    BY <2>9, <2>10
<1> QED
  BY <1>2, <1>3, <1>4, <1>5, <1>6

\* So is ws_alloc's.
LEMMA AllocateKeeps ==
  ASSUME IInv, IInv', NEW o \in Fresh, Allocate(o)
  PROVE  H!HNext
<1>1. /\ prog.at = "run" /\ At(o) \notin alloc /\ hand' = At(o) /\ alloc' = alloc \cup {At(o)}
      /\ UNCHANGED <<local, pinned, image>>
  BY DEF Allocate, Running
<1>2. hand = Null
  BY <1>1, AtEase
<1>3. /\ o \in Objects /\ o \notin Cset /\ Obj(At(o)) = o /\ At(o) # Null
      /\ alloc \subseteq Addresses
  BY AddressForms, EvacuationAssumption DEF IInv, Types, TypeOK
<1>4. o \notin HLive /\ HLive' = HLive \cup {o}
  <2>1. \A a \in alloc : Obj(a) # o
    BY <1>1, <1>3, AddressForms
  <2> QED
    BY <1>1, <1>3, <2>1 DEF HLive
<1>5. Named(hand) = Null /\ Named(hand)' = o
  BY <1>1, <1>2, <1>3, Seen DEF Name
<1>6. HLocal' = HLocal
  <2>1. HLocal = [w \in HLocals |-> IF w = "state" THEN Name(pinned) ELSE Name(local[w])]
    BY Seen
  <2>2. HLocal' = [w \in HLocals |-> IF w = "state" THEN Name(pinned') ELSE Name(local'[w])]
    BY Seen
  <2> QED
    BY <1>1, <2>1, <2>2
<1>7. H!New(o)
  BY <1>1, <1>4, <1>5, <1>6, Mapped
<1> QED
  BY <1>3, <1>7 DEF H!HNext

\* The load barrier's steps are loads, or show in nothing.
LEMMA BarrierKeeps ==
  ASSUME IInv, IInv', \/ Resolve \/ EvacuateOne \/ MemCopy \/ Forward
  PROVE  [H!HNext]_(H!heapVars)
<1> DEFINE a == prog.reg
           c == Copy(Obj(a), "program")
<1>1. Resolving
  BY DEF Resolve, EvacuateOne, MemCopy, Forward, Resolving, Copying
<1>2. a \in Keep /\ a \in Addresses /\ a \in alloc /\ UNCHANGED <<hand, pinned, image>>
  BY <1>1, Asked DEF Keep, Resolve, EvacuateOne, MemCopy, Forward
<1>3. /\ WhereItIs(a) \in Addresses /\ Obj(WhereItIs(a)) = Obj(a)
      /\ Forwarded(a) => fwd[a] = WhereItIs(a)
  BY <1>2, StaysItself, AddressForms DEF IInv, WhereItIs
<1>4. Copying => InCset(a) /\ Obj(a) \in Cset /\ c \in Addresses /\ Obj(c) = Obj(a) /\ c # a
  BY AddressForms DEF IInv, Procedure, InCset
<1> HIDE DEF a, c
<1>5. CASE Resolve
  <2>1. HLive' = HLive /\ (Answer(WhereItIs(a)) \/ UNCHANGED local) /\ UNCHANGED alloc
    BY <1>5 DEF Resolve, HLive, heap, a
  <2> QED
    BY <1>1, <1>2, <1>3, <2>1, Aside, AnswerKeeps DEF a
<1>6. CASE EvacuateOne
  <2>1. HLive' = HLive /\ UNCHANGED alloc /\ (Answer(WhereItIs(a)) \/ UNCHANGED local)
    BY <1>3, <1>6 DEF EvacuateOne, HLive, heap, a
  <2> QED
    BY <1>1, <1>2, <1>3, <2>1, Aside, AnswerKeeps DEF a
<1>7. CASE MemCopy
  <2>1. alloc' = alloc \cup {c} /\ UNCHANGED local /\ Copying
    BY <1>7 DEF MemCopy, CopyTo, Copy, Copying, a, c
  <2>2. HLive' = HLive
    BY <1>2, <1>4, <2>1 DEF HLive
  <2> QED
    BY <1>2, <2>1, <2>2, Unseen
<1>8. CASE Forward
  <2>1. Copying
    BY <1>8 DEF Forward, Copying
  <2>2. /\ alloc' \in {alloc, alloc \ {c}}
        /\ Answer(WhereItIs(a)) \/ Answer(c)
    BY <1>3, <1>8 DEF Forward, Discard, Copy, a, c
  <2>3. HLive' = HLive
    BY <1>2, <1>4, <2>1, <2>2 DEF HLive
  <2> QED
    BY <1>1, <1>2, <1>3, <1>4, <2>1, <2>2, <2>3, AnswerKeeps DEF a
<1> QED
  BY <1>5, <1>6, <1>7, <1>8

\* The pauses, the copying and the sweep show in nothing, or take garbage.
LEMMA CollectorKeeps ==
  ASSUME IInv, IInv',
         \/ FinishMarking \/ FinishEvacuation \/ ForwardOne
         \/ \E a \in Addresses : CopyOne(a) \/ Sweep(a)
  PROVE  [H!HNext]_(H!heapVars)
<1>1. /\ local \in [Locals -> Addresses \cup {Null}] /\ pinned \in Addresses \cup {Null}
      /\ alloc \subseteq Addresses /\ Null \notin Addresses
  BY AddressForms DEF IInv, Types, TypeOK
<1>2. CASE FinishMarking
  <2>1. CASE buf.satb # {}
    BY <1>2, <2>1, Aside DEF FinishMarking, roots, heap
  <2>2. CASE buf.satb = {}
    <3>1. /\ alloc' = alloc \cup {Moved(a) : a \in Movable}
          /\ local' = [x \in Locals |-> Moved(local[x])] /\ pinned' = Moved(pinned)
          /\ UNCHANGED <<hand, image>>
      BY <1>2, <2>2 DEF FinishMarking
    <3>6. \A a \in Addresses : ~Forwarded(a) /\ WhereItIs(a) = a
      <4>1. Tracing
        BY <1>2 DEF FinishMarking, IInv, Procedure, Tracing
      <4> QED
        BY <4>1 DEF IInv, Copies, Forwarded, WhereItIs
    <3>7. WhereItIs(Null) = Null
      BY DEF WhereItIs
    <3>2. \A a \in Addresses \cup {Null} : Obj(Moved(a)) = Obj(a)
      BY <3>6, <3>7 DEF Moved, Obj
    <3>3. \A a \in Addresses \cup {Null} : Moved(a) = Null <=> a = Null
      <4>1. \A a \in Movable : Moved(a) # Null
        <5>1. \A a \in Movable : Obj(a) \in Cset /\ Moved(a) = Copy(Obj(a), "program")
          BY DEF Movable, InCset, Moved, Copy
        <5> QED
          BY <5>1, AddressForms
      <4>2. /\ Null \notin Movable
            /\ \A a \in Addresses \cup {Null} : a \notin Movable => Moved(a) = a
        BY <3>6, <3>7 DEF Movable, Rooted, Moved
      <4> QED
        BY <4>1, <4>2
    <3>4. \A a \in Addresses \cup {Null} : Name(Moved(a)) = Name(a)
      BY <3>2, <3>3 DEF Name
    <3>5. HLive' = HLive
      <4>1. \A a \in Movable : a \in alloc
        BY DEF Movable, Rooted, IInv, Sound, Closed, Known, Held
      <4>2. \A a \in Movable : Obj(Moved(a)) = Obj(a)
        BY <1>1, <3>2, <4>1
      <4> QED
        BY <3>1, <4>1, <4>2 DEF HLive
    <3> QED
      BY <1>1, <3>1, <3>4, <3>5, Unseen
  <2> QED
    BY <2>1, <2>2
<1>3. CASE FinishEvacuation
  <2>1. /\ alloc' = alloc \ {a \in alloc : InCset(a)}
        /\ local' = [x \in Locals |-> WhereItIs(local[x])] /\ pinned' = WhereItIs(pinned)
        /\ image' = [o \in Objects |-> IF \E a \in alloc' : Obj(a) = o THEN image[o] ELSE H!Empty]
        /\ UNCHANGED hand /\ phase = "EvacDone"
    BY <1>3 DEF FinishEvacuation, Free
  <2>2. ~Tracing /\ alloc' \subseteq alloc
    BY <2>1 DEF Tracing
  <2>3. \A a \in Addresses \cup {Null} : Name(WhereItIs(a)) = Name(a)
    BY <1>1, StaysItself DEF IInv, Name, WhereItIs
  <2>4. \A a \in Keep : \E b \in alloc' : Obj(b) = Obj(a)
    <3> SUFFICES ASSUME NEW a \in Keep
                 PROVE  \E b \in alloc' : Obj(b) = Obj(a)
      OBVIOUS
    <3>1. coll.queue = {} /\ coll.obj = Null /\ a # Null
      BY <1>1, <2>1 DEF IInv, Copies, NoCopy, Keep
    <3>2. Forwarded(a) \/ ~InCset(a)
      BY <2>1, <3>1 DEF IInv, Gathered, Keep
    <3>3. WhereItIs(a) \in Keep /\ Obj(WhereItIs(a)) = Obj(a) /\ ~InCset(WhereItIs(a))
      BY <3>2, Follow DEF IInv
    <3> QED
      BY <2>1, <3>3 DEF Keep
  <2> QED
    BY <1>1, <2>1, <2>2, <2>3, <2>4, OnlyGarbage
<1>4. CASE ForwardOne
  <2>1. /\ coll.obj # Null /\ alloc' \in {alloc, alloc \ {Copy(Obj(coll.obj), "collector")}}
        /\ UNCHANGED <<local, hand, pinned, image>>
    BY <1>4 DEF ForwardOne, Discard, Copy, roots
  <2>2. InCset(coll.obj) /\ phase = "Evacuating"
    BY <2>1 DEF IInv, Copies, NoCopy
  <2>3. Obj(coll.obj) \in Cset /\ coll.obj = At(Obj(coll.obj)) /\ Moving
    BY <2>2 DEF InCset, Moving
  <2>4. coll.obj \in alloc
    BY <2>3, AddressForms, EvacuationAssumption DEF IInv, Existing
  <2>5. /\ Copy(Obj(coll.obj), "collector") # coll.obj
        /\ Obj(Copy(Obj(coll.obj), "collector")) = Obj(coll.obj)
    BY <2>3, AddressForms
  <2>6. HLive' = HLive
    BY <2>1, <2>4, <2>5 DEF HLive
  <2> QED
    BY <2>1, <2>6, Unseen
<1>5. ASSUME NEW a \in Addresses, CopyOne(a)
      PROVE  UNCHANGED H!heapVars
  <2>1. /\ a \in coll.queue /\ alloc' = alloc \cup {Copy(Obj(a), "collector")} /\ phase = "Evacuating"
        /\ UNCHANGED <<local, hand, pinned, image>>
    BY <1>5 DEF CopyOne, CopyTo, Copy, roots
  <2>2. InCset(a) /\ Moving
    BY <2>1 DEF IInv, Copies, Moving
  <2>3. Obj(a) \in Cset /\ a = At(Obj(a))
    BY <2>2 DEF InCset
  <2>4. a \in alloc /\ Obj(Copy(Obj(a), "collector")) = Obj(a)
    BY <2>2, <2>3, AddressForms, EvacuationAssumption DEF IInv, Existing
  <2>5. HLive' = HLive
    BY <2>1, <2>4 DEF HLive
  <2> QED
    BY <2>1, <2>5, Unseen
<1>6. ASSUME NEW a \in Addresses, Sweep(a)
      PROVE  [H!HNext]_(H!heapVars)
  <2>1. /\ phase = "Sweeping" /\ a \notin marked /\ alloc' = alloc \ {a}
        /\ image' = [o \in Objects |-> IF \E b \in alloc' : Obj(b) = o THEN image[o] ELSE H!Empty]
        /\ UNCHANGED <<local, hand, pinned>>
    BY <1>6 DEF Sweep, Garbage, Free, roots
  <2>2. ~Tracing /\ alloc' \subseteq alloc
    BY <2>1 DEF Tracing
  <2>3. \A b \in Keep : \E d \in alloc' : Obj(d) = Obj(b)
    BY <2>1 DEF Keep
  <2> QED
    BY <2>1, <2>2, <2>3, OnlyGarbage
<1> QED
  BY <1>2, <1>3, <1>4, <1>5, <1>6

\* Every step is one of the abstract heap's, or shows in nothing.
LEMMA StepKeeps ==
  ASSUME IInv, IInv', [Next]_vars
  PROVE  [H!HNext]_(H!heapVars)
<1>1. CASE UNCHANGED vars
  BY <1>1, Aside DEF vars, roots, heap
<1>2. CASE Program
  <2>1. CASE \E x, y \in Locals, f \in Fields : Load(x, y, f)
    BY <2>1, ProgramKeeps
  <2>2. CASE \E x \in Locals, f \in Fields, v \in {Null} \cup {local[y] : y \in Locals} : Barrier(x, f, v)
    BY <2>2, Aside DEF Barrier, roots
  <2>3. CASE \E x \in Locals : Forget(x) \/ Call(x) \/ Assign(x)
    BY <2>3, ProgramKeeps
  <2>4. CASE Resolve \/ EvacuateOne \/ MemCopy \/ Forward
    BY <2>4, BarrierKeeps
  <2>5. CASE Store
    BY <2>5, ProgramKeeps DEF Store, IInv, Procedure
  <2>6. CASE Log \/ Enroll \/ Collect \/ Safepoint \/ \E f \in Fields : LogField(f)
    BY <2>6, Aside DEF Log, Enroll, Collect, Safepoint, LogField, roots, heap
  <2>7. CASE \E o \in Fresh : Allocate(o)
    BY <2>7, AllocateKeeps
  <2>8. CASE FinishMarking \/ FinishEvacuation
    BY <2>8, CollectorKeeps
  <2> QED
    BY <1>2, <2>1, <2>2, <2>3, <2>4, <2>5, <2>6, <2>7, <2>8 DEF Program
<1>3. CASE Collector
  <2>1. CASE ForwardOne \/ \E a \in Addresses : CopyOne(a) \/ Sweep(a)
    BY <2>1, CollectorKeeps
  <2>2. CASE \/ TakeRecord \/ Gather \/ CopyEnds \/ SweepEnds
             \/ \E a \in Addresses : Claim(a)
             \/ \E f \in Fields : ReadField(f)
    BY <2>2, Aside DEF TakeRecord, Gather, CopyEnds, SweepEnds, Claim, ReadField, roots, heap
  <2> QED
    BY <1>3, <2>1, <2>2 DEF Collector
<1> QED
  BY <1>1, <1>2, <1>3 DEF Next

\* The program cannot tell that anything moved: it finds in each field what it last
\* stored there, and what it can reach is never freed (evacuate.rs, gc.rs), up to the
\* step with which another worker's evacuation moves something while the trace marks.
THEOREM HeapImplemented ==
  ASSUME State \notin Cset
  PROVE  Spec => ImplementsHeap
<1>1. (early \/ IInv) /\ (early \/ IInv)' /\ [Next]_vars => [early' \/ H!HNext]_(H!heapVars)
  BY StepKeeps, EarlyStays
<1> QED
  BY <1>1, Invariance, PTL DEF Spec, ImplementsHeap

=============================================================================
