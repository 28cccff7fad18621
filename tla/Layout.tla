------------------------------- MODULE Layout -------------------------------
(***************************************************************************)
(* How values sit in memory: widths, alignment and slots (layout.rs,       *)
(* repr.rs), the objects code generation builds out of them (structs,      *)
(* instantiations of generic structs, closures, arrays), the layouts it    *)
(* registers for them and how the collector reads those back (types.rs),   *)
(* and the blob a compiled program carries them in (tables.rs, aot.rs).    *)
(*                                                                         *)
(* A type is its constructor and its arguments, as Type::Con is. Nothing   *)
(* here has state; what must agree is what several walks over the same     *)
(* types compute.                                                          *)
(***************************************************************************)
EXTENDS Naturals, Sequences, FiniteSets, SequencesExt

SLOT_SIZE == 8
HEADER_SIZE == 16
ALIGN == 16
CLOSURE_CAPTURES_OFFSET == HEADER_SIZE + 8

Con(con, args) == [con |-> con, args |-> args]
Int8 == Con("i8", <<>>)
Int32 == Con("i32", <<>>)
Int64 == Con("i64", <<>>)
Bool == Con("bool", <<>>)
Void == Con("void", <<>>)
Error == Con("error", <<>>)
Text == Con("str", <<>>)
Param(n) == Con(n, <<>>)
Optional(ty) == Con("?", <<ty>>)
ErrUnion(ty) == Con("!", <<ty>>)
Array(ty) == Con("[]", <<ty>>)

Tagged(ty) == ty.con \in {"?", "!"}
Width(ty) == CASE ty.con \in {"i8", "bool"} -> 1
               [] ty.con \in {"i32", "error"} -> 4
               [] OTHER -> SLOT_SIZE

RoundUp(n, to) == ((n + to - 1) \div to) * to
AlignUp(n) == RoundUp(n, ALIGN)

RECURSIVE SlotCount(_)
SlotCount(ty) == CASE ty.con = "void" -> 0
                   [] Tagged(ty) -> 1 + SlotCount(ty.args[1])
                   [] OTHER -> 1

SizeOfTight(ty) == IF Tagged(ty) THEN 1 + Width(ty.args[1])
                   ELSE IF ty.con = "void" THEN 0 ELSE Width(ty)

\* A scalar takes its own width, a tagged value a word per slot.
SizeOf(ty) == CASE ty.con = "void" -> 0
                [] Tagged(ty) -> SlotCount(ty) * SLOT_SIZE
                [] OTHER -> Width(ty)

AlignOf(ty) == IF ty.con = "void" THEN 1
               ELSE IF Tagged(ty) THEN SLOT_SIZE ELSE Width(ty)

IsHeapPointer(ty) == ty.con \in {"str", "struct", "fn", "[]"}

RECURSIVE PtrOffsets(_, _)
PtrOffsets(ty, base) ==
  CASE ty.con = "void" -> <<>>
    [] Tagged(ty) -> PtrOffsets(ty.args[1], base + SLOT_SIZE)
    [] OTHER -> IF IsHeapPointer(ty) THEN <<base>> ELSE <<>>

\* The machine values a value rides in.
RECURSIVE SlotTypes(_)
SlotTypes(ty) ==
  CASE ty.con = "void" -> <<>>
    [] ty.con = "?" -> <<"I8">> \o SlotTypes(ty.args[1])
    [] ty.con = "!" -> <<"I32">> \o SlotTypes(ty.args[1])
    [] IsHeapPointer(ty) -> <<"PTR">>
    [] OTHER -> <<ty.con>>

PointerSlots(ty) ==
  {o \div SLOT_SIZE : o \in Range(PtrOffsets(ty, 0))}

\* Where a run of values goes: the offset of each, and the end.
Place(types, start) ==
  LET At(acc, ty) == LET at == RoundUp(acc.end, AlignOf(ty))
                     IN [offsets |-> Append(acc.offsets, at),
                         end |-> at + SizeOf(ty)]
  IN FoldLeft(At, [offsets |-> <<>>, end |-> start], types)

ElemLayout(elem) == [stride |-> SizeOf(elem), offsets |-> PtrOffsets(elem, 0)]

PlacedPointers(types, offsets) ==
  FlattenSeq([i \in DOMAIN types |-> PtrOffsets(types[i], offsets[i])])

(***************************************************************************)
(* Structs: the fields of the supertype keep the offsets it gave them, and *)
(* the rest go after its unrounded end. What a generic struct declares has *)
(* no offsets; each instantiation is placed at its arguments.              *)
(***************************************************************************)
NoFields == [types |-> <<>>, offsets |-> <<>>, end |-> HEADER_SIZE]

LayoutStruct(parent, own) ==
  LET placed == Place(own, parent.end)
  IN [types |-> parent.types \o own,
      offsets |-> parent.offsets \o placed.offsets,
      end |-> placed.end]

StructSize(laid) == AlignUp(laid.end)

RECURSIVE Substitute(_, _)
Substitute(ty, args) ==
  IF ty.con \in DOMAIN args THEN args[ty.con]
  ELSE [ty EXCEPT !.args = [i \in DOMAIN @ |-> Substitute(@[i], args)]]

InstanceFieldTypes(fields, args) ==
  [i \in DOMAIN fields |-> Substitute(fields[i], args)]

\* What lowering reads an instantiation's fields with.
StructShape(fields, args) ==
  LET types == InstanceFieldTypes(fields, args)
      placed == Place(types, HEADER_SIZE)
  IN [types |-> types, offsets |-> placed.offsets, end |-> placed.end]

(***************************************************************************)
(* The registered layouts. A fixed one has a size and the offsets of its   *)
(* references; one with elements has a stride and the offsets in each.     *)
(***************************************************************************)
Fixed(size, ptrs) ==
  [size |-> size, ptrs |-> ptrs, stride |-> 0, elems |-> <<>>]
Elements(stride, elems) ==
  [size |-> 0, ptrs |-> <<>>, stride |-> stride, elems |-> elems]

StructLayout(laid) ==
  Fixed(StructSize(laid), PlacedPointers(laid.types, laid.offsets))

InstanceLayout(fields, args) ==
  LET types == InstanceFieldTypes(fields, args)
      placed == Place(types, HEADER_SIZE)
  IN Fixed(AlignUp(placed.end), PlacedPointers(types, placed.offsets))

ArrayLayout(elem) == LET e == ElemLayout(elem)
                     IN Elements(e.stride, e.offsets)

CaptureOffsets(captures) == Place(captures, CLOSURE_CAPTURES_OFFSET)

ClosureLayout(captures) ==
  LET placed == CaptureOffsets(captures)
  IN Fixed(AlignUp(placed.end), PlacedPointers(captures, placed.offsets))

\* Every offset of an object that holds a reference, as everything that
\* traces visits them: the fixed ones, then each element's.
ForEachPtrOffset(info, aux) ==
  Range(info.ptrs) \cup
  (IF info.stride = 0 \/ info.elems = <<>> THEN {}
   ELSE {HEADER_SIZE + i * info.stride + o :
           i \in 0 .. aux - 1, o \in Range(info.elems)})

ObjectSize(info, aux) ==
  IF info.size # 0 THEN info.size ELSE AlignUp(HEADER_SIZE + aux * info.stride)

(***************************************************************************)
(* What generated code does with an object: the slot of a value at an      *)
(* offset is a word further on each, and the addresses it stores a         *)
(* reference to are those a load would put through the barrier.            *)
(***************************************************************************)
StoreSlots(ty, offset) ==
  [i \in 0 .. Len(SlotTypes(ty)) - 1 |-> offset + i * SLOT_SIZE]

ReferencesStored(ty, offset) ==
  {StoreSlots(ty, offset)[i] :
     i \in {j \in DOMAIN StoreSlots(ty, offset) :
              SlotTypes(ty)[j + 1] = "PTR"}}

LoadBarriered(ty, offset) ==
  {StoreSlots(ty, offset)[i] :
     i \in DOMAIN StoreSlots(ty, offset) \cap PointerSlots(ty)}

ArrayNewAt(elem, i) == HEADER_SIZE + i * SizeOf(elem)
ArrayNewSize(elem, count) == AlignUp(HEADER_SIZE + count * SizeOf(elem))

\* The stored objects of a case: a value per offset, and how big it was made.
StructObject(laid, info) ==
  [types |-> laid.types, offsets |-> laid.offsets, size |-> StructSize(laid),
   info |-> info, aux |-> 0]
ClosureObject(captures) ==
  [types |-> captures, offsets |-> CaptureOffsets(captures).offsets,
   size |-> ClosureLayout(captures).size, info |-> ClosureLayout(captures),
   aux |-> 0]
ArrayObject(elem, count) ==
  [types |-> [i \in 1 .. count |-> elem],
   offsets |-> [i \in 1 .. count |-> ArrayNewAt(elem, i - 1)],
   size |-> ArrayNewSize(elem, count),
   info |-> ArrayLayout(elem), aux |-> count]

\* The bytes the i-th value of an object is written to: a slot at a time, and
\* a slot takes its machine type's width.
SlotWidth(slot) == CASE slot \in {"I8", "i8", "bool"} -> 1
                     [] slot \in {"I32", "i32", "error"} -> 4
                     [] OTHER -> SLOT_SIZE
BytesOf(object, i) ==
  LET ty == object.types[i]
      at == StoreSlots(ty, object.offsets[i])
  IN UNION {at[s] .. at[s] + SlotWidth(SlotTypes(ty)[s + 1]) - 1 :
              s \in DOMAIN at}

(***************************************************************************)
(* Generated code and the collector agree about an object: no value lies   *)
(* on another or outside what the allocator made, each slot is aligned,    *)
(* the collector's idea of the size is the allocator's, and the references *)
(* it traces are those a store wrote and a load puts through the barrier,  *)
(* every one and nothing else.                                             *)
(***************************************************************************)
Traceable(object) ==
  /\ \A i, j \in DOMAIN object.types :
       i # j => BytesOf(object, i) \cap BytesOf(object, j) = {}
  /\ \A i \in DOMAIN object.types :
       /\ BytesOf(object, i) \subseteq HEADER_SIZE .. object.size - 1
       /\ \A s \in DOMAIN StoreSlots(object.types[i], object.offsets[i]) :
            StoreSlots(object.types[i], object.offsets[i])[s]
              % SlotWidth(SlotTypes(object.types[i])[s + 1]) = 0
  /\ ObjectSize(object.info, object.aux) = object.size
  /\ LET Of(Refs(_, _)) == UNION {Refs(object.types[i], object.offsets[i]) :
                                    i \in DOMAIN object.types}
     IN /\ Of(ReferencesStored) = ForEachPtrOffset(object.info, object.aux)
        /\ Of(LoadBarriered) = Of(ReferencesStored)

(***************************************************************************)
(* The blob: a word of four bytes at a time, since whatever is not one     *)
(* pads to one. Padding is by position, so the reader skips where the      *)
(* writer filled.                                                          *)
(***************************************************************************)
PadTo8(blob) == IF Len(blob) % 2 = 0 THEN blob ELSE Append(blob, 0)

PutU64(blob, v) == PadTo8(blob) \o <<v, 0>>
CodeAddr(blob, func) == PadTo8(blob) \o <<func, 0>>
PutU32s(blob, values) == blob \o <<Len(values)>> \o values
\* Bytes, with their count in front: n bytes take the words that hold them.
PutBytes(blob, data) ==
  blob \o <<Len(data)>>
       \o [w \in 1 .. (Len(data) + 3) \div 4 |->
             SubSeq(data, 4 * w - 3, IF 4 * w < Len(data) THEN 4 * w
                                     ELSE Len(data))]

NewBlob == <<"WS#T", 1>>

WriteTypes(layouts) ==
  LET One(blob, e) ==
        PutBytes(PutU32s(PutU32s(blob \o <<e.id, e.info.size, e.info.stride>>,
                                 e.info.ptrs),
                         e.info.elems),
                 e.name)
  IN FoldLeft(One, Append(NewBlob, Len(layouts)), layouts)

WriteStackMaps(codes) ==
  LET Point(blob, sp) == PutU32s(blob \o <<sp.at, sp.frame>>, sp.roots)
      One(blob, c) ==
        PadTo8(FoldLeft(Point,
                        CodeAddr(blob, c.base) \o <<c.len, Len(c.points)>>,
                        c.points))
  IN FoldLeft(One, PutU64(NewBlob, Len(codes)), codes)

WriteServices(services) ==
  LET Method(blob, m) ==
        PadTo8(PutBytes(PutBytes(PutBytes(CodeAddr(blob, m.call), m.args),
                                 m.ret), m.name))
      One(blob, s) ==
        FoldLeft(Method,
                 PadTo8(Append(PutBytes(PutBytes(CodeAddr(blob, s.init),
                                                 s.args), s.name),
                               Len(s.methods))),
                 s.methods)
  IN FoldLeft(One, PutU64(NewBlob, Len(services)), services)

\* The cursor: where it is, and the last thing it read.
Opened == [at |-> 3, got |-> <<>>]

Skip8(c) == [c EXCEPT !.at = IF (@ - 1) % 2 = 0 THEN @ ELSE @ + 1]

GetU32(blob, c) == [at |-> c.at + 1, got |-> blob[c.at]]
GetU64(blob, c) == [at |-> c.at + 2, got |-> blob[c.at]]
GetU32s(blob, c) ==
  [at |-> c.at + 1 + blob[c.at],
   got |-> SubSeq(blob, c.at + 1, c.at + blob[c.at])]
GetBytes(blob, c) ==
  LET words == (blob[c.at] + 3) \div 4
  IN [at |-> c.at + 1 + words,
      got |-> FlattenSeq(SubSeq(blob, c.at + 1, c.at + words))]

\* `n` of what Get reads, in order.
Times(n, Get(_), c) ==
  LET More(acc, k) == LET next == Get(acc)
                      IN [at |-> next.at, got |-> Append(acc.got, next.got)]
  IN FoldLeft(More, [c EXCEPT !.got = <<>>], [k \in 1 .. n |-> k])

ParseTypes(blob) ==
  LET One(c) ==
        LET id == GetU32(blob, c)
            size == GetU32(blob, id)
            stride == GetU32(blob, size)
            ptrs == GetU32s(blob, stride)
            elems == GetU32s(blob, ptrs)
            name == GetBytes(blob, elems)
        IN [at |-> name.at,
            got |-> [id |-> id.got, name |-> name.got,
                     info |-> [size |-> size.got, ptrs |-> ptrs.got,
                               stride |-> stride.got, elems |-> elems.got]]]
      count == GetU32(blob, Opened)
  IN Times(count.got, One, count).got

ParseStackMaps(blob) ==
  LET Point(c) ==
        LET at == GetU32(blob, c)
            frame == GetU32(blob, at)
            roots == GetU32s(blob, frame)
        IN [at |-> roots.at,
            got |-> [at |-> at.got, frame |-> frame.got, roots |-> roots.got]]
      One(c) ==
        LET base == GetU64(blob, c)
            len == GetU32(blob, base)
            n == GetU32(blob, len)
            points == Times(n.got, Point, n)
        IN [at |-> Skip8(points).at,
            got |-> [base |-> base.got, len |-> len.got, points |-> points.got]]
      count == GetU64(blob, Skip8(Opened))
  IN Times(count.got, One, count).got

ParseServices(blob) ==
  LET Method(c) ==
        LET call == GetU64(blob, c)
            args == GetBytes(blob, call)
            ret == GetBytes(blob, args)
            name == GetBytes(blob, ret)
        IN [at |-> Skip8(name).at,
            got |-> [call |-> call.got, args |-> args.got, ret |-> ret.got,
                     name |-> name.got]]
      One(c) ==
        LET init == GetU64(blob, c)
            args == GetBytes(blob, init)
            name == GetBytes(blob, args)
            n == GetU32(blob, name)
            methods == Times(n.got, Method, Skip8(n))
        IN [at |-> methods.at,
            got |-> [init |-> init.got, args |-> args.got, name |-> name.got,
                     methods |-> methods.got]]
      count == GetU64(blob, Skip8(Opened))
  IN Times(count.got, One, count).got

\* What a compiled program reads back is what the compiler wrote.
RoundTrips(tables) ==
  /\ ParseTypes(WriteTypes(tables.types)) = tables.types
  /\ ParseStackMaps(WriteStackMaps(tables.codes)) = tables.codes
  /\ ParseServices(WriteServices(tables.services)) = tables.services
=============================================================================
