----------------------------- MODULE StructTree -----------------------------
(***************************************************************************)
(* The tree of structs (infer.rs): which a module declares, which the      *)
(* table of statuses makes on first mention, whose supertype is whose, the *)
(* cycles that are broken, the order fields are laid out in, and the type  *)
(* ids, given out so that a subtree is a range and a test of a value's     *)
(* type one comparison (lower.rs).                                         *)
(*                                                                         *)
(* A struct is its StructId, from 1; 0 is no struct.                       *)
(***************************************************************************)
EXTENDS Integers, Sequences, FiniteSets, SequencesExt

NoStruct == 0
FirstUser == 16
\* The width of the comparison, in values: what a negative difference wraps at.
IdSpace == 1024

(***************************************************************************)
(* Declaring. A declared name that is taken is refused and makes nothing;  *)
(* a status exists once it is mentioned, and its supertypes with it.       *)
(***************************************************************************)
\* tree = [names |-> Seq, parent |-> Seq of the same length]
IdOf(tree, name) ==
  IF \E i \in DOMAIN tree.names : tree.names[i] = name
  THEN CHOOSE i \in DOMAIN tree.names : tree.names[i] = name
  ELSE NoStruct

CollectStruct(tree, name) ==
  IF IdOf(tree, name) # NoStruct THEN tree
  ELSE [names |-> Append(tree.names, name),
        parent |-> Append(tree.parent, NoStruct)]

\* The table of statuses, as far as the tree is concerned: a name's parent.
StatusTypes == [Status |-> "", Status4xx |-> "Status",
                NotFound404 |-> "Status4xx", Ok200 |-> "Status"]

RECURSIVE LookupStruct(_, _)
LookupStruct(tree, name) ==
  IF IdOf(tree, name) # NoStruct \/ name \notin DOMAIN StatusTypes THEN tree
  ELSE LET id == Len(tree.names) + 1
           made == CollectStruct(tree, name)
           up == StatusTypes[name]
           above == LookupStruct(made, up)
       IN IF up = "" THEN made
          ELSE [above EXCEPT !.parent[id] = IdOf(above, up)]

ResolveParent(tree, name, up) ==
  LET found == LookupStruct(tree, up)
  IN [found EXCEPT !.parent[IdOf(found, name)] = IdOf(found, up)]

\* A module's structs, then what each says it is below, as declared.
ResolveStructParents(decls) ==
  LET collected == FoldLeft(LAMBDA tree, d : CollectStruct(tree, d.name),
                            [names |-> <<>>, parent |-> <<>>], decls)
      Resolve(tree, d) == IF d.up = "" THEN tree
                          ELSE ResolveParent(tree, d.name, d.up)
  IN FoldLeft(Resolve, collected, decls)

(***************************************************************************)
(* Breaking cycles: from each struct up, and what leads back into the walk *)
(* loses its link.                                                         *)
(***************************************************************************)
\* Taking the link of the struct the walk began at.
RECURSIVE BreakFirst(_, _)
BreakFirst(parent, seen) ==
  LET next == parent[Last(seen)]
  IN IF next = NoStruct THEN parent
     ELSE IF next \in Range(seen) THEN [parent EXCEPT ![seen[1]] = NoStruct]
     ELSE BreakFirst(parent, Append(seen, next))

RECURSIVE BreakFrom(_, _)
BreakFrom(parent, seen) ==
  LET next == parent[Last(seen)]
  IN IF next = NoStruct THEN parent
     ELSE IF next \in Range(seen) THEN [parent EXCEPT ![Last(seen)] = NoStruct]
     ELSE BreakFrom(parent, Append(seen, next))

BreakParentCycles(parent) ==
  FoldLeft(LAMBDA p, id : BreakFrom(p, <<id>>), parent,
           [i \in 1 .. Len(parent) |-> i])

RECURSIVE Ancestry(_, _)
Ancestry(parent, id) ==
  IF id = NoStruct THEN <<>> ELSE <<id>> \o Ancestry(parent, parent[id])

IsSubtype(parent, sub, sup) == sup \in Range(Ancestry(parent, sub))

\* Supertypes first: up from each struct to what is done, and down again.
LayoutOrder(parent) ==
  LET Emit(order, id) ==
        order \o SelectSeq(Reverse(Ancestry(parent, id)),
                           LAMBDA s : s \notin Range(order))
  IN FoldLeft(Emit, <<>>, [i \in 1 .. Len(parent) |-> i])

(***************************************************************************)
(* Numbering: a walk with a stack of what is still to number and, below    *)
(* the children of a struct, the struct again, whose subtree is what the   *)
(* counter has moved by then.                                              *)
(***************************************************************************)
Children(parent, id) ==
  SelectSeq([i \in 1 .. Len(parent) |-> i], LAMBDA c : parent[c] = id)

RECURSIVE NumberFrom(_, _)
NumberFrom(parent, walk) ==
  IF walk.stack = <<>> THEN walk
  ELSE LET top == Head(walk.stack)
           rest == Tail(walk.stack)
       IN NumberFrom(parent,
            IF top.expanded
            THEN [walk EXCEPT !.stack = rest,
                              !.len[top.id] = walk.next - walk.tid[top.id]]
            ELSE [walk EXCEPT
                    !.stack = [i \in DOMAIN Children(parent, top.id) |->
                                 [id |-> Children(parent, top.id)[i],
                                  expanded |-> FALSE]]
                              \o <<[id |-> top.id, expanded |-> TRUE]>> \o rest,
                    !.tid[top.id] = walk.next,
                    !.next = walk.next + 1])

NumberStructs(parent) ==
  NumberFrom(parent,
    [tid |-> [i \in DOMAIN parent |-> FirstUser],
     len |-> [i \in DOMAIN parent |-> 1],
     next |-> FirstUser,
     stack |-> [i \in DOMAIN Children(parent, NoStruct) |->
                  [id |-> Children(parent, NoStruct)[i], expanded |-> FALSE]]])

CaseMatchesSigned(numbers, id, strukt) ==
  id - numbers.tid[strukt] < numbers.len[strukt]

\* The test generated code makes of a value's id, unsigned.
CaseMatches(numbers, id, strukt) ==
  (id - numbers.tid[strukt]) % IdSpace < numbers.len[strukt]

(***************************************************************************)
(* What is left is a forest, the links that were not on a cycle are all    *)
(* there and a cycle has lost one; a supertype is laid out before what is  *)
(* below it; and a value passes the test for a struct exactly when its     *)
(* struct is that one or below it.                                         *)
(***************************************************************************)
RECURSIVE Above(_, _, _)
Above(parent, id, steps) ==
  IF steps = 0 \/ id = NoStruct THEN {}
  ELSE {parent[id]} \cup Above(parent, parent[id], steps - 1)

OnACycle(parent, id) == id \in Above(parent, id, Len(parent))

TreeIsSound(decls) ==
  LET written == ResolveStructParents(decls).parent
      parent == BreakParentCycles(written)
      cyclic == {i \in DOMAIN written : OnACycle(written, i)}
      order == LayoutOrder(parent)
      numbers == NumberStructs(parent)
  IN /\ \A i \in DOMAIN parent : ~OnACycle(parent, i)
     /\ \A i \in DOMAIN parent \ cyclic : parent[i] = written[i]
     /\ \A i \in cyclic :
          Cardinality({j \in Above(written, i, Len(written)) :
                         parent[j] # written[j]}) = 1
     /\ Range(order) = DOMAIN parent /\ Len(order) = Len(parent)
     /\ \A a, b \in DOMAIN order : parent[order[b]] = order[a] => a < b
     /\ \A a, b \in DOMAIN parent :
          CaseMatches(numbers, numbers.tid[a], b) = IsSubtype(parent, a, b)
=============================================================================
