---------------------------- MODULE BlocksProofs ----------------------------
(***************************************************************************)
(* The metadata of the heap's blocks is exact, what is handed out next is  *)
(* clean and held once, and the statistics add up: for any number and size *)
(* of spaces, blocks and lines, and through allocations, frees, copies,    *)
(* releases and sweeps in any order.                                       *)
(*                                                                         *)
(* Each operation takes a heap to a heap, so the invariant is mostly one   *)
(* of heaps, Good, which is shown to survive them one by one. What is      *)
(* freed or moved many at a time is a fold. Its partial results are a      *)
(* function over subsets, and the subsets on which it does well are a set: *)
(* if {} is in it, and s whenever all s \ {x} are, it has every subset.    *)
(* An allocation that finds no hole opens a space, perhaps one too many.   *)
(* Next keeps to MaxSpaces, and spaces are not given back, so where a step *)
(* ends shows that no heap on the way there had too many.                  *)
(***************************************************************************)
EXTENDS Blocks, FiniteSetTheorems, WellFoundedInduction, TLAPS

-----------------------------------------------------------------------------
(* Numbers.                                                                 *)

LEMMA Division ==
  ASSUME NEW x \in Nat, NEW d \in Nat \ {0}
  PROVE  x \div d \in Nat /\ (x \div d) * d <= x /\ x < (x \div d) * d + d
OBVIOUS

LEMMA Products ==
  ASSUME NEW i \in Int, NEW j \in Int, NEW d \in Nat \ {0}, i <= j
  PROVE  i * d <= j * d
OBVIOUS

LEMMA DivisionIs ==
  ASSUME NEW x \in Nat, NEW d \in Nat \ {0}, NEW q \in Int, q * d <= x, x < (q + 1) * d
  PROVE  x \div d = q
<1>1. x \div d \in Nat /\ (x \div d) * d <= x /\ x < (x \div d) * d + d
  BY Division
<1> DEFINE r == x \div d
<1> HIDE DEF r
<1>2. r \in Nat /\ r * d <= x /\ x < r * d + d
  BY <1>1 DEF r
<1>3. ~(r + 1 <= q)
  <2>1. r + 1 <= q => (r + 1) * d <= q * d
    BY <1>2, Products
  <2>2. (r + 1) * d = r * d + d
    BY <1>2
  <2> QED
    BY <2>1, <2>2, <1>2
<1>4. ~(q + 1 <= r)
  <2>1. q + 1 <= r => (q + 1) * d <= r * d
    BY <1>2, Products
  <2> QED
    BY <2>1, <1>2
<1> QED
  BY <1>2, <1>3, <1>4 DEF r

\* What the constants are, and what is finite.
LEMMA Constants ==
  /\ MaxSpaces \in Nat \ {0} /\ SpaceBlocks \in Nat \ {0}
  /\ BlockLines \in Nat \ {0} /\ LineGranules \in Nat \ {0}
  /\ BlockGranules \in Nat \ {0} /\ BlockGranules = BlockLines * LineGranules
  /\ SparseLines \in Nat /\ MaxObjects \in Nat /\ MaxLeaked \in Nat
  /\ \A n \in Sizes : n \in Nat \ {0}
  /\ LargeSize \in Nat /\ LargeSize <= BlockGranules
BY BlocksAssumption DEF BlockGranules

LEMMA Finite ==
  /\ Cardinality(Blocks) = (MaxSpaces + 1) * SpaceBlocks
  /\ IsFiniteSet(Blocks) /\ IsFiniteSet(Addresses) /\ IsFiniteSet(Lines)
  /\ \A b \in Nat : IsFiniteSet(LinesIn(b)) /\ Cardinality(LinesIn(b)) = BlockLines
<1>1. (MaxSpaces + 1) * SpaceBlocks \in Nat
  BY Constants
<1>2. Cardinality(Blocks) = (MaxSpaces + 1) * SpaceBlocks /\ IsFiniteSet(Blocks)
  BY <1>1, FS_Interval DEF Blocks
<1>3. 0 \in Int /\ Cardinality(Blocks) * BlockGranules - 1 \in Int
      /\ Cardinality(Blocks) * BlockLines - 1 \in Int
  BY <1>1, <1>2, Constants
<1>4. IsFiniteSet(Addresses) /\ IsFiniteSet(Lines)
  BY <1>3, FS_Interval DEF Addresses, Lines
<1>5. ASSUME NEW b \in Nat
      PROVE  IsFiniteSet(LinesIn(b)) /\ Cardinality(LinesIn(b)) = BlockLines
  <2>1. b * BlockLines \in Int /\ (b + 1) * BlockLines = b * BlockLines + BlockLines
    BY Constants
  <2>2. (b + 1) * BlockLines - 1 \in Int
    BY <2>1, Constants
  <2>3. Cardinality(LinesIn(b)) = (b + 1) * BlockLines - 1 - b * BlockLines + 1
        /\ IsFiniteSet(LinesIn(b))
    BY <2>1, <2>2, Constants, FS_Interval DEF LinesIn
  <2> QED
    BY <2>1, <2>3, Constants
<1> QED
  BY <1>2, <1>4, <1>5

\* Where an address is: on a line of its block.
LEMMA Places ==
  ASSUME NEW x \in Nat
  PROVE  /\ LineIndex(x) \in Nat /\ BlockIndex(x) \in Nat
         /\ LineIndex(x) * LineGranules <= x /\ x < (LineIndex(x) + 1) * LineGranules
         /\ BlockStart(BlockIndex(x)) <= x /\ x < BlockStart(BlockIndex(x) + 1)
         /\ BlockIndex(x) * BlockLines <= LineIndex(x)
         /\ LineIndex(x) < (BlockIndex(x) + 1) * BlockLines
<1> DEFINE l == LineIndex(x)
           b == BlockIndex(x)
<1>1. l \in Nat /\ l * LineGranules <= x /\ x < l * LineGranules + LineGranules
  BY Constants, Division DEF LineIndex
<1>2. b \in Nat /\ b * BlockGranules <= x /\ x < b * BlockGranules + BlockGranules
  BY Constants, Division DEF BlockIndex
<1> HIDE DEF l, b
<1> DEFINE p == b * BlockLines
           q == (b + 1) * BlockLines
<1>3. (l + 1) * LineGranules = l * LineGranules + LineGranules
  BY <1>1, Constants
<1>4. (b + 1) * BlockGranules = b * BlockGranules + BlockGranules
  BY <1>2, Constants
<1>5. b * BlockGranules = p * LineGranules
  BY <1>2, Constants
<1>6. (b + 1) * BlockGranules = q * LineGranules
  BY <1>2, Constants
<1>7. p \in Nat /\ q \in Nat
  BY <1>2, Constants
<1> HIDE DEF p, q
<1>8. ~(l + 1 <= p)
  <2>1. l + 1 <= p => (l + 1) * LineGranules <= p * LineGranules
    BY <1>1, <1>7, Constants, Products
  <2> QED
    BY <2>1, <1>1, <1>2, <1>3, <1>5, <1>7, Constants
<1>9. ~(q <= l)
  <2>1. q <= l => q * LineGranules <= l * LineGranules
    BY <1>1, <1>7, Constants, Products
  <2> QED
    BY <2>1, <1>1, <1>2, <1>4, <1>6, <1>7, Constants
<1> QED
  BY <1>1, <1>2, <1>3, <1>4, <1>7, <1>8, <1>9 DEF l, b, p, q, BlockStart

\* And there is no other.
LEMMA LineIs ==
  ASSUME NEW x \in Nat, NEW l \in Int, l * LineGranules <= x, x < (l + 1) * LineGranules
  PROVE  LineIndex(x) = l
BY Constants, DivisionIs DEF LineIndex

LEMMA LinesApart ==
  ASSUME NEW b \in Nat, NEW c \in Nat, NEW l \in LinesIn(b), l \in LinesIn(c)
  PROVE  b = c
<1>1. /\ b * BlockLines <= l /\ l < (b + 1) * BlockLines
      /\ c * BlockLines <= l /\ l < (c + 1) * BlockLines
      /\ l \in Int /\ b * BlockLines \in Int /\ c * BlockLines \in Int
      /\ (b + 1) * BlockLines \in Int /\ (c + 1) * BlockLines \in Int
  BY Constants DEF LinesIn
<1>2. ~(b + 1 <= c)
  <2>1. b + 1 <= c => (b + 1) * BlockLines <= c * BlockLines
    BY Constants, Products
  <2> QED
    BY <1>1, <2>1
<1>3. ~(c + 1 <= b)
  <2>1. c + 1 <= b => (c + 1) * BlockLines <= b * BlockLines
    BY Constants, Products
  <2> QED
    BY <1>1, <2>1
<1> QED
  BY <1>2, <1>3

LEMMA BlockIs ==
  ASSUME NEW x \in Nat, NEW b \in Nat, LineIndex(x) \in LinesIn(b)
  PROVE  BlockIndex(x) = b
<1>1. BlockIndex(x) \in Nat /\ LineIndex(x) \in Nat
  BY Places
<1>2. LineIndex(x) \in LinesIn(BlockIndex(x))
  <2>1. BlockIndex(x) * BlockLines \in Int /\ (BlockIndex(x) + 1) * BlockLines \in Int
    BY <1>1, Constants
  <2> QED
    BY <1>1, <2>1, Places DEF LinesIn
<1> QED
  BY <1>1, <1>2, LinesApart

\* What is in a block there is.
LEMMA InBlocks ==
  /\ \A x \in Addresses : /\ x \in Nat /\ BlockIndex(x) \in Blocks /\ LineIndex(x) \in Lines
                          /\ LineIndex(x) \in LinesIn(BlockIndex(x))
  /\ \A x \in Nat : BlockIndex(x) \in Blocks => x \in Addresses
  /\ \A b \in Blocks : LinesIn(b) \subseteq Lines /\ b \in Nat
<1> DEFINE n == Cardinality(Blocks)
<1>1. n \in Nat /\ Blocks = 0 .. n - 1
  <2>1. (MaxSpaces + 1) * SpaceBlocks \in Nat
    BY Constants
  <2> QED
    BY <2>1, Finite DEF Blocks
<1> HIDE DEF n
<1>2. Addresses = 0 .. n * BlockGranules - 1 /\ Lines = 0 .. n * BlockLines - 1
  BY DEF n, Addresses, Lines
<1>3. n * BlockGranules \in Nat /\ n * BlockLines \in Nat
  BY <1>1, Constants
<1>4. ASSUME NEW b \in Blocks PROVE LinesIn(b) \subseteq Lines /\ b \in Nat
  <2>1. b \in Nat /\ b + 1 <= n
    BY <1>1
  <2>2. (b + 1) * BlockLines <= n * BlockLines /\ b * BlockLines \in Nat
        /\ (b + 1) * BlockLines \in Nat
    BY <1>1, <2>1, Constants, Products
  <2> QED
    BY <1>2, <1>3, <2>1, <2>2 DEF LinesIn
<1>5. ASSUME NEW x \in Addresses
      PROVE  /\ x \in Nat /\ BlockIndex(x) \in Blocks
             /\ LineIndex(x) \in LinesIn(BlockIndex(x))
  <2>1. x \in Nat /\ x < n * BlockGranules
    BY <1>2, <1>3
  <2>2. /\ BlockIndex(x) \in Nat /\ LineIndex(x) \in Nat
        /\ BlockIndex(x) * BlockGranules <= x
        /\ BlockIndex(x) * BlockLines <= LineIndex(x)
        /\ LineIndex(x) < (BlockIndex(x) + 1) * BlockLines
    BY <2>1, Places DEF BlockStart
  <2>3. ~(n <= BlockIndex(x))
    <3>1. n <= BlockIndex(x) => n * BlockGranules <= BlockIndex(x) * BlockGranules
      <4>1. n \in Int /\ BlockIndex(x) \in Int /\ BlockGranules \in Nat \ {0}
        BY <1>1, <2>2, Constants
      <4> QED
        BY <4>1, Products
    <3>2. BlockIndex(x) * BlockGranules \in Int
      BY <2>2, Constants
    <3> QED
      BY <3>1, <3>2, <1>3, <2>1, <2>2
  <2>4. BlockIndex(x) * BlockLines \in Int /\ (BlockIndex(x) + 1) * BlockLines \in Int
    BY <2>2, Constants
  <2> QED
    BY <1>1, <2>1, <2>2, <2>3, <2>4 DEF LinesIn
<1>6. ASSUME NEW x \in Nat, BlockIndex(x) \in Blocks PROVE x \in Addresses
  <2>1. BlockIndex(x) \in Nat /\ BlockIndex(x) + 1 <= n /\ x < (BlockIndex(x) + 1) * BlockGranules
    BY <1>1, <1>6, Places DEF BlockStart
  <2>2. (BlockIndex(x) + 1) * BlockGranules <= n * BlockGranules
    BY <1>1, <2>1, Constants, Products
  <2>3. (BlockIndex(x) + 1) * BlockGranules \in Int
    BY <2>1, Constants
  <2> QED
    BY <1>2, <1>3, <2>1, <2>2, <2>3
<1> QED
  BY <1>4, <1>5, <1>6

-----------------------------------------------------------------------------
(* Folds. A fold's steps make a function over the subsets, which is there   *)
(* if the set is finite; what is true of it follows by induction.           *)

LEMMA SubsetInduction ==
  ASSUME NEW S, IsFiniteSet(S), NEW T, {} \in T,
         \A s \in SUBSET S : s # {} /\ (\A x \in s : s \ {x} \in T) => s \in T
  PROVE  SUBSET S \subseteq T
<1> SUFFICES ASSUME (SUBSET S) \ T # {} PROVE FALSE
  OBVIOUS
<1> DEFINE Bad == (SUBSET S) \ T
<1>1. Bad \subseteq FiniteSubsetsOf(S)
  BY FS_FiniteSubsetsOfFinite
<1>2. IsWellFoundedOn(StrictSubsetOrdering(S), FiniteSubsetsOf(S))
  BY FS_StrictSubsetOrderingWellFounded
<1>3. PICK s \in Bad : \A u \in Bad : <<u, s>> \notin StrictSubsetOrdering(S)
  <2> HIDE DEF Bad
  <2> QED
    BY <1>1, <1>2, WFMin DEF Bad
<1>4. ASSUME NEW x \in s PROVE s \ {x} \in T
  <2>1. s \ {x} \in SUBSET S /\ s \in SUBSET S /\ s \ {x} # s
    OBVIOUS
  <2>2. <<s \ {x}, s>> \in StrictSubsetOrdering(S)
    BY <2>1 DEF StrictSubsetOrdering
  <2> QED
    BY <1>3, <2>1, <2>2
<1> QED
  BY <1>3, <1>4

\* A set of numbers has a least.
LEMMA Least ==
  ASSUME NEW S, IsFiniteSet(S), S \subseteq Int, S # {}
  PROVE  \E x \in S : \A y \in S : x <= y
<1> DEFINE T == {s \in SUBSET S : s = {} \/ \E x \in s : \A y \in s : x <= y}
<1>1. {} \in T
  OBVIOUS
<1>2. ASSUME NEW s \in SUBSET S, s # {}, \A x \in s : s \ {x} \in T
      PROVE  s \in T
  <2>1. PICK x \in s : TRUE
    BY <1>2
  <2>2. CASE s \ {x} = {}
    BY <2>1, <2>2
  <2>3. CASE s \ {x} # {}
    <3>1. PICK y \in s \ {x} : \A z \in s \ {x} : y <= z
      BY <1>2, <2>3
    <3>2. CASE x <= y
      BY <3>1, <3>2
    <3>3. CASE ~(x <= y)
      BY <3>1, <3>3
    <3> QED
      BY <3>2, <3>3
  <2> QED
    BY <2>2, <2>3
<1> HIDE DEF T
<1>3. S \in T
  BY <1>1, <1>2, SubsetInduction
<1> QED
  BY <1>3 DEF T

\* The steps of the three folds; c says which, and whose.
Step(c, a, h) ==
  IF c[1] = "free" THEN Free(h, a)
  ELSE IF c[1] = "move" THEN MoveOne(h, c[2], a)
  ELSE CopyOut(h, a, c[2], c[3])

Pick(s) == CHOOSE x \in s : TRUE
After(c, h, f, s) == IF s = {} THEN h ELSE Step(c, Pick(s), f[s \ {Pick(s)}])
Folds(c, h, f, S) == f = [s \in SUBSET S |-> After(c, h, f, s)]

LEMMA FoldsAgree ==
  ASSUME NEW c, NEW h, NEW S, IsFiniteSet(S), NEW X \in SUBSET S, NEW Y \in SUBSET S,
         NEW f, NEW g, Folds(c, h, f, X), Folds(c, h, g, Y),
         NEW s \in SUBSET S, s \subseteq X \cap Y
  PROVE  f[s] = g[s]
<1> DEFINE T == {u \in SUBSET S : u \subseteq X \cap Y => f[u] = g[u]}
<1>1. \A u \in SUBSET S : u \subseteq X \cap Y => f[u] = After(c, h, f, u) /\ g[u] = After(c, h, g, u)
  BY DEF Folds
<1>2. {} \in T
  BY <1>1 DEF After
<1>3. ASSUME NEW u \in SUBSET S, u # {}, \A x \in u : u \ {x} \in T
      PROVE  u \in T
  <2>1. Pick(u) \in u
    BY <1>3 DEF Pick
  <2>2. u \subseteq X \cap Y => f[u \ {Pick(u)}] = g[u \ {Pick(u)}]
    BY <1>3, <2>1
  <2> QED
    BY <1>1, <1>3, <2>2 DEF After
<1> HIDE DEF T
<1>4. s \in T
  BY <1>2, <1>3, SubsetInduction
<1> QED
  BY <1>4 DEF T

LEMMA FoldsExist ==
  ASSUME NEW c, NEW h, NEW S, IsFiniteSet(S)
  PROVE  \E f : Folds(c, h, f, S)
<1> DEFINE T == {s \in SUBSET S : \E f : Folds(c, h, f, s)}
<1>1. {} \in T
  <2> DEFINE f == [s \in SUBSET {} |-> h]
  <2>1. Folds(c, h, f, {})
    BY DEF Folds, After
  <2> QED
    BY <2>1
<1>2. ASSUME NEW s \in SUBSET S, s # {}, \A x \in s : s \ {x} \in T
      PROVE  s \in T
  <2> DEFINE G == [x \in s |-> CHOOSE f : Folds(c, h, f, s \ {x})]
             f == [u \in SUBSET s |-> IF u = {} THEN h
                                      ELSE Step(c, Pick(u), G[Pick(u)][u \ {Pick(u)}])]
  <2>1. ASSUME NEW x \in s PROVE Folds(c, h, G[x], s \ {x})
    BY <1>2
  <2> HIDE DEF G
  <2>2. ASSUME NEW u \in SUBSET s, u # {}
        PROVE  f[u \ {Pick(u)}] = G[Pick(u)][u \ {Pick(u)}]
    <3> DEFINE p == Pick(u)
               v == u \ {p}
               q == Pick(v)
    <3>1. p \in u
      BY <2>2 DEF Pick
    <3>2. v \in SUBSET s /\ v \in SUBSET (s \ {p}) /\ p \in s
      BY <3>1
    <3>3. G[p][v] = After(c, h, G[p], v)
      BY <2>1, <3>2 DEF Folds
    <3>4. CASE v = {}
      BY <3>2, <3>3, <3>4 DEF After
    <3>5. CASE v # {}
      <4>1. q \in v
        BY <3>5 DEF Pick
      <4>2. v \ {q} \subseteq (s \ {p}) \cap (s \ {q}) /\ v \ {q} \in SUBSET S
        BY <3>2
      <4>3. q \in s /\ Folds(c, h, G[q], s \ {q}) /\ Folds(c, h, G[p], s \ {p})
        BY <2>1, <3>2, <4>1
      <4>4. s \ {q} \in SUBSET S /\ s \ {p} \in SUBSET S
        OBVIOUS
      <4> DEFINE X == s \ {q}
                 Y == s \ {p}
                 w == v \ {q}
                 g == G[q]
                 k == G[p]
      <4>5. G[q][v \ {q}] = G[p][v \ {q}]
        <5>1. /\ X \in SUBSET S /\ Y \in SUBSET S /\ w \in SUBSET S /\ w \subseteq X \cap Y
              /\ Folds(c, h, g, X) /\ Folds(c, h, k, Y)
          BY <4>2, <4>3, <4>4
        <5> HIDE DEF X, Y, w, g, k
        <5>2. g[w] = k[w]
          BY <5>1, FoldsAgree
        <5> QED
          BY <5>2 DEF g, k, w
      <4> HIDE DEF q, v, p
      <4>6. f[v] = Step(c, q, G[q][v \ {q}])
        BY <3>2, <3>5 DEF q
      <4> QED
        BY <3>3, <3>5, <4>5, <4>6 DEF After, p, q, v
    <3> QED
      BY <3>4, <3>5
  <2>3. Folds(c, h, f, s)
    <3>1. \A u \in SUBSET s : f[u] = After(c, h, f, u)
      <4> SUFFICES ASSUME NEW u \in SUBSET s PROVE f[u] = After(c, h, f, u)
        OBVIOUS
      <4>1. f[u] = IF u = {} THEN h ELSE Step(c, Pick(u), G[Pick(u)][u \ {Pick(u)}])
        OBVIOUS
      <4> HIDE DEF f
      <4> QED
        BY <2>2, <4>1 DEF After
    <3> QED
      BY <3>1 DEF Folds
  <2> QED
    BY <2>3
<1> HIDE DEF T
<1>3. S \in T
  BY <1>1, <1>2, SubsetInduction
<1> QED
  BY <1>3 DEF T

\* So each of the three folds is such a function's last value.
LEMMA FreeAllFolds ==
  ASSUME NEW h, NEW S, IsFiniteSet(S)
  PROVE  \E f : Folds(<<"free">>, h, f, S) /\ FreeAll(h, S) = f[S]
<1> DEFINE Eq(f) == f = [s \in SUBSET S |->
                 IF s = {} THEN h ELSE Free(f[s \ {CHOOSE x \in s : TRUE}], CHOOSE x \in s : TRUE)]
           e == CHOOSE f : Eq(f)
<1>1. \A f : Folds(<<"free">>, h, f, S) <=> Eq(f)
  BY DEF Folds, After, Step, Pick
<1>2. FreeAll(h, S) = e[S]
  BY DEF FreeAll, FoldSet, MapThenFoldSet
<1> HIDE DEF Eq
<1>3. \E f : Eq(f)
  BY <1>1, FoldsExist
<1>4. Eq(e)
  BY <1>3
<1> QED
  BY <1>1, <1>2, <1>4

LEMMA MoveRootsFolds ==
  ASSUME NEW h, NEW t, NEW S, IsFiniteSet(S)
  PROVE  \E f : Folds(<<"move", t>>, h, f, S) /\ MoveRoots(h, t, S) = f[S]
<1> DEFINE Eq(f) == f = [s \in SUBSET S |->
                 IF s = {} THEN h ELSE MoveOne(f[s \ {CHOOSE x \in s : TRUE}], t, CHOOSE x \in s : TRUE)]
           e == CHOOSE f : Eq(f)
<1>1. \A f : Folds(<<"move", t>>, h, f, S) <=> Eq(f)
  BY DEF Folds, After, Step, Pick
<1>2. MoveRoots(h, t, S) = e[S]
  BY DEF MoveRoots, FoldSet, MapThenFoldSet
<1> HIDE DEF Eq
<1>3. \E f : Eq(f)
  BY <1>1, FoldsExist
<1>4. Eq(e)
  BY <1>3
<1> QED
  BY <1>1, <1>2, <1>4

CopiesOut(h, S, lost, mistaken) == FoldSet(LAMBDA a, g : CopyOut(g, a, lost, mistaken), h, S)

LEMMA CopiesOutFolds ==
  ASSUME NEW h, NEW lost, NEW mistaken, NEW S, IsFiniteSet(S)
  PROVE  \E f : Folds(<<"copy", lost, mistaken>>, h, f, S) /\ CopiesOut(h, S, lost, mistaken) = f[S]
<1> DEFINE Eq(f) == f = [s \in SUBSET S |->
                 IF s = {} THEN h
                 ELSE CopyOut(f[s \ {CHOOSE x \in s : TRUE}], CHOOSE x \in s : TRUE, lost, mistaken)]
           e == CHOOSE f : Eq(f)
<1>1. \A f : Folds(<<"copy", lost, mistaken>>, h, f, S) <=> Eq(f)
  BY DEF Folds, After, Step, Pick
<1>2. CopiesOut(h, S, lost, mistaken) = e[S]
  BY DEF CopiesOut, FoldSet, MapThenFoldSet
<1> HIDE DEF Eq
<1>3. \E f : Eq(f)
  BY <1>1, FoldsExist
<1>4. Eq(e)
  BY <1>3
<1> QED
  BY <1>1, <1>2, <1>4

-----------------------------------------------------------------------------
(* The invariant of a heap.                                                 *)

Heaps ==
  [spaces : Nat, state : [Blocks -> States], lines : [Lines -> Int], live : [Blocks -> Int],
   starts : SUBSET Addresses, size : [Addresses -> Nat], gone : SUBSET Addresses,
   deaf : SUBSET Addresses, leaked : Nat, clean : SUBSET Addresses, large : Nat,
   bump : Hole, tlab : [Threads -> Hole], pending : [Threads -> Nat], counted : Int]

InOneBlock(a, n) ==
  n \in Nat \ {0} /\ a + n - 1 \in Addresses /\ BlockIndex(a + n - 1) = BlockIndex(a)

BytesAt(h, a) == BytesOf(a, h.size[a])

\* Objects lie within a block, apart from each other and from what is clean.
Placed(h) ==
  /\ \A a \in h.starts : InOneBlock(a, h.size[a]) /\ BytesAt(h, a) \cap h.clean = {}
  /\ \A a, b \in h.starts : a # b => BytesAt(h, a) \cap BytesAt(h, b) = {}

On(h, l) == {a \in h.starts : l \in LinesOf(a, h.size[a])}
Used(h, b) == {l \in LinesIn(b) : h.lines[l] > 0}

\* The metadata is what one would count.
Tallied(h) ==
  /\ \A l \in Lines : h.lines[l] = Cardinality(On(h, l))
  /\ \A b \in Blocks : h.live[b] = Cardinality(Used(h, b))

StateFits(h, b) ==
  /\ h.state[b] = "Free" => h.live[b] = 0
  /\ h.state[b] \in {"Full", "Recyclable", "Evacuating"} => h.live[b] > 0
  /\ h.state[b] = "Recyclable" => h.live[b] < BlockLines
  /\ b \notin InSpaces(h) => h.state[b] = "Free"

StatesFit(h) == \A b \in Blocks : StateFits(h, b)

\* Who may hold a hole.
Holders == {"bump"} \cup Threads
HoleOf(h, i) == IF i = "bump" THEN h.bump ELSE h.tlab[i]

\* A hole is in an open block, and clean; the next hole of the block is behind it.
HoleFits(h, r) ==
  /\ r.block \in InSpaces(h) /\ h.state[r.block] = "Open"
  /\ r.block * BlockLines <= LineIndex(r.limit)
  /\ \A x \in r.cursor .. r.limit - 1 : x \in h.clean /\ BlockIndex(x) = r.block

HolesFit(h) ==
  \A i \in Holders : HoleOf(h, i) # NoHole =>
    /\ HoleFits(h, HoleOf(h, i))
    /\ \A j \in Holders \ {i} : HoleOf(h, j).block # HoleOf(h, i).block

\* What has been forwarded is in a block being emptied, and what cannot be read
\* is somewhere.
GoneFit(h) ==
  /\ \A a \in h.gone : a \in h.starts /\ h.state[BlockIndex(a)] = "Evacuating"
  /\ h.deaf \subseteq h.starts

Good(h) == h \in Heaps /\ Placed(h) /\ Tallied(h) /\ StatesFit(h) /\ HolesFit(h) /\ GoneFit(h)

-----------------------------------------------------------------------------
(* Objects, lines and holes.                                                *)

LEMMA Monotone ==
  ASSUME NEW x \in Nat, NEW y \in Nat, x <= y
  PROVE  LineIndex(x) <= LineIndex(y)
<1> DEFINE l == LineIndex(x)
           k == LineIndex(y)
<1>1. l \in Nat /\ k \in Nat /\ l * LineGranules <= x /\ y < (k + 1) * LineGranules
  BY Places
<1> HIDE DEF l, k
<1>2. k + 1 <= l => (k + 1) * LineGranules <= l * LineGranules
  BY <1>1, Constants, Products
<1>3. (k + 1) * LineGranules \in Int /\ l * LineGranules \in Int
  BY <1>1, Constants
<1> QED
  BY <1>1, <1>2, <1>3 DEF l, k

LEMMA ObjectLines ==
  ASSUME NEW a \in Addresses, NEW n, InOneBlock(a, n)
  PROVE  /\ LinesOf(a, n) \subseteq LinesIn(BlockIndex(a)) /\ LinesOf(a, n) \subseteq Lines
         /\ LineIndex(a) \in LinesOf(a, n)
         /\ a \in BytesOf(a, n)
         /\ \A x \in BytesOf(a, n) : /\ x \in Addresses /\ LineIndex(x) \in LinesOf(a, n)
                                     /\ BlockIndex(x) = BlockIndex(a)
<1> DEFINE e == a + n - 1
           b == BlockIndex(a)
<1>1. /\ a \in Nat /\ e \in Nat /\ a <= e /\ n \in Nat \ {0} /\ b \in Nat /\ b \in Blocks
      /\ BlockIndex(e) = b
  BY InBlocks DEF InOneBlock
<1>2. /\ LineIndex(a) \in Nat /\ LineIndex(e) \in Nat /\ LineIndex(a) <= LineIndex(e)
      /\ b * BlockLines <= LineIndex(a) /\ LineIndex(e) < (b + 1) * BlockLines
  BY <1>1, Places, Monotone
<1>3. b * BlockLines \in Int /\ (b + 1) * BlockLines \in Int
  BY <1>1, Constants
<1>4. LinesOf(a, n) = LineIndex(a) .. LineIndex(e)
  BY DEF LinesOf
<1> HIDE DEF e
<1>5. LinesOf(a, n) \subseteq LinesIn(b)
  BY <1>2, <1>3, <1>4 DEF LinesIn
<1>6. LineIndex(a) \in LinesOf(a, n)
  BY <1>2, <1>4
<1>7. BytesOf(a, n) = a .. e
  BY DEF BytesOf, e
<1>8. ASSUME NEW x \in BytesOf(a, n)
      PROVE  /\ x \in Addresses /\ LineIndex(x) \in LinesOf(a, n)
             /\ BlockIndex(x) = BlockIndex(a)
  <2>1. x \in Nat /\ a <= x /\ x <= e
    BY <1>1, <1>7
  <2>2. LineIndex(x) \in Nat /\ LineIndex(a) <= LineIndex(x) /\ LineIndex(x) <= LineIndex(e)
    BY <1>1, <2>1, Monotone, Places
  <2>3. LineIndex(x) \in LinesOf(a, n)
    BY <1>2, <1>4, <2>2
  <2>4. BlockIndex(x) = b
    BY <1>1, <1>5, <2>1, <2>3, BlockIs
  <2> QED
    BY <1>1, <2>1, <2>3, <2>4, InBlocks
<1> QED
  BY <1>1, <1>5, <1>6, <1>7, <1>8, InBlocks

LEMMA HoleLines ==
  ASSUME NEW b \in Blocks, NEW i \in Nat, NEW j \in Nat,
         b * BlockLines <= i, i < j, j <= (b + 1) * BlockLines
  PROVE  /\ i * LineGranules \in Nat /\ j * LineGranules \in Nat
         /\ i * LineGranules + (j - i) * LineGranules = j * LineGranules
         /\ LineIndex(j * LineGranules) = j
         /\ \A x \in i * LineGranules .. j * LineGranules - 1 :
              /\ x \in Addresses /\ BlockIndex(x) = b
              /\ LineIndex(x) \in i .. j - 1 /\ LineIndex(x) \in LinesIn(b)
<1> DEFINE lo == i * LineGranules
           hi == j * LineGranules
<1>1. lo \in Nat /\ hi \in Nat /\ b \in Nat
  BY Constants, InBlocks
<1>2. i * LineGranules + (j - i) * LineGranules = j * LineGranules
  BY Constants
<1>3. (j + 1) * LineGranules = hi + LineGranules
  BY Constants
<1>4. LineIndex(hi) = j
  BY <1>1, <1>3, Constants, LineIs
<1>5. b * BlockLines \in Int /\ (b + 1) * BlockLines \in Int
  BY <1>1, Constants
<1>6. ASSUME NEW x \in lo .. hi - 1
      PROVE  /\ x \in Addresses /\ BlockIndex(x) = b
             /\ LineIndex(x) \in i .. j - 1 /\ LineIndex(x) \in LinesIn(b)
  <2> DEFINE l == LineIndex(x)
  <2>1. x \in Nat /\ lo <= x /\ x < hi
    BY <1>1
  <2>2. l \in Nat /\ l * LineGranules <= x /\ x < (l + 1) * LineGranules
    BY <2>1, Places
  <2> HIDE DEF l
  <2>3. l * LineGranules \in Int /\ (l + 1) * LineGranules \in Int
    BY <2>2, Constants
  <2>4. ~(l + 1 <= i)
    <3>1. l + 1 <= i => (l + 1) * LineGranules <= i * LineGranules
      BY <2>2, Constants, Products
    <3> QED
      BY <3>1, <1>1, <2>1, <2>2, <2>3
  <2>5. ~(j <= l)
    <3>1. j <= l => j * LineGranules <= l * LineGranules
      BY <2>2, Constants, Products
    <3> QED
      BY <3>1, <1>1, <2>1, <2>2, <2>3
  <2>6. l \in i .. j - 1 /\ l \in LinesIn(b)
    BY <1>5, <2>2, <2>4, <2>5 DEF LinesIn
  <2>7. BlockIndex(x) = b
    BY <1>1, <2>1, <2>6, BlockIs DEF l
  <2> QED
    BY <2>1, <2>6, <2>7, InBlocks DEF l
<1> QED
  BY <1>1, <1>2, <1>4, <1>6

\* Objects are finitely many, and so are those on a line.
LEMMA ObjectsFinite ==
  ASSUME NEW h \in Heaps
  PROVE  /\ IsFiniteSet(h.starts) /\ \A l : IsFiniteSet(On(h, l))
         /\ \A b \in Nat : IsFiniteSet(Used(h, b)) /\ Cardinality(Used(h, b)) <= BlockLines
         /\ \A b \in Blocks : Cardinality(Used(h, b)) \in 0 .. BlockLines
         /\ \A l : Cardinality(On(h, l)) \in Nat
<1>1. h.starts \in SUBSET Addresses
  BY DEF Heaps
<1>2. IsFiniteSet(h.starts)
  BY <1>1, Finite, FS_Subset
<1>3. ASSUME NEW l PROVE IsFiniteSet(On(h, l)) /\ Cardinality(On(h, l)) \in Nat
  <2>1. On(h, l) \in SUBSET h.starts
    BY DEF On
  <2> QED
    BY <1>2, <2>1, FS_Subset, FS_CardinalityType
<1>4. ASSUME NEW b \in Nat
      PROVE  /\ IsFiniteSet(Used(h, b)) /\ Cardinality(Used(h, b)) <= BlockLines
             /\ Cardinality(Used(h, b)) \in Nat
  <2>1. Used(h, b) \in SUBSET LinesIn(b)
    BY DEF Used
  <2>2. IsFiniteSet(LinesIn(b)) /\ Cardinality(LinesIn(b)) = BlockLines
    BY Finite
  <2> QED
    BY <2>1, <2>2, FS_Subset, FS_CardinalityType
<1> QED
  BY <1>2, <1>3, <1>4, InBlocks, Constants

\* Nothing is on a line that counts nothing, nor in a block that has no line in use.
LEMMA EmptyLine ==
  ASSUME NEW h \in Heaps, Tallied(h), NEW l \in Lines
  PROVE  h.lines[l] \in Nat /\ (h.lines[l] = 0 <=> On(h, l) = {})
BY ObjectsFinite, FS_EmptySet DEF Tallied

LEMMA EmptyBlock ==
  ASSUME NEW h \in Heaps, Placed(h), Tallied(h), NEW b \in Blocks, h.live[b] = 0
  PROVE  ObjectsIn(h, b) = {} /\ \A l \in LinesIn(b) : h.lines[l] = 0
<1>1. Used(h, b) = {}
  BY ObjectsFinite, InBlocks, FS_EmptySet DEF Tallied
<1>2. \A l \in LinesIn(b) : l \in Lines /\ h.lines[l] = 0
  BY <1>1, EmptyLine, InBlocks DEF Used
<1>3. ASSUME NEW a \in ObjectsIn(h, b) PROVE FALSE
  <2>1. a \in h.starts /\ a \in Addresses /\ BlockIndex(a) = b
    BY DEF ObjectsIn, Heaps
  <2>2. LineIndex(a) \in LinesOf(a, h.size[a]) /\ LineIndex(a) \in LinesIn(b)
    BY <2>1, ObjectLines DEF Placed
  <2>3. a \in On(h, LineIndex(a))
    BY <2>1, <2>2 DEF On
  <2> QED
    BY <1>2, <2>2, <2>3, EmptyLine
<1> QED
  BY <1>2, <1>3

-----------------------------------------------------------------------------
(* The operations. What they leave as it is: the objects with their         *)
(* metadata, the rest of the accounts, and which blocks are being emptied.  *)

SameObjects(h, g) ==
  g.starts = h.starts /\ g.size = h.size /\ g.lines = h.lines /\ g.live = h.live

SameAccounts(h, g) ==
  /\ g.gone = h.gone /\ g.deaf = h.deaf /\ g.leaked = h.leaked
  /\ g.large = h.large /\ g.counted = h.counted

SameEmptied(h, g) ==
  \A b \in Blocks : g.state[b] = "Evacuating" <=> h.state[b] = "Evacuating"

\* Nothing but who has which hole.
Quiet(h, g) ==
  /\ SameObjects(h, g) /\ SameAccounts(h, g) /\ SameEmptied(h, g)
  /\ g.spaces \in {h.spaces, h.spaces + 1}

LEMMA SameTallies ==
  ASSUME NEW h \in Heaps, NEW g \in Heaps, SameObjects(h, g)
  PROVE  /\ Tallied(h) => Tallied(g)
         /\ Placed(h) /\ g.clean \subseteq h.clean => Placed(g)
<1>1. \A l : On(g, l) = On(h, l)
  BY DEF On, SameObjects
<1>2. \A b : Used(g, b) = Used(h, b)
  BY DEF Used, SameObjects
<1>3. Tallied(h) => Tallied(g)
  BY <1>1, <1>2 DEF Tallied, SameObjects
<1>4. Placed(h) /\ g.clean \subseteq h.clean => Placed(g)
  <2>1. \A a \in h.starts : BytesAt(g, a) = BytesAt(h, a)
    BY DEF BytesAt, SameObjects
  <2> QED
    BY <2>1 DEF Placed, SameObjects
<1> QED
  BY <1>3, <1>4

\* A block with a line that counts nothing is not all in use.
LEMMA RoomLeft ==
  ASSUME NEW h \in Heaps, Tallied(h), NEW b \in Blocks, NEW l \in LinesIn(b), h.lines[l] = 0
  PROVE  h.live[b] < BlockLines
<1>1. b \in Nat /\ IsFiniteSet(LinesIn(b)) /\ Cardinality(LinesIn(b)) = BlockLines
  BY InBlocks, Finite
<1>2. Used(h, b) \in SUBSET LinesIn(b) /\ Used(h, b) # LinesIn(b)
  BY DEF Used
<1>3. Cardinality(Used(h, b)) <= BlockLines /\ Cardinality(Used(h, b)) # BlockLines
  BY <1>1, <1>2, FS_Subset
<1>4. Cardinality(Used(h, b)) \in Nat /\ BlockLines \in Nat
  BY ObjectsFinite, Constants
<1> QED
  BY <1>3, <1>4 DEF Tallied

\* close_block gives a block back as what it is.
LEMMA CloseBlockDoes ==
  ASSUME NEW h \in Heaps, Placed(h), Tallied(h), NEW b \in Blocks
  PROVE  LET g == CloseBlock(h, b) IN
         /\ g \in Heaps /\ SameObjects(h, g) /\ SameAccounts(h, g)
         /\ g.spaces = h.spaces /\ g.pending = h.pending /\ g.bump = h.bump /\ g.tlab = h.tlab
         /\ g.clean = {a \in h.clean : BlockIndex(a) # b}
         /\ \A c \in Blocks : c # b => g.state[c] = h.state[c]
         /\ h.state[b] # "Open" => g.state[b] = h.state[b]
         /\ h.state[b] = "Open" => /\ g.state[b] \in {"Free", "Recyclable", "Full"}
                                   /\ g.state[b] = "Free" <=> h.live[b] = 0
                                   /\ g.state[b] = "Recyclable" => h.live[b] < BlockLines
<1> DEFINE d == Dirty(h, b)
<1>1. /\ d \in Heaps /\ SameObjects(h, d) /\ SameAccounts(h, d) /\ d.state = h.state
      /\ d.spaces = h.spaces /\ d.pending = h.pending /\ d.bump = h.bump /\ d.tlab = h.tlab
      /\ d.clean = {a \in h.clean : BlockIndex(a) # b}
  BY DEF Dirty, Heaps, SameObjects, SameAccounts
<1> HIDE DEF d
<1>2. CASE h.state[b] # "Open"
  <2>1. CloseBlock(h, b) = d
    BY <1>1, <1>2 DEF CloseBlock, d
  <2> QED
    BY <2>1, <1>1, <1>2
<1>3. CASE h.state[b] = "Open" /\ h.live[b] = 0
  <2> DEFINE e == ClearStarts(d, b)
             g == [e EXCEPT !.state[b] = "Free"]
  <2>1. CloseBlock(h, b) = g
    BY <1>1, <1>3 DEF CloseBlock, d, SameObjects
  <2>2. {a \in d.starts : BlockIndex(a) # b} = d.starts
    BY <1>1, <1>3, EmptyBlock DEF ObjectsIn, SameObjects
  <2>3. e = d
    BY <2>2, <1>1 DEF ClearStarts, Heaps
  <2>4. "Free" \in States
    BY DEF States
  <2>5. /\ g \in Heaps /\ SameObjects(h, g) /\ SameAccounts(h, g)
        /\ g.spaces = h.spaces /\ g.pending = h.pending /\ g.bump = h.bump /\ g.tlab = h.tlab
        /\ g.clean = d.clean /\ g.state = [h.state EXCEPT ![b] = "Free"]
    BY <1>1, <2>3, <2>4 DEF Heaps, SameObjects, SameAccounts
  <2> HIDE DEF g
  <2> QED
    BY <2>1, <2>5, <1>1, <1>3 DEF Heaps
<1>4. CASE h.state[b] = "Open" /\ h.live[b] # 0
  <2> DEFINE s == IF HasHole(d, b, b * BlockLines, 1) THEN "Recyclable" ELSE "Full"
             g == [d EXCEPT !.state[b] = s]
  <2>1. CloseBlock(h, b) = g
    BY <1>1, <1>4 DEF CloseBlock, d, SameObjects
  <2>2. s \in States /\ s \in {"Recyclable", "Full"}
    BY DEF States
  <2>3. s = "Recyclable" => h.live[b] < BlockLines
    <3> SUFFICES ASSUME HasHole(d, b, b * BlockLines, 1) PROVE h.live[b] < BlockLines
      OBVIOUS
    <3>1. PICK r \in Holes(d, b, b * BlockLines, 1) : TRUE
      BY DEF HasHole
    <3>2. b * BlockLines \in Int /\ (b + 1) * BlockLines \in Int
      BY Constants, InBlocks
    <3>3. /\ r[1] \in b * BlockLines .. (b + 1) * BlockLines - 1
          /\ r[2] \in b * BlockLines + 1 .. (b + 1) * BlockLines
          /\ r[1] < r[2] /\ \A l \in r[1] .. r[2] - 1 : d.lines[l] = 0
      BY <3>1 DEF Holes
    <3>4. r[1] \in LinesIn(b) /\ d.lines[r[1]] = 0
      BY <3>2, <3>3 DEF LinesIn
    <3> QED
      BY <3>4, <1>1, RoomLeft DEF SameObjects
  <2> HIDE DEF s
  <2>4. /\ g \in Heaps /\ SameObjects(h, g) /\ SameAccounts(h, g)
        /\ g.spaces = h.spaces /\ g.pending = h.pending /\ g.bump = h.bump /\ g.tlab = h.tlab
        /\ g.clean = d.clean /\ g.state = [h.state EXCEPT ![b] = s]
    BY <1>1, <2>2 DEF Heaps, SameObjects, SameAccounts
  <2> HIDE DEF g
  <2> QED
    BY <2>1, <2>2, <2>3, <2>4, <1>1, <1>4 DEF Heaps
<1> QED
  BY <1>2, <1>3, <1>4

\* A holder's hole set.
SetHole(h, i, r) == IF i = "bump" THEN [h EXCEPT !.bump = r] ELSE [h EXCEPT !.tlab[i] = r]

LEMMA SetHoleDoes ==
  ASSUME NEW h \in Heaps, NEW i \in Holders, NEW r \in Hole
  PROVE  LET g == SetHole(h, i, r) IN
         /\ g \in Heaps /\ SameObjects(h, g) /\ SameAccounts(h, g)
         /\ g.spaces = h.spaces /\ g.pending = h.pending /\ g.clean = h.clean /\ g.state = h.state
         /\ HoleOf(g, i) = r /\ \A j \in Holders : j # i => HoleOf(g, j) = HoleOf(h, j)
<1>1. CASE i = "bump"
  BY <1>1 DEF SetHole, Heaps, SameObjects, SameAccounts, HoleOf
<1>2. CASE i # "bump"
  <2>1. i \in Threads
    BY <1>2 DEF Holders
  <2>2. [h.tlab EXCEPT ![i] = r] \in [Threads -> Hole]
    BY <2>1 DEF Heaps
  <2>3. SetHole(h, i, r) = [h EXCEPT !.tlab = [h.tlab EXCEPT ![i] = r]]
    BY <1>2 DEF SetHole
  <2> QED
    BY <1>2, <2>1, <2>2, <2>3 DEF Heaps, SameObjects, SameAccounts, HoleOf, Holders
<1> QED
  BY <1>1, <1>2

LEMMA HolesAre ==
  /\ NoHole \in Hole /\ NoHole.block = -1
  /\ \A h \in Heaps, i \in Holders : HoleOf(h, i) \in Hole
  /\ \A h \in Heaps : InSpaces(h) \subseteq Blocks
  /\ \A b \in Blocks : b \in Nat
BY InBlocks DEF NoHole, Hole, Heaps, HoleOf, Holders, InSpaces

\* A holder gives its block back.
Retire(h, i) == SetHole(CloseBlock(h, HoleOf(h, i).block), i, NoHole)

LEMMA RetireGood ==
  ASSUME NEW h, Good(h), NEW i \in Holders, HoleOf(h, i) # NoHole
  PROVE  LET g == Retire(h, i) IN
         /\ Good(g) /\ Quiet(h, g) /\ g.spaces = h.spaces /\ g.pending = h.pending
         /\ HoleOf(g, i) = NoHole /\ \A j \in Holders : j # i => HoleOf(g, j) = HoleOf(h, j)
<1> DEFINE b == HoleOf(h, i).block
           c == CloseBlock(h, b)
           g == Retire(h, i)
<1>1. h \in Heaps /\ Placed(h) /\ Tallied(h) /\ StatesFit(h) /\ HolesFit(h) /\ GoneFit(h)
  BY DEF Good
<1>2. b \in InSpaces(h) /\ b \in Blocks /\ h.state[b] = "Open"
  BY <1>1, HolesAre DEF HolesFit, HoleFits
<1> HIDE DEF b
<1>3. /\ c \in Heaps /\ SameObjects(h, c) /\ SameAccounts(h, c)
      /\ c.spaces = h.spaces /\ c.pending = h.pending /\ c.bump = h.bump /\ c.tlab = h.tlab
      /\ c.clean = {a \in h.clean : BlockIndex(a) # b}
      /\ \A d \in Blocks : d # b => c.state[d] = h.state[d]
      /\ c.state[b] \in {"Free", "Recyclable", "Full"}
      /\ c.state[b] = "Free" <=> h.live[b] = 0
      /\ c.state[b] = "Recyclable" => h.live[b] < BlockLines
  BY <1>1, <1>2, CloseBlockDoes
<1> HIDE DEF c
<1>4. g = SetHole(c, i, NoHole)
  BY DEF Retire, c, b
<1> HIDE DEF g
<1>5. /\ g \in Heaps /\ SameObjects(c, g) /\ SameAccounts(c, g)
      /\ g.spaces = c.spaces /\ g.pending = c.pending /\ g.clean = c.clean /\ g.state = c.state
      /\ HoleOf(g, i) = NoHole /\ \A j \in Holders : j # i => HoleOf(g, j) = HoleOf(c, j)
  BY <1>3, <1>4, HolesAre, SetHoleDoes
<1>6. \A j \in Holders : HoleOf(c, j) = HoleOf(h, j)
  BY <1>3 DEF HoleOf
<1>7. SameObjects(h, g) /\ SameAccounts(h, g) /\ g.clean \subseteq h.clean
  BY <1>3, <1>5 DEF SameObjects, SameAccounts
<1>8. Placed(g) /\ Tallied(g)
  BY <1>1, <1>5, <1>7, SameTallies
<1>9. InSpaces(g) = InSpaces(h)
  BY <1>3, <1>5 DEF InSpaces
<1>10. StatesFit(g)
  <2> SUFFICES ASSUME NEW d \in Blocks PROVE StateFits(g, d)
    BY DEF StatesFit
  <2>1. StateFits(h, d) /\ g.live[d] = h.live[d]
    BY <1>1, <1>7 DEF StatesFit, SameObjects
  <2>2. CASE d = b
    <3>1. h.live[b] \in Nat
      BY <1>1, <1>2, ObjectsFinite DEF Tallied
    <3> QED
      BY <2>1, <2>2, <3>1, <1>2, <1>3, <1>5, <1>9 DEF StateFits
  <2>3. CASE d # b
    BY <2>1, <2>3, <1>3, <1>5, <1>9 DEF StateFits
  <2> QED
    BY <2>2, <2>3
<1>11. HolesFit(g)
  <2> SUFFICES ASSUME NEW j \in Holders, HoleOf(g, j) # NoHole
               PROVE  /\ HoleFits(g, HoleOf(g, j))
                      /\ \A k \in Holders \ {j} : HoleOf(g, k).block # HoleOf(g, j).block
    BY DEF HolesFit
  <2>1. j # i /\ HoleOf(g, j) = HoleOf(h, j)
    BY <1>5, <1>6
  <2>2. /\ HoleFits(h, HoleOf(h, j))
        /\ \A k \in Holders \ {j} : HoleOf(h, k).block # HoleOf(h, j).block
    BY <1>1, <2>1 DEF HolesFit
  <2>3. HoleOf(h, j).block # b /\ HoleOf(h, j).block \in Blocks /\ HoleOf(h, j).block \in Nat
    BY <1>1, <2>1, <2>2, HolesAre DEF HoleFits, b
  <2>4. HoleFits(g, HoleOf(h, j))
    BY <2>2, <2>3, <1>3, <1>5, <1>9 DEF HoleFits
  <2>5. ASSUME NEW k \in Holders \ {j} PROVE HoleOf(g, k).block # HoleOf(g, j).block
    BY <2>1, <2>2, <2>3, <1>5, <1>6, HolesAre
  <2> QED
    BY <2>1, <2>4, <2>5
<1>12. SameEmptied(h, g)
  BY <1>2, <1>3, <1>5 DEF SameEmptied
<1>13. GoneFit(g)
  <2>1. \A a \in h.gone : a \in Addresses /\ BlockIndex(a) \in Blocks
    BY <1>1, InBlocks DEF Heaps
  <2> QED
    BY <2>1, <1>1, <1>7, <1>12 DEF GoneFit, SameObjects, SameAccounts, SameEmptied
<1>14. Good(g)
  BY <1>5, <1>8, <1>10, <1>11, <1>13 DEF Good
<1>15. Quiet(h, g) /\ g.spaces = h.spaces /\ g.pending = h.pending
  BY <1>3, <1>5, <1>7, <1>12 DEF Quiet
<1> QED
  BY <1>5, <1>6, <1>14, <1>15 DEF g

\* A hole that nothing is on.
Vacant(h, r) ==
  /\ r \in Hole /\ r.block \in Blocks
  /\ r.block * BlockLines <= LineIndex(r.limit)
  /\ \A x \in r.cursor .. r.limit - 1 :
       /\ x \in Addresses /\ BlockIndex(x) = r.block
       /\ LineIndex(x) \in Lines /\ h.lines[LineIndex(x)] = 0

\* find_hole finds one, with room.
LEMMA FindHoleFinds ==
  ASSUME NEW h \in Heaps, NEW b \in Blocks, NEW from \in Nat, NEW want \in Nat \ {0},
         b * BlockLines <= from, HasHole(h, b, from, want)
  PROVE  LET r == FindHole(h, b, from, want) IN
         Vacant(h, r) /\ r.block = b /\ r.cursor + want <= r.limit
<1> DEFINE all == Holes(h, b, from, want)
           top == (b + 1) * BlockLines
           firsts == {q[1] : q \in all}
           p == CHOOSE q \in all : \A s \in all : q[1] <= s[1]
           r == FindHole(h, b, from, want)
<1>1. b \in Nat /\ b * BlockLines \in Int /\ top \in Int
  BY Constants, InBlocks
<1> HIDE DEF top
<1>2. ASSUME NEW q \in all
      PROVE  /\ q[1] \in from .. top - 1 /\ q[2] \in from + 1 .. top /\ q[1] < q[2]
             /\ \A l \in q[1] .. q[2] - 1 : h.lines[l] = 0
             /\ (q[2] - q[1]) * LineGranules >= want
  BY DEF Holes, top
<1>3. firsts \subseteq from .. top - 1 /\ firsts # {}
  BY <1>2 DEF HasHole
<1>4. IsFiniteSet(firsts) /\ firsts \subseteq Int
  <2>1. IsFiniteSet(from .. top - 1)
    BY <1>1, FS_Interval
  <2>2. firsts \in SUBSET (from .. top - 1) /\ (from .. top - 1) \subseteq Int
    BY <1>3
  <2> HIDE DEF firsts
  <2>3. IsFiniteSet(firsts)
    BY <2>1, <2>2, FS_Subset
  <2> QED
    BY <2>2, <2>3
<1>5. \E x \in firsts : \A y \in firsts : x <= y
  <2> HIDE DEF firsts
  <2> QED
    BY <1>3, <1>4, Least
<1>6. \E q \in all : \A s \in all : q[1] <= s[1]
  BY <1>5
<1> HIDE DEF all
<1>7. p \in all
  BY <1>6
<1>8. r = [block |-> b, cursor |-> p[1] * LineGranules, limit |-> p[2] * LineGranules]
  BY DEF FindHole, all
<1> DEFINE i == p[1]
           j == p[2]
<1> HIDE DEF p, r
<1>9. /\ i \in Nat /\ j \in Nat /\ b * BlockLines <= i /\ i < j /\ j <= top
      /\ \A l \in i .. j - 1 : h.lines[l] = 0
      /\ (j - i) * LineGranules >= want
  <2>1. /\ i \in from .. top - 1 /\ j \in from + 1 .. top /\ i < j
        /\ \A l \in i .. j - 1 : h.lines[l] = 0
        /\ (j - i) * LineGranules >= want
    BY <1>2, <1>7
  <2> HIDE DEF i, j
  <2>2. /\ i \in Int /\ from <= i /\ i <= top - 1 /\ j \in Int /\ j <= top
    BY <2>1, <1>1
  <2>3. b * BlockLines <= i /\ i \in Nat /\ j \in Nat
    BY <2>1, <2>2, <1>1
  <2> QED
    BY <2>1, <2>2, <2>3
<1> HIDE DEF i, j
<1>10. /\ i * LineGranules \in Nat /\ j * LineGranules \in Nat
       /\ i * LineGranules + (j - i) * LineGranules = j * LineGranules
       /\ LineIndex(j * LineGranules) = j
       /\ \A x \in i * LineGranules .. j * LineGranules - 1 :
            /\ x \in Addresses /\ BlockIndex(x) = b
            /\ LineIndex(x) \in i .. j - 1 /\ LineIndex(x) \in LinesIn(b)
  BY <1>9, HoleLines DEF top
<1>11. /\ r.block = b /\ r.cursor = i * LineGranules /\ r.limit = j * LineGranules /\ r \in Hole
  BY <1>8, <1>10 DEF i, j, Hole
<1>12. r.cursor + want <= r.limit
  <2>1. (j - i) * LineGranules \in Int
    BY <1>9, Constants
  <2> QED
    BY <2>1, <1>9, <1>10, <1>11
<1>13. b * BlockLines <= j
  BY <1>1, <1>9
<1>14. Vacant(h, r)
  BY <1>9, <1>10, <1>11, <1>13, InBlocks DEF Vacant
<1> QED
  BY <1>11, <1>12, <1>14 DEF r

\* A hole opened is clean, whatever died there.
LEMMA OpenGood ==
  ASSUME NEW h, Good(h), NEW r, Vacant(h, r), r.block \in InSpaces(h),
         h.state[r.block] \in {"Free", "Recyclable", "Open"},
         \A i \in Holders : HoleOf(h, i).block # r.block
  PROVE  LET g == OpenHole(h, r) IN
         /\ Good(g) /\ Quiet(h, g) /\ g.spaces = h.spaces /\ g.pending = h.pending
         /\ HoleFits(g, r) /\ g.bump = h.bump /\ g.tlab = h.tlab
<1> DEFINE g == OpenHole(h, r)
           b == r.block
           bytes == r.cursor .. r.limit - 1
<1>1. h \in Heaps /\ Placed(h) /\ Tallied(h) /\ StatesFit(h) /\ HolesFit(h) /\ GoneFit(h)
  BY DEF Good
<1>2. b \in Blocks /\ r \in Hole /\ "Open" \in States
  BY DEF Vacant, States
<1>3. bytes \subseteq Addresses
  BY DEF Vacant
<1>4. /\ g \in Heaps /\ SameObjects(h, g) /\ SameAccounts(h, g)
      /\ g.spaces = h.spaces /\ g.pending = h.pending /\ g.bump = h.bump /\ g.tlab = h.tlab
      /\ g.clean = h.clean \cup bytes /\ g.state = [h.state EXCEPT ![b] = "Open"]
  BY <1>1, <1>2, <1>3 DEF OpenHole, Heaps, SameObjects, SameAccounts
<1> HIDE DEF g
<1>5. \A c \in Blocks : g.state[c] = IF c = b THEN "Open" ELSE h.state[c]
  BY <1>1, <1>2, <1>4 DEF Heaps
<1>6. Tallied(g)
  BY <1>1, <1>4, SameTallies
<1>7. ASSUME NEW a \in h.starts PROVE BytesAt(h, a) \cap bytes = {}
  <2> SUFFICES ASSUME NEW x \in BytesAt(h, a), x \in bytes PROVE FALSE
    OBVIOUS
  <2>1. a \in Addresses /\ InOneBlock(a, h.size[a])
    BY <1>1 DEF Heaps, Placed
  <2>2. LineIndex(x) \in LinesOf(a, h.size[a])
    BY <2>1, ObjectLines DEF BytesAt
  <2>3. a \in On(h, LineIndex(x))
    BY <2>2 DEF On
  <2>4. LineIndex(x) \in Lines /\ h.lines[LineIndex(x)] = 0
    BY DEF Vacant
  <2> QED
    BY <2>3, <2>4, <1>1, EmptyLine
<1>8. Placed(g)
  <2>1. \A a \in h.starts : BytesAt(g, a) = BytesAt(h, a)
    BY <1>4 DEF BytesAt, SameObjects
  <2>2. \A a \in h.starts : BytesAt(h, a) \cap (h.clean \cup bytes) = {}
    BY <1>1, <1>7 DEF Placed
  <2> QED
    BY <2>1, <2>2, <1>1, <1>4 DEF Placed, SameObjects
<1>9. InSpaces(g) = InSpaces(h)
  BY <1>4 DEF InSpaces
<1>10. StatesFit(g)
  <2> SUFFICES ASSUME NEW d \in Blocks PROVE StateFits(g, d)
    BY DEF StatesFit
  <2>1. StateFits(h, d) /\ g.live[d] = h.live[d]
    BY <1>1, <1>4 DEF StatesFit, SameObjects
  <2> QED
    BY <2>1, <1>5, <1>9 DEF StateFits
<1>11. \A i \in Holders : HoleOf(g, i) = HoleOf(h, i)
  BY <1>4 DEF HoleOf
<1>12. HolesFit(g)
  <2> SUFFICES ASSUME NEW i \in Holders, HoleOf(h, i) # NoHole
               PROVE  HoleFits(g, HoleOf(h, i))
    BY <1>1, <1>11 DEF HolesFit
  <2>1. HoleFits(h, HoleOf(h, i)) /\ HoleOf(h, i).block \in Blocks
    BY <1>1, HolesAre DEF HolesFit, HoleFits
  <2> QED
    BY <2>1, <1>4, <1>5, <1>9 DEF HoleFits
<1>13. SameEmptied(h, g)
  BY <1>5 DEF SameEmptied
<1>14. GoneFit(g)
  <2>1. \A a \in h.gone : a \in Addresses /\ BlockIndex(a) \in Blocks
    BY <1>1, InBlocks DEF Heaps
  <2> QED
    BY <2>1, <1>1, <1>4, <1>13 DEF GoneFit, SameObjects, SameAccounts, SameEmptied
<1>15. HoleFits(g, r)
  BY <1>2, <1>4, <1>5, <1>9 DEF HoleFits, Vacant
<1>16. Good(g)
  BY <1>4, <1>6, <1>8, <1>10, <1>12, <1>14 DEF Good
<1>17. Quiet(h, g)
  BY <1>4, <1>13 DEF Quiet
<1> QED
  BY <1>4, <1>15, <1>16, <1>17 DEF g

\* It may be taken by whoever holds none, or given up.
LEMMA TakeGood ==
  ASSUME NEW h, Good(h), NEW i \in Holders, NEW r \in Hole,
         \/ r = NoHole
         \/ HoleFits(h, r) /\ \A j \in Holders \ {i} : HoleOf(h, j).block # r.block
  PROVE  Good(SetHole(h, i, r)) /\ Quiet(h, SetHole(h, i, r))
<1> DEFINE g == SetHole(h, i, r)
<1>1. h \in Heaps /\ Placed(h) /\ Tallied(h) /\ StatesFit(h) /\ HolesFit(h) /\ GoneFit(h)
  BY DEF Good
<1>2. /\ g \in Heaps /\ SameObjects(h, g) /\ SameAccounts(h, g)
      /\ g.spaces = h.spaces /\ g.pending = h.pending /\ g.clean = h.clean /\ g.state = h.state
      /\ HoleOf(g, i) = r /\ \A j \in Holders : j # i => HoleOf(g, j) = HoleOf(h, j)
  BY <1>1, SetHoleDoes
<1> HIDE DEF g
<1>3. Placed(g) /\ Tallied(g)
  BY <1>1, <1>2, SameTallies
<1>4. InSpaces(g) = InSpaces(h)
  BY <1>2 DEF InSpaces
<1>5. StatesFit(g) /\ GoneFit(g)
  BY <1>1, <1>2, <1>4 DEF StatesFit, StateFits, GoneFit, SameObjects, SameAccounts
<1>6. \A q : HoleFits(g, q) <=> HoleFits(h, q)
  BY <1>2, <1>4 DEF HoleFits
<1>7. HolesFit(g)
  <2> SUFFICES ASSUME NEW j \in Holders, HoleOf(g, j) # NoHole
               PROVE  /\ HoleFits(h, HoleOf(g, j))
                      /\ \A k \in Holders \ {j} : HoleOf(g, k).block # HoleOf(g, j).block
    BY <1>6 DEF HolesFit
  <2>1. CASE j = i
    BY <2>1, <1>2
  <2>2. CASE j # i
    <3>1. HoleOf(g, j) = HoleOf(h, j) /\ HoleFits(h, HoleOf(h, j))
      BY <2>2, <1>1, <1>2 DEF HolesFit
    <3>2. HoleOf(h, j).block \in Nat
      BY <3>1, <1>1, HolesAre DEF HoleFits
    <3>3. ASSUME NEW k \in Holders \ {j} PROVE HoleOf(g, k).block # HoleOf(g, j).block
      BY <2>2, <3>1, <3>2, <1>1, <1>2, HolesAre DEF HolesFit
    <3> QED
      BY <3>1, <3>3
  <2> QED
    BY <2>1, <2>2
<1>8. SameEmptied(h, g)
  BY <1>2 DEF SameEmptied
<1> QED
  BY <1>2, <1>3, <1>5, <1>7, <1>8 DEF Good, Quiet, g


-----------------------------------------------------------------------------
(* Holes found.                                                             *)

LEMMA LeastIn ==
  ASSUME NEW S, S \subseteq Blocks, S # {}
  PROVE  Min(S) \in S
<1>1. IsFiniteSet(S) /\ S \subseteq Int
  BY Finite, InBlocks, FS_Subset
<1>2. \E x \in S : \A y \in S : x <= y
  BY <1>1, Least
<1> QED
  BY <1>2 DEF Min

\* A space more: its blocks are free, and nothing else is different.
LEMMA NewSpaceGood ==
  ASSUME NEW h, Good(h), h.spaces <= MaxSpaces
  PROVE  LET g == [h EXCEPT !.spaces = @ + 1]
             b == h.spaces * SpaceBlocks
         IN /\ Good(g) /\ Quiet(h, g) /\ g.pending = h.pending
            /\ g.bump = h.bump /\ g.tlab = h.tlab
            /\ b \in Blocks /\ b \in InSpaces(g) /\ g.state[b] = "Free"
<1> DEFINE g == [h EXCEPT !.spaces = @ + 1]
           b == h.spaces * SpaceBlocks
<1>1. h \in Heaps /\ Placed(h) /\ Tallied(h) /\ StatesFit(h) /\ HolesFit(h) /\ GoneFit(h)
  BY DEF Good
<1>2. h.spaces \in Nat
  BY <1>1 DEF Heaps
<1>3. /\ g \in Heaps /\ SameObjects(h, g) /\ SameAccounts(h, g) /\ g.spaces = h.spaces + 1
      /\ g.pending = h.pending /\ g.clean = h.clean /\ g.state = h.state
      /\ g.bump = h.bump /\ g.tlab = h.tlab
  BY <1>1, <1>2 DEF Heaps, SameObjects, SameAccounts
<1> HIDE DEF g
<1>4. /\ b \in Nat /\ (h.spaces + 1) * SpaceBlocks = b + SpaceBlocks
      /\ (MaxSpaces + 1) * SpaceBlocks \in Nat
      /\ (h.spaces + 1) * SpaceBlocks <= (MaxSpaces + 1) * SpaceBlocks
  BY <1>2, Constants, Products
<1> HIDE DEF b
<1>5. b \in Blocks
  BY <1>4, Constants DEF Blocks
<1>6. b \in InSpaces(g) /\ b \notin InSpaces(h)
  BY <1>3, <1>4, <1>5, Constants DEF InSpaces, b
<1>7. InSpaces(h) \subseteq InSpaces(g)
  <2>1. \A c \in Blocks : c \in Int
    BY InBlocks
  <2> QED
    BY <2>1, <1>3, <1>4, Constants DEF InSpaces, b
<1>8. Placed(g) /\ Tallied(g)
  BY <1>1, <1>3, SameTallies
<1>9. StatesFit(g) /\ GoneFit(g)
  BY <1>1, <1>3, <1>7 DEF StatesFit, StateFits, GoneFit, SameObjects, SameAccounts
<1>10. \A i \in Holders : HoleOf(g, i) = HoleOf(h, i)
  BY <1>3 DEF HoleOf
<1>11. \A r : HoleFits(h, r) => HoleFits(g, r)
  BY <1>3, <1>7 DEF HoleFits
<1>12. HolesFit(g)
  BY <1>1, <1>10, <1>11 DEF HolesFit
<1>13. Quiet(h, g)
  BY <1>3 DEF Quiet, SameEmptied
<1>14. g.state[b] = "Free"
  BY <1>1, <1>3, <1>5, <1>6 DEF StatesFit, StateFits
<1> QED
  BY <1>3, <1>5, <1>6, <1>8, <1>9, <1>12, <1>13, <1>14 DEF Good, g, b

\* The whole of a free block is a hole.
LEMMA FreeBlockVacant ==
  ASSUME NEW h, Good(h), NEW b \in Blocks, h.state[b] = "Free",
         NEW want \in Nat, want <= BlockGranules
  PROVE  LET r == [block |-> b, cursor |-> BlockStart(b), limit |-> BlockStart(b + 1)]
         IN Vacant(h, r) /\ r.block = b /\ r.cursor + want <= r.limit
<1> DEFINE i == b * BlockLines
           j == (b + 1) * BlockLines
           r == [block |-> b, cursor |-> BlockStart(b), limit |-> BlockStart(b + 1)]
<1>1. h \in Heaps /\ Placed(h) /\ Tallied(h) /\ h.live[b] = 0
  BY DEF Good, StatesFit, StateFits
<1>2. \A l \in LinesIn(b) : h.lines[l] = 0
  BY <1>1, EmptyBlock
<1>3. b \in Nat /\ i \in Nat /\ j \in Nat /\ i < j /\ LinesIn(b) \subseteq Lines
  BY InBlocks, Constants
<1>4. BlockStart(b) = i * LineGranules /\ BlockStart(b + 1) = j * LineGranules
  BY <1>3, Constants DEF BlockStart
<1>5. BlockStart(b + 1) = BlockStart(b) + BlockGranules
  BY <1>3, Constants DEF BlockStart
<1>6. r.block = b /\ r.cursor = i * LineGranules /\ r.limit = j * LineGranules
  BY <1>4
<1> HIDE DEF i, j, r
<1>7. /\ i * LineGranules \in Nat /\ j * LineGranules \in Nat
      /\ LineIndex(j * LineGranules) = j
      /\ \A x \in i * LineGranules .. j * LineGranules - 1 :
           x \in Addresses /\ BlockIndex(x) = b /\ LineIndex(x) \in LinesIn(b)
  BY <1>3, HoleLines DEF i, j
<1>8. r \in Hole
  BY <1>3, <1>4, <1>7 DEF r, Hole
<1>9. b * BlockLines <= j
  BY <1>3 DEF i
<1>10. Vacant(h, r)
  BY <1>2, <1>3, <1>6, <1>7, <1>8, <1>9 DEF Vacant
<1>11. r.cursor + want <= r.limit
  BY <1>4, <1>5, <1>6, <1>7, Constants
<1> QED
  BY <1>6, <1>10, <1>11 DEF r

LEMMA SearchGood ==
  ASSUME NEW h, Good(h), h.spaces <= MaxSpaces,
         NEW want \in Nat \ {0}, want <= BlockGranules
  PROVE  LET s == Search(h, want) IN
         /\ Good(s.heap) /\ Quiet(h, s.heap) /\ s.heap.pending = h.pending
         /\ s.heap.bump = h.bump /\ s.heap.tlab = h.tlab
         /\ Vacant(s.heap, s.hole) /\ s.hole.cursor + want <= s.hole.limit
         /\ s.hole.block \in InSpaces(s.heap)
         /\ s.heap.state[s.hole.block] \in {"Free", "Recyclable"}
<1> DEFINE refill == Candidates(h, want, "Recyclable")
           free == Candidates(h, want, "Free")
           b == h.spaces * SpaceBlocks
           s == Search(h, want)
<1>1. h \in Heaps
  BY DEF Good
<1>2. Quiet(h, h)
  BY <1>1 DEF Quiet, SameObjects, SameAccounts, SameEmptied, Heaps
<1>3. ASSUME NEW st \in {"Free", "Recyclable"}, NEW S, S = Candidates(h, want, st), S # {}
      PROVE  LET r == FindHole(h, Min(S), Min(S) * BlockLines, want) IN
             /\ Vacant(h, r) /\ r.cursor + want <= r.limit /\ r.block \in InSpaces(h)
             /\ h.state[r.block] \in {"Free", "Recyclable"}
  <2>1. S \subseteq Blocks
    BY <1>3 DEF Candidates, InSpaces
  <2>2. Min(S) \in S
    BY <1>3, <2>1, LeastIn
  <2> DEFINE m == Min(S)
  <2>3. /\ m \in Blocks /\ m \in InSpaces(h) /\ h.state[m] = st
        /\ HasHole(h, m, m * BlockLines, want)
    BY <1>3, <2>1, <2>2 DEF Candidates
  <2> HIDE DEF m
  <2>4. m * BlockLines \in Nat /\ m * BlockLines <= m * BlockLines
    BY <2>3, InBlocks, Constants
  <2>5. LET r == FindHole(h, m, m * BlockLines, want) IN
        Vacant(h, r) /\ r.block = m /\ r.cursor + want <= r.limit
    BY <1>1, <2>3, <2>4, FindHoleFinds
  <2> QED
    BY <2>3, <2>5 DEF m
<1>4. CASE refill # {}
  <2>1. s.heap = h /\ s.hole = FindHole(h, Min(refill), Min(refill) * BlockLines, want)
    BY <1>4 DEF Search
  <2> HIDE DEF refill, s
  <2> QED
    BY <1>2, <1>3, <1>4, <2>1 DEF refill, s
<1>5. CASE refill = {} /\ free # {}
  <2>1. s.heap = h /\ s.hole = FindHole(h, Min(free), Min(free) * BlockLines, want)
    BY <1>5 DEF Search
  <2> HIDE DEF free, s
  <2> QED
    BY <1>2, <1>3, <1>5, <2>1 DEF free, s
<1>6. CASE refill = {} /\ free = {}
  <2> DEFINE g == [h EXCEPT !.spaces = @ + 1]
             r == [block |-> b, cursor |-> BlockStart(b), limit |-> BlockStart(b + 1)]
  <2>1. s.heap = g /\ s.hole = r
    BY <1>6 DEF Search
  <2>2. /\ Good(g) /\ Quiet(h, g) /\ g.pending = h.pending
        /\ g.bump = h.bump /\ g.tlab = h.tlab
        /\ b \in Blocks /\ b \in InSpaces(g) /\ g.state[b] = "Free"
    BY NewSpaceGood
  <2> HIDE DEF g, b
  <2>3. Vacant(g, r) /\ r.block = b /\ r.cursor + want <= r.limit
    BY <2>2, FreeBlockVacant
  <2> HIDE DEF r, s
  <2> QED
    BY <2>1, <2>2, <2>3 DEF s
<1> QED
  BY <1>4, <1>5, <1>6

LEMMA SameHeap ==
  ASSUME NEW g \in Heaps, NEW k \in Heaps, SameObjects(g, k), SameAccounts(g, k),
         g.spaces = k.spaces, g.state = k.state, g.clean = k.clean,
         g.bump = k.bump, g.tlab = k.tlab, g.pending = k.pending
  PROVE  g = k
BY DEF Heaps, SameObjects, SameAccounts

LEMMA OpenThenDrop ==
  ASSUME NEW h \in Heaps, NEW r \in Hole, r.block \in Blocks, r.cursor .. r.limit - 1 \subseteq Addresses
  PROVE  /\ SetHole(OpenHole(h, r), "bump", NoHole) = OpenHole(SetHole(h, "bump", NoHole), r)
         /\ h.bump = NoHole => SetHole(OpenHole(h, r), "bump", NoHole) = OpenHole(h, r)
         /\ OpenHole(h, r) \in Heaps
<1> DEFINE d == SetHole(h, "bump", NoHole)
           o == OpenHole(h, r)
<1>1. /\ "bump" \in Holders /\ NoHole \in Hole /\ "Open" \in States
  BY HolesAre DEF Holders, States
<1>2. /\ d \in Heaps /\ SameObjects(h, d) /\ SameAccounts(h, d) /\ d.spaces = h.spaces
      /\ d.state = h.state /\ d.clean = h.clean /\ d.bump = NoHole /\ d.tlab = h.tlab
      /\ d.pending = h.pending
  BY <1>1 DEF SetHole, Heaps, SameObjects, SameAccounts
<1> HIDE DEF d
<1>3. ASSUME NEW k \in Heaps
      PROVE  LET e == OpenHole(k, r) IN
             /\ e \in Heaps /\ SameObjects(k, e) /\ SameAccounts(k, e) /\ e.spaces = k.spaces
             /\ e.state = [k.state EXCEPT ![r.block] = "Open"]
             /\ e.clean = k.clean \cup (r.cursor .. r.limit - 1)
             /\ e.bump = k.bump /\ e.tlab = k.tlab /\ e.pending = k.pending
  BY <1>1 DEF OpenHole, Heaps, SameObjects, SameAccounts
<1> DEFINE x == SetHole(o, "bump", NoHole)
           y == OpenHole(d, r)
<1>4. /\ o \in Heaps /\ SameObjects(h, o) /\ SameAccounts(h, o) /\ o.spaces = h.spaces
      /\ o.state = [h.state EXCEPT ![r.block] = "Open"]
      /\ o.clean = h.clean \cup (r.cursor .. r.limit - 1)
      /\ o.bump = h.bump /\ o.tlab = h.tlab /\ o.pending = h.pending
  BY <1>3
<1>5. /\ y \in Heaps /\ SameObjects(d, y) /\ SameAccounts(d, y) /\ y.spaces = d.spaces
      /\ y.state = [d.state EXCEPT ![r.block] = "Open"]
      /\ y.clean = d.clean \cup (r.cursor .. r.limit - 1)
      /\ y.bump = d.bump /\ y.tlab = d.tlab /\ y.pending = d.pending
  BY <1>2, <1>3
<1> HIDE DEF o, y
<1>6. /\ x \in Heaps /\ SameObjects(o, x) /\ SameAccounts(o, x) /\ x.spaces = o.spaces
      /\ x.state = o.state /\ x.clean = o.clean /\ x.bump = NoHole /\ x.tlab = o.tlab
      /\ x.pending = o.pending
  BY <1>1, <1>4 DEF SetHole, Heaps, SameObjects, SameAccounts
<1> HIDE DEF x
<1>7. x = y
  <2>1. /\ SameObjects(x, y) /\ SameAccounts(x, y)
    BY <1>2, <1>4, <1>5, <1>6 DEF SameObjects, SameAccounts
  <2>2. /\ x.spaces = y.spaces /\ x.state = y.state /\ x.clean = y.clean
        /\ x.bump = y.bump /\ x.tlab = y.tlab /\ x.pending = y.pending
    BY <1>2, <1>4, <1>5, <1>6
  <2> QED
    BY <2>1, <2>2, <1>5, <1>6, SameHeap
<1>8. h.bump = NoHole => x = o
  <2> SUFFICES ASSUME h.bump = NoHole PROVE x = o
    OBVIOUS
  <2>1. SameObjects(x, o) /\ SameAccounts(x, o)
    BY <1>6 DEF SameObjects, SameAccounts
  <2>2. /\ x.spaces = o.spaces /\ x.state = o.state /\ x.clean = o.clean
        /\ x.bump = o.bump /\ x.tlab = o.tlab /\ x.pending = o.pending
    BY <1>4, <1>6
  <2> QED
    BY <2>1, <2>2, <1>4, <1>6, SameHeap
<1> QED
  BY <1>4, <1>7, <1>8 DEF d, o, x, y

\* A hole with room, in nobody's block, whatever happens to the copies' own.
Reserved(h, r, want) ==
  LET g == SetHole(r.heap, "bump", NoHole) IN
  /\ r.heap \in Heaps /\ Good(g) /\ Quiet(h, g) /\ g.pending = h.pending
  /\ g.bump = NoHole /\ g.tlab = h.tlab
  /\ r.hole \in Hole /\ HoleFits(g, r.hole) /\ r.hole.cursor + want <= r.hole.limit
  /\ \A i \in Holders : HoleOf(g, i).block # r.hole.block

LEMMA QuietTwice ==
  ASSUME NEW h, NEW g, NEW k, Quiet(h, g), Quiet(g, k), g.spaces = h.spaces \/ k.spaces = g.spaces
  PROVE  Quiet(h, k)
BY DEF Quiet, SameObjects, SameAccounts, SameEmptied

LEMMA SearchReserves ==
  ASSUME NEW h, Good(h), h.spaces <= MaxSpaces, h.bump = NoHole,
         NEW want \in Nat \ {0}, want <= BlockGranules
  PROVE  LET s == Search(h, want) IN
         Reserved(h, [heap |-> OpenHole(s.heap, s.hole), hole |-> s.hole], want)
<1> DEFINE k == Search(h, want).heap
           q == Search(h, want).hole
           o == OpenHole(k, q)
           r == [heap |-> o, hole |-> q]
<1>1. /\ Good(k) /\ Quiet(h, k) /\ k.pending = h.pending
      /\ k.bump = h.bump /\ k.tlab = h.tlab
      /\ Vacant(k, q) /\ q.cursor + want <= q.limit
      /\ q.block \in InSpaces(k) /\ k.state[q.block] \in {"Free", "Recyclable"}
  BY SearchGood
<1> HIDE DEF k, q
<1>2. \A i \in Holders : HoleOf(k, i).block # q.block
  <2> SUFFICES ASSUME NEW i \in Holders PROVE HoleOf(k, i).block # q.block
    OBVIOUS
  <2>1. q.block \in Nat
    BY <1>1, InBlocks DEF Vacant
  <2>2. CASE HoleOf(k, i) = NoHole
    BY <2>1, <2>2, HolesAre
  <2>3. CASE HoleOf(k, i) # NoHole
    BY <2>3, <1>1 DEF Good, HolesFit, HoleFits
  <2> QED
    BY <2>2, <2>3
<1>3. /\ Good(o) /\ Quiet(k, o) /\ o.spaces = k.spaces /\ o.pending = k.pending
      /\ HoleFits(o, q) /\ o.bump = k.bump /\ o.tlab = k.tlab
  BY <1>1, <1>2, OpenGood
<1>4. q \in Hole /\ q.block \in Blocks /\ q.cursor .. q.limit - 1 \subseteq Addresses /\ k \in Heaps
  BY <1>1 DEF Vacant, Good
<1>5. SetHole(o, "bump", NoHole) = o /\ o \in Heaps
  BY <1>1, <1>4, OpenThenDrop
<1> HIDE DEF o
<1>6. Quiet(h, o)
  BY <1>1, <1>3, QuietTwice
<1>7. \A i \in Holders : HoleOf(o, i) = HoleOf(k, i)
  BY <1>3 DEF HoleOf
<1>8. r.heap = o /\ r.hole = q
  OBVIOUS
<1> HIDE DEF r
<1>9. Reserved(h, r, want)
  BY <1>1, <1>2, <1>3, <1>4, <1>5, <1>6, <1>7, <1>8 DEF Reserved
<1> QED
  BY <1>9 DEF r, o, k, q

LEMMA ReserveGood ==
  ASSUME NEW h, Good(h), h.spaces <= MaxSpaces,
         NEW want \in Nat \ {0}, want <= BlockGranules
  PROVE  Reserved(h, Reserve(h, want), want)
<1> DEFINE b == h.bump.block
           next == LineIndex(h.bump.limit)
           again == h.bump # NoHole /\ HasHole(h, b, next, want)
<1>1. h \in Heaps /\ HolesFit(h) /\ "bump" \in Holders /\ HoleOf(h, "bump") = h.bump
  BY DEF Good, Holders, HoleOf
<1>2. CASE again
  <2> DEFINE q == FindHole(h, b, next, want)
             d == SetHole(h, "bump", NoHole)
             y == OpenHole(d, q)
             o == OpenHole(h, q)
             r == [heap |-> o, hole |-> q]
  <2>1. Reserve(h, want) = r
    BY <1>2 DEF Reserve
  <2>2. /\ b \in InSpaces(h) /\ h.state[b] = "Open" /\ b * BlockLines <= next /\ next \in Nat
        /\ \A j \in Holders \ {"bump"} : HoleOf(h, j).block # b
        /\ b \in Blocks /\ h.bump \in Hole
    <3>1. HoleFits(h, h.bump) /\ \A j \in Holders \ {"bump"} : HoleOf(h, j).block # b
      BY <1>1, <1>2 DEF HolesFit
    <3>2. h.bump.limit \in Nat /\ h.bump \in Hole
      BY <1>1 DEF Heaps, Hole
    <3> QED
      BY <3>1, <3>2, <1>1, HolesAre, Places DEF HoleFits
  <2>3. HasHole(h, b, next, want)
    BY <1>2
  <2> HIDE DEF b, next
  <2>4. Vacant(h, q) /\ q.block = b /\ q.cursor + want <= q.limit
    BY <1>1, <2>2, <2>3, FindHoleFinds
  <2> HIDE DEF q
  <2>5. /\ d \in Heaps /\ SameObjects(h, d)
        /\ d.spaces = h.spaces /\ d.pending = h.pending /\ d.state = h.state
        /\ HoleOf(d, "bump") = NoHole
        /\ \A j \in Holders : j # "bump" => HoleOf(d, j) = HoleOf(h, j)
    BY <1>1, HolesAre, SetHoleDoes
  <2>6. Good(d) /\ Quiet(h, d)
    BY <1>1, HolesAre, TakeGood
  <2>7. d.tlab = h.tlab
    <3>1. d = [h EXCEPT !.bump = NoHole]
      BY DEF SetHole
    <3> QED
      BY <3>1, <1>1 DEF Heaps
  <2> HIDE DEF d
  <2>8. Vacant(d, q)
    BY <2>4, <2>5 DEF Vacant, SameObjects
  <2>9. \A j \in Holders : HoleOf(d, j).block # b
    BY <2>2, <2>5, HolesAre
  <2>10. q.block \in InSpaces(d)
    BY <2>2, <2>4, <2>5 DEF InSpaces
  <2>11. /\ Good(y) /\ Quiet(d, y) /\ y.spaces = d.spaces /\ y.pending = d.pending
         /\ HoleFits(y, q) /\ y.bump = d.bump /\ y.tlab = d.tlab
    BY <2>2, <2>4, <2>5, <2>6, <2>8, <2>9, <2>10, OpenGood
  <2>12. q \in Hole /\ q.block \in Blocks /\ q.cursor .. q.limit - 1 \subseteq Addresses
    BY <2>4 DEF Vacant
  <2>13. SetHole(o, "bump", NoHole) = y /\ o \in Heaps
    BY <1>1, <2>12, OpenThenDrop DEF d
  <2> HIDE DEF y, o
  <2>14. Quiet(h, y)
    BY <2>6, <2>11, QuietTwice
  <2>15. \A i \in Holders : HoleOf(y, i) = HoleOf(d, i)
    BY <2>11 DEF HoleOf
  <2>16. d.bump = NoHole
    BY <2>5 DEF HoleOf
  <2>17. r.heap = o /\ r.hole = q
    OBVIOUS
  <2> HIDE DEF r
  <2>18. Reserved(h, r, want)
    BY <2>4, <2>5, <2>7, <2>9, <2>11, <2>12, <2>13, <2>14, <2>15, <2>16, <2>17 DEF Reserved
  <2> QED
    BY <2>1, <2>18
<1>3. CASE ~again /\ h.bump = NoHole
  <2> DEFINE s == Search(h, want)
             r == [heap |-> OpenHole(s.heap, s.hole), hole |-> s.hole]
  <2>1. Reserve(h, want) = r
    BY <1>3 DEF Reserve
  <2>2. Reserved(h, r, want)
    BY <1>3, SearchReserves
  <2> HIDE DEF r
  <2> QED
    BY <2>1, <2>2
<1>4. CASE ~again /\ h.bump # NoHole
  <2> DEFINE d == PutBack(h)
             s == Search(d, want)
             r == [heap |-> OpenHole(s.heap, s.hole), hole |-> s.hole]
  <2>1. Reserve(h, want) = r
    BY <1>4 DEF Reserve
  <2>2. d = Retire(h, "bump")
    BY <1>1 DEF PutBack, Retire, SetHole
  <2>3. /\ Good(d) /\ Quiet(h, d) /\ d.spaces = h.spaces /\ d.pending = h.pending
        /\ HoleOf(d, "bump") = NoHole /\ \A j \in Holders : j # "bump" => HoleOf(d, j) = HoleOf(h, j)
    BY <1>1, <1>4, <2>2, RetireGood
  <2> HIDE DEF d
  <2>4. d.bump = NoHole /\ d.tlab = h.tlab
    <3>1. \A t \in Threads : d.tlab[t] = h.tlab[t]
      BY <2>3 DEF HoleOf, Holders, Threads
    <3> QED
      BY <3>1, <2>3, <1>1 DEF HoleOf, Good, Heaps
  <2>5. Reserved(d, r, want)
    BY <2>3, <2>4, SearchReserves
  <2> HIDE DEF r
  <2>6. Reserved(h, r, want)
    <3> DEFINE g == SetHole(r.heap, "bump", NoHole)
    <3>1. Quiet(d, g) /\ g.pending = d.pending /\ g.tlab = d.tlab
      BY <2>5 DEF Reserved
    <3> HIDE DEF g
    <3>2. Quiet(h, g)
      BY <2>3, <3>1, QuietTwice
    <3> QED
      BY <2>3, <2>4, <2>5, <3>1, <3>2 DEF Reserved, g
  <2> QED
    BY <2>1, <2>6
<1> QED
  BY <1>2, <1>3, <1>4

-----------------------------------------------------------------------------
(* The buffers.                                                             *)

\* As it was, but for holes and for what has been reported.
Ready(h, g) ==
  /\ SameObjects(h, g) /\ SameEmptied(h, g)
  /\ g.gone = h.gone /\ g.deaf = h.deaf /\ g.leaked = h.leaked /\ g.large = h.large
  /\ Reported(g) = Reported(h)
  /\ g.spaces \in {h.spaces, h.spaces + 1}

LEMMA QuietReady ==
  ASSUME NEW h, NEW g, Quiet(h, g), g.pending = h.pending
  PROVE  Ready(h, g)
BY DEF Quiet, Ready, SameAccounts, Reported

LEMMA ReadyTwice ==
  ASSUME NEW h, NEW g, NEW k, Ready(h, g), Ready(g, k), g.spaces = h.spaces
  PROVE  Ready(h, k)
BY DEF Ready, SameObjects, SameEmptied

LEMMA Apart == Threads = {"program", "collector"} /\ "program" # "collector" /\ "bump" \notin Threads
BY DEF Threads

LEMMA FlushGood ==
  ASSUME NEW h, Good(h), NEW t \in Threads
  PROVE  LET g == FlushCounters(h, t) IN
         /\ Good(g) /\ Ready(h, g) /\ g.spaces = h.spaces /\ g.state = h.state
         /\ g.bump = h.bump /\ g.tlab = h.tlab
<1> DEFINE g == FlushCounters(h, t)
<1>1. h \in Heaps /\ Placed(h) /\ Tallied(h) /\ StatesFit(h) /\ HolesFit(h) /\ GoneFit(h)
  BY DEF Good
<1>2. h.pending \in [Threads -> Nat] /\ h.counted \in Int /\ h.pending[t] \in Nat
  BY <1>1 DEF Heaps
<1>3. /\ g \in Heaps /\ SameObjects(h, g) /\ g.spaces = h.spaces /\ g.gone = h.gone
      /\ g.deaf = h.deaf /\ g.leaked = h.leaked
      /\ g.state = h.state /\ g.clean = h.clean /\ g.bump = h.bump /\ g.tlab = h.tlab
      /\ g.large = h.large /\ g.counted = h.counted + h.pending[t]
      /\ g.pending = [h.pending EXCEPT ![t] = 0]
  <2> DEFINE q == [h.pending EXCEPT ![t] = 0]
             m == h.counted + h.pending[t]
  <2>1. q \in [Threads -> Nat] /\ m \in Int
    BY <1>2
  <2>2. g = [h EXCEPT !.counted = m, !.pending = q]
    BY DEF FlushCounters
  <2> HIDE DEF q, m, g
  <2>3. /\ g \in Heaps /\ SameObjects(h, g) /\ g.spaces = h.spaces /\ g.gone = h.gone
        /\ g.deaf = h.deaf /\ g.leaked = h.leaked
        /\ g.state = h.state /\ g.clean = h.clean /\ g.bump = h.bump /\ g.tlab = h.tlab
        /\ g.large = h.large /\ g.counted = m /\ g.pending = q
    BY <1>1, <2>1, <2>2 DEF Heaps, SameObjects
  <2> QED
    BY <2>3 DEF m, q
<1> HIDE DEF g
<1>4. Reported(g) = Reported(h)
  BY <1>2, <1>3, Apart DEF Reported
<1>5. Placed(g) /\ Tallied(g)
  BY <1>1, <1>3, SameTallies
<1>6. InSpaces(g) = InSpaces(h)
  BY <1>3 DEF InSpaces
<1>7. StatesFit(g) /\ GoneFit(g)
  BY <1>1, <1>3, <1>6 DEF StatesFit, StateFits, GoneFit, SameObjects
<1>8. \A i \in Holders : HoleOf(g, i) = HoleOf(h, i)
  BY <1>3 DEF HoleOf
<1>9. \A r : HoleFits(h, r) => HoleFits(g, r)
  BY <1>3, <1>6 DEF HoleFits
<1>10. HolesFit(g)
  BY <1>1, <1>8, <1>9 DEF HolesFit
<1>11. Ready(h, g)
  BY <1>3, <1>4 DEF Ready, SameEmptied
<1> QED
  BY <1>3, <1>5, <1>7, <1>10, <1>11 DEF Good, g

LEMMA RetireTlabGood ==
  ASSUME NEW h, Good(h), NEW t \in Threads
  PROVE  LET g == RetireTlab(h, t) IN
         /\ Good(g) /\ Ready(h, g) /\ g.spaces = h.spaces /\ g.bump = h.bump
         /\ g.tlab[t] = NoHole
<1> DEFINE f == FlushCounters(h, t)
           g == RetireTlab(h, t)
<1>1. /\ Good(f) /\ Ready(h, f) /\ f.spaces = h.spaces /\ f.bump = h.bump /\ f.tlab = h.tlab
  BY FlushGood
<1>2. CASE h.tlab[t] = NoHole
  <2>1. g = f
    BY <1>2 DEF RetireTlab
  <2> HIDE DEF f, g
  <2> QED
    BY <2>1, <1>1, <1>2 DEF g
<1>3. CASE h.tlab[t] # NoHole
  <2>1. t \in Holders /\ "bump" \in Holders /\ t # "bump"
    BY Apart DEF Holders
  <2>2. g = [CloseBlock(f, h.tlab[t].block) EXCEPT !.tlab[t] = NoHole]
    BY <1>3 DEF RetireTlab
  <2> HIDE DEF f, g
  <2>3. HoleOf(f, t) = h.tlab[t]
    BY <1>1, <2>1 DEF HoleOf
  <2>4. g = Retire(f, t)
    BY <2>1, <2>2, <2>3 DEF Retire, SetHole
  <2>5. /\ Good(g) /\ Quiet(f, g) /\ g.spaces = f.spaces /\ g.pending = f.pending
        /\ HoleOf(g, t) = NoHole /\ \A j \in Holders : j # t => HoleOf(g, j) = HoleOf(f, j)
    BY <1>1, <1>3, <2>1, <2>3, <2>4, RetireGood
  <2>6. Ready(h, g)
    BY <1>1, <2>5, QuietReady, ReadyTwice
  <2>7. g.bump = h.bump /\ g.tlab[t] = NoHole
    BY <1>1, <2>1, <2>5 DEF HoleOf
  <2> QED
    BY <1>1, <2>5, <2>6, <2>7 DEF g
<1> QED
  BY <1>2, <1>3

\* A thread has room in its buffer, and nothing of the heap is otherwise different.
Roomy(h, k, t, n) ==
  /\ Good(k) /\ Ready(h, k)
  /\ k.tlab[t] # NoHole /\ k.tlab[t].cursor + n <= k.tlab[t].limit

LEMMA RefillGood ==
  ASSUME NEW h, Good(h), h.spaces <= MaxSpaces, NEW t \in Threads,
         NEW n \in Nat \ {0}, n <= BlockGranules
  PROVE  Roomy(h, RefillTlab(h, t, n), t, n)
<1> DEFINE d == RetireTlab(h, t)
           r == Reserve(d, n)
           e == r.heap
           g == SetHole(e, "bump", NoHole)
           q == r.hole
           k == RefillTlab(h, t, n)
<1>1. Good(d) /\ Ready(h, d) /\ d.spaces = h.spaces /\ d.tlab[t] = NoHole
  BY RetireTlabGood
<1>2. k = [e EXCEPT !.bump = NoHole, !.tlab[t] = q]
  BY DEF RefillTlab
<1> HIDE DEF d, k
<1>3. /\ e \in Heaps /\ Good(g) /\ Quiet(d, g) /\ g.pending = d.pending
      /\ g.tlab = d.tlab
      /\ q \in Hole /\ HoleFits(g, q) /\ q.cursor + n <= q.limit
      /\ \A i \in Holders : HoleOf(g, i).block # q.block
  BY <1>1, ReserveGood DEF Reserved
<1>4. t \in Holders /\ t # "bump"
  BY Apart DEF Holders
<1> HIDE DEF e, q
<1>5. k = SetHole(g, t, q)
  BY <1>2, <1>3, <1>4 DEF SetHole, Heaps
<1> HIDE DEF g
<1>6. Good(k) /\ Quiet(g, k)
  BY <1>3, <1>4, <1>5, TakeGood
<1>7. HoleOf(k, t) = q /\ k.spaces = g.spaces /\ k.pending = g.pending
  BY <1>3, <1>4, <1>5, SetHoleDoes DEF Good
<1>8. Ready(h, k)
  <2>1. Quiet(d, k)
    BY <1>3, <1>6, <1>7, QuietTwice
  <2> QED
    BY <2>1, <1>1, <1>3, <1>7, QuietReady, ReadyTwice
<1>9. k.tlab[t] = q /\ q # NoHole
  <2>1. q.block \in Blocks
    BY <1>3, HolesAre DEF HoleFits, Good
  <2> QED
    BY <2>1, <1>4, <1>7, HolesAre DEF HoleOf
<1> QED
  BY <1>3, <1>6, <1>8, <1>9 DEF Roomy, k

LEMMA WithRoomGood ==
  ASSUME NEW h, Good(h), h.spaces <= MaxSpaces, NEW t \in Threads,
         NEW n \in Nat \ {0}, Fits(h, t, n) \/ n <= BlockGranules
  PROVE  Roomy(h, WithRoom(h, t, n), t, n)
<1>1. CASE Fits(h, t, n)
  BY <1>1 DEF Fits, WithRoom, Roomy, Ready, SameObjects, SameEmptied, Good, Heaps
<1>2. CASE ~Fits(h, t, n)
  BY <1>2, RefillGood DEF WithRoom
<1> QED
  BY <1>1, <1>2

-----------------------------------------------------------------------------
(* Allocating.                                                              *)

Newly(h, a, n) == {l \in LinesOf(a, n) : h.lines[l] = 0}

\* An object more, wherever the holes and the accounts are.
Stamped(h, g, a, n) ==
  /\ g.starts = h.starts \cup {a} /\ g.size = [h.size EXCEPT ![a] = n]
  /\ g.clean = h.clean \ BytesOf(a, n)
  /\ g.lines = [l \in Lines |-> IF l \in LinesOf(a, n) THEN h.lines[l] + 1 ELSE h.lines[l]]
  /\ g.live = [h.live EXCEPT ![BlockIndex(a)] = @ + Cardinality(Newly(h, a, n))]
  /\ g.state = h.state /\ g.spaces = h.spaces /\ g.gone = h.gone /\ g.deaf = h.deaf
  /\ g.leaked = h.leaked /\ g.large = h.large

LEMMA StampDoes ==
  ASSUME NEW h \in Heaps, NEW a \in Addresses, NEW n, InOneBlock(a, n)
  PROVE  LET g == Stamp(h, a, n) IN
         /\ g \in Heaps /\ Stamped(h, g, a, n)
         /\ g.bump = h.bump /\ g.tlab = h.tlab /\ g.pending = h.pending /\ g.counted = h.counted
<1> DEFINE d == [h EXCEPT !.size[a] = n, !.starts = @ \cup {a}, !.clean = @ \ BytesOf(a, n)]
           g == Stamp(h, a, n)
           k == Cardinality(Newly(h, a, n))
           up == [l \in Lines |-> IF l \in LinesOf(a, n) THEN h.lines[l] + 1 ELSE h.lines[l]]
           more == [h.live EXCEPT ![BlockIndex(a)] = @ + k]
           sizes == [h.size EXCEPT ![a] = n]
<1>1. BlockIndex(a) \in Blocks /\ n \in Nat /\ LinesOf(a, n) \subseteq Lines
  BY InBlocks, ObjectLines DEF InOneBlock
<1>2. k \in Nat
  <2>1. Newly(h, a, n) \in SUBSET Lines
    BY <1>1 DEF Newly
  <2> QED
    BY <2>1, Finite, FS_Subset, FS_CardinalityType
<1>3. /\ up \in [Lines -> Int] /\ more \in [Blocks -> Int] /\ sizes \in [Addresses -> Nat]
  <2> HIDE DEF k
  <2> QED
    BY <1>1, <1>2 DEF Heaps
<1>4. /\ d \in Heaps /\ d.lines = h.lines /\ d.live = h.live /\ d.size = sizes
      /\ d.starts = h.starts \cup {a} /\ d.clean = h.clean \ BytesOf(a, n)
      /\ d.state = h.state /\ d.spaces = h.spaces /\ d.gone = h.gone /\ d.deaf = h.deaf
      /\ d.leaked = h.leaked /\ d.large = h.large
      /\ d.bump = h.bump /\ d.tlab = h.tlab /\ d.pending = h.pending /\ d.counted = h.counted
  <2>1. d = [h EXCEPT !.size = sizes, !.starts = h.starts \cup {a}, !.clean = h.clean \ BytesOf(a, n)]
    OBVIOUS
  <2> HIDE DEF sizes, d
  <2> QED
    BY <1>3, <2>1 DEF Heaps
<1>5. g = [d EXCEPT !.lines = up, !.live = more]
  <2>1. g = [d EXCEPT !.lines = [l \in Lines |-> IF l \in LinesOf(a, n) THEN @[l] + 1 ELSE @[l]],
                      !.live[BlockIndex(a)] = @ + Cardinality({l \in LinesOf(a, n) : d.lines[l] = 0})]
    BY DEF Stamp, Occupy
  <2>2. k = Cardinality({l \in LinesOf(a, n) : d.lines[l] = 0})
    BY <1>4 DEF Newly
  <2> HIDE DEF d, k, g
  <2> QED
    BY <2>1, <2>2, <1>4
<1> HIDE DEF d, g, up, more, sizes
<1>6. /\ g \in Heaps /\ g.lines = up /\ g.live = more /\ g.size = sizes
      /\ g.starts = h.starts \cup {a} /\ g.clean = h.clean \ BytesOf(a, n)
      /\ g.state = h.state /\ g.spaces = h.spaces /\ g.gone = h.gone /\ g.deaf = h.deaf
      /\ g.leaked = h.leaked /\ g.large = h.large
      /\ g.bump = h.bump /\ g.tlab = h.tlab /\ g.pending = h.pending /\ g.counted = h.counted
  BY <1>3, <1>4, <1>5 DEF Heaps
<1> QED
  BY <1>6 DEF Stamped, g, up, more, sizes

\* The object is counted on its lines, and its block has the lines it is first on.
LEMMA StampTallies ==
  ASSUME NEW h \in Heaps, NEW g \in Heaps, Placed(h), Tallied(h), NEW a \in Addresses, NEW n,
         InOneBlock(a, n), a \notin h.starts, Stamped(h, g, a, n)
  PROVE  Tallied(g)
<1> DEFINE b == BlockIndex(a)
<1>1. b \in Blocks /\ LinesOf(a, n) \subseteq LinesIn(b) /\ LinesOf(a, n) \subseteq Lines
  BY InBlocks, ObjectLines
<1>2. g.size[a] = n /\ \A c \in h.starts : g.size[c] = h.size[c]
  BY DEF Stamped, Heaps
<1>3. ASSUME NEW l \in Lines PROVE g.lines[l] = Cardinality(On(g, l))
  <2>1. h.lines[l] = Cardinality(On(h, l)) /\ IsFiniteSet(On(h, l)) /\ a \notin On(h, l)
    BY ObjectsFinite DEF Tallied, On
  <2>2. CASE l \in LinesOf(a, n)
    <3>1. On(g, l) = On(h, l) \cup {a}
      BY <1>2, <2>2 DEF On, Stamped
    <3>2. Cardinality(On(g, l)) = Cardinality(On(h, l)) + 1
      BY <2>1, <3>1, FS_AddElement
    <3> QED
      BY <2>1, <2>2, <3>2 DEF Stamped
  <2>3. CASE l \notin LinesOf(a, n)
    <3>1. On(g, l) = On(h, l)
      BY <1>2, <2>3 DEF On, Stamped
    <3> QED
      BY <2>1, <2>3, <3>1 DEF Stamped
  <2> QED
    BY <2>2, <2>3
<1>4. \A l \in Lines : /\ h.lines[l] \in Nat
                       /\ g.lines[l] = IF l \in LinesOf(a, n) THEN h.lines[l] + 1 ELSE h.lines[l]
  BY EmptyLine DEF Stamped
<1>5. ASSUME NEW c \in Blocks PROVE g.live[c] = Cardinality(Used(g, c))
  <2>1. /\ h.live[c] = Cardinality(Used(h, c)) /\ IsFiniteSet(Used(h, c))
        /\ LinesIn(c) \subseteq Lines
        /\ c \in Nat /\ b \in Nat
    BY <1>1, ObjectsFinite, InBlocks DEF Tallied
  <2>2. CASE c = b
    <3> DEFINE new == Newly(h, a, n)
    <3>1. new \in SUBSET Lines /\ IsFiniteSet(new)
      BY <1>1, Finite, FS_Subset DEF Newly
    <3>2. Used(g, c) = Used(h, c) \cup new
      BY <1>1, <1>4, <2>1, <2>2 DEF Used, Newly
    <3>3. Used(h, c) \cap new = {}
      BY DEF Used, Newly
    <3>4. Cardinality({}) = 0 /\ Cardinality(Used(h, c)) \in Nat /\ Cardinality(new) \in Nat
      BY <2>1, <3>1, FS_EmptySet, FS_CardinalityType
    <3>5. Cardinality(Used(h, c) \cup new)
            = Cardinality(Used(h, c)) + Cardinality(new) - Cardinality(Used(h, c) \cap new)
      BY <2>1, <3>1, FS_Union
    <3>6. g.live[c] = h.live[c] + Cardinality(new)
      BY <1>1, <2>2 DEF Stamped, Heaps
    <3> HIDE DEF new
    <3>7. Cardinality(Used(h, c) \cap new) = 0
      BY <3>3, <3>4
    <3>8. Cardinality(Used(g, c)) = Cardinality(Used(h, c) \cup new)
      BY <3>2
    <3> QED
      BY <2>1, <3>4, <3>5, <3>6, <3>7, <3>8
  <2>3. CASE c # b
    <3>1. \A l \in LinesIn(c) : l \notin LinesOf(a, n)
      BY <1>1, <2>1, <2>3, LinesApart
    <3>2. Used(g, c) = Used(h, c)
      BY <1>4, <2>1, <3>1 DEF Used
    <3> QED
      BY <2>1, <2>3, <3>2 DEF Stamped, Heaps
  <2> QED
    BY <2>2, <2>3
<1> QED
  BY <1>3, <1>5 DEF Tallied

\* What a holder hands out of its hole is in one block, clean and nobody's.
LEMMA HandedOut ==
  ASSUME NEW h, Good(h), NEW r \in Hole, HoleFits(h, r), NEW n \in Nat \ {0}, r.cursor + n <= r.limit
  PROVE  LET a == r.cursor IN
         /\ a \in Addresses /\ InOneBlock(a, n) /\ a \notin h.starts /\ BlockIndex(a) = r.block
         /\ BytesOf(a, n) \subseteq r.cursor .. r.limit - 1
         /\ BytesOf(a, n) \subseteq h.clean
<1> DEFINE a == r.cursor
<1>1. a \in Nat /\ r.limit \in Nat
  BY DEF Hole
<1>2. BytesOf(a, n) \subseteq r.cursor .. r.limit - 1 /\ a \in BytesOf(a, n)
      /\ a + n - 1 \in BytesOf(a, n)
  BY <1>1 DEF BytesOf
<1>3. \A x \in r.cursor .. r.limit - 1 : x \in h.clean /\ x \in Addresses /\ BlockIndex(x) = r.block
  BY DEF HoleFits, Good, Heaps
<1> HIDE DEF a
<1>4. a \in Addresses /\ a \in h.clean /\ a + n - 1 \in Addresses /\ BlockIndex(a) = r.block
      /\ BlockIndex(a + n - 1) = r.block
  BY <1>2, <1>3
<1>5. a \notin h.starts
  <2> SUFFICES ASSUME a \in h.starts PROVE FALSE
    OBVIOUS
  <2>1. a \in BytesAt(h, a)
    BY <1>4, ObjectLines DEF Good, Placed, BytesAt
  <2> QED
    BY <2>1, <1>4 DEF Good, Placed
<1> QED
  BY <1>2, <1>3, <1>4, <1>5 DEF InOneBlock, a

\* An object more, and nothing else.
Born(h, g, a, n) ==
  /\ Good(g) /\ SameEmptied(h, g) /\ g.gone = h.gone /\ g.deaf = h.deaf /\ g.leaked = h.leaked
  /\ g.large = h.large
  /\ g.spaces \in {h.spaces, h.spaces + 1}
  /\ a \in Addresses /\ a \notin h.starts /\ g.state[BlockIndex(a)] = "Open"
  /\ g.starts = h.starts \cup {a} /\ g.size = [h.size EXCEPT ![a] = n]
  /\ Reported(g) = Reported(h) + 1

LEMMA StampGood ==
  ASSUME NEW h, Good(h), NEW g \in Heaps, NEW i \in Holders, NEW r \in Hole, HoleFits(h, r),
         \A j \in Holders \ {i} : HoleOf(h, j).block # r.block,
         NEW n \in Nat \ {0}, r.cursor + n <= r.limit,
         Stamped(h, g, r.cursor, n),
         HoleOf(g, i) = [r EXCEPT !.cursor = @ + n],
         \A j \in Holders \ {i} : HoleOf(g, j) = HoleOf(h, j),
         Reported(g) = Reported(h) + 1
  PROVE  Born(h, g, r.cursor, n)
<1> DEFINE a == r.cursor
           b == r.block
           q == HoleOf(g, i)
<1>1. h \in Heaps /\ Placed(h) /\ Tallied(h) /\ StatesFit(h) /\ HolesFit(h) /\ GoneFit(h)
  BY DEF Good
<1>2. /\ a \in Addresses /\ InOneBlock(a, n) /\ a \notin h.starts /\ BlockIndex(a) = b
      /\ BytesOf(a, n) \subseteq h.clean /\ BytesOf(a, n) \subseteq a .. r.limit - 1
  BY HandedOut
<1>3. /\ q.block = b /\ q.cursor = a + n /\ q.limit = r.limit
      /\ a \in Nat /\ r.limit \in Nat /\ b \in Blocks /\ h.state[b] = "Open" /\ b \in InSpaces(h)
  BY <1>1, HolesAre DEF Hole, HoleFits
<1>4. /\ g.starts = h.starts \cup {a} /\ g.size = [h.size EXCEPT ![a] = n]
      /\ g.clean = h.clean \ BytesOf(a, n)
      /\ g.live = [h.live EXCEPT ![BlockIndex(a)] = @ + Cardinality(Newly(h, a, n))]
      /\ g.state = h.state /\ g.spaces = h.spaces /\ g.gone = h.gone /\ g.deaf = h.deaf
      /\ g.leaked = h.leaked /\ g.large = h.large
  BY DEF Stamped
<1> HIDE DEF a, b
<1>5. Tallied(g)
  BY <1>1, <1>2, StampTallies DEF a
<1>6. g.size[a] = n /\ \A c \in h.starts : g.size[c] = h.size[c]
  BY <1>1, <1>2, <1>4 DEF Heaps
<1>7. Placed(g)
  <2>1. BytesAt(g, a) = BytesOf(a, n) /\ \A c \in h.starts : BytesAt(g, c) = BytesAt(h, c)
    BY <1>6 DEF BytesAt
  <2>2. \A c \in h.starts : BytesAt(h, c) \cap h.clean = {} /\ InOneBlock(c, h.size[c])
    BY <1>1 DEF Placed
  <2>3. ASSUME NEW c \in g.starts
        PROVE  InOneBlock(c, g.size[c]) /\ BytesAt(g, c) \cap g.clean = {}
    BY <1>2, <1>4, <1>6, <2>1, <2>2
  <2>4. ASSUME NEW c \in g.starts, NEW d \in g.starts, c # d
        PROVE  BytesAt(g, c) \cap BytesAt(g, d) = {}
    <3>1. CASE c \in h.starts /\ d \in h.starts
      BY <1>1, <2>1, <2>4, <3>1 DEF Placed
    <3>2. CASE c = a /\ d \in h.starts
      BY <1>2, <2>1, <2>2, <3>2
    <3>3. CASE d = a /\ c \in h.starts
      BY <1>2, <2>1, <2>2, <3>3
    <3> QED
      BY <1>4, <2>4, <3>1, <3>2, <3>3
  <2> QED
    BY <2>3, <2>4 DEF Placed
<1>8. InSpaces(g) = InSpaces(h)
  BY <1>4 DEF InSpaces
<1>9. StatesFit(g)
  <2> SUFFICES ASSUME NEW c \in Blocks PROVE StateFits(g, c)
    BY DEF StatesFit
  <2>1. StateFits(h, c)
    BY <1>1 DEF StatesFit
  <2>2. CASE c = b
    BY <2>1, <2>2, <1>3, <1>4, <1>8 DEF StateFits
  <2>3. CASE c # b
    <3>1. g.live[c] = h.live[c]
      BY <2>3, <1>1, <1>2, <1>4 DEF Heaps
    <3> QED
      BY <2>1, <3>1, <1>4, <1>8 DEF StateFits
  <2> QED
    BY <2>2, <2>3
<1>10. HolesFit(g)
  <2> SUFFICES ASSUME NEW j \in Holders, HoleOf(g, j) # NoHole
               PROVE  /\ HoleFits(g, HoleOf(g, j))
                      /\ \A k \in Holders \ {j} : HoleOf(g, k).block # HoleOf(g, j).block
    BY DEF HolesFit
  <2>1. CASE j = i
    <3>1. \A x \in a + n .. r.limit - 1 : x \in a .. r.limit - 1 /\ x \notin BytesOf(a, n)
      BY <1>3 DEF BytesOf
    <3>2. \A x \in a .. r.limit - 1 : x \in h.clean /\ BlockIndex(x) = b
      BY DEF HoleFits, a, b
    <3>3. \A x \in a + n .. r.limit - 1 : x \in g.clean /\ BlockIndex(x) = b
      BY <3>1, <3>2, <1>4
    <3>4. b * BlockLines <= LineIndex(r.limit)
      BY DEF HoleFits, b
    <3>5. HoleFits(g, q)
      BY <3>3, <3>4, <1>3, <1>4, <1>8 DEF HoleFits
    <3>6. \A k \in Holders \ {i} : HoleOf(g, k).block # b
      BY DEF b
    <3> QED
      BY <2>1, <3>5, <3>6, <1>3
  <2>2. CASE j # i
    <3> DEFINE s == HoleOf(h, j)
    <3>1. HoleOf(g, j) = s /\ s # NoHole /\ s.block # b
      BY <2>2 DEF b
    <3>2. /\ HoleFits(h, s)
          /\ \A k \in Holders \ {j} : HoleOf(h, k).block # s.block
      BY <3>1, <1>1 DEF HolesFit
    <3> HIDE DEF s
    <3>3. \A x \in BytesOf(a, n) : BlockIndex(x) = b
      BY <1>2 DEF HoleFits, a, b
    <3>4. \A x \in s.cursor .. s.limit - 1 : x \in g.clean /\ BlockIndex(x) = s.block
      BY <3>1, <3>2, <3>3, <1>4 DEF HoleFits
    <3>5. HoleFits(g, s)
      BY <3>2, <3>4, <1>4, <1>8 DEF HoleFits
    <3>6. ASSUME NEW k \in Holders \ {j} PROVE HoleOf(g, k).block # s.block
      <4>1. CASE k = i
        BY <4>1, <3>1, <1>3
      <4>2. CASE k # i
        BY <4>2, <3>2
      <4> QED
        BY <4>1, <4>2
    <3> QED
      BY <3>1, <3>5, <3>6
  <2> QED
    BY <2>1, <2>2
<1>11. GoneFit(g)
  BY <1>1, <1>4 DEF GoneFit
<1>12. Good(g)
  BY <1>5, <1>7, <1>9, <1>10, <1>11 DEF Good
<1>13. SameEmptied(h, g) /\ g.state[BlockIndex(a)] = "Open"
  BY <1>2, <1>3, <1>4 DEF SameEmptied
<1> QED
  BY <1>2, <1>4, <1>12, <1>13 DEF Born, a

LEMMA TlabAllocGood ==
  ASSUME NEW h, Good(h), NEW t \in Threads, NEW n \in Nat \ {0},
         h.tlab[t] # NoHole, h.tlab[t].cursor + n <= h.tlab[t].limit
  PROVE  Born(h, TlabAlloc(h, t, n), h.tlab[t].cursor, n) /\ TlabAlloc(h, t, n).spaces = h.spaces
<1> DEFINE r == h.tlab[t]
           a == r.cursor
           s == Stamp(h, a, n)
           g == TlabAlloc(h, t, n)
           q == [r EXCEPT !.cursor = @ + n]
<1>1. h \in Heaps /\ HolesFit(h) /\ t \in Holders /\ t # "bump" /\ HoleOf(h, t) = r
  BY Apart DEF Good, Holders, HoleOf
<1>2. r \in Hole /\ h.tlab \in [Threads -> Hole] /\ h.pending \in [Threads -> Nat]
  BY <1>1 DEF Heaps
<1>3. HoleFits(h, r) /\ \A j \in Holders \ {t} : HoleOf(h, j).block # r.block
  BY <1>1 DEF HolesFit
<1>4. a \in Addresses /\ InOneBlock(a, n)
  BY <1>2, <1>3, HandedOut
<1>5. /\ s \in Heaps /\ Stamped(h, s, a, n)
      /\ s.bump = h.bump /\ s.tlab = h.tlab /\ s.pending = h.pending /\ s.counted = h.counted
  BY <1>1, <1>4, StampDoes
<1>6. q \in Hole
  BY <1>2 DEF Hole
<1> DEFINE tl == [h.tlab EXCEPT ![t] = q]
           pe == [h.pending EXCEPT ![t] = @ + 1]
<1>7. tl \in [Threads -> Hole] /\ pe \in [Threads -> Nat]
  <2> HIDE DEF q
  <2> QED
    BY <1>2, <1>6
<1>8. g = [s EXCEPT !.tlab = tl, !.pending = pe]
  <2>1. g = [s EXCEPT !.tlab[t].cursor = @ + n, !.pending[t] = @ + 1]
    BY DEF TlabAlloc
  <2> HIDE DEF s, g
  <2> QED
    BY <2>1, <1>5
<1> HIDE DEF s, g, tl, pe
<1>9. /\ g \in Heaps /\ Stamped(h, g, a, n)
      /\ g.bump = h.bump /\ g.tlab = tl /\ g.pending = pe /\ g.counted = h.counted
  <2>1. /\ g \in Heaps /\ SameObjects(s, g) /\ g.clean = s.clean /\ g.state = s.state
        /\ g.spaces = s.spaces /\ g.gone = s.gone /\ g.deaf = s.deaf /\ g.leaked = s.leaked
        /\ g.large = s.large
        /\ g.bump = s.bump /\ g.tlab = tl /\ g.pending = pe /\ g.counted = s.counted
    BY <1>5, <1>7, <1>8 DEF Heaps, SameObjects
  <2> QED
    BY <2>1, <1>5 DEF Stamped, SameObjects
<1>10. HoleOf(g, t) = q /\ \A j \in Holders \ {t} : HoleOf(g, j) = HoleOf(h, j)
  <2> HIDE DEF q
  <2> QED
    BY <1>1, <1>2, <1>9 DEF HoleOf, Holders, tl
<1>11. Reported(g) = Reported(h) + 1
  BY <1>1, <1>2, <1>9, Apart DEF Reported, pe, Heaps
<1>12. Born(h, g, a, n)
  <2>1. r.cursor + n <= r.limit
    OBVIOUS
  <2> HIDE DEF r
  <2> QED
    BY <2>1, <1>1, <1>2, <1>3, <1>9, <1>10, <1>11, StampGood DEF q
<1>13. g.spaces = h.spaces
  BY <1>9 DEF Stamped
<1> QED
  BY <1>12, <1>13 DEF g

LEMMA BornLater ==
  ASSUME NEW h, NEW k, NEW g, NEW a, NEW n, Ready(h, k), Born(k, g, a, n),
         k.spaces = h.spaces \/ g.spaces = k.spaces
  PROVE  Born(h, g, a, n)
BY DEF Born, Ready, SameObjects, SameEmptied

\* The same but for where the large objects and the copies are said to be, what
\* is on the count, and the states of blocks that are nobody's.
Recast(h, g) ==
  /\ g \in Heaps /\ SameObjects(h, g) /\ g.spaces = h.spaces
  /\ g.clean = h.clean /\ g.bump = h.bump /\ g.tlab = h.tlab /\ g.pending = h.pending

LEMMA RecastGood ==
  ASSUME NEW h, Good(h), NEW g, Recast(h, g), StatesFit(g), GoneFit(g),
         \A b \in Blocks : h.state[b] = "Open" => g.state[b] = "Open"
  PROVE  Good(g) /\ Reported(g) = Reported(h) + (g.counted - h.counted)
<1>1. h \in Heaps /\ Placed(h) /\ Tallied(h) /\ HolesFit(h)
  BY DEF Good
<1>2. h.counted \in Int /\ g.counted \in Int /\ \A t \in Threads : h.pending[t] \in Nat
  BY <1>1 DEF Recast, Heaps
<1>3. /\ g \in Heaps /\ SameObjects(h, g) /\ g.spaces = h.spaces
      /\ g.clean = h.clean /\ g.bump = h.bump /\ g.tlab = h.tlab /\ g.pending = h.pending
  BY DEF Recast
<1>4. Placed(g) /\ Tallied(g)
  BY <1>1, <1>3, SameTallies
<1>5. InSpaces(g) = InSpaces(h)
  BY <1>3 DEF InSpaces
<1>6. \A i \in Holders : HoleOf(g, i) = HoleOf(h, i)
  BY <1>3 DEF HoleOf
<1>7. \A r : HoleFits(h, r) => HoleFits(g, r)
  BY <1>1, <1>3, <1>5, HolesAre DEF HoleFits
<1>8. HolesFit(g)
  BY <1>1, <1>6, <1>7 DEF HolesFit
<1>9. Reported(g) = Reported(h) + (g.counted - h.counted)
  BY <1>2, <1>3, Apart DEF Reported
<1> QED
  BY <1>3, <1>4, <1>8, <1>9 DEF Good

\* The same but for the large objects, and for what is on the count.
Recounted(h, g) ==
  /\ Recast(h, g) /\ g.state = h.state
  /\ g.gone = h.gone /\ g.deaf = h.deaf /\ g.leaked = h.leaked

LEMMA AccountsGood ==
  ASSUME NEW h, Good(h), NEW g, Recounted(h, g)
  PROVE  Good(g) /\ Reported(g) = Reported(h) + (g.counted - h.counted)
<1>1. InSpaces(g) = InSpaces(h)
  BY DEF InSpaces, Recounted, Recast
<1>2. StatesFit(g) /\ GoneFit(g)
  BY <1>1 DEF Good, Recounted, Recast, StatesFit, StateFits, GoneFit, SameObjects
<1> QED
  BY <1>2, RecastGood DEF Recounted

\* A large object more, and nothing else.
LargeBorn(h, g) ==
  /\ Good(g) /\ SameEmptied(h, g) /\ SameObjects(h, g) /\ g.spaces = h.spaces
  /\ g.gone = h.gone /\ g.deaf = h.deaf /\ g.leaked = h.leaked /\ g.large = h.large + 1
  /\ Reported(g) = Reported(h) + 1

LEMMA AllocLargeGood ==
  ASSUME NEW h, Good(h)
  PROVE  LargeBorn(h, AllocLarge(h))
<1> DEFINE l == h.large + 1
           m == h.counted + 1
           g == AllocLarge(h)
<1>1. h \in Heaps /\ h.large \in Nat /\ h.counted \in Int
  BY DEF Good, Heaps
<1>2. l \in Nat /\ m \in Int /\ m - h.counted = 1
  BY <1>1
<1>3. g = [h EXCEPT !.large = l, !.counted = m]
  BY DEF AllocLarge
<1> HIDE DEF l, m, g
<1>4. Recounted(h, g) /\ g.large = l /\ g.counted = m
  BY <1>1, <1>2, <1>3 DEF Heaps, SameObjects, Recounted, Recast
<1>5. Good(g) /\ Reported(g) = Reported(h) + 1
  BY <1>2, <1>4, AccountsGood
<1> QED
  BY <1>4, <1>5 DEF LargeBorn, Recounted, Recast, SameEmptied, l, g

\* An object more, in a block or not.
Made(h, g, at, n) == IF at = LargeSpace THEN LargeBorn(h, g) ELSE Born(h, g, at, n)

LEMMA BornMade ==
  ASSUME NEW h, NEW g, NEW a, NEW n, Born(h, g, a, n)
  PROVE  Made(h, g, a, n)
<1>1. a \in Nat
  BY InBlocks DEF Born
<1> QED
  BY <1>1 DEF Made, LargeSpace

LEMMA AllocGood ==
  ASSUME NEW h, Good(h), h.spaces <= MaxSpaces, NEW t \in Threads, NEW n \in Nat \ {0}
  PROVE  Made(h, Alloc(h, t, n).heap, Alloc(h, t, n).at, n)
<1>1. CASE ~Fits(h, t, n) /\ n >= LargeSize
  <2>1. Alloc(h, t, n).heap = AllocLarge(h) /\ Alloc(h, t, n).at = LargeSpace
    BY <1>1 DEF Alloc
  <2> QED
    BY <2>1, AllocLargeGood DEF Made
<1>2. CASE ~(~Fits(h, t, n) /\ n >= LargeSize)
  <2> DEFINE k == WithRoom(h, t, n)
             g == TlabAlloc(k, t, n)
             a == k.tlab[t].cursor
  <2>1. Alloc(h, t, n).heap = g /\ Alloc(h, t, n).at = a
    BY <1>2 DEF Alloc
  <2>2. Fits(h, t, n) \/ n <= BlockGranules
    BY <1>2, Constants
  <2>3. Roomy(h, k, t, n)
    BY <2>2, WithRoomGood
  <2>4. /\ Good(k) /\ Ready(h, k) /\ k.tlab[t] # NoHole /\ k.tlab[t].cursor + n <= k.tlab[t].limit
    BY <2>3 DEF Roomy
  <2> HIDE DEF k
  <2>5. Born(k, g, a, n) /\ g.spaces = k.spaces
    BY <2>4, TlabAllocGood
  <2> HIDE DEF g, a
  <2>6. Made(h, g, a, n)
    BY <2>4, <2>5, BornLater, BornMade
  <2> QED
    BY <2>1, <2>6
<1> QED
  BY <1>1, <1>2

LEMMA BumpAllocGood ==
  ASSUME NEW h, Good(h), h.spaces <= MaxSpaces, NEW n \in Nat \ {0}, n <= BlockGranules
  PROVE  Born(h, BumpAlloc(h, n).heap, BumpAlloc(h, n).at, n)
<1> DEFINE has == h.bump # NoHole /\ h.bump.cursor + n <= h.bump.limit
           r == IF has THEN [heap |-> h, hole |-> h.bump] ELSE Reserve(h, n)
<1>1. Reserved(h, r, n)
  <2>1. CASE ~has
    <3>1. r = Reserve(h, n)
      BY <2>1
    <3> HIDE DEF r, has
    <3> QED
      BY <3>1, ReserveGood
  <2>2. CASE has
    <3> DEFINE d == SetHole(h, "bump", NoHole)
    <3>1. h \in Heaps /\ HolesFit(h) /\ "bump" \in Holders /\ HoleOf(h, "bump") = h.bump
      BY DEF Good, Holders, HoleOf
    <3>2. /\ h.bump \in Hole /\ HoleFits(h, h.bump)
          /\ \A j \in Holders \ {"bump"} : HoleOf(h, j).block # h.bump.block
      BY <2>2, <3>1 DEF HolesFit, Heaps
    <3>3. /\ d \in Heaps /\ d.spaces = h.spaces /\ d.pending = h.pending /\ d.state = h.state
          /\ d.clean = h.clean /\ HoleOf(d, "bump") = NoHole
          /\ \A j \in Holders : j # "bump" => HoleOf(d, j) = HoleOf(h, j)
      BY <3>1, HolesAre, SetHoleDoes
    <3>4. Good(d) /\ Quiet(h, d)
      BY <3>1, HolesAre, TakeGood
    <3>5. d.tlab = h.tlab /\ d.bump = NoHole
      <4>1. d = [h EXCEPT !.bump = NoHole]
        BY DEF SetHole
      <4> QED
        BY <4>1, <3>1 DEF Heaps
    <3>6. HoleFits(d, h.bump)
      BY <3>2, <3>3 DEF HoleFits, InSpaces
    <3>7. h.bump.block \in Nat
      BY <3>1, <3>2, HolesAre DEF HoleFits
    <3>8. \A j \in Holders : HoleOf(d, j).block # h.bump.block
      BY <3>2, <3>3, <3>7, HolesAre
    <3>9. r.heap = h /\ r.hole = h.bump
      BY <2>2
    <3>10. r.hole.cursor + n <= r.hole.limit
      BY <2>2
    <3> HIDE DEF r
    <3> QED
      BY <3>1, <3>2, <3>3, <3>4, <3>5, <3>6, <3>8, <3>9, <3>10 DEF Reserved, d
  <2> QED
    BY <2>1, <2>2
<1> DEFINE e == r.heap
           hole == r.hole
           a == hole.cursor
           d == SetHole(e, "bump", NoHole)
           s == Stamp(e, a, n)
           q == [hole EXCEPT !.cursor = @ + n]
           m == s.counted + 1
           g == [s EXCEPT !.bump = q, !.counted = m]
<1>2. BumpAlloc(h, n).heap = g /\ BumpAlloc(h, n).at = a
  BY DEF BumpAlloc
<1> HIDE DEF r
<1>3. /\ e \in Heaps /\ Good(d) /\ Quiet(h, d) /\ d.pending = h.pending
      /\ hole \in Hole /\ HoleFits(d, hole) /\ hole.cursor + n <= hole.limit
      /\ \A i \in Holders : HoleOf(d, i).block # hole.block
  BY <1>1 DEF Reserved
<1> HIDE DEF e, hole
<1>4. "bump" \in Holders /\ NoHole \in Hole
  BY HolesAre DEF Holders
<1>5. /\ SameObjects(e, d) /\ SameAccounts(e, d)
      /\ d.spaces = e.spaces /\ d.pending = e.pending /\ d.clean = e.clean /\ d.state = e.state
      /\ \A j \in Holders : j # "bump" => HoleOf(d, j) = HoleOf(e, j)
  BY <1>3, <1>4, SetHoleDoes
<1> HIDE DEF d
<1>6. a \in Addresses /\ InOneBlock(a, n)
  BY <1>3, HandedOut
<1>7. /\ s \in Heaps /\ Stamped(e, s, a, n)
      /\ s.bump = e.bump /\ s.tlab = e.tlab /\ s.pending = e.pending /\ s.counted = e.counted
  BY <1>3, <1>6, StampDoes
<1>8. q \in Hole
  BY <1>3 DEF Hole
<1> HIDE DEF s, q
<1>9. m \in Int
  BY <1>7 DEF Heaps
<1> HIDE DEF m
<1>10. /\ g \in Heaps /\ SameObjects(s, g) /\ g.clean = s.clean /\ g.state = s.state
      /\ g.spaces = s.spaces /\ g.gone = s.gone /\ g.deaf = s.deaf /\ g.leaked = s.leaked
      /\ g.large = s.large
      /\ g.bump = q /\ g.tlab = s.tlab /\ g.pending = s.pending /\ g.counted = m
  BY <1>7, <1>8, <1>9 DEF Heaps, SameObjects
<1> HIDE DEF g
<1>11. Stamped(d, g, a, n)
  <2>1. Newly(d, a, n) = Newly(e, a, n)
    BY <1>5 DEF Newly, SameObjects
  <2> QED
    BY <2>1, <1>5, <1>7, <1>10 DEF Stamped, SameObjects, SameAccounts
<1>12. HoleOf(g, "bump") = q /\ \A j \in Holders \ {"bump"} : HoleOf(g, j) = HoleOf(d, j)
  BY <1>5, <1>7, <1>10 DEF HoleOf
<1>13. Reported(g) = Reported(d) + 1
  <2>1. \A t \in Threads : d.pending[t] \in Nat
    BY <1>3 DEF Good, Heaps
  <2>2. d.counted \in Int
    BY <1>3 DEF Good, Heaps
  <2>3. g.pending = d.pending /\ g.counted = d.counted + 1
    BY <1>5, <1>7, <1>10 DEF SameAccounts, m
  <2> QED
    BY <2>1, <2>2, <2>3, Apart DEF Reported
<1>14. Born(d, g, a, n)
  BY <1>3, <1>4, <1>10, <1>11, <1>12, <1>13, StampGood DEF q
<1>15. g.spaces = d.spaces
  BY <1>11 DEF Stamped
<1>16. Born(h, g, a, n)
  BY <1>3, <1>14, <1>15, QuietReady, BornLater
<1> QED
  BY <1>2, <1>16 DEF a

LEMMA AllocLockedGood ==
  ASSUME NEW h, Good(h), h.spaces <= MaxSpaces, NEW n \in Nat \ {0}
  PROVE  Made(h, AllocLocked(h, n).heap, AllocLocked(h, n).at, n)
<1>1. CASE n >= LargeSize
  <2>1. AllocLocked(h, n).heap = AllocLarge(h) /\ AllocLocked(h, n).at = LargeSpace
    BY <1>1 DEF AllocLocked
  <2> QED
    BY <2>1, AllocLargeGood DEF Made
<1>2. CASE ~(n >= LargeSize)
  <2>1. AllocLocked(h, n) = BumpAlloc(h, n)
    BY <1>2 DEF AllocLocked
  <2>2. n <= BlockGranules
    BY <1>2, Constants
  <2> QED
    BY <2>1, <2>2, BumpAllocGood, BornMade
<1> QED
  BY <1>1, <1>2

-----------------------------------------------------------------------------
(* Freeing.                                                                 *)

\* An object fewer, before its block is looked at.
Unstamped(h, g, a) ==
  LET n == h.size[a] IN
  /\ g.starts = h.starts \ {a} /\ g.size = [h.size EXCEPT ![a] = 0]
  /\ g.lines = [l \in Lines |-> IF l \in LinesOf(a, n) THEN h.lines[l] - 1 ELSE h.lines[l]]
  /\ g.live = [h.live EXCEPT ![BlockIndex(a)] = @ - Cardinality(Vacated(h, a, n))]
  /\ g.state = h.state /\ g.spaces = h.spaces /\ g.gone = h.gone /\ g.deaf = h.deaf
  /\ g.leaked = h.leaked /\ g.large = h.large
  /\ g.bump = h.bump /\ g.tlab = h.tlab /\ g.pending = h.pending /\ g.clean = h.clean
  /\ g.counted = h.counted - 1

Unstamp(h, a) ==
  [Vacate(h, a, h.size[a]) EXCEPT !.starts = @ \ {a}, !.size[a] = 0, !.counted = @ - 1]

LEMMA UnstampDoes ==
  ASSUME NEW h \in Heaps, NEW a \in Addresses, InOneBlock(a, h.size[a])
  PROVE  Unstamp(h, a) \in Heaps /\ Unstamped(h, Unstamp(h, a), a)
<1> DEFINE n == h.size[a]
           v == Vacate(h, a, n)
           g == Unstamp(h, a)
           k == Cardinality(Vacated(h, a, n))
           down == [l \in Lines |-> IF l \in LinesOf(a, n) THEN h.lines[l] - 1 ELSE h.lines[l]]
           less == [h.live EXCEPT ![BlockIndex(a)] = @ - k]
           sizes == [h.size EXCEPT ![a] = 0]
           m == h.counted - 1
<1>1. BlockIndex(a) \in Blocks /\ LinesOf(a, n) \subseteq Lines
  BY InBlocks, ObjectLines
<1>2. k \in Nat
  <2>1. Vacated(h, a, n) \in SUBSET Lines
    BY <1>1 DEF Vacated
  <2> QED
    BY <2>1, Finite, FS_Subset, FS_CardinalityType
<1>3. /\ down \in [Lines -> Int] /\ less \in [Blocks -> Int] /\ sizes \in [Addresses -> Nat]
      /\ m \in Int
  <2> HIDE DEF k, n
  <2> QED
    BY <1>1, <1>2 DEF Heaps
<1>4. v = [h EXCEPT !.lines = down, !.live = less]
  BY DEF Vacate
<1> HIDE DEF v, down, less
<1>5. /\ v \in Heaps /\ v.lines = down /\ v.live = less
      /\ v.starts = h.starts /\ v.size = h.size
      /\ v.state = h.state /\ v.spaces = h.spaces /\ v.gone = h.gone /\ v.deaf = h.deaf
      /\ v.leaked = h.leaked /\ v.large = h.large
      /\ v.bump = h.bump /\ v.tlab = h.tlab /\ v.pending = h.pending /\ v.clean = h.clean
      /\ v.counted = h.counted
  BY <1>3, <1>4 DEF Heaps
<1>6. g = [v EXCEPT !.starts = h.starts \ {a}, !.size = sizes, !.counted = m]
  <2>1. g = [v EXCEPT !.starts = @ \ {a}, !.size[a] = 0, !.counted = @ - 1]
    BY DEF Unstamp, v
  <2> HIDE DEF g
  <2> QED
    BY <2>1, <1>5
<1> HIDE DEF g, sizes, m
<1>7. /\ g \in Heaps /\ g.lines = v.lines /\ g.live = v.live
      /\ g.starts = h.starts \ {a} /\ g.size = sizes
      /\ g.state = v.state /\ g.spaces = v.spaces /\ g.gone = v.gone /\ g.deaf = v.deaf
      /\ g.leaked = v.leaked /\ g.large = v.large
      /\ g.bump = v.bump /\ g.tlab = v.tlab /\ g.pending = v.pending /\ g.clean = v.clean
      /\ g.counted = m
  BY <1>3, <1>5, <1>6 DEF Heaps
<1> QED
  BY <1>5, <1>7 DEF Unstamped, g, sizes, m, down, less

LEMMA UnstampTallies ==
  ASSUME NEW h \in Heaps, NEW g \in Heaps, Placed(h), Tallied(h), NEW a \in h.starts,
         Unstamped(h, g, a)
  PROVE  Placed(g) /\ Tallied(g)
<1> DEFINE b == BlockIndex(a)
           n == h.size[a]
<1>1. a \in Addresses /\ InOneBlock(a, n)
  BY DEF Heaps, Placed
<1>2. b \in Blocks /\ LinesOf(a, n) \subseteq LinesIn(b) /\ LinesOf(a, n) \subseteq Lines
  BY <1>1, InBlocks, ObjectLines
<1>3. \A c \in g.starts : c \in h.starts /\ c # a /\ g.size[c] = h.size[c]
  BY <1>1 DEF Unstamped, Heaps
<1>4. Placed(g)
  <2>1. \A c \in g.starts : BytesAt(g, c) = BytesAt(h, c)
    BY <1>3 DEF BytesAt
  <2>2. g.clean = h.clean
    BY DEF Unstamped
  <2> QED
    BY <2>1, <2>2, <1>3 DEF Placed
<1>5. ASSUME NEW l \in Lines PROVE g.lines[l] = Cardinality(On(g, l))
  <2>1. h.lines[l] = Cardinality(On(h, l)) /\ IsFiniteSet(On(h, l))
    BY ObjectsFinite DEF Tallied
  <2>2. On(g, l) = On(h, l) \ {a} /\ (a \in On(h, l) <=> l \in LinesOf(a, n))
    BY <1>3 DEF On, Unstamped
  <2>3. CASE l \in LinesOf(a, n)
    <3>1. Cardinality(On(g, l)) = Cardinality(On(h, l)) - 1
      BY <2>1, <2>2, <2>3, FS_RemoveElement
    <3> QED
      BY <2>1, <2>3, <3>1 DEF Unstamped
  <2>4. CASE l \notin LinesOf(a, n)
    <3>1. On(g, l) = On(h, l)
      BY <2>2, <2>4
    <3> QED
      BY <2>1, <2>4, <3>1 DEF Unstamped
  <2> QED
    BY <2>3, <2>4
<1>6. ASSUME NEW l \in Lines
      PROVE  /\ h.lines[l] \in Nat /\ (l \in LinesOf(a, n) => h.lines[l] > 0)
             /\ g.lines[l] = IF l \in LinesOf(a, n) THEN h.lines[l] - 1 ELSE h.lines[l]
  <2>1. l \in LinesOf(a, n) => a \in On(h, l)
    BY DEF On
  <2> QED
    BY <2>1, EmptyLine DEF Unstamped
<1>7. ASSUME NEW c \in Blocks PROVE g.live[c] = Cardinality(Used(g, c))
  <2>1. /\ h.live[c] = Cardinality(Used(h, c)) /\ IsFiniteSet(Used(h, c))
        /\ LinesIn(c) \subseteq Lines
        /\ c \in Nat /\ b \in Nat
    BY <1>2, ObjectsFinite, InBlocks DEF Tallied
  <2>2. CASE c = b
    <3> DEFINE old == Vacated(h, a, n)
    <3>1. old \subseteq Used(h, c) /\ Used(g, c) = Used(h, c) \ old
      <4>1. \A l \in LinesIn(c) : l \in old <=> h.lines[l] > 0 /\ ~(g.lines[l] > 0)
        BY <1>6, <2>1 DEF Vacated
      <4>2. \A l \in LinesIn(c) : g.lines[l] > 0 => h.lines[l] > 0
        BY <1>6, <2>1
      <4>3. \A l \in old : l \in LinesIn(c)
        BY <1>2, <2>2 DEF Vacated
      <4> HIDE DEF old
      <4> QED
        BY <4>1, <4>2, <4>3 DEF Used
    <3> HIDE DEF old
    <3>2. IsFiniteSet(old) /\ Cardinality(old) \in Nat /\ Cardinality(Used(h, c)) \in Nat
      BY <2>1, <3>1, FS_Subset, FS_CardinalityType
    <3>3. Used(h, c) \cap old = old
      BY <3>1
    <3>4. Cardinality(Used(h, c) \ old) = Cardinality(Used(h, c)) - Cardinality(Used(h, c) \cap old)
      BY <2>1, <3>2, FS_Difference
    <3>5. Cardinality(Used(g, c)) = Cardinality(Used(h, c)) - Cardinality(old)
      BY <3>1, <3>3, <3>4
    <3>6. g.live[c] = h.live[c] - Cardinality(old)
      BY <1>2, <2>2 DEF Unstamped, Heaps, old
    <3> QED
      BY <2>1, <3>2, <3>5, <3>6
  <2>3. CASE c # b
    <3>1. \A l \in LinesIn(c) : l \notin LinesOf(a, n)
      BY <1>2, <2>1, <2>3, LinesApart
    <3>2. Used(g, c) = Used(h, c)
      BY <1>6, <2>1, <3>1 DEF Used
    <3> QED
      BY <2>1, <2>3, <3>2 DEF Unstamped, Heaps
  <2> QED
    BY <2>2, <2>3
<1> QED
  BY <1>4, <1>5, <1>7 DEF Tallied

\* An object fewer, and nothing else.
Died(h, g, a) ==
  /\ Good(g) /\ SameEmptied(h, g) /\ g.gone = h.gone /\ g.deaf = h.deaf /\ g.leaked = h.leaked
  /\ g.large = h.large
  /\ g.spaces = h.spaces
  /\ g.starts = h.starts \ {a} /\ g.size = [h.size EXCEPT ![a] = 0]
  /\ Reported(g) = Reported(h) - 1

LEMMA FreeGood ==
  ASSUME NEW h, Good(h), NEW a \in Objects(h), h.state[BlockIndex(a)] # "Evacuating"
  PROVE  Died(h, Free(h, a), a)
<1> DEFINE b == BlockIndex(a)
           n == h.size[a]
           u == Unstamp(h, a)
           g == Free(h, a)
           gap == Vacated(h, a, n)
           closes == gap # {} /\ u.state[b] \in {"Full", "Recyclable"}
<1>1. h \in Heaps /\ Placed(h) /\ Tallied(h) /\ StatesFit(h) /\ HolesFit(h) /\ GoneFit(h)
  BY DEF Good
<1>2. a \in Addresses /\ InOneBlock(a, n) /\ a \in h.starts /\ a \notin h.gone /\ a \notin h.deaf
  BY <1>1 DEF Heaps, Placed, Objects
<1>3. u \in Heaps /\ Unstamped(h, u, a)
  BY <1>1, <1>2, UnstampDoes
<1>4. Placed(u) /\ Tallied(u)
  <2> HIDE DEF u
  <2> QED
    BY <1>1, <1>2, <1>3, UnstampTallies
<1>5. g = IF closes THEN AfterFree(u, b) ELSE u
  <2>1. g = IF gap = {} THEN u ELSE AfterFree(u, b)
    BY <1>2 DEF Free, Unstamp
  <2> QED
    BY <2>1 DEF AfterFree
<1> HIDE DEF u, g
<1>6. /\ b \in Blocks /\ LinesOf(a, n) \subseteq LinesIn(b) /\ gap \subseteq LinesIn(b)
      /\ IsFiniteSet(gap) /\ LinesIn(b) \subseteq Lines
  <2>1. b \in Blocks /\ LinesOf(a, n) \subseteq LinesIn(b) /\ LinesIn(b) \subseteq Lines
    BY <1>2, InBlocks, ObjectLines
  <2>2. gap \in SUBSET Lines
    BY <2>1 DEF Vacated
  <2> QED
    BY <2>1, <2>2, Finite, FS_Subset DEF Vacated
<1>7. h.state[b] # "Free" /\ b \in InSpaces(h)
  <2>1. ObjectsIn(h, b) # {}
    BY <1>2 DEF ObjectsIn
  <2> QED
    BY <2>1, <1>1, <1>6, EmptyBlock DEF StatesFit, StateFits
<1>8. /\ u.state = h.state /\ u.spaces = h.spaces /\ u.gone = h.gone /\ u.deaf = h.deaf
      /\ u.leaked = h.leaked /\ u.large = h.large
      /\ u.bump = h.bump /\ u.tlab = h.tlab /\ u.pending = h.pending /\ u.clean = h.clean
      /\ u.counted = h.counted - 1 /\ u.starts = h.starts \ {a} /\ u.size = [h.size EXCEPT ![a] = 0]
  BY <1>3 DEF Unstamped
<1>9. /\ u.live[b] = h.live[b] - Cardinality(gap)
      /\ \A c \in Blocks : c # b => u.live[c] = h.live[c]
      /\ \A c \in Blocks : u.live[c] \in 0 .. BlockLines /\ h.live[c] \in 0 .. BlockLines
  <2>1. \A c \in Blocks : u.live[c] \in 0 .. BlockLines /\ h.live[c] \in 0 .. BlockLines
    BY <1>1, <1>3, <1>4, ObjectsFinite DEF Tallied
  <2> QED
    BY <2>1, <1>1, <1>3, <1>6 DEF Unstamped, Heaps
<1>10. Cardinality(gap) \in Nat /\ (Cardinality(gap) = 0 <=> gap = {})
  BY <1>6, FS_CardinalityType, FS_EmptySet
<1> HIDE DEF b, n, gap
<1>11. /\ g \in Heaps /\ SameObjects(u, g) /\ SameAccounts(u, g)
       /\ g.spaces = u.spaces /\ g.bump = u.bump /\ g.tlab = u.tlab /\ g.pending = u.pending
       /\ g.clean = u.clean
       /\ \A c \in Blocks : c # b => g.state[c] = u.state[c]
       /\ ~closes => g.state[b] = u.state[b]
       /\ closes => g.state[b] = IF u.live[b] = 0 THEN "Free" ELSE "Recyclable"
  <2>1. CASE ~closes
    BY <2>1, <1>3, <1>5 DEF SameObjects, SameAccounts
  <2>2. CASE closes /\ u.live[b] = 0
    <3> DEFINE d == ClearStarts(u, b)
    <3>1. ObjectsIn(u, b) = {}
      BY <1>3, <1>4, <1>6, <2>2, EmptyBlock
    <3>2. {c \in u.starts : BlockIndex(c) # b} = u.starts
      BY <3>1 DEF ObjectsIn
    <3>3. d = u
      BY <3>2, <1>3 DEF ClearStarts, Heaps
    <3>4. g = [u EXCEPT !.state[b] = "Free"]
      BY <2>2, <3>3, <1>5 DEF AfterFree
    <3>5. "Free" \in States
      BY DEF States
    <3> HIDE DEF closes
    <3> QED
      BY <2>2, <3>4, <3>5, <1>3, <1>6 DEF SameObjects, SameAccounts, Heaps
  <2>3. CASE closes /\ u.live[b] # 0
    <3>1. g = [u EXCEPT !.state[b] = "Recyclable"]
      BY <2>3, <1>5 DEF AfterFree
    <3>2. "Recyclable" \in States
      BY DEF States
    <3> HIDE DEF closes
    <3> QED
      BY <2>3, <3>1, <3>2, <1>3, <1>6 DEF SameObjects, SameAccounts, Heaps
  <2> QED
    BY <2>1, <2>2, <2>3
<1>12. Placed(g) /\ Tallied(g)
  BY <1>3, <1>4, <1>11, SameTallies
<1>13. InSpaces(g) = InSpaces(h)
  BY <1>8, <1>11 DEF InSpaces
<1>14. StatesFit(g)
  <2> SUFFICES ASSUME NEW c \in Blocks PROVE StateFits(g, c)
    BY DEF StatesFit
  <2>1. StateFits(h, c) /\ g.live[c] = u.live[c]
    BY <1>1, <1>11 DEF StatesFit, SameObjects
  <2>2. CASE c # b
    BY <2>1, <2>2, <1>8, <1>9, <1>11, <1>13 DEF StateFits
  <2>3. CASE c = b /\ closes
    <3>1. u.live[b] \in Nat /\ u.live[b] < BlockLines
      BY <2>3, <1>6, <1>9, <1>10, Constants
    <3> QED
      BY <2>1, <2>3, <3>1, <1>7, <1>11, <1>13 DEF StateFits
  <2>4. CASE c = b /\ ~closes
    <3>1. h.state[b] \in {"Full", "Recyclable"} => u.live[b] = h.live[b]
      BY <2>4, <1>6, <1>8, <1>9, <1>10
    <3>2. g.state[b] = h.state[b] /\ h.state[b] \notin {"Free", "Evacuating"}
      BY <2>4, <1>7, <1>8, <1>11 DEF b
    <3> QED
      BY <2>1, <2>4, <3>1, <3>2, <1>13 DEF StateFits
  <2> QED
    BY <2>2, <2>3, <2>4
<1>15. \A i \in Holders : HoleOf(g, i) = HoleOf(h, i)
  BY <1>8, <1>11 DEF HoleOf
<1>16. ASSUME NEW c \in Blocks
       PROVE  /\ h.state[c] = "Open" => g.state[c] = "Open"
              /\ g.state[c] = "Evacuating" <=> h.state[c] = "Evacuating"
  <2>1. h.state[b] # "Evacuating"
    BY DEF b
  <2> QED
    BY <2>1, <1>8, <1>11
<1>17. HolesFit(g)
  <2> SUFFICES ASSUME NEW i \in Holders, HoleOf(h, i) # NoHole
               PROVE  HoleFits(g, HoleOf(h, i))
    BY <1>1, <1>15 DEF HolesFit
  <2>1. HoleFits(h, HoleOf(h, i)) /\ HoleOf(h, i).block \in Blocks
    BY <1>1, HolesAre DEF HolesFit, HoleFits
  <2> QED
    BY <2>1, <1>8, <1>11, <1>13, <1>16 DEF HoleFits
<1>18. GoneFit(g)
  <2>1. ASSUME NEW c \in g.gone PROVE c \in g.starts /\ g.state[BlockIndex(c)] = "Evacuating"
    <3>1. c \in h.gone /\ c \in h.starts /\ h.state[BlockIndex(c)] = "Evacuating" /\ c # a
      BY <2>1, <1>1, <1>2, <1>8, <1>11 DEF GoneFit, SameAccounts
    <3>2. BlockIndex(c) \in Blocks
      BY <3>1, <1>1, InBlocks DEF Heaps
    <3> QED
      BY <3>1, <3>2, <1>8, <1>11, <1>16 DEF SameObjects
  <2>2. g.deaf \subseteq g.starts
    BY <1>1, <1>2, <1>8, <1>11 DEF GoneFit, SameObjects, SameAccounts
  <2> QED
    BY <2>1, <2>2 DEF GoneFit
<1>19. Reported(g) = Reported(h) - 1
  <2>1. h.counted \in Int /\ \A t \in Threads : h.pending[t] \in Nat
    BY <1>1 DEF Heaps
  <2> QED
    BY <2>1, <1>8, <1>11, Apart DEF Reported, SameAccounts
<1>20. Good(g)
  BY <1>11, <1>12, <1>14, <1>17, <1>18 DEF Good
<1> QED
  BY <1>8, <1>11, <1>16, <1>19, <1>20 DEF Died, SameEmptied, SameObjects, SameAccounts, g

-----------------------------------------------------------------------------
(* A heap never has fewer spaces than it had. This is of any heap at all,   *)
(* for an allocation past the last space, which no step ends with.          *)

Spaced(h) == "spaces" \in DOMAIN h /\ h.spaces \in Nat

LEMMA EveryHeapSpaced ==
  ASSUME NEW h \in Heaps
  PROVE  Spaced(h)
BY DEF Heaps, Spaced

LEMMA SpacesKept ==
  ASSUME NEW h, Spaced(h)
  PROVE  /\ \A b : Spaced(CloseBlock(h, b)) /\ CloseBlock(h, b).spaces = h.spaces
         /\ \A r : Spaced(OpenHole(h, r)) /\ OpenHole(h, r).spaces = h.spaces
         /\ \A t : Spaced(FlushCounters(h, t)) /\ FlushCounters(h, t).spaces = h.spaces
         /\ \A a, n : Spaced(Stamp(h, a, n)) /\ Stamp(h, a, n).spaces = h.spaces
         /\ \A a : Spaced(Free(h, a)) /\ Free(h, a).spaces = h.spaces
<1>1. ASSUME NEW k, Spaced(k), NEW b
      PROVE  /\ Spaced(Dirty(k, b)) /\ Dirty(k, b).spaces = k.spaces
             /\ Spaced(ClearStarts(k, b)) /\ ClearStarts(k, b).spaces = k.spaces
  BY <1>1 DEF Spaced, Dirty, ClearStarts
<1>2. ASSUME NEW k, Spaced(k), NEW b, NEW s
      PROVE  LET g == [k EXCEPT !.state[b] = s] IN Spaced(g) /\ g.spaces = k.spaces
  BY <1>2 DEF Spaced
<1>3. ASSUME NEW b PROVE Spaced(CloseBlock(h, b)) /\ CloseBlock(h, b).spaces = h.spaces
  <2> DEFINE d == Dirty(h, b)
             c == ClearStarts(d, b)
             s == IF HasHole(d, b, b * BlockLines, 1) THEN "Recyclable" ELSE "Full"
  <2>1. Spaced(d) /\ d.spaces = h.spaces /\ Spaced(c) /\ c.spaces = h.spaces
    BY <1>1
  <2>2. CloseBlock(h, b) \in {d, [c EXCEPT !.state[b] = "Free"], [d EXCEPT !.state[b] = s]}
    BY DEF CloseBlock
  <2> HIDE DEF d, c, s
  <2> DEFINE x == [c EXCEPT !.state[b] = "Free"]
             y == [d EXCEPT !.state[b] = s]
  <2>3. Spaced(x) /\ x.spaces = h.spaces
    BY <2>1, <1>2
  <2>4. Spaced(y) /\ y.spaces = h.spaces
    BY <2>1, <1>2
  <2> HIDE DEF x, y
  <2> QED
    BY <2>1, <2>2, <2>3, <2>4 DEF x, y
<1>4. ASSUME NEW r PROVE Spaced(OpenHole(h, r)) /\ OpenHole(h, r).spaces = h.spaces
  BY DEF OpenHole, Spaced
<1>5. ASSUME NEW t PROVE Spaced(FlushCounters(h, t)) /\ FlushCounters(h, t).spaces = h.spaces
  BY DEF FlushCounters, Spaced
<1>6. ASSUME NEW a, NEW n PROVE Spaced(Stamp(h, a, n)) /\ Stamp(h, a, n).spaces = h.spaces
  <2> DEFINE d == [h EXCEPT !.size[a] = n, !.starts = @ \cup {a}, !.clean = @ \ BytesOf(a, n)]
  <2>1. Spaced(d) /\ d.spaces = h.spaces
    BY DEF Spaced
  <2>2. Stamp(h, a, n) = Occupy(d, a, n)
    BY DEF Stamp
  <2> HIDE DEF d
  <2> QED
    BY <2>1, <2>2 DEF Occupy, Spaced
<1>7. ASSUME NEW a PROVE Spaced(Free(h, a)) /\ Free(h, a).spaces = h.spaces
  <2> DEFINE v == Vacate(h, a, h.size[a])
             g == [v EXCEPT !.starts = @ \ {a}, !.size[a] = 0, !.counted = @ - 1]
             b == BlockIndex(a)
             c == ClearStarts(g, b)
  <2>1. Spaced(v) /\ v.spaces = h.spaces
    BY DEF Vacate, Spaced
  <2>2. Spaced(g) /\ g.spaces = h.spaces
    <3> HIDE DEF v
    <3> QED
      BY <2>1 DEF Spaced
  <2>3. Free(h, a) \in {h, g, AfterFree(g, b)}
    BY DEF Free
  <2> HIDE DEF g
  <2>4. Spaced(c) /\ c.spaces = h.spaces
    BY <2>2, <1>1
  <2>5. AfterFree(g, b) \in {g, [c EXCEPT !.state[b] = "Free"], [g EXCEPT !.state[b] = "Recyclable"]}
    BY DEF AfterFree
  <2> HIDE DEF c, b
  <2> DEFINE x == [c EXCEPT !.state[b] = "Free"]
             y == [g EXCEPT !.state[b] = "Recyclable"]
  <2>6. Spaced(x) /\ x.spaces = h.spaces
    BY <2>4, <1>2
  <2>7. Spaced(y) /\ y.spaces = h.spaces
    BY <2>2, <1>2
  <2>8. AfterFree(g, b) \in {g, x, y}
    BY <2>5
  <2> HIDE DEF x, y
  <2>9. Spaced(AfterFree(g, b)) /\ AfterFree(g, b).spaces = h.spaces
    BY <2>2, <2>6, <2>7, <2>8
  <2> QED
    BY <2>2, <2>3, <2>9
<1> QED
  BY <1>3, <1>4, <1>5, <1>6, <1>7

\* No fewer spaces.
Wider(h, g) == Spaced(g) /\ h.spaces <= g.spaces

LEMMA WiderTwice ==
  ASSUME NEW h, Spaced(h), NEW g, Wider(h, g), NEW k, Wider(g, k)
  PROVE  Wider(h, k)
BY DEF Wider, Spaced

LEMMA ReserveWidens ==
  ASSUME NEW h, Spaced(h), NEW want
  PROVE  Wider(h, Reserve(h, want).heap)
<1>1. ASSUME NEW k, Spaced(k) PROVE Wider(k, Search(k, want).heap)
  <2> DEFINE m == k.spaces + 1
  <2>1. m \in Nat /\ k.spaces \in Nat
    BY <1>1 DEF Spaced
  <2>2. Search(k, want).heap \in {k, [k EXCEPT !.spaces = m]}
    BY DEF Search
  <2>3. k.spaces <= m
    BY <2>1
  <2> HIDE DEF m
  <2>4. Wider(k, k) /\ Wider(k, [k EXCEPT !.spaces = m])
    BY <1>1, <2>1, <2>3 DEF Wider, Spaced
  <2> QED
    BY <2>2, <2>4
<1> DEFINE c == CloseBlock(h, h.bump.block)
           p == PutBack(h)
<1>2. Spaced(p) /\ p.spaces = h.spaces
  <2>1. Spaced(c) /\ c.spaces = h.spaces
    BY SpacesKept
  <2>2. p = [c EXCEPT !.bump = NoHole]
    BY DEF PutBack
  <2> HIDE DEF c, p
  <2> QED
    BY <2>1, <2>2 DEF Spaced
<1> HIDE DEF p
<1> DEFINE q == FindHole(h, h.bump.block, LineIndex(h.bump.limit), want)
           s == Search(IF h.bump = NoHole THEN h ELSE p, want)
<1>3. Reserve(h, want).heap \in {OpenHole(h, q), OpenHole(s.heap, s.hole)}
  BY DEF Reserve, p
<1>4. Wider(h, s.heap)
  BY <1>1, <1>2 DEF Wider
<1> HIDE DEF q, s
<1>5. Wider(h, OpenHole(h, q))
  BY SpacesKept DEF Wider, Spaced
<1>6. Wider(h, OpenHole(s.heap, s.hole))
  BY <1>4, SpacesKept DEF Wider
<1> QED
  BY <1>3, <1>5, <1>6

LEMMA AllocWidens ==
  ASSUME NEW h, Spaced(h)
  PROVE  /\ \A t, n : Wider(h, Alloc(h, t, n).heap)
         /\ \A n : Wider(h, AllocLocked(h, n).heap)
         /\ \A c, mistaken : Wider(h, HandBack(h, c, mistaken))
<1>1. ASSUME NEW t PROVE Spaced(RetireTlab(h, t)) /\ RetireTlab(h, t).spaces = h.spaces
  <2> DEFINE f == FlushCounters(h, t)
             c == CloseBlock(f, h.tlab[t].block)
  <2>1. Spaced(f) /\ f.spaces = h.spaces
    BY SpacesKept
  <2> HIDE DEF f
  <2>2. Spaced(c) /\ c.spaces = h.spaces
    BY <2>1, SpacesKept
  <2> HIDE DEF c
  <2>3. LET g == [c EXCEPT !.tlab[t] = NoHole] IN Spaced(g) /\ g.spaces = h.spaces
    BY <2>2 DEF Spaced
  <2>4. RetireTlab(h, t) \in {f, [c EXCEPT !.tlab[t] = NoHole]}
    BY DEF RetireTlab, f, c
  <2> QED
    BY <2>1, <2>3, <2>4
<1>2. ASSUME NEW t, NEW n PROVE Wider(h, TlabAlloc(WithRoom(h, t, n), t, n))
  <2> DEFINE d == RetireTlab(h, t)
             r == Reserve(d, n)
             e == r.heap
             k == WithRoom(h, t, n)
             s == Stamp(k, k.tlab[t].cursor, n)
  <2>1. Wider(h, e)
    <3>1. Spaced(d) /\ d.spaces = h.spaces
      BY <1>1
    <3> HIDE DEF d
    <3> QED
      BY <3>1, ReserveWidens DEF Wider
  <2>2. k \in {h, [e EXCEPT !.bump = NoHole, !.tlab[t] = r.hole]}
    BY DEF WithRoom, RefillTlab
  <2> DEFINE x == [e EXCEPT !.bump = NoHole, !.tlab[t] = r.hole]
  <2> HIDE DEF e, k, r
  <2>3. Wider(h, x)
    BY <2>1 DEF Wider, Spaced
  <2>4. Wider(h, h) /\ k \in {h, x}
    BY <2>2 DEF Wider, Spaced
  <2> HIDE DEF x
  <2>5. Wider(h, k)
    BY <2>3, <2>4
  <2>6. Wider(h, s)
    BY <2>5, SpacesKept DEF Wider
  <2>7. TlabAlloc(k, t, n) = [s EXCEPT !.tlab[t].cursor = @ + n, !.pending[t] = @ + 1]
    BY DEF TlabAlloc
  <2> HIDE DEF s
  <2>8. Wider(h, TlabAlloc(k, t, n))
    BY <2>6, <2>7 DEF Wider, Spaced
  <2> QED
    BY <2>8 DEF k
<1>3. ASSUME NEW n PROVE Wider(h, BumpAlloc(h, n).heap)
  <2> DEFINE r == IF h.bump # NoHole /\ h.bump.cursor + n <= h.bump.limit
                  THEN [heap |-> h, hole |-> h.bump] ELSE Reserve(h, n)
             e == r.heap
             s == Stamp(e, r.hole.cursor, n)
             g == [s EXCEPT !.bump = [r.hole EXCEPT !.cursor = @ + n], !.counted = @ + 1]
  <2>1. BumpAlloc(h, n).heap = g
    BY DEF BumpAlloc
  <2>2. e \in {h, Reserve(h, n).heap}
    OBVIOUS
  <2> HIDE DEF e, r
  <2>3. Wider(h, e)
    BY <2>2, ReserveWidens DEF Wider, Spaced
  <2>4. Wider(h, s)
    BY <2>3, SpacesKept DEF Wider
  <2> HIDE DEF s
  <2>5. Wider(h, g)
    BY <2>4 DEF Wider, Spaced
  <2> QED
    BY <2>1, <2>5
<1>4. Wider(h, AllocLarge(h))
  BY DEF AllocLarge, Wider, Spaced
<1>5. ASSUME NEW c, NEW mistaken PROVE Wider(h, HandBack(h, c, mistaken))
  <2> DEFINE l == h.large - (IF c = LargeSpace THEN 1 ELSE 0)
  <2>1. HandBack(h, c, mistaken) \in
          {[h EXCEPT !.leaked = @ + 1, !.deaf = @ \cup ({c} \ {LargeSpace}), !.large = l],
           FreeLarge(h, 1), Free(h, c)}
    BY DEF HandBack
  <2> HIDE DEF l
  <2>2. Wider(h, [h EXCEPT !.leaked = @ + 1, !.deaf = @ \cup ({c} \ {LargeSpace}), !.large = l])
    BY DEF Wider, Spaced
  <2>3. Wider(h, FreeLarge(h, 1))
    BY DEF FreeLarge, Wider, Spaced
  <2>4. Wider(h, Free(h, c))
    BY SpacesKept DEF Wider, Spaced
  <2> QED
    BY <2>1, <2>2, <2>3, <2>4
<1>6. ASSUME NEW t, NEW n PROVE Wider(h, Alloc(h, t, n).heap)
  <2>1. Alloc(h, t, n).heap \in {AllocLarge(h), TlabAlloc(WithRoom(h, t, n), t, n)}
    BY DEF Alloc
  <2> QED
    BY <2>1, <1>2, <1>4
<1>7. ASSUME NEW n PROVE Wider(h, AllocLocked(h, n).heap)
  <2>1. AllocLocked(h, n).heap \in {AllocLarge(h), BumpAlloc(h, n).heap}
    BY DEF AllocLocked
  <2> QED
    BY <2>1, <1>3, <1>4
<1> QED
  BY <1>5, <1>6, <1>7

LEMMA MoveWidens ==
  ASSUME NEW h, Spaced(h), NEW a
  PROVE  /\ \A t : Wider(h, MoveOne(h, t, a))
         /\ \A lost, mistaken : Wider(h, CopyOut(h, a, lost, mistaken))
<1>1. ASSUME NEW t PROVE Wider(h, MoveOne(h, t, a))
  <2> DEFINE g == Alloc(h, t, h.size[a]).heap
  <2>1. Wider(h, g)
    BY AllocWidens
  <2>2. MoveOne(h, t, a) = [g EXCEPT !.gone = @ \cup {a}, !.counted = @ - 1]
    BY DEF MoveOne, NoteForwarded
  <2> HIDE DEF g
  <2> QED
    BY <2>1, <2>2 DEF Wider, Spaced
<1>2. ASSUME NEW lost, NEW mistaken PROVE Wider(h, CopyOut(h, a, lost, mistaken))
  <2> DEFINE r == AllocLocked(h, h.size[a])
             e == r.heap
             f == HandBack(e, r.at, mistaken)
  <2>1. Wider(h, e)
    BY AllocWidens
  <2>2. CopyOut(h, a, lost, mistaken) \in {[f EXCEPT !.gone = @ \cup {a}],
                                           [e EXCEPT !.gone = @ \cup {a}, !.counted = @ - 1]}
    BY DEF CopyOut, NoteForwarded
  <2> HIDE DEF e
  <2>3. Wider(e, f)
    BY <2>1, AllocWidens DEF Wider
  <2> HIDE DEF f
  <2>4. Wider(h, f)
    BY <2>1, <2>3, WiderTwice
  <2> QED
    BY <2>1, <2>2, <2>4 DEF Wider, Spaced
<1> QED
  BY <1>1, <1>2

-----------------------------------------------------------------------------
(* Moving.                                                                  *)

\* What the count is to come to.
Accounted(h) == Cardinality(Objects(h)) + h.large + h.leaked

\* The objects s have been forwarded, of which k are still on the count.
Moved(h, g, s, k) ==
  /\ Good(g) /\ SameEmptied(h, g) /\ h.large <= g.large
  /\ h.starts \subseteq g.starts /\ \A c \in h.starts : g.size[c] = h.size[c]
  /\ g.gone = h.gone \cup s /\ g.deaf \cap h.starts = h.deaf
  /\ Reported(g) + Accounted(h) = Reported(h) + Accounted(g) + k

LEMMA ObjectsCounted ==
  ASSUME NEW h, Good(h)
  PROVE  /\ IsFiniteSet(Objects(h)) /\ Cardinality(Objects(h)) \in Nat /\ Reported(h) \in Int
         /\ h.gone \subseteq h.starts /\ h.deaf \subseteq h.starts
         /\ h.large \in Nat /\ h.leaked \in Nat /\ Accounted(h) \in Nat
<1>1. Objects(h) \in SUBSET h.starts /\ h \in Heaps
  BY DEF Objects, Good
<1>2. IsFiniteSet(Objects(h)) /\ Cardinality(Objects(h)) \in Nat
  BY <1>1, ObjectsFinite, FS_Subset, FS_CardinalityType
<1>3. /\ h.counted \in Int /\ h.large \in Nat /\ h.leaked \in Nat
      /\ \A t \in Threads : h.pending[t] \in Nat
  BY <1>1 DEF Heaps
<1>4. Reported(h) \in Int
  BY <1>3, Apart DEF Reported
<1>5. Accounted(h) \in Nat
  BY <1>2, <1>3 DEF Accounted
<1> QED
  BY <1>2, <1>3, <1>4, <1>5 DEF Good, GoneFit

LEMMA MovedTwice ==
  ASSUME NEW h, Good(h), NEW g, NEW s, NEW k \in Int, Moved(h, g, s, k),
         NEW e, NEW u, NEW j \in Int, Moved(g, e, u, j)
  PROVE  Moved(h, e, s \cup u, k + j)
<1>1. /\ Good(g) /\ SameEmptied(h, g) /\ h.large <= g.large
      /\ h.starts \subseteq g.starts /\ \A c \in h.starts : g.size[c] = h.size[c]
      /\ g.gone = h.gone \cup s /\ g.deaf \cap h.starts = h.deaf
      /\ Reported(g) + Accounted(h) = Reported(h) + Accounted(g) + k
  BY DEF Moved
<1>2. /\ Good(e) /\ SameEmptied(g, e) /\ g.large <= e.large
      /\ g.starts \subseteq e.starts /\ \A c \in g.starts : e.size[c] = g.size[c]
      /\ e.gone = g.gone \cup u /\ e.deaf \cap g.starts = g.deaf
      /\ Reported(e) + Accounted(g) = Reported(g) + Accounted(e) + j
  BY DEF Moved
<1>3. SameEmptied(h, e)
  BY <1>1, <1>2 DEF SameEmptied
<1>4. /\ Accounted(h) \in Nat /\ Accounted(g) \in Nat /\ Accounted(e) \in Nat
      /\ Reported(h) \in Int /\ Reported(g) \in Int /\ Reported(e) \in Int
      /\ h.large \in Nat /\ g.large \in Nat /\ e.large \in Nat
  BY <1>1, <1>2, ObjectsCounted
<1>5. Reported(e) + Accounted(h) = Reported(h) + Accounted(e) + (k + j)
  <2> DEFINE rh == Reported(h)
             rg == Reported(g)
             re == Reported(e)
             ch == Accounted(h)
             cg == Accounted(g)
             ce == Accounted(e)
  <2>1. rg + ch = rh + cg + k /\ re + cg = rg + ce + j
    BY <1>1, <1>2
  <2>2. rh \in Int /\ rg \in Int /\ re \in Int /\ ch \in Int /\ cg \in Int /\ ce \in Int
    BY <1>4
  <2> HIDE DEF rh, rg, re, ch, cg, ce
  <2>3. re + ch = rh + ce + (k + j)
    BY <2>1, <2>2
  <2> QED
    BY <2>3 DEF rh, re, ch, ce
<1>6. h.large <= e.large
  BY <1>1, <1>2, <1>4
<1>7. /\ h.starts \subseteq e.starts /\ \A c \in h.starts : e.size[c] = h.size[c]
      /\ e.gone = h.gone \cup (s \cup u) /\ e.deaf \cap h.starts = h.deaf
  BY <1>1, <1>2
<1> QED
  BY <1>2, <1>3, <1>5, <1>6, <1>7 DEF Moved

LEMMA MovedNone ==
  ASSUME NEW h, Good(h)
  PROVE  Moved(h, h, {}, 0)
<1>1. /\ h.large \in Nat /\ h.deaf \subseteq h.starts /\ Reported(h) \in Int /\ Accounted(h) \in Nat
  BY ObjectsCounted
<1> QED
  BY <1>1 DEF Moved, SameEmptied

\* A copy made, ...
LEMMA MadeMoved ==
  ASSUME NEW h, Good(h), NEW c, NEW n, NEW g, Made(h, g, c, n)
  PROVE  /\ Moved(h, g, {}, 0) /\ Objects(h) \subseteq Objects(g) /\ c \notin h.starts
         /\ g.deaf = h.deaf
         /\ c = LargeSpace => g.large = h.large + 1
         /\ c # LargeSpace => /\ c \in Objects(g) /\ c \in Addresses
                              /\ g.state[BlockIndex(c)] # "Evacuating"
<1>0. h.starts \subseteq Addresses
  BY DEF Good, Heaps
<1>1. CASE c = LargeSpace
  <2>1. /\ Good(g) /\ SameEmptied(h, g) /\ SameObjects(h, g)
        /\ g.gone = h.gone /\ g.deaf = h.deaf /\ g.leaked = h.leaked /\ g.large = h.large + 1
        /\ Reported(g) = Reported(h) + 1
    BY <1>1 DEF Made, LargeBorn
  <2>2. Objects(g) = Objects(h) /\ g.deaf \cap h.starts = h.deaf
    BY <2>1, ObjectsCounted DEF Objects, SameObjects
  <2>3. Reported(g) + Accounted(h) = Reported(h) + Accounted(g) + 0 /\ h.large <= g.large
    BY <2>1, <2>2, ObjectsCounted DEF Accounted
  <2>4. c \notin h.starts
    BY <1>0, <1>1, InBlocks DEF LargeSpace
  <2> QED
    BY <1>1, <2>1, <2>2, <2>3, <2>4 DEF Moved, SameObjects
<1>2. CASE c # LargeSpace
  <2>1. /\ Good(g) /\ SameEmptied(h, g)
        /\ g.gone = h.gone /\ g.deaf = h.deaf /\ g.leaked = h.leaked /\ g.large = h.large
        /\ c \in Addresses /\ c \notin h.starts /\ g.state[BlockIndex(c)] = "Open"
        /\ g.starts = h.starts \cup {c} /\ g.size = [h.size EXCEPT ![c] = n]
        /\ Reported(g) = Reported(h) + 1
    BY <1>2 DEF Made, Born
  <2>2. Objects(g) = Objects(h) \cup {c} /\ c \notin Objects(h) /\ g.deaf \cap h.starts = h.deaf
    BY <2>1, ObjectsCounted DEF Objects
  <2>3. Cardinality(Objects(g)) = Cardinality(Objects(h)) + 1
    BY <2>2, ObjectsCounted, FS_AddElement
  <2>4. \A x \in h.starts : g.size[x] = h.size[x]
    BY <2>1 DEF Good, Heaps
  <2>5. Reported(g) + Accounted(h) = Reported(h) + Accounted(g) + 0 /\ h.large <= g.large
    BY <2>1, <2>3, ObjectsCounted DEF Accounted
  <2> QED
    BY <1>2, <2>1, <2>2, <2>4, <2>5 DEF Moved
<1> QED
  BY <1>1, <1>2

\* ... and handed back.
LEMMA DiedBalance ==
  ASSUME NEW h, Good(h), NEW a \in Objects(h), NEW g, Died(h, g, a)
  PROVE  /\ Objects(g) = Objects(h) \ {a}
         /\ Accounted(g) = Accounted(h) - 1
         /\ \A c \in g.starts : g.size[c] = h.size[c]
<1>1. /\ g.gone = h.gone /\ g.deaf = h.deaf /\ g.leaked = h.leaked /\ g.large = h.large
      /\ g.starts = h.starts \ {a} /\ g.size = [h.size EXCEPT ![a] = 0]
  BY DEF Died
<1>2. Objects(g) = Objects(h) \ {a}
  BY <1>1 DEF Objects
<1>3. Cardinality(Objects(g)) = Cardinality(Objects(h)) - 1
  BY <1>2, ObjectsCounted, FS_RemoveElement
<1>4. Accounted(g) = Accounted(h) - 1
  BY <1>1, <1>3, ObjectsCounted DEF Accounted
<1>5. \A c \in g.starts : g.size[c] = h.size[c]
  BY <1>1 DEF Good, Heaps
<1> QED
  BY <1>2, <1>4, <1>5

\* What a copy may be: large, or in a block that is not being emptied.
Handed(e, c) ==
  IF c = LargeSpace THEN e.large >= 1
  ELSE c \in Objects(e) /\ e.state[BlockIndex(c)] # "Evacuating"

\* A copy handed back is one fewer on the count and one fewer there is, or it
\* stays, and is taken for one that leaked.
LEMMA HandBackGood ==
  ASSUME NEW e, Good(e), NEW c, Handed(e, c), NEW mistaken \in BOOLEAN
  PROVE  LET f == HandBack(e, c, mistaken) IN
         /\ Good(f) /\ SameEmptied(e, f) /\ f.gone = e.gone /\ f.spaces = e.spaces
         /\ e.starts \ {c} \subseteq f.starts
         /\ \A x \in e.starts \ {c} : f.size[x] = e.size[x]
         /\ f.deaf \cap (e.starts \ {c}) = e.deaf
         /\ f.large = e.large - (IF c = LargeSpace THEN 1 ELSE 0)
         /\ Reported(f) + Accounted(e) = Reported(e) + Accounted(f)
<1> DEFINE f == HandBack(e, c, mistaken)
           one == IF c = LargeSpace THEN 1 ELSE 0
<1>1. /\ e \in Heaps /\ e.starts \subseteq Addresses /\ e.counted \in Int
      /\ e.large \in Nat /\ e.leaked \in Nat /\ e.deaf \subseteq e.starts
      /\ Reported(e) \in Int /\ Accounted(e) \in Nat /\ Cardinality(Objects(e)) \in Nat
  BY ObjectsCounted DEF Good, Heaps
<1>2. c \notin e.deaf
  <2>1. CASE c = LargeSpace
    BY <2>1, <1>1, InBlocks DEF LargeSpace
  <2>2. CASE c # LargeSpace
    BY <2>2 DEF Handed, Objects
  <2> QED
    BY <2>1, <2>2
<1>3. CASE mistaken
  <2> DEFINE q == e.deaf \cup ({c} \ {LargeSpace})
             l == e.large - one
             p == e.leaked + 1
  <2>1. f = [e EXCEPT !.leaked = p, !.deaf = q, !.large = l]
    BY <1>3 DEF HandBack
  <2>2. /\ l \in Nat /\ p \in Nat /\ q \subseteq e.starts
    BY <1>1 DEF Handed, Objects
  <2> HIDE DEF f, l, p, q
  <2>3. /\ f \in Heaps /\ SameObjects(e, f) /\ f.spaces = e.spaces /\ f.state = e.state
        /\ f.clean = e.clean /\ f.bump = e.bump /\ f.tlab = e.tlab /\ f.pending = e.pending
        /\ f.gone = e.gone /\ f.counted = e.counted
        /\ f.leaked = p /\ f.deaf = q /\ f.large = l
    BY <1>1, <2>1, <2>2 DEF Heaps, SameObjects
  <2>4. StatesFit(f) /\ GoneFit(f)
    <3>1. InSpaces(f) = InSpaces(e)
      BY <2>3 DEF InSpaces
    <3> QED
      BY <3>1, <2>2, <2>3 DEF Good, StatesFit, StateFits, GoneFit, SameObjects
  <2>5. Good(f) /\ Reported(f) = Reported(e) + (f.counted - e.counted)
    BY <2>3, <2>4, RecastGood DEF Recast
  <2>6. Reported(f) = Reported(e)
    BY <2>3, <2>5, <1>1
  <2>7. Accounted(f) = Accounted(e)
    <3>1. CASE c = LargeSpace
      <4>1. Objects(f) = Objects(e)
        BY <3>1, <2>3 DEF Objects, SameObjects, q
      <4> QED
        BY <3>1, <4>1, <2>3, <1>1 DEF Accounted, l, p
    <3>2. CASE c # LargeSpace
      <4>1. Objects(f) = Objects(e) \ {c} /\ c \in Objects(e)
        BY <3>2, <2>3 DEF Objects, SameObjects, q, Handed
      <4>2. Cardinality(Objects(f)) = Cardinality(Objects(e)) - 1
        BY <4>1, ObjectsCounted, FS_RemoveElement
      <4> QED
        BY <3>2, <4>2, <2>3, <1>1 DEF Accounted, l, p
    <3> QED
      BY <3>1, <3>2
  <2>8. SameEmptied(e, f)
    BY <2>3 DEF SameEmptied
  <2>9. /\ e.starts \ {c} \subseteq f.starts /\ \A x \in e.starts \ {c} : f.size[x] = e.size[x]
        /\ f.deaf \cap (e.starts \ {c}) = e.deaf
    BY <2>3, <1>1, <1>2 DEF SameObjects, q
  <2> QED
    BY <2>3, <2>5, <2>6, <2>7, <2>8, <2>9 DEF l, f
<1>4. CASE ~mistaken /\ c = LargeSpace
  <2> DEFINE l == e.large - 1
             m == e.counted - 1
  <2>1. f = [e EXCEPT !.large = l, !.counted = m]
    BY <1>4 DEF HandBack, FreeLarge
  <2>2. l \in Nat /\ m \in Int /\ m - e.counted = -1
    BY <1>1, <1>4 DEF Handed
  <2> HIDE DEF f, l, m
  <2>3. Recounted(e, f) /\ f.large = l /\ f.counted = m
    BY <1>1, <2>1, <2>2 DEF Heaps, SameObjects, Recounted, Recast
  <2>4. Good(f) /\ Reported(f) = Reported(e) - 1
    BY <1>1, <2>2, <2>3, AccountsGood
  <2>5. /\ SameObjects(e, f) /\ f.spaces = e.spaces /\ f.state = e.state
        /\ f.gone = e.gone /\ f.deaf = e.deaf /\ f.leaked = e.leaked
    BY <2>3 DEF Recounted, Recast
  <2>6. Objects(f) = Objects(e)
    BY <2>5 DEF Objects, SameObjects
  <2>7. Reported(f) + Accounted(e) = Reported(e) + Accounted(f)
    BY <1>1, <2>3, <2>4, <2>5, <2>6 DEF Accounted, l
  <2>8. SameEmptied(e, f)
    BY <2>5 DEF SameEmptied
  <2>9. /\ e.starts \ {c} \subseteq f.starts /\ \A x \in e.starts \ {c} : f.size[x] = e.size[x]
        /\ f.deaf \cap (e.starts \ {c}) = e.deaf
    BY <2>5, <1>1, <1>2 DEF SameObjects
  <2> QED
    BY <1>4, <2>3, <2>4, <2>5, <2>7, <2>8, <2>9 DEF l, f
<1>5. CASE ~mistaken /\ c # LargeSpace
  <2>1. f = Free(e, c)
    BY <1>5 DEF HandBack
  <2>2. c \in Objects(e) /\ e.state[BlockIndex(c)] # "Evacuating"
    BY <1>5 DEF Handed
  <2>3. Died(e, f, c)
    BY <2>1, <2>2, FreeGood
  <2> HIDE DEF f
  <2>4. /\ Good(f) /\ SameEmptied(e, f) /\ f.gone = e.gone /\ f.deaf = e.deaf
        /\ f.large = e.large /\ f.spaces = e.spaces
        /\ f.starts = e.starts \ {c} /\ Reported(f) = Reported(e) - 1
    BY <2>3 DEF Died
  <2>5. /\ Accounted(f) = Accounted(e) - 1
        /\ \A x \in f.starts : f.size[x] = e.size[x]
    BY <2>2, <2>3, DiedBalance
  <2>6. Reported(f) + Accounted(e) = Reported(e) + Accounted(f)
    BY <2>4, <2>5, <1>1
  <2>7. f.deaf \cap (e.starts \ {c}) = e.deaf
    BY <2>4, <1>1, <1>2
  <2> QED
    BY <1>1, <1>5, <2>4, <2>5, <2>6, <2>7 DEF f
<1> QED
  BY <1>3, <1>4, <1>5

\* The forwarding word taken, and the original off the count, or not.
LEMMA ForwardGood ==
  ASSUME NEW h, Good(h), NEW a \in Objects(h), h.state[BlockIndex(a)] = "Evacuating",
         NEW d \in {0, 1}, NEW g,
         g = [h EXCEPT !.gone = @ \cup {a}, !.counted = @ - d]
  PROVE  Moved(h, g, {a}, 1 - d) /\ g.spaces = h.spaces
<1>1. h \in Heaps /\ StatesFit(h) /\ GoneFit(h)
  BY DEF Good
<1>2. a \in Addresses /\ a \in h.starts /\ h.counted \in Int
  BY <1>1 DEF Objects, Heaps
<1> DEFINE m == h.counted - d
           u == h.gone \cup {a}
<1>3. m \in Int /\ u \in SUBSET Addresses /\ m - h.counted = -d
  BY <1>1, <1>2 DEF Heaps
<1>4. g = [h EXCEPT !.gone = u, !.counted = m]
  OBVIOUS
<1> HIDE DEF m, u
<1>5. /\ Recast(h, g) /\ SameObjects(h, g) /\ g.spaces = h.spaces /\ g.state = h.state
      /\ g.gone = u /\ g.counted = m
      /\ g.deaf = h.deaf /\ g.leaked = h.leaked /\ g.large = h.large
  BY <1>1, <1>3, <1>4 DEF Heaps, SameObjects, Recast
<1>6. StatesFit(g)
  <2>1. InSpaces(g) = InSpaces(h)
    BY <1>5 DEF InSpaces
  <2> QED
    BY <2>1, <1>1, <1>5 DEF StatesFit, StateFits, SameObjects
<1>7. GoneFit(g)
  BY <1>1, <1>2, <1>5 DEF GoneFit, SameObjects, u
<1>8. Good(g) /\ Reported(g) = Reported(h) + (m - h.counted)
  BY <1>5, <1>6, <1>7, RecastGood
<1>9. Objects(g) = Objects(h) \ {a}
  BY <1>5 DEF Objects, SameObjects, u
<1>10. Cardinality(Objects(g)) = Cardinality(Objects(h)) - 1
  BY <1>9, ObjectsCounted, FS_RemoveElement
<1>11. Accounted(g) = Accounted(h) - 1
  BY <1>5, <1>10, ObjectsCounted DEF Accounted
<1>12. Reported(g) + Accounted(h) = Reported(h) + Accounted(g) + (1 - d)
  BY <1>3, <1>8, <1>11, ObjectsCounted
<1>13. SameEmptied(h, g) /\ h.large <= g.large /\ g.deaf \cap h.starts = h.deaf
  BY <1>5, ObjectsCounted DEF SameEmptied
<1> QED
  BY <1>5, <1>8, <1>12, <1>13 DEF Moved, SameObjects, u

\* What may be moved fits in a block.
LEMMA MovableFits ==
  ASSUME NEW h, Good(h), NEW a \in h.starts
  PROVE  h.size[a] \in Nat \ {0} /\ BlockIndex(a) \in Blocks
BY InBlocks DEF Good, Heaps, Placed, InOneBlock

\* An object is moved by a thread, ...
LEMMA MoveOneGood ==
  ASSUME NEW h, Good(h), h.spaces <= MaxSpaces, NEW t \in Threads, NEW a \in Movable(h)
  PROVE  Moved(h, MoveOne(h, t, a), {a}, 0)
<1> DEFINE n == h.size[a]
           g == Alloc(h, t, n).heap
           c == Alloc(h, t, n).at
           m == MoveOne(h, t, a)
<1>1. a \in Objects(h) /\ a \in h.starts /\ h.state[BlockIndex(a)] = "Evacuating"
  BY DEF Movable, Objects
<1>2. n \in Nat \ {0} /\ BlockIndex(a) \in Blocks
  BY <1>1, MovableFits
<1>3. m = [g EXCEPT !.gone = @ \cup {a}, !.counted = @ - 1]
  BY DEF MoveOne, NoteForwarded
<1> HIDE DEF n, m
<1>4. Made(h, g, c, n)
  BY <1>2, AllocGood
<1> HIDE DEF g, c
<1>5. Moved(h, g, {}, 0) /\ a \in Objects(g)
  BY <1>1, <1>4, MadeMoved
<1>6. Good(g) /\ g.state[BlockIndex(a)] = "Evacuating"
  BY <1>1, <1>2, <1>5 DEF Moved, SameEmptied
<1>7. Moved(g, m, {a}, 0)
  <2>1. Moved(g, m, {a}, 1 - 1)
    BY <1>3, <1>5, <1>6, ForwardGood, Zenon
  <2> QED
    BY <2>1
<1>8. Moved(h, m, {} \cup {a}, 0 + 0)
  BY <1>5, <1>7, MovedTwice
<1>9. {} \cup {a} = {a} /\ 0 + 0 = 0
  OBVIOUS
<1> QED
  BY <1>8, <1>9 DEF m

\* ... or by the collector, who may find that the program was quicker.
LEMMA CopyOutGood ==
  ASSUME NEW h, Good(h), h.spaces <= MaxSpaces, NEW a \in Movable(h), NEW lost,
         NEW mistaken \in BOOLEAN
  PROVE  Moved(h, CopyOut(h, a, lost, mistaken), {a}, IF a \in lost THEN 1 ELSE 0)
<1> DEFINE n == h.size[a]
           r == AllocLocked(h, n)
           e == r.heap
           c == r.at
           f == HandBack(e, c, mistaken)
           m == CopyOut(h, a, lost, mistaken)
<1>1. a \in Objects(h) /\ a \in h.starts /\ h.state[BlockIndex(a)] = "Evacuating"
  BY DEF Movable, Objects
<1>2. n \in Nat \ {0} /\ BlockIndex(a) \in Blocks
  BY <1>1, MovableFits
<1>3. m = IF a \in lost THEN [f EXCEPT !.gone = @ \cup {a}]
          ELSE [e EXCEPT !.gone = @ \cup {a}, !.counted = @ - 1]
  BY DEF CopyOut, NoteForwarded
<1> HIDE DEF n, m
<1>4. Made(h, e, c, n)
  BY <1>2, AllocLockedGood
<1> HIDE DEF e, c
<1>5. /\ Moved(h, e, {}, 0) /\ a \in Objects(e) /\ c \notin h.starts /\ e.deaf = h.deaf
      /\ Good(e)
  BY <1>1, <1>4, MadeMoved DEF Moved
<1>6. e.state[BlockIndex(a)] = "Evacuating"
  BY <1>1, <1>2, <1>5 DEF Moved, SameEmptied
<1>7. {} \cup {a} = {a} /\ {} \cup {} = {} /\ 0 + 0 = 0 /\ 0 + 1 = 1
  OBVIOUS
<1>8. CASE a \notin lost
  <2>1. m = [e EXCEPT !.gone = @ \cup {a}, !.counted = @ - 1]
    BY <1>3, <1>8
  <2>2. Moved(e, m, {a}, 1 - 1)
    BY <2>1, <1>5, <1>6, ForwardGood, Zenon
  <2>3. 1 - 1 = 0
    OBVIOUS
  <2>4. Moved(h, m, {} \cup {a}, 0 + 0)
    BY <2>2, <2>3, <1>5, MovedTwice
  <2> QED
    BY <2>4, <1>7, <1>8 DEF m
<1>9. CASE a \in lost
  <2>1. m = [f EXCEPT !.gone = @ \cup {a}]
    BY <1>3, <1>9
  <2>2. Handed(e, c)
    <3>1. c = LargeSpace => e.large >= 1
      BY <1>4, MadeMoved, ObjectsCounted
    <3>2. c # LargeSpace => c \in Objects(e) /\ e.state[BlockIndex(c)] # "Evacuating"
      BY <1>4, MadeMoved
    <3> QED
      BY <3>1, <3>2 DEF Handed
  <2>3. /\ Good(f) /\ SameEmptied(e, f) /\ f.gone = e.gone
        /\ e.starts \ {c} \subseteq f.starts
        /\ \A x \in e.starts \ {c} : f.size[x] = e.size[x]
        /\ f.deaf \cap (e.starts \ {c}) = e.deaf
        /\ f.large = e.large - (IF c = LargeSpace THEN 1 ELSE 0)
        /\ Reported(f) + Accounted(e) = Reported(e) + Accounted(f)
    BY <2>2, <1>5, HandBackGood
  <2> HIDE DEF f
  <2>4. /\ SameEmptied(h, e) /\ h.large <= e.large
        /\ h.starts \subseteq e.starts /\ \A x \in h.starts : e.size[x] = h.size[x]
        /\ e.gone = h.gone \cup {}
        /\ Reported(e) + Accounted(h) = Reported(h) + Accounted(e) + 0
    BY <1>5 DEF Moved
  <2>5. /\ h.starts \subseteq f.starts /\ \A x \in h.starts : f.size[x] = h.size[x]
        /\ f.gone = h.gone \cup {} /\ f.deaf \cap h.starts = h.deaf
    <3>1. h.starts \subseteq e.starts \ {c} /\ h.deaf \subseteq h.starts
      BY <2>4, <1>5, ObjectsCounted
    <3> QED
      BY <3>1, <2>3, <2>4, <1>5
  <2>6. SameEmptied(h, f)
    BY <2>3, <2>4 DEF SameEmptied
  <2>7. h.large <= f.large
    <3>1. h.large \in Nat /\ e.large \in Nat
      BY <1>5, ObjectsCounted
    <3>2. c = LargeSpace => e.large = h.large + 1
      BY <1>4, MadeMoved
    <3> QED
      BY <3>1, <3>2, <2>3, <2>4
  <2>8. Reported(f) + Accounted(h) = Reported(h) + Accounted(f) + 0
    <3>1. /\ Accounted(h) \in Nat /\ Accounted(e) \in Nat /\ Accounted(f) \in Nat
          /\ Reported(h) \in Int /\ Reported(e) \in Int /\ Reported(f) \in Int
      BY <1>5, <2>3, ObjectsCounted
    <3> DEFINE rh == Reported(h)
               re == Reported(e)
               rf == Reported(f)
               ch == Accounted(h)
               ce == Accounted(e)
               cf == Accounted(f)
    <3>2. rf + ce = re + cf /\ re + ch = rh + ce + 0
      BY <2>3, <2>4
    <3>3. rh \in Int /\ re \in Int /\ rf \in Int /\ ch \in Int /\ ce \in Int /\ cf \in Int
      BY <3>1
    <3> HIDE DEF rh, re, rf, ch, ce, cf
    <3>4. rf + ch = rh + cf + 0
      BY <3>2, <3>3
    <3> QED
      BY <3>4 DEF rh, rf, ch, cf
  <2>9. Moved(h, f, {}, 0)
    BY <2>3, <2>5, <2>6, <2>7, <2>8 DEF Moved
  <2>10. a \in Objects(f) /\ f.state[BlockIndex(a)] = "Evacuating"
    <3>1. a \notin f.gone /\ a \notin f.deaf /\ a \in f.starts
      BY <1>1, <2>5 DEF Objects
    <3>2. f.state[BlockIndex(a)] = "Evacuating"
      BY <1>1, <1>2, <2>6 DEF SameEmptied
    <3> QED
      BY <3>1, <3>2 DEF Objects
  <2>11. m = [f EXCEPT !.gone = @ \cup {a}, !.counted = @ - 0]
    <3>1. f.counted \in Int /\ f \in Heaps
      BY <2>3 DEF Good, Heaps
    <3>2. f.counted - 0 = f.counted
      BY <3>1
    <3>3. [f EXCEPT !.gone = @ \cup {a}] = [f EXCEPT !.gone = @ \cup {a}, !.counted = f.counted]
      BY <3>1 DEF Heaps
    <3> QED
      BY <2>1, <3>2, <3>3
  <2>12. Moved(f, m, {a}, 1 - 0)
    BY <2>3, <2>10, <2>11, ForwardGood, Zenon
  <2>13. 1 - 0 = 1
    OBVIOUS
  <2>14. Moved(h, m, {} \cup {a}, 0 + 1)
    BY <2>9, <2>12, <2>13, MovedTwice
  <2> QED
    BY <2>14, <1>7, <1>9 DEF m
<1> QED
  BY <1>8, <1>9

-----------------------------------------------------------------------------
(* Many at once.                                                            *)

\* The objects s have been freed.
AllDied(h, g, s) ==
  /\ Good(g) /\ SameEmptied(h, g) /\ g.gone = h.gone /\ g.deaf = h.deaf /\ g.leaked = h.leaked
  /\ g.large = h.large
  /\ g.spaces = h.spaces /\ g.starts = h.starts \ s
  /\ Reported(g) + Accounted(h) = Reported(h) + Accounted(g)

LEMMA FreeAllGood ==
  ASSUME NEW h, Good(h), NEW S \in SUBSET Objects(h),
         \A a \in S : h.state[BlockIndex(a)] # "Evacuating"
  PROVE  AllDied(h, FreeAll(h, S), S)
<1>1. IsFiniteSet(S) /\ S \subseteq Addresses
  BY ObjectsCounted, FS_Subset DEF Objects, Good, Heaps
<1>2. PICK f : Folds(<<"free">>, h, f, S) /\ FreeAll(h, S) = f[S]
  BY <1>1, FreeAllFolds
<1>3. \A s \in SUBSET S : f[s] = After(<<"free">>, h, f, s)
  BY <1>2 DEF Folds
<1> DEFINE T == {s \in SUBSET S : AllDied(h, f[s], s)}
<1>4. {} \in T
  <2>1. f[{}] = h
    BY <1>3 DEF After
  <2>2. AllDied(h, h, {})
    BY ObjectsCounted DEF AllDied, SameEmptied
  <2> QED
    BY <2>1, <2>2
<1>5. ASSUME NEW s \in SUBSET S, s # {}, \A x \in s : s \ {x} \in T
      PROVE  s \in T
  <2> DEFINE x == Pick(s)
             u == s \ {x}
             e == f[u]
             g == f[s]
  <2>1. x \in s
    BY <1>5 DEF Pick
  <2>2. AllDied(h, e, u)
    BY <1>5, <2>1
  <2>3. g = Free(e, x)
    BY <1>3, <1>5 DEF After, Step
  <2> HIDE DEF e, g, x
  <2>4. /\ Good(e) /\ SameEmptied(h, e) /\ e.gone = h.gone /\ e.deaf = h.deaf
        /\ e.leaked = h.leaked /\ e.large = h.large
        /\ e.spaces = h.spaces /\ e.starts = h.starts \ u
        /\ Reported(e) + Accounted(h) = Reported(h) + Accounted(e)
    BY <2>2 DEF AllDied
  <2>5. x \in Objects(h) /\ x \in Addresses /\ h.state[BlockIndex(x)] # "Evacuating"
    BY <2>1, <1>1
  <2>6. x \in Objects(e) /\ e.state[BlockIndex(x)] # "Evacuating"
    BY <2>4, <2>5, InBlocks DEF Objects, SameEmptied
  <2>7. Died(e, g, x)
    BY <2>3, <2>4, <2>6, FreeGood
  <2>8. /\ Good(g) /\ SameEmptied(e, g) /\ g.gone = e.gone /\ g.deaf = e.deaf
        /\ g.leaked = e.leaked /\ g.large = e.large
        /\ g.spaces = e.spaces /\ g.starts = e.starts \ {x} /\ Reported(g) = Reported(e) - 1
    BY <2>7 DEF Died
  <2>9. Accounted(g) = Accounted(e) - 1
    BY <2>4, <2>6, <2>7, DiedBalance
  <2>10. g.starts = h.starts \ s
    BY <2>1, <2>4, <2>8
  <2>11. SameEmptied(h, g)
    BY <2>4, <2>8 DEF SameEmptied
  <2>12. Reported(g) + Accounted(h) = Reported(h) + Accounted(g)
    <3>1. /\ Accounted(h) \in Nat /\ Accounted(e) \in Nat
          /\ Reported(h) \in Int /\ Reported(e) \in Int
      BY <2>4, ObjectsCounted
    <3> QED
      BY <3>1, <2>4, <2>8, <2>9
  <2>13. AllDied(h, g, s)
    BY <2>4, <2>8, <2>10, <2>11, <2>12 DEF AllDied
  <2> QED
    BY <2>13 DEF g
<1> HIDE DEF T
<1>6. S \in T
  BY <1>1, <1>4, <1>5, SubsetInduction
<1> QED
  BY <1>2, <1>6 DEF T

LEMMA MoveRootsGood ==
  ASSUME NEW h, Good(h), NEW t \in Threads, NEW R \in SUBSET Movable(h),
         MoveRoots(h, t, R).spaces <= MaxSpaces
  PROVE  Moved(h, MoveRoots(h, t, R), R, 0)
<1>1. IsFiniteSet(R) /\ R \subseteq Addresses
  <2>1. R \in SUBSET Objects(h) /\ Objects(h) \subseteq Addresses
    BY DEF Movable, Objects, Good, Heaps
  <2> QED
    BY <2>1, ObjectsCounted, FS_Subset
<1>2. PICK f : Folds(<<"move", t>>, h, f, R) /\ MoveRoots(h, t, R) = f[R]
  BY <1>1, MoveRootsFolds
<1>3. \A s \in SUBSET R : f[s] = After(<<"move", t>>, h, f, s)
  BY <1>2 DEF Folds
<1> DEFINE T == {s \in SUBSET R : Spaced(f[s]) /\ (f[s].spaces <= MaxSpaces => Moved(h, f[s], s, 0))}
<1>4. {} \in T
  <2>1. f[{}] = h
    BY <1>3 DEF After
  <2>2. Spaced(h) /\ Moved(h, h, {}, 0)
    BY EveryHeapSpaced, MovedNone DEF Good
  <2> QED
    BY <2>1, <2>2
<1>5. ASSUME NEW s \in SUBSET R, s # {}, \A x \in s : s \ {x} \in T
      PROVE  s \in T
  <2> DEFINE x == Pick(s)
             u == s \ {x}
             e == f[u]
             g == f[s]
  <2>1. x \in s
    BY <1>5 DEF Pick
  <2>2. Spaced(e) /\ (e.spaces <= MaxSpaces => Moved(h, e, u, 0))
    BY <1>5, <2>1
  <2>3. g = MoveOne(e, t, x)
    BY <1>3, <1>5 DEF After, Step
  <2> HIDE DEF e, g, x
  <2>4. Wider(e, g)
    BY <2>2, <2>3, MoveWidens
  <2>5. ASSUME g.spaces <= MaxSpaces PROVE Moved(h, g, s, 0)
    <3>1. e.spaces <= MaxSpaces
      BY <2>2, <2>4, <2>5, Constants DEF Wider, Spaced
    <3>2. Moved(h, e, u, 0)
      BY <2>2, <3>1
    <3>3. /\ Good(e) /\ SameEmptied(h, e) /\ h.starts \subseteq e.starts /\ e.gone = h.gone \cup u
          /\ e.deaf \cap h.starts = h.deaf
      BY <3>2 DEF Moved
    <3>4. x \in Movable(h) /\ BlockIndex(x) \in Blocks
      BY <1>1, <2>1, InBlocks
    <3>5. x \in Movable(e)
      BY <3>3, <3>4 DEF Movable, Objects, SameEmptied
    <3>6. Moved(e, g, {x}, 0)
      BY <2>3, <3>1, <3>3, <3>5, MoveOneGood
    <3>7. Moved(h, g, u \cup {x}, 0 + 0)
      BY <3>2, <3>6, MovedTwice
    <3>8. u \cup {x} = s /\ 0 + 0 = 0
      BY <2>1
    <3> QED
      BY <3>7, <3>8
  <2> QED
    BY <2>4, <2>5 DEF g, Wider
<1> HIDE DEF T
<1>6. R \in T
  BY <1>1, <1>4, <1>5, SubsetInduction
<1> QED
  BY <1>2, <1>6 DEF T

LEMMA CopiesOutGood ==
  ASSUME NEW h, Good(h), NEW lost, NEW mistaken \in BOOLEAN, NEW S \in SUBSET Movable(h),
         CopiesOut(h, S, lost, mistaken).spaces <= MaxSpaces
  PROVE  Moved(h, CopiesOut(h, S, lost, mistaken), S, Cardinality(lost \cap S))
<1>1. IsFiniteSet(S) /\ S \subseteq Addresses
  <2>1. S \in SUBSET Objects(h) /\ Objects(h) \subseteq Addresses
    BY DEF Movable, Objects, Good, Heaps
  <2> QED
    BY <2>1, ObjectsCounted, FS_Subset
<1>2. PICK f : Folds(<<"copy", lost, mistaken>>, h, f, S) /\ CopiesOut(h, S, lost, mistaken) = f[S]
  BY <1>1, CopiesOutFolds
<1>3. \A s \in SUBSET S : f[s] = After(<<"copy", lost, mistaken>>, h, f, s)
  BY <1>2 DEF Folds
<1> DEFINE K(s) == Cardinality(lost \cap s)
           T == {s \in SUBSET S : Spaced(f[s]) /\ (f[s].spaces <= MaxSpaces => Moved(h, f[s], s, K(s)))}
<1>4. {} \in T
  <2>1. f[{}] = h
    BY <1>3 DEF After
  <2>2. lost \cap {} = {} /\ Cardinality({}) = 0
    BY FS_EmptySet
  <2>3. Spaced(h) /\ Moved(h, h, {}, K({}))
    BY <2>2, EveryHeapSpaced, MovedNone DEF Good
  <2> QED
    BY <2>1, <2>3
<1>5. ASSUME NEW s \in SUBSET S, s # {}, \A x \in s : s \ {x} \in T
      PROVE  s \in T
  <2> DEFINE x == Pick(s)
             u == s \ {x}
             e == f[u]
             g == f[s]
             one == IF x \in lost THEN 1 ELSE 0
  <2>1. x \in s
    BY <1>5 DEF Pick
  <2>2. Spaced(e) /\ (e.spaces <= MaxSpaces => Moved(h, e, u, K(u)))
    BY <1>5, <2>1
  <2>3. g = CopyOut(e, x, lost, mistaken)
    BY <1>3, <1>5 DEF After, Step
  <2> HIDE DEF e, g, x
  <2>4. Wider(e, g)
    BY <2>2, <2>3, MoveWidens
  <2>5. K(u) \in Nat /\ K(s) = K(u) + one
    <3>1. s \in SUBSET S /\ lost \cap u \in SUBSET S
      OBVIOUS
    <3>2. IsFiniteSet(lost \cap u)
      BY <1>1, <3>1, FS_Subset
    <3>3. x \notin lost \cap u
      OBVIOUS
    <3>4. CASE x \in lost
      <4>1. lost \cap s = (lost \cap u) \cup {x}
        BY <2>1, <3>4
      <4>2. Cardinality((lost \cap u) \cup {x}) = Cardinality(lost \cap u) + 1
        BY <3>2, <3>3, FS_AddElement
      <4> QED
        BY <3>2, <3>4, <4>1, <4>2, FS_CardinalityType
    <3>5. CASE x \notin lost
      <4>1. lost \cap s = lost \cap u
        BY <2>1, <3>5
      <4>2. Cardinality(lost \cap u) \in Nat
        BY <3>2, FS_CardinalityType
      <4> QED
        BY <3>5, <4>1, <4>2
    <3> QED
      BY <3>4, <3>5
  <2> HIDE DEF K
  <2>6. ASSUME g.spaces <= MaxSpaces PROVE Moved(h, g, s, K(s))
    <3>1. e.spaces <= MaxSpaces
      BY <2>2, <2>4, <2>6, Constants DEF Wider, Spaced
    <3>2. Moved(h, e, u, K(u))
      BY <2>2, <3>1
    <3>3. /\ Good(e) /\ SameEmptied(h, e) /\ h.starts \subseteq e.starts /\ e.gone = h.gone \cup u
          /\ e.deaf \cap h.starts = h.deaf
      BY <3>2 DEF Moved
    <3>4. x \in Movable(h) /\ BlockIndex(x) \in Blocks
      BY <1>1, <2>1, InBlocks
    <3>5. x \in Movable(e)
      BY <3>3, <3>4 DEF Movable, Objects, SameEmptied
    <3>6. Moved(e, g, {x}, one)
      BY <2>3, <3>1, <3>3, <3>5, CopyOutGood
    <3>7. one \in Int
      OBVIOUS
    <3> HIDE DEF one
    <3>8. Moved(h, g, u \cup {x}, K(u) + one)
      BY <2>5, <3>2, <3>6, <3>7, MovedTwice
    <3>9. u \cup {x} = s
      BY <2>1
    <3> QED
      BY <2>5, <3>8, <3>9
  <2> QED
    BY <2>4, <2>6 DEF g, Wider
<1> HIDE DEF T
<1>6. S \in T
  BY <1>1, <1>4, <1>5, SubsetInduction
<1> QED
  BY <1>2, <1>6 DEF T

-----------------------------------------------------------------------------
(* Whole blocks, and large objects.                                         *)

LEMMA EvacuatingAre ==
  ASSUME NEW h, Good(h)
  PROVE  /\ EvacuatingBlocks(h) = {b \in Blocks : h.state[b] = "Evacuating"}
         /\ EvacuatingBlocks(h) \subseteq Blocks
BY DEF EvacuatingBlocks, Good, StatesFit, StateFits, InSpaces

\* The blocks that were emptied are free, with whatever was left in them.
LEMMA ReleaseGood ==
  ASSUME NEW h, Good(h)
  PROVE  LET g == Release(h) IN
         /\ Good(g) /\ g.gone = {} /\ g.spaces = h.spaces
         /\ g.starts \subseteq h.starts
         /\ \A b \in Blocks : g.state[b] # "Evacuating"
         /\ Reported(g) + Accounted(h) = Reported(h) + Accounted(g)
<1> DEFINE E == EvacuatingBlocks(h)
           lost == {a \in Objects(h) : BlockIndex(a) \in E}
           g == Release(h)
           m == h.counted - Cardinality(lost)
           zero == [l \in Lines |-> IF \E b \in E : l \in LinesIn(b) THEN 0 ELSE h.lines[l]]
           none == [b \in Blocks |-> IF b \in E THEN 0 ELSE h.live[b]]
           kept == {a \in h.starts : BlockIndex(a) \notin E}
           mute == {a \in h.deaf : BlockIndex(a) \notin E}
           sizes == [a \in Addresses |-> IF BlockIndex(a) \in E THEN 0 ELSE h.size[a]]
           st == [b \in Blocks |-> IF b \in E THEN "Free" ELSE h.state[b]]
<1>1. h \in Heaps /\ Placed(h) /\ Tallied(h) /\ StatesFit(h) /\ HolesFit(h) /\ GoneFit(h)
  BY DEF Good
<1>2. E = {b \in Blocks : h.state[b] = "Evacuating"} /\ \A b \in Blocks : b \in Nat
  BY EvacuatingAre, InBlocks
<1> HIDE DEF E
<1>3. /\ lost \subseteq Objects(h) /\ IsFiniteSet(lost) /\ Cardinality(lost) \in Nat
  <2>1. lost \in SUBSET Objects(h)
    OBVIOUS
  <2> QED
    BY <2>1, ObjectsCounted, FS_Subset, FS_CardinalityType
<1> HIDE DEF lost
<1>4. /\ m \in Int /\ zero \in [Lines -> Int] /\ none \in [Blocks -> Int]
      /\ kept \in SUBSET Addresses /\ mute \in SUBSET Addresses /\ sizes \in [Addresses -> Nat]
      /\ st \in [Blocks -> States]
  BY <1>1, <1>3 DEF Heaps, States
<1>5. g = [h EXCEPT !.counted = m, !.lines = zero, !.live = none, !.starts = kept,
                    !.gone = {}, !.deaf = mute, !.size = sizes, !.state = st]
  BY DEF Release, E, lost
<1> HIDE DEF g, m, zero, none, kept, mute, sizes, st
<1>6. /\ g \in Heaps /\ g.counted = m /\ g.lines = zero /\ g.live = none /\ g.starts = kept
      /\ g.gone = {} /\ g.size = sizes /\ g.state = st /\ g.spaces = h.spaces
      /\ g.clean = h.clean /\ g.bump = h.bump /\ g.tlab = h.tlab /\ g.pending = h.pending
      /\ g.large = h.large /\ g.leaked = h.leaked /\ g.deaf = mute
  BY <1>1, <1>4, <1>5 DEF Heaps
<1>7. /\ g.starts \subseteq h.starts
      /\ \A a \in g.starts : a \in Addresses /\ BlockIndex(a) \notin E /\ g.size[a] = h.size[a]
  BY <1>1, <1>6 DEF kept, sizes, Heaps
<1>8. Placed(g)
  <2>1. \A a \in g.starts : BytesAt(g, a) = BytesAt(h, a)
    BY <1>7 DEF BytesAt
  <2> QED
    BY <2>1, <1>1, <1>6, <1>7 DEF Placed
<1>9. \A a \in h.starts : BlockIndex(a) \in Blocks /\ LinesOf(a, h.size[a]) \subseteq LinesIn(BlockIndex(a))
  BY <1>1, InBlocks, ObjectLines DEF Placed, Heaps
<1>10. ASSUME NEW l \in Lines PROVE g.lines[l] = Cardinality(On(g, l))
  <2>1. CASE \E b \in E : l \in LinesIn(b)
    <3>1. PICK b \in E : l \in LinesIn(b)
      BY <2>1
    <3>2. ASSUME NEW a \in On(g, l) PROVE FALSE
      <4>1. a \in h.starts /\ l \in LinesIn(BlockIndex(a)) /\ BlockIndex(a) \notin E
        BY <1>7, <1>9 DEF On
      <4>2. BlockIndex(a) \in Nat /\ b \in Nat
        BY <4>1, <1>2, <1>9
      <4> QED
        BY <3>1, <4>1, <4>2, LinesApart
    <3>3. On(g, l) = {}
      BY <3>2
    <3> QED
      BY <2>1, <3>3, <1>6, FS_EmptySet DEF zero
  <2>2. CASE ~\E b \in E : l \in LinesIn(b)
    <3>1. \A a \in On(h, l) : a \in g.starts /\ g.size[a] = h.size[a]
      <4> SUFFICES ASSUME NEW a \in On(h, l) PROVE a \in g.starts /\ g.size[a] = h.size[a]
        OBVIOUS
      <4>1. a \in h.starts /\ l \in LinesIn(BlockIndex(a))
        BY <1>9 DEF On
      <4>2. BlockIndex(a) \notin E
        BY <2>2, <4>1
      <4> QED
        BY <4>1, <4>2, <1>6, <1>7 DEF kept
    <3>2. On(g, l) = On(h, l)
      BY <3>1, <1>7 DEF On
    <3>3. g.lines[l] = h.lines[l]
      BY <2>2, <1>6 DEF zero
    <3> QED
      BY <3>2, <3>3, <1>1 DEF Tallied
  <2> QED
    BY <2>1, <2>2
<1>11. ASSUME NEW c \in Blocks PROVE g.live[c] = Cardinality(Used(g, c))
  <2>1. LinesIn(c) \subseteq Lines /\ c \in Nat
    BY InBlocks
  <2>2. CASE c \in E
    <3>1. Used(g, c) = {}
      BY <2>1, <2>2, <1>6 DEF Used, zero
    <3> QED
      BY <2>2, <3>1, <1>6, FS_EmptySet DEF none
  <2>3. CASE c \notin E
    <3>1. \A l \in LinesIn(c) : ~\E b \in E : l \in LinesIn(b)
      BY <2>1, <2>3, <1>2, LinesApart
    <3>2. Used(g, c) = Used(h, c)
      BY <2>1, <3>1, <1>6 DEF Used, zero
    <3> QED
      BY <2>3, <3>2, <1>1, <1>6 DEF none, Tallied
  <2> QED
    BY <2>2, <2>3
<1>12. InSpaces(g) = InSpaces(h)
  BY <1>6 DEF InSpaces
<1>13. StatesFit(g)
  BY <1>1, <1>6, <1>12 DEF StatesFit, StateFits, st, none
<1>14. HolesFit(g)
  <2>1. \A i \in Holders : HoleOf(g, i) = HoleOf(h, i)
    BY <1>6 DEF HoleOf
  <2>2. \A c \in Blocks : h.state[c] = "Open" => g.state[c] = "Open"
    BY <1>2, <1>6 DEF st
  <2>3. \A r : HoleFits(h, r) => HoleFits(g, r)
    BY <2>2, <1>1, <1>6, <1>12, HolesAre DEF HoleFits
  <2> QED
    BY <2>1, <2>3, <1>1 DEF HolesFit
<1>15. Good(g)
  <2>1. GoneFit(g)
    BY <1>1, <1>6 DEF GoneFit, mute, kept
  <2> QED
    BY <2>1, <1>6, <1>8, <1>10, <1>11, <1>13, <1>14 DEF Good, Tallied
<1>16. \A b \in Blocks : g.state[b] # "Evacuating"
  BY <1>2, <1>6 DEF st
<1>17. Objects(g) = Objects(h) \ lost
  <2>1. \A a \in h.gone : BlockIndex(a) \in E
    BY <1>1, <1>2, <1>9 DEF GoneFit
  <2> QED
    BY <2>1, <1>6 DEF Objects, kept, mute, lost
<1>18. Cardinality(Objects(g)) = Cardinality(Objects(h)) - Cardinality(lost)
  <2>1. Objects(h) \cap lost = lost
    BY <1>3
  <2>2. Cardinality(Objects(h) \ lost) = Cardinality(Objects(h)) - Cardinality(Objects(h) \cap lost)
    BY <1>3, ObjectsCounted, FS_Difference
  <2> QED
    BY <2>1, <2>2, <1>17
<1>19. Reported(g) = Reported(h) - Cardinality(lost)
  <2>1. h.counted \in Int /\ \A t \in Threads : h.pending[t] \in Nat
    BY <1>1 DEF Heaps
  <2> QED
    BY <2>1, <1>3, <1>6, Apart DEF Reported, m
<1>20. Reported(g) + Accounted(h) = Reported(h) + Accounted(g)
  BY <1>3, <1>6, <1>18, <1>19, ObjectsCounted DEF Accounted
<1> QED
  BY <1>6, <1>7, <1>15, <1>16, <1>20 DEF g

-----------------------------------------------------------------------------
(* The invariant.                                                           *)

Balanced(h, w) == Reported(h) = Accounted(h) + (IF w THEN 1 ELSE 0)

Copies == [src : Addresses \cup {-1}, copy : Addresses \cup {-1, LargeSpace}, won : BOOLEAN]

\* The object being copied is leaving, and its copy is not.
CopyFits ==
  /\ copying \in Copies
  /\ copying # NoCopy =>
       /\ phase \in {"Marking", "Evacuating"}
       /\ copying.src \in heap.starts \ heap.deaf
       /\ heap.state[BlockIndex(copying.src)] = "Evacuating"
       /\ Handed(heap, copying.copy)
       /\ copying.won => copying.src \in heap.gone

\* Blocks are being emptied only while a trace may need them to be.
PhaseFits ==
  phase \notin {"Marking", "Evacuating"} =>
    heap.gone = {} /\ \A b \in Blocks : heap.state[b] # "Evacuating"

Phases == {"Idle", "Marking", "Evacuating", "Sweeping", "Spoilt"}

IInv ==
  /\ Good(heap) /\ heap.spaces <= MaxSpaces
  /\ phase \in Phases
  /\ doomed \subseteq Addresses /\ unswept \subseteq Blocks
  /\ CopyFits /\ PhaseFits
  /\ Balanced(heap, copying.won)

LEMMA KeepsBalance ==
  ASSUME NEW h, Good(h), NEW g, Good(g), NEW k \in Int,
         Reported(g) + Accounted(h) = Reported(h) + Accounted(g) + k,
         NEW w \in BOOLEAN, NEW v \in BOOLEAN, Balanced(h, w),
         (IF v THEN 1 ELSE 0) = (IF w THEN 1 ELSE 0) + k
  PROVE  Balanced(g, v)
<1> DEFINE rh == Reported(h)
           rg == Reported(g)
           ch == Accounted(h)
           cg == Accounted(g)
           iv == IF v THEN 1 ELSE 0
           iw == IF w THEN 1 ELSE 0
<1>1. rh \in Int /\ rg \in Int /\ ch \in Int /\ cg \in Int
  BY ObjectsCounted
<1>2. rg + ch = rh + cg + k /\ iv = iw + k /\ iw \in Int /\ iv \in Int
  OBVIOUS
<1>3. rh = ch + iw
  BY DEF Balanced
<1> HIDE DEF rh, rg, ch, cg, iv, iw
<1>4. rg = cg + iv
  BY <1>1, <1>2, <1>3
<1> QED
  BY <1>4 DEF Balanced, rg, cg, iv

\* Whatever is taken off both sides leaves them equal.
LEMMA KeepsEven ==
  ASSUME NEW h, Good(h), NEW g, Good(g), Balanced(h, FALSE),
         Reported(g) + Accounted(h) = Reported(h) + Accounted(g)
  PROVE  Balanced(g, FALSE)
<1>1. Reported(h) \in Int /\ Accounted(g) \in Int
  BY ObjectsCounted
<1>2. Reported(g) + Accounted(h) = Reported(h) + Accounted(g) + 0
  BY <1>1
<1>3. (IF FALSE THEN 1 ELSE 0) = (IF FALSE THEN 1 ELSE 0) + 0 /\ 0 \in Int
  OBVIOUS
<1> QED
  BY <1>2, <1>3, KeepsBalance

LEMMA KeepsObjects ==
  ASSUME NEW h, NEW g, SameObjects(h, g), g.gone \cup g.deaf = h.gone \cup h.deaf
  PROVE  Objects(g) = Objects(h)
BY DEF Objects, SameObjects

\* Nothing but buffers and reports.
LEMMA ReadyBalance ==
  ASSUME NEW h, Good(h), NEW g, Good(g), Ready(h, g), Balanced(h, FALSE)
  PROVE  Balanced(g, FALSE) /\ Objects(g) = Objects(h)
<1>1. /\ SameObjects(h, g) /\ g.gone = h.gone /\ g.deaf = h.deaf /\ g.leaked = h.leaked
      /\ g.large = h.large /\ Reported(g) = Reported(h)
  BY DEF Ready
<1>2. Objects(g) = Objects(h)
  BY <1>1, KeepsObjects
<1>3. Accounted(g) = Accounted(h)
  BY <1>1, <1>2 DEF Accounted
<1> QED
  BY <1>1, <1>2, <1>3 DEF Balanced

\* An object made, whoever is copying.
LEMMA MadeBalance ==
  ASSUME NEW h, Good(h), NEW g, NEW c, NEW n, Made(h, g, c, n), Balanced(h, FALSE)
  PROVE  Balanced(g, FALSE)
<1>1. /\ Good(g) /\ Reported(g) + Accounted(h) = Reported(h) + Accounted(g) + 0
  BY MadeMoved DEF Moved
<1>2. (IF FALSE THEN 1 ELSE 0) = (IF FALSE THEN 1 ELSE 0) + 0 /\ 0 \in Int
  OBVIOUS
<1> QED
  BY <1>1, <1>2, KeepsBalance

\* Large objects freed.
LEMMA FreeLargeGood ==
  ASSUME NEW h, Good(h), NEW k \in 0 .. h.large, Balanced(h, FALSE)
  PROVE  LET g == FreeLarge(h, k) IN
         /\ Good(g) /\ SameObjects(h, g) /\ g.spaces = h.spaces /\ g.state = h.state
         /\ g.gone = h.gone /\ g.deaf = h.deaf /\ Balanced(g, FALSE)
<1> DEFINE l == h.large - k
           m == h.counted - k
           g == FreeLarge(h, k)
<1>1. h \in Heaps /\ h.large \in Nat /\ h.counted \in Int /\ k \in Nat
  BY DEF Good, Heaps
<1>2. l \in Nat /\ m \in Int /\ m - h.counted = -k
  BY <1>1
<1>3. g = [h EXCEPT !.large = l, !.counted = m]
  BY DEF FreeLarge
<1>4. l = h.large - k
  OBVIOUS
<1> HIDE DEF l, m, g
<1>5. Recounted(h, g) /\ g.large = l /\ g.counted = m
  BY <1>1, <1>2, <1>3 DEF Heaps, SameObjects, Recounted, Recast
<1>6. Good(g) /\ Reported(g) = Reported(h) + (m - h.counted)
  BY <1>5, AccountsGood
<1>7. /\ SameObjects(h, g) /\ g.spaces = h.spaces /\ g.state = h.state
      /\ g.gone = h.gone /\ g.deaf = h.deaf /\ g.leaked = h.leaked
  BY <1>5 DEF Recounted, Recast
<1>8. Objects(g) = Objects(h)
  BY <1>7, KeepsObjects
<1>9. Reported(g) + Accounted(h) = Reported(h) + Accounted(g)
  <2>1. Reported(h) \in Int /\ Cardinality(Objects(h)) \in Nat /\ h.leaked \in Nat
    BY ObjectsCounted
  <2> QED
    BY <2>1, <1>1, <1>2, <1>4, <1>5, <1>6, <1>7, <1>8 DEF Accounted
<1>10. Balanced(g, FALSE)
  BY <1>6, <1>9, KeepsEven
<1> QED
  BY <1>6, <1>7, <1>10 DEF g

LEMMA NoCopyFits ==
  ASSUME copying' = NoCopy
  PROVE  CopyFits' /\ copying'.won = FALSE
BY DEF CopyFits, NoCopy, Copies

LEMMA KeepsPhase ==
  ASSUME IInv, phase' = phase, SameEmptied(heap, heap'), heap'.gone = heap.gone
  PROVE  PhaseFits'
BY DEF IInv, PhaseFits, SameEmptied

LEMMA InitHolds == Init => IInv
<1> SUFFICES ASSUME Init PROVE IInv
  OBVIOUS
<1> DEFINE nil == [l \in Lines |-> 0]
           free == [b \in Blocks |-> "Free"]
           none == [b \in Blocks |-> 0]
           sizes == [a \in Addresses |-> 0]
           tl == [t \in Threads |-> NoHole]
           pe == [t \in Threads |-> 0]
<1>1. /\ nil \in [Lines -> Int] /\ free \in [Blocks -> States] /\ none \in [Blocks -> Int]
      /\ sizes \in [Addresses -> Nat] /\ tl \in [Threads -> Hole] /\ pe \in [Threads -> Nat]
      /\ NoHole \in Hole
  BY HolesAre DEF States
<1>2. heap = [spaces |-> 0, state |-> free, lines |-> nil, live |-> none, starts |-> {},
              size |-> sizes, gone |-> {}, deaf |-> {}, leaked |-> 0, clean |-> {},
              large |-> 0, bump |-> NoHole, tlab |-> tl, pending |-> pe, counted |-> 0]
  BY DEF Init
<1> HIDE DEF nil, free, none, sizes, tl, pe
<1>3. heap \in Heaps
  BY <1>1, <1>2 DEF Heaps
<1>4. /\ heap.spaces = 0 /\ heap.state = free /\ heap.lines = nil /\ heap.live = none
      /\ heap.starts = {} /\ heap.gone = {} /\ heap.clean = {} /\ heap.large = 0
      /\ heap.deaf = {} /\ heap.leaked = 0
      /\ heap.bump = NoHole /\ heap.tlab = tl /\ heap.pending = pe /\ heap.counted = 0
  BY <1>2
<1>5. Placed(heap) /\ GoneFit(heap)
  BY <1>4 DEF Placed, GoneFit
<1>6. Tallied(heap)
  <2>1. \A l : On(heap, l) = {}
    BY <1>4 DEF On
  <2>2. \A b \in Blocks : Used(heap, b) = {}
    BY <1>4, InBlocks DEF Used, nil
  <2> QED
    BY <2>1, <2>2, <1>4, FS_EmptySet DEF Tallied, nil, none
<1>7. StatesFit(heap)
  BY <1>4 DEF StatesFit, StateFits, free, none
<1>8. HolesFit(heap)
  BY <1>4 DEF HolesFit, HoleOf, Holders, tl
<1>9. Balanced(heap, FALSE)
  <2>1. Objects(heap) = {} /\ Cardinality({}) = 0
    BY <1>4, FS_EmptySet DEF Objects
  <2>2. Reported(heap) = 0
    BY <1>4, Apart DEF Reported, pe
  <2> QED
    BY <2>1, <2>2, <1>4 DEF Balanced, Accounted
<1>10. /\ phase = "Idle" /\ doomed = {} /\ copying = NoCopy /\ unswept = {}
  BY DEF Init
<1>11. CopyFits /\ copying.won = FALSE
  BY <1>10 DEF CopyFits, NoCopy, Copies
<1>12. PhaseFits
  BY <1>4, <1>10 DEF PhaseFits, free
<1>13. heap.spaces <= MaxSpaces
  BY <1>4, Constants
<1> QED
  BY <1>3, <1>5, <1>6, <1>7, <1>8, <1>9, <1>10, <1>11, <1>12, <1>13 DEF IInv, Good, Phases

-----------------------------------------------------------------------------
(* The program's steps.                                                     *)

LEMMA AllocateHolds ==
  ASSUME IInv, NEW n \in Sizes, Allocate(n)
  PROVE  IInv'
<1> DEFINE g == Alloc(heap, "program", n).heap
           c == Alloc(heap, "program", n).at
<1>1. /\ Good(heap) /\ heap.spaces <= MaxSpaces
      /\ copying = NoCopy /\ heap' = g /\ heap'.spaces <= MaxSpaces
      /\ phase' = phase /\ doomed' = doomed /\ copying' = copying /\ unswept' = unswept
      /\ Balanced(heap, FALSE)
  BY DEF IInv, Allocate, Running, Published, NoCopy
<1>2. n \in Nat \ {0}
  BY Constants
<1>3. Made(heap, g, c, n)
  BY <1>1, <1>2, Apart, AllocGood
<1> HIDE DEF g, c
<1>4. Moved(heap, g, {}, 0)
  BY <1>1, <1>3, MadeMoved
<1>5. Good(heap') /\ SameEmptied(heap, heap') /\ heap'.gone = heap.gone
  BY <1>1, <1>4 DEF Moved
<1>6. Balanced(heap', FALSE)
  BY <1>1, <1>3, MadeBalance
<1>7. PhaseFits' /\ CopyFits' /\ copying'.won = FALSE
  BY <1>1, <1>5, KeepsPhase, NoCopyFits
<1> QED
  BY <1>1, <1>5, <1>6, <1>7 DEF IInv

LEMMA CollectHolds ==
  ASSUME IInv, NEW S \in SUBSET (Objects(heap) \ doomed), NEW k \in 0 .. heap.large, Collect(S, k)
  PROVE  IInv'
<1> DEFINE f == FlushCounters(heap, "program")
           e == FreeAll(f, S)
           g == FreeLarge(e, k)
<1>1. /\ Good(heap) /\ heap.spaces <= MaxSpaces
      /\ copying = NoCopy /\ heap' = g
      /\ phase' = phase /\ doomed' = doomed /\ copying' = copying /\ unswept' = unswept
      /\ Balanced(heap, FALSE) /\ PhaseFits
      /\ phase # "Evacuating" /\ (phase = "Marking" => S = {})
  BY DEF IInv, Collect, Running, NoCopy
<1>2. Good(f) /\ Ready(heap, f) /\ f.spaces = heap.spaces /\ f.state = heap.state
  BY <1>1, Apart, FlushGood
<1>3. f.gone = heap.gone /\ f.large = heap.large
  BY <1>2 DEF Ready
<1> HIDE DEF f
<1>4. Balanced(f, FALSE) /\ Objects(f) = Objects(heap)
  BY <1>1, <1>2, ReadyBalance
<1>5. \A a \in S : f.state[BlockIndex(a)] # "Evacuating"
  <2>1. \A a \in S : BlockIndex(a) \in Blocks
    BY <1>1, MovableFits DEF Objects
  <2> QED
    BY <2>1, <1>1, <1>2 DEF PhaseFits
<1>6. AllDied(f, e, S)
  BY <1>2, <1>4, <1>5, FreeAllGood
<1>7. /\ Good(e) /\ SameEmptied(f, e) /\ e.gone = f.gone /\ e.large = f.large
      /\ e.spaces = f.spaces /\ Reported(e) + Accounted(f) = Reported(f) + Accounted(e)
  BY <1>6 DEF AllDied
<1>8. Balanced(e, FALSE)
  BY <1>2, <1>4, <1>7, KeepsEven
<1> HIDE DEF e
<1>9. /\ Good(g) /\ g.spaces = e.spaces /\ g.state = e.state /\ g.gone = e.gone
      /\ Balanced(g, FALSE)
  BY <1>3, <1>7, <1>8, FreeLargeGood
<1> HIDE DEF g
<1>10. SameEmptied(heap, heap') /\ heap'.gone = heap.gone
  BY <1>1, <1>2, <1>3, <1>7, <1>9 DEF SameEmptied
<1>11. PhaseFits' /\ CopyFits' /\ copying'.won = FALSE
  BY <1>1, <1>10, KeepsPhase, NoCopyFits
<1> QED
  BY <1>1, <1>2, <1>7, <1>9, <1>11 DEF IInv

LEMMA ParkHolds ==
  ASSUME IInv, Park
  PROVE  IInv'
<1>1. /\ Good(heap) /\ heap.spaces <= MaxSpaces
      /\ copying = NoCopy /\ heap' = RetireTlab(heap, "program")
      /\ phase' = phase /\ doomed' = doomed /\ copying' = copying /\ unswept' = unswept
      /\ Balanced(heap, FALSE)
  BY DEF IInv, Park, Running, NoCopy
<1>2. Good(heap') /\ Ready(heap, heap') /\ heap'.spaces = heap.spaces
  BY <1>1, Apart, RetireTlabGood
<1>3. Balanced(heap', FALSE)
  BY <1>1, <1>2, ReadyBalance
<1>4. PhaseFits' /\ CopyFits' /\ copying'.won = FALSE
  BY <1>1, <1>2, KeepsPhase, NoCopyFits DEF Ready
<1> QED
  BY <1>1, <1>2, <1>3, <1>4 DEF IInv, Ready

-----------------------------------------------------------------------------
(* The steps of a trace.                                                    *)

LEMMA SparseAre ==
  ASSUME NEW h, Good(h), NEW b \in Sparse(h)
  PROVE  b \in Blocks /\ b \in InSpaces(h) /\ h.state[b] \in {"Full", "Recyclable"} /\ h.live[b] > 0
BY DEF Sparse, InSpaces, Good, StatesFit, StateFits

LEMMA BeginTraceHolds ==
  ASSUME IInv, NEW S \in SUBSET Objects(heap), BeginTrace(S)
  PROVE  IInv'
<1> DEFINE f == FlushCounters(heap, "program")
           st == [b \in Blocks |-> IF b \in Sparse(heap) THEN "Evacuating" ELSE f.state[b]]
           g == [f EXCEPT !.state = st]
<1>1. /\ Good(heap) /\ heap.spaces <= MaxSpaces
      /\ copying = NoCopy /\ heap' = g /\ phase = "Idle" /\ phase' = "Marking" /\ doomed' = S
      /\ copying' = copying /\ unswept' = unswept
      /\ Balanced(heap, FALSE) /\ heap.gone = {}
  BY DEF IInv, BeginTrace, Running, NoCopy, PhaseFits
<1>2. Good(f) /\ Ready(heap, f) /\ f.spaces = heap.spaces /\ f.state = heap.state
  BY <1>1, Apart, FlushGood
<1>3. /\ SameObjects(heap, f) /\ f.gone = heap.gone /\ f.deaf = heap.deaf
      /\ f.leaked = heap.leaked /\ f.large = heap.large
  BY <1>2 DEF Ready
<1> HIDE DEF f
<1>4. Balanced(f, FALSE)
  BY <1>1, <1>2, ReadyBalance
<1>5. st \in [Blocks -> States]
  BY <1>2 DEF Good, Heaps, States
<1>6. \A b \in Blocks : f.state[b] = "Open" => st[b] = "Open"
  BY <1>1, <1>2, SparseAre
<1>7. \A b \in Blocks : st[b] = IF b \in Sparse(heap) THEN "Evacuating" ELSE f.state[b]
  OBVIOUS
<1> HIDE DEF st
<1>8. g = [f EXCEPT !.state = st]
  OBVIOUS
<1> HIDE DEF g
<1>9. /\ Recast(f, g) /\ SameObjects(f, g) /\ g.state = st /\ g.spaces = f.spaces
      /\ g.gone = f.gone /\ g.deaf = f.deaf /\ g.leaked = f.leaked /\ g.large = f.large
      /\ g.counted = f.counted
  BY <1>2, <1>5, <1>8 DEF Good, Heaps, SameObjects, Recast
<1>10. InSpaces(g) = InSpaces(f) /\ InSpaces(f) = InSpaces(heap) /\ g.gone = {}
  BY <1>1, <1>2, <1>3, <1>9 DEF InSpaces
<1>11. StatesFit(g)
  <2> SUFFICES ASSUME NEW b \in Blocks PROVE StateFits(g, b)
    BY DEF StatesFit
  <2>1. StateFits(f, b)
    BY <1>2 DEF Good, StatesFit
  <2>2. CASE b \in Sparse(heap)
    <3>1. b \in InSpaces(heap) /\ heap.live[b] > 0
      BY <2>2, <1>1, SparseAre
    <3> QED
      BY <2>2, <3>1, <1>3, <1>7, <1>9, <1>10 DEF StateFits, SameObjects
  <2>3. CASE b \notin Sparse(heap)
    BY <2>1, <2>3, <1>7, <1>9, <1>10 DEF StateFits, SameObjects
  <2> QED
    BY <2>2, <2>3
<1>12. GoneFit(g)
  BY <1>2, <1>9, <1>10 DEF Good, GoneFit, SameObjects
<1>13. Good(g) /\ Reported(g) = Reported(f) + (g.counted - f.counted)
  BY <1>2, <1>6, <1>9, <1>11, <1>12, RecastGood
<1>14. Balanced(g, FALSE)
  <2>1. Objects(g) = Objects(f)
    BY <1>9, KeepsObjects
  <2>2. Accounted(g) = Accounted(f)
    BY <2>1, <1>9 DEF Accounted
  <2>3. Reported(g) = Reported(f)
    BY <1>2, <1>9, <1>13, ObjectsCounted DEF Good, Heaps
  <2> QED
    BY <2>2, <2>3, <1>4 DEF Balanced
<1>15. CopyFits' /\ copying'.won = FALSE
  BY <1>1, NoCopyFits
<1>16. PhaseFits'
  BY <1>1 DEF PhaseFits
<1>17. doomed' \subseteq Addresses
  BY <1>1 DEF Objects, Good, Heaps
<1> QED
  BY <1>1, <1>2, <1>9, <1>13, <1>14, <1>15, <1>16, <1>17 DEF IInv, Phases

LEMMA FinishMarkingHolds ==
  ASSUME IInv, NEW R \in SUBSET Movable(heap), NEW S \in SUBSET Objects(heap), FinishMarking(R, S)
  PROVE  IInv'
<1> DEFINE d == RetireTlab(heap, Pausing)
<1>1. /\ Good(heap) /\ heap.spaces <= MaxSpaces
      /\ copying = NoCopy /\ phase = "Marking" /\ heap'.spaces <= MaxSpaces
      /\ doomed' = doomed /\ copying' = copying
      /\ Balanced(heap, FALSE) /\ doomed \subseteq Addresses /\ unswept \subseteq Blocks
  BY DEF IInv, FinishMarking, NoCopy, Published
<1>2. IF EvacuatingBlocks(heap) = {}
      THEN heap' = FreeAll(d, S) /\ phase' = "Sweeping" /\ unswept' = InSpaces(heap)
      ELSE heap' = MoveRoots(d, Pausing, R) /\ phase' = "Evacuating" /\ unswept' = unswept
  BY DEF FinishMarking
<1>3. Pausing \in Threads
  BY Apart DEF Pausing
<1>4. Good(d) /\ Ready(heap, d) /\ d.spaces = heap.spaces
  BY <1>1, <1>3, RetireTlabGood
<1> HIDE DEF d
<1>5. SameEmptied(heap, d) /\ d.gone = heap.gone
  BY <1>4 DEF Ready
<1>6. Balanced(d, FALSE) /\ Objects(d) = Objects(heap)
  BY <1>1, <1>4, ReadyBalance
<1>7. CopyFits' /\ copying'.won = FALSE
  BY <1>1, NoCopyFits
<1>8. \A a \in Objects(heap) : BlockIndex(a) \in Blocks
  BY <1>1, MovableFits DEF Objects
<1>9. CASE EvacuatingBlocks(heap) = {}
  <2>1. heap' = FreeAll(d, S) /\ phase' = "Sweeping" /\ unswept' = InSpaces(heap)
    BY <1>2, <1>9
  <2>2. \A b \in Blocks : heap.state[b] # "Evacuating" /\ d.state[b] # "Evacuating"
    BY <1>1, <1>5, <1>9, EvacuatingAre DEF SameEmptied
  <2>3. heap.gone = {}
    <3>1. \A a \in heap.gone : a \in heap.starts /\ heap.state[BlockIndex(a)] = "Evacuating"
      BY <1>1 DEF Good, GoneFit
    <3>2. \A a \in heap.starts : BlockIndex(a) \in Blocks
      BY <1>1, MovableFits
    <3> QED
      BY <3>1, <3>2, <2>2
  <2>4. AllDied(d, heap', S)
    BY <2>1, <2>2, <1>4, <1>6, <1>8, FreeAllGood
  <2>5. /\ Good(heap') /\ SameEmptied(d, heap') /\ heap'.gone = d.gone
        /\ Reported(heap') + Accounted(d) = Reported(d) + Accounted(heap')
    BY <2>4 DEF AllDied
  <2>6. Balanced(heap', FALSE)
    BY <2>5, <1>4, <1>6, KeepsEven
  <2>7. PhaseFits'
    BY <2>2, <2>3, <2>5, <1>5 DEF PhaseFits, SameEmptied
  <2>8. unswept' \subseteq Blocks
    BY <2>1 DEF InSpaces
  <2> QED
    BY <2>1, <2>5, <2>6, <2>7, <2>8, <1>1, <1>7 DEF IInv, Phases
<1>10. CASE EvacuatingBlocks(heap) # {}
  <2>1. heap' = MoveRoots(d, Pausing, R) /\ phase' = "Evacuating" /\ unswept' = unswept
    BY <1>2, <1>10
  <2>2. R \in SUBSET Movable(d)
    BY <1>5, <1>6, <1>8 DEF Movable, SameEmptied
  <2>3. Moved(d, heap', R, 0)
    BY <2>1, <2>2, <1>1, <1>3, <1>4, MoveRootsGood
  <2>4. Good(heap') /\ Reported(heap') + Accounted(d) = Reported(d) + Accounted(heap') + 0
    BY <2>3 DEF Moved
  <2>5. (IF FALSE THEN 1 ELSE 0) = (IF FALSE THEN 1 ELSE 0) + 0 /\ 0 \in Int
    OBVIOUS
  <2>6. Balanced(heap', FALSE)
    BY <2>4, <2>5, <1>4, <1>6, KeepsBalance
  <2>7. PhaseFits'
    BY <2>1 DEF PhaseFits
  <2> QED
    BY <2>1, <2>4, <2>6, <2>7, <1>1, <1>7 DEF IInv, Phases
<1> QED
  BY <1>9, <1>10

LEMMA BeginCopyHolds ==
  ASSUME IInv, NEW a \in Movable(heap), BeginCopy(a)
  PROVE  IInv'
<1> DEFINE n == heap.size[a]
           g == Alloc(heap, "program", n).heap
           c == Alloc(heap, "program", n).at
<1>1. /\ Good(heap) /\ heap.spaces <= MaxSpaces
      /\ copying = NoCopy /\ phase \in {"Marking", "Evacuating"}
      /\ heap' = g /\ heap'.spaces <= MaxSpaces
      /\ phase' = phase /\ doomed' = doomed /\ unswept' = unswept
      /\ copying' = [src |-> a, copy |-> c, won |-> FALSE]
      /\ Balanced(heap, FALSE)
  BY DEF IInv, BeginCopy, Running, Published, NoCopy
<1>2. /\ a \in heap.starts /\ a \in Addresses /\ a \notin heap.deaf
      /\ heap.state[BlockIndex(a)] = "Evacuating"
  BY <1>1 DEF Movable, Objects, Good, Heaps
<1>3. n \in Nat \ {0} /\ BlockIndex(a) \in Blocks
  BY <1>1, <1>2, MovableFits
<1>4. Made(heap, g, c, n)
  BY <1>1, <1>3, Apart, AllocGood
<1> HIDE DEF g, c
<1>5. Moved(heap, g, {}, 0) /\ g.deaf = heap.deaf /\ Handed(g, c)
      /\ c \in Addresses \cup {LargeSpace}
  <2>1. /\ Moved(heap, g, {}, 0) /\ g.deaf = heap.deaf
        /\ c = LargeSpace => g.large = heap.large + 1
        /\ c # LargeSpace => /\ c \in Objects(g) /\ c \in Addresses
                             /\ g.state[BlockIndex(c)] # "Evacuating"
    BY <1>1, <1>4, MadeMoved
  <2>2. heap.large \in Nat
    BY <1>1, ObjectsCounted
  <2> QED
    BY <2>1, <2>2 DEF Handed
<1>6. /\ Good(g) /\ SameEmptied(heap, g) /\ g.gone = heap.gone /\ heap.starts \subseteq g.starts
  BY <1>5 DEF Moved
<1>7. Balanced(g, FALSE)
  BY <1>1, <1>4, MadeBalance
<1>8. copying'.src = a /\ copying'.copy = c /\ copying'.won = FALSE
  BY <1>1
<1>9. CopyFits'
  <2>1. copying' \in Copies
    BY <1>1, <1>2, <1>5 DEF Copies
  <2>2. heap'.state[BlockIndex(a)] = "Evacuating" /\ a \in heap'.starts \ heap'.deaf
    BY <1>1, <1>2, <1>3, <1>5, <1>6 DEF SameEmptied
  <2>3. Handed(heap', copying'.copy)
    BY <1>1, <1>5, <1>8
  <2> QED
    BY <2>1, <2>2, <2>3, <1>1, <1>8 DEF CopyFits
<1>10. PhaseFits'
  BY <1>1, <1>6, KeepsPhase
<1> QED
  BY <1>1, <1>6, <1>7, <1>8, <1>9, <1>10 DEF IInv

LEMMA EndCopyHolds ==
  ASSUME IInv, NEW mistaken \in BOOLEAN, EndCopy(mistaken)
  PROVE  IInv'
<1> DEFINE a == copying.src
           c == copying.copy
<1>1. /\ Good(heap) /\ heap.spaces <= MaxSpaces
      /\ phase \in {"Marking", "Evacuating"}
      /\ a \in heap.starts \ heap.deaf /\ heap.state[BlockIndex(a)] = "Evacuating"
      /\ Handed(heap, c) /\ copying.won \in BOOLEAN
      /\ phase' = phase /\ doomed' = doomed /\ unswept' = unswept /\ copying' = NoCopy
      /\ heap' = IF copying.won THEN [heap EXCEPT !.counted = @ - 1]
                 ELSE IF a \in heap.gone THEN HandBack(heap, c, mistaken)
                 ELSE NoteForwarded(heap, a)
      /\ Balanced(heap, copying.won)
  BY DEF IInv, EndCopy, CopyFits, Copies
<1>2. /\ CopyFits' /\ copying'.won = FALSE /\ PhaseFits'
  BY <1>1, NoCopyFits DEF PhaseFits
<1>3. SUFFICES Good(heap') /\ heap'.spaces = heap.spaces /\ Balanced(heap', FALSE)
  BY <1>1, <1>2 DEF IInv
<1>4. /\ heap \in Heaps /\ heap.counted \in Int /\ Reported(heap) \in Int /\ Accounted(heap) \in Nat
  BY <1>1, ObjectsCounted DEF Good, Heaps
<1>5. CASE copying.won
  <2> DEFINE m == heap.counted - 1
             g == [heap EXCEPT !.counted = m]
  <2>1. heap' = g /\ m \in Int /\ m - heap.counted = -1
    BY <1>1, <1>4, <1>5
  <2> HIDE DEF m
  <2>2. g = [heap EXCEPT !.counted = m]
    OBVIOUS
  <2> HIDE DEF g
  <2>3. Recounted(heap, g) /\ g.large = heap.large /\ g.counted = m
    BY <1>4, <2>1, <2>2 DEF Heaps, SameObjects, Recounted, Recast
  <2>4. Good(g) /\ Reported(g) = Reported(heap) + (m - heap.counted)
    BY <1>1, <2>3, AccountsGood
  <2>5. /\ SameObjects(heap, g) /\ g.spaces = heap.spaces
        /\ g.gone = heap.gone /\ g.deaf = heap.deaf /\ g.leaked = heap.leaked
    BY <2>3 DEF Recounted, Recast
  <2>6. Accounted(g) = Accounted(heap)
    BY <2>3, <2>5, KeepsObjects DEF Accounted
  <2>7. Balanced(g, FALSE)
    BY <1>1, <1>4, <1>5, <2>1, <2>4, <2>6 DEF Balanced
  <2> QED
    BY <2>1, <2>4, <2>5, <2>7
<1>6. CASE ~copying.won /\ a \in heap.gone
  <2>1. heap' = HandBack(heap, c, mistaken) /\ Balanced(heap, FALSE)
    BY <1>1, <1>6 DEF Balanced
  <2> DEFINE g == HandBack(heap, c, mistaken)
  <2>2. /\ Good(g) /\ g.spaces = heap.spaces
        /\ Reported(g) + Accounted(heap) = Reported(heap) + Accounted(g)
    BY <1>1, HandBackGood
  <2> HIDE DEF g
  <2>3. Balanced(g, FALSE)
    BY <2>1, <2>2, <1>1, KeepsEven
  <2> QED
    BY <2>1, <2>2, <2>3 DEF g
<1>7. CASE ~copying.won /\ a \notin heap.gone
  <2>1. heap' = [heap EXCEPT !.gone = @ \cup {a}, !.counted = @ - 1]
    BY <1>1, <1>7 DEF NoteForwarded
  <2>2. a \in Objects(heap) /\ 1 \in {0, 1} /\ 1 - 1 = 0
    BY <1>1, <1>7 DEF Objects
  <2> DEFINE g == heap'
  <2>3. g = [heap EXCEPT !.gone = @ \cup {a}, !.counted = @ - 1]
    BY <2>1
  <2> HIDE DEF g
  <2>4. Moved(heap, g, {a}, 1 - 1) /\ g.spaces = heap.spaces
    BY <2>2, <2>3, <1>1, ForwardGood, Zenon
  <2>5. Good(g) /\ Reported(g) + Accounted(heap) = Reported(heap) + Accounted(g) + 0
    BY <2>2, <2>4 DEF Moved
  <2>6. (IF FALSE THEN 1 ELSE 0) = (IF FALSE THEN 1 ELSE 0) + 0 /\ 0 \in Int
        /\ Balanced(heap, FALSE)
    BY <1>1, <1>7 DEF Balanced
  <2>7. Balanced(g, FALSE)
    BY <2>5, <2>6, <1>1, KeepsBalance
  <2> QED
    BY <2>4, <2>5, <2>7 DEF g
<1> QED
  BY <1>1, <1>5, <1>6, <1>7

LEMMA EvacuateBlockHolds ==
  ASSUME IInv, NEW b \in Blocks, NEW lost \in SUBSET {copying.src}, NEW mistaken \in BOOLEAN,
         EvacuateBlock(b, lost, mistaken)
  PROVE  IInv'
<1> DEFINE moving == (Movable(heap) \cap ObjectsIn(heap, b)) \ doomed
           k == Cardinality(lost \cap moving)
           w == copying.won
           v == copying.won \/ lost # {}
<1>1. /\ Good(heap) /\ heap.spaces <= MaxSpaces
      /\ phase = "Evacuating" /\ heap' = CopiesOut(heap, moving, lost, mistaken)
      /\ heap'.spaces <= MaxSpaces
      /\ lost \subseteq moving /\ lost \subseteq {copying.src}
      /\ phase' = phase /\ doomed' = doomed /\ unswept' = unswept
      /\ copying' = [copying EXCEPT !.won = v]
      /\ CopyFits /\ Balanced(heap, w)
  BY DEF IInv, EvacuateBlock, Published, CopiesOut
<1>2. /\ moving \in SUBSET Movable(heap) /\ moving \subseteq Addresses /\ moving \cap heap.gone = {}
      /\ \A x \in moving : heap.state[BlockIndex(x)] = "Evacuating"
  BY <1>1 DEF Movable, Objects, Good, Heaps
<1> HIDE DEF moving
<1>3. Moved(heap, heap', moving, k)
  BY <1>1, <1>2, CopiesOutGood
<1>4. /\ Good(heap') /\ SameEmptied(heap, heap') /\ heap.large <= heap'.large
      /\ heap.starts \subseteq heap'.starts /\ heap'.gone = heap.gone \cup moving
      /\ heap'.deaf \cap heap.starts = heap.deaf
      /\ Reported(heap') + Accounted(heap) = Reported(heap) + Accounted(heap') + k
  BY <1>3 DEF Moved
<1>5. copying \in Copies /\ w \in BOOLEAN /\ v \in BOOLEAN
  BY <1>1 DEF CopyFits, Copies
<1>6. /\ copying'.src = copying.src /\ copying'.copy = copying.copy /\ copying'.won = v
      /\ copying' \in Copies
  BY <1>1, <1>5 DEF Copies
<1>7. ASSUME lost # {} PROVE lost = {copying.src} /\ copying.src \in moving /\ copying # NoCopy
  <2>1. lost = {copying.src} /\ copying.src \in moving
    BY <1>1, <1>7
  <2>2. copying.src \in Nat
    BY <2>1, <1>2, InBlocks
  <2> QED
    BY <2>1, <2>2 DEF NoCopy
<1>8. k \in Int /\ (IF v THEN 1 ELSE 0) = (IF w THEN 1 ELSE 0) + k
  <2>1. CASE lost = {}
    <3>1. lost \cap moving = {}
      BY <2>1
    <3>2. k = 0 /\ v = w
      BY <2>1, <3>1, <1>5, FS_EmptySet
    <3> HIDE DEF k, v, w
    <3> QED
      BY <3>2
  <2>2. CASE lost # {}
    <3>1. lost \cap moving = {copying.src} /\ copying # NoCopy /\ copying.src \notin heap.gone
      BY <2>2, <1>2, <1>7
    <3>2. k = 1
      BY <3>1, FS_Singleton
    <3>3. w = FALSE /\ v = TRUE
      BY <2>2, <3>1, <1>1, <1>5 DEF CopyFits
    <3> HIDE DEF k, v, w
    <3> QED
      BY <3>2, <3>3
  <2> QED
    BY <2>1, <2>2
<1> HIDE DEF k, v, w
<1>9. Balanced(heap', v)
  BY <1>1, <1>4, <1>5, <1>8, KeepsBalance
<1>10. CopyFits'
  <2>1. ASSUME copying' # NoCopy
        PROVE  /\ phase' \in {"Marking", "Evacuating"}
               /\ copying'.src \in heap'.starts \ heap'.deaf
               /\ heap'.state[BlockIndex(copying'.src)] = "Evacuating"
               /\ Handed(heap', copying'.copy)
               /\ copying'.won => copying'.src \in heap'.gone
    <3>1. copying # NoCopy
      <4>1. CASE lost # {}
        BY <4>1, <1>7
      <4>2. CASE lost = {}
        <5>1. copying' = copying
          BY <4>2, <1>1, <1>5 DEF v, Copies
        <5> QED
          BY <5>1, <2>1
      <4> QED
        BY <4>1, <4>2
    <3>2. /\ copying.src \in heap.starts \ heap.deaf
          /\ heap.state[BlockIndex(copying.src)] = "Evacuating"
          /\ Handed(heap, copying.copy)
          /\ copying.won => copying.src \in heap.gone
      BY <3>1, <1>1 DEF CopyFits
    <3>3. BlockIndex(copying.src) \in Blocks
      BY <3>2, <1>1, MovableFits
    <3>4. v => copying.src \in heap'.gone
      BY <3>2, <1>4, <1>7 DEF v
    <3>5. /\ copying.src \in heap'.starts \ heap'.deaf
          /\ heap'.state[BlockIndex(copying.src)] = "Evacuating"
      BY <3>2, <3>3, <1>4 DEF SameEmptied
    <3>6. Handed(heap', copying.copy)
      <4>1. CASE copying.copy = LargeSpace
        <5>1. heap.large \in Nat /\ heap'.large \in Nat
          BY <1>1, <1>4, ObjectsCounted
        <5> QED
          BY <4>1, <5>1, <3>2, <1>4 DEF Handed
      <4>2. CASE copying.copy # LargeSpace
        <5>1. /\ copying.copy \in Objects(heap)
              /\ heap.state[BlockIndex(copying.copy)] # "Evacuating"
          BY <4>2, <3>2 DEF Handed
        <5>2. BlockIndex(copying.copy) \in Blocks
          BY <5>1, <1>1, MovableFits DEF Objects
        <5>3. copying.copy \in Objects(heap')
          BY <5>1, <1>2, <1>4 DEF Objects
        <5>4. heap'.state[BlockIndex(copying.copy)] # "Evacuating"
          BY <5>1, <5>2, <1>4 DEF SameEmptied
        <5> QED
          BY <4>2, <5>3, <5>4 DEF Handed
      <4> QED
        BY <4>1, <4>2
    <3> QED
      BY <3>4, <3>5, <3>6, <1>1, <1>6
  <2> QED
    BY <2>1, <1>6 DEF CopyFits
<1>11. PhaseFits'
  BY <1>1 DEF PhaseFits
<1>12. doomed' \subseteq Addresses /\ unswept' \subseteq Blocks
  BY <1>1 DEF IInv
<1> QED
  BY <1>1, <1>4, <1>6, <1>9, <1>10, <1>11, <1>12 DEF IInv, Phases

LEMMA FinishEvacuationHolds ==
  ASSUME IInv, FinishEvacuation
  PROVE  IInv'
<1>1. /\ Good(heap) /\ heap.spaces <= MaxSpaces
      /\ copying = NoCopy /\ heap' = Release(heap) /\ phase' = "Sweeping"
      /\ doomed' = doomed \cap heap'.starts /\ unswept' = InSpaces(heap) /\ copying' = copying
      /\ doomed \subseteq Addresses /\ Balanced(heap, FALSE)
  BY DEF IInv, FinishEvacuation, NoCopy
<1>2. /\ Good(heap') /\ heap'.gone = {} /\ heap'.spaces = heap.spaces
      /\ \A b \in Blocks : heap'.state[b] # "Evacuating"
      /\ Reported(heap') + Accounted(heap) = Reported(heap) + Accounted(heap')
  BY <1>1, ReleaseGood
<1>3. Balanced(heap', FALSE)
  BY <1>1, <1>2, KeepsEven
<1>4. CopyFits' /\ copying'.won = FALSE
  BY <1>1, NoCopyFits
<1>5. PhaseFits'
  BY <1>1, <1>2 DEF PhaseFits
<1>6. doomed' \subseteq Addresses /\ unswept' \subseteq Blocks
  BY <1>1 DEF InSpaces
<1> QED
  BY <1>1, <1>2, <1>3, <1>4, <1>5, <1>6 DEF IInv, Phases

\* While blocks are swept nothing is being copied and no block is being emptied.
LEMMA NothingMoves ==
  ASSUME IInv, phase = "Sweeping"
  PROVE  /\ copying = NoCopy /\ Balanced(heap, FALSE)
         /\ heap.gone = {} /\ \A c \in Blocks : heap.state[c] # "Evacuating"
<1>1. copying = NoCopy
  BY DEF IInv, CopyFits
<1>2. copying.won = FALSE
  BY <1>1 DEF NoCopy
<1>3. Balanced(heap, copying.won)
  BY DEF IInv
<1>4. Balanced(heap, FALSE)
  BY <1>2, <1>3
<1>5. heap.gone = {} /\ \A c \in Blocks : heap.state[c] # "Evacuating"
  BY DEF IInv, PhaseFits
<1> QED
  BY <1>1, <1>4, <1>5

LEMMA SweepBlockHolds ==
  ASSUME IInv, NEW b \in Blocks, SweepBlock(b)
  PROVE  IInv'
<1> DEFINE S == ObjectsIn(heap, b) \cap Objects(heap) \cap doomed
<1>1. /\ Good(heap) /\ heap.spaces <= MaxSpaces
      /\ phase = "Sweeping" /\ phase' = phase /\ doomed' = doomed /\ copying' = copying
      /\ unswept' = unswept \ {b} /\ unswept \subseteq Blocks /\ doomed \subseteq Addresses
      /\ copying = NoCopy /\ Balanced(heap, FALSE)
      /\ heap.gone = {} /\ \A c \in Blocks : heap.state[c] # "Evacuating"
      /\ heap' = IF heap.state[b] \in {"Full", "Recyclable"} THEN FreeAll(heap, S) ELSE heap
  <2>1. phase = "Sweeping"
    BY DEF SweepBlock
  <2>2. /\ Good(heap) /\ heap.spaces <= MaxSpaces
        /\ phase' = phase /\ doomed' = doomed /\ copying' = copying
        /\ unswept' = unswept \ {b} /\ unswept \subseteq Blocks /\ doomed \subseteq Addresses
        /\ heap' = IF heap.state[b] \in {"Full", "Recyclable"} THEN FreeAll(heap, S) ELSE heap
    BY DEF IInv, SweepBlock
  <2> QED
    BY <2>1, <2>2, NothingMoves
<1>2. CopyFits' /\ copying'.won = FALSE
  BY <1>1, NoCopyFits
<1>3. CASE heap.state[b] \in {"Full", "Recyclable"}
  <2>1. heap' = FreeAll(heap, S)
    BY <1>1, <1>3
  <2>2. S \in SUBSET Objects(heap) /\ \A a \in S : heap.state[BlockIndex(a)] # "Evacuating"
    BY <1>1 DEF ObjectsIn, Objects
  <2> HIDE DEF S
  <2>3. AllDied(heap, heap', S)
    BY <2>1, <2>2, <1>1, FreeAllGood
  <2>4. /\ Good(heap') /\ SameEmptied(heap, heap') /\ heap'.gone = heap.gone
        /\ heap'.spaces = heap.spaces
        /\ Reported(heap') + Accounted(heap) = Reported(heap) + Accounted(heap')
    BY <2>3 DEF AllDied
  <2>5. Balanced(heap', FALSE)
    BY <2>4, <1>1, KeepsEven
  <2>6. PhaseFits'
    BY <1>1, <2>4, KeepsPhase
  <2> QED
    BY <1>1, <1>2, <2>4, <2>5, <2>6 DEF IInv
<1>4. CASE heap.state[b] \notin {"Full", "Recyclable"}
  <2>1. heap' = heap
    BY <1>1, <1>4
  <2>2. PhaseFits'
    BY <1>1, <2>1 DEF PhaseFits
  <2> QED
    BY <1>1, <1>2, <2>1, <2>2 DEF IInv
<1> QED
  BY <1>3, <1>4

LEMMA SweepLargeHolds ==
  ASSUME IInv, NEW k \in 0 .. heap.large, SweepLarge(k)
  PROVE  IInv'
<1> DEFINE f == FlushCounters(heap, "collector")
           g == FreeLarge(f, k)
<1>1. /\ Good(heap) /\ heap.spaces <= MaxSpaces
      /\ phase' = "Idle" /\ doomed' = {} /\ copying' = copying
      /\ unswept' = unswept /\ unswept \subseteq Blocks
      /\ copying = NoCopy /\ Balanced(heap, FALSE)
      /\ heap.gone = {} /\ \A c \in Blocks : heap.state[c] # "Evacuating"
      /\ heap' = g
  <2>1. phase = "Sweeping"
    BY DEF SweepLarge
  <2>2. Good(heap) /\ heap.spaces <= MaxSpaces /\ unswept \subseteq Blocks
    BY DEF IInv
  <2>3. /\ phase' = "Idle" /\ doomed' = {} /\ copying' = copying /\ unswept' = unswept
        /\ heap' = g
    BY DEF SweepLarge
  <2> QED
    BY <2>1, <2>2, <2>3, NothingMoves
<1>2. Good(f) /\ Ready(heap, f) /\ f.spaces = heap.spaces /\ f.state = heap.state
  BY <1>1, Apart, FlushGood
<1>3. f.gone = heap.gone /\ f.large = heap.large
  BY <1>2 DEF Ready
<1> HIDE DEF f
<1>4. Balanced(f, FALSE)
  BY <1>1, <1>2, ReadyBalance
<1>5. /\ Good(g) /\ g.spaces = f.spaces /\ g.state = f.state /\ g.gone = f.gone
      /\ Balanced(g, FALSE)
  BY <1>2, <1>3, <1>4, FreeLargeGood
<1> HIDE DEF g
<1>6. CopyFits' /\ copying'.won = FALSE
  BY <1>1, NoCopyFits
<1>7. PhaseFits'
  BY <1>1, <1>2, <1>3, <1>5 DEF PhaseFits
<1> QED
  BY <1>1, <1>2, <1>5, <1>6, <1>7 DEF IInv, Phases

LEMMA AbandonHolds ==
  ASSUME IInv, Abandon
  PROVE  IInv'
<1> DEFINE st == [b \in Blocks |-> IF heap.state[b] = "Evacuating" THEN "Full" ELSE heap.state[b]]
           q == heap.deaf \cup heap.gone
           g == [heap EXCEPT !.state = st, !.gone = {}, !.deaf = q]
<1>1. /\ Good(heap) /\ heap.spaces <= MaxSpaces
      /\ copying = NoCopy /\ heap' = g /\ phase' \in {"Idle", "Spoilt"} /\ doomed' = {}
      /\ copying' = copying /\ unswept' = unswept /\ unswept \subseteq Blocks
      /\ Balanced(heap, FALSE)
  BY DEF IInv, Abandon, NoCopy
<1>2. st \in [Blocks -> States]
  BY <1>1 DEF Good, Heaps, States
<1>3. /\ \A b \in Blocks : st[b] = IF heap.state[b] = "Evacuating" THEN "Full" ELSE heap.state[b]
      /\ q = heap.deaf \cup heap.gone
  OBVIOUS
<1>4. q \in SUBSET Addresses /\ q \subseteq heap.starts
  BY <1>1 DEF Good, Heaps, GoneFit
<1> HIDE DEF st, q
<1>5. g = [heap EXCEPT !.state = st, !.gone = {}, !.deaf = q]
  OBVIOUS
<1> HIDE DEF g
<1>6. /\ Recast(heap, g) /\ SameObjects(heap, g) /\ g.state = st /\ g.gone = {} /\ g.deaf = q
      /\ g.spaces = heap.spaces /\ g.leaked = heap.leaked /\ g.large = heap.large
      /\ g.counted = heap.counted
  BY <1>1, <1>2, <1>4, <1>5 DEF Good, Heaps, SameObjects, Recast
<1>7. InSpaces(g) = InSpaces(heap)
  BY <1>6 DEF InSpaces
<1>8. StatesFit(g)
  BY <1>1, <1>3, <1>6, <1>7 DEF Good, StatesFit, StateFits, SameObjects
<1>9. GoneFit(g)
  BY <1>4, <1>6 DEF GoneFit, SameObjects
<1>10. \A b \in Blocks : heap.state[b] = "Open" => g.state[b] = "Open"
  BY <1>3, <1>6
<1>11. Good(g) /\ Reported(g) = Reported(heap) + (g.counted - heap.counted)
  BY <1>1, <1>6, <1>8, <1>9, <1>10, RecastGood
<1>12. Balanced(g, FALSE)
  <2>1. Objects(g) = Objects(heap)
    BY <1>3, <1>6, KeepsObjects
  <2>2. Accounted(g) = Accounted(heap)
    BY <2>1, <1>6 DEF Accounted
  <2>3. Reported(g) = Reported(heap)
    BY <1>1, <1>6, <1>11, ObjectsCounted DEF Good, Heaps
  <2> QED
    BY <2>2, <2>3, <1>1 DEF Balanced
<1>13. CopyFits' /\ copying'.won = FALSE
  BY <1>1, NoCopyFits
<1>14. PhaseFits'
  BY <1>1, <1>3, <1>6 DEF PhaseFits
<1> QED
  BY <1>1, <1>6, <1>11, <1>12, <1>13, <1>14 DEF IInv, Phases

LEMMA NextHolds ==
  ASSUME IInv, [Next]_vars
  PROVE  IInv'
<1>1. ASSUME NEW n \in Sizes, Allocate(n) PROVE IInv'
  BY <1>1, AllocateHolds
<1>2. ASSUME NEW S \in SUBSET (Objects(heap) \ doomed), NEW k \in 0 .. heap.large, Collect(S, k)
      PROVE  IInv'
  BY <1>2, CollectHolds
<1>3. CASE Park
  BY <1>3, ParkHolds
<1>4. CASE Unpark
  BY <1>4 DEF Unpark, IInv, CopyFits, PhaseFits
<1>5. ASSUME NEW S \in SUBSET Objects(heap), BeginTrace(S) PROVE IInv'
  BY <1>5, BeginTraceHolds
<1>6. ASSUME NEW R \in SUBSET Movable(heap), NEW S \in SUBSET Objects(heap), FinishMarking(R, S)
      PROVE  IInv'
  BY <1>6, FinishMarkingHolds
<1>7. ASSUME NEW a \in Movable(heap), BeginCopy(a) PROVE IInv'
  BY <1>7, BeginCopyHolds
<1>8. ASSUME NEW mistaken \in BOOLEAN, EndCopy(mistaken) PROVE IInv'
  BY <1>8, EndCopyHolds
<1>9. ASSUME NEW b \in Blocks, NEW lost \in SUBSET {copying.src}, NEW mistaken \in BOOLEAN,
             EvacuateBlock(b, lost, mistaken)
      PROVE  IInv'
  BY <1>9, EvacuateBlockHolds
<1>10. CASE FinishEvacuation
  BY <1>10, FinishEvacuationHolds
<1>11. ASSUME NEW b \in Blocks, SweepBlock(b) PROVE IInv'
  BY <1>11, SweepBlockHolds
<1>12. ASSUME NEW k \in 0 .. heap.large, SweepLarge(k) PROVE IInv'
  BY <1>12, SweepLargeHolds
<1>13. CASE Abandon
  BY <1>13, AbandonHolds
<1>14. CASE UNCHANGED vars
  BY <1>14 DEF vars, IInv, CopyFits, PhaseFits
<1> QED
  BY <1>1, <1>2, <1>3, <1>4, <1>5, <1>6, <1>7, <1>8, <1>9, <1>10, <1>11, <1>12, <1>13,
     <1>14 DEF Next

-----------------------------------------------------------------------------
(* What follows from it.                                                    *)

LEMMA TypesFollow == IInv => TypeOK
<1> SUFFICES ASSUME IInv PROVE TypeOK
  OBVIOUS
<1>1. /\ heap \in Heaps /\ Tallied(heap) /\ heap.spaces <= MaxSpaces
      /\ phase \in Phases
      /\ doomed \subseteq Addresses /\ unswept \subseteq Blocks
  BY DEF IInv, Good
<1>2. heap.lines \in [Lines -> Nat]
  BY <1>1, EmptyLine DEF Heaps
<1>3. heap.live \in [Blocks -> 0 .. BlockLines]
  BY <1>1, ObjectsFinite DEF Heaps, Tallied
<1>4. heap.spaces \in 0 .. MaxSpaces
  BY <1>1, Constants DEF Heaps
<1>5. Blocks \subseteq Addresses
  <2> DEFINE n == Cardinality(Blocks)
  <2>1. n \in Nat /\ Blocks = 0 .. n - 1
    <3>1. (MaxSpaces + 1) * SpaceBlocks \in Nat
      BY Constants
    <3> QED
      BY <3>1, Finite DEF Blocks
  <2>2. Addresses = 0 .. n * BlockGranules - 1
    BY DEF Addresses
  <2> HIDE DEF n
  <2>3. n * BlockGranules \in Nat /\ n <= n * BlockGranules
    <3>1. BlockGranules \in Nat /\ 1 <= BlockGranules
      BY Constants
    <3> HIDE DEF BlockGranules
    <3> QED
      BY <2>1, <3>1
  <2> QED
    BY <2>1, <2>2, <2>3
<1> QED
  BY <1>1, <1>2, <1>3, <1>4, <1>5 DEF TypeOK, Heaps, Phases

LEMMA MetadataFollows == IInv => MetadataExact
<1> SUFFICES ASSUME IInv PROVE MetadataExact
  OBVIOUS
<1>1. heap \in Heaps /\ Placed(heap) /\ Tallied(heap) /\ StatesFit(heap)
  BY DEF IInv, Good
<1>2. \A b \in Blocks : heap.live[b] = 0 => ObjectsIn(heap, b) = {}
  BY <1>1, EmptyBlock
<1> QED
  BY <1>1, <1>2, TypesFollow DEF MetadataExact, Tallied, On, Used, StatesFit, StateFits

LEMMA HolesFollow == IInv => HolesAreClean
<1> SUFFICES ASSUME IInv PROVE HolesAreClean
  OBVIOUS
<1>1. heap \in Heaps /\ Placed(heap) /\ HolesFit(heap)
  BY DEF IInv, Good
<1>2. \A r \in Allocators : \E i \in Holders : r = HoleOf(heap, i) /\ r # NoHole
  BY DEF Allocators, Holders, HoleOf, Threads
<1>3. \A a \in heap.starts : Bytes(a) = BytesAt(heap, a)
  BY DEF Bytes, BytesAt
<1>4. ASSUME NEW r \in Allocators
      PROVE  /\ heap.state[r.block] = "Open"
             /\ Unused(r) \subseteq heap.clean \ UNION {Bytes(a) : a \in heap.starts}
             /\ \A q \in Allocators : q # r => q.block # r.block
  <2>1. PICK i \in Holders : r = HoleOf(heap, i) /\ r # NoHole
    BY <1>2
  <2>2. HoleFits(heap, r) /\ \A j \in Holders \ {i} : HoleOf(heap, j).block # r.block
    BY <2>1, <1>1 DEF HolesFit
  <2>3. Unused(r) \subseteq heap.clean
    BY <2>2 DEF Unused, HoleFits
  <2>4. \A a \in heap.starts : Bytes(a) \cap heap.clean = {}
    BY <1>1, <1>3 DEF Placed
  <2>5. \A q \in Allocators : q # r => q.block # r.block
    BY <1>2, <2>1, <2>2
  <2> QED
    BY <2>2, <2>3, <2>4, <2>5 DEF HoleFits
<1>5. \A a, b \in heap.starts : a # b => Bytes(a) \cap Bytes(b) = {}
  BY <1>1, <1>3 DEF Placed
<1> QED
  BY <1>4, <1>5 DEF HolesAreClean

LEMMA StatsFollow == IInv => StatsExact
BY DEF IInv, Balanced, Accounted, StatsExact

LEMMA Invariant == Spec => []IInv
<1>1. IInv /\ [Next]_vars => IInv'
  BY NextHolds
<1> QED
  BY <1>1, InitHolds, PTL DEF Spec

\* The metadata a heap keeps is what one would count (heap.rs, occupy, vacate,
\* close_block, free), for every shape of heap and every number of objects,
\* with objects of any size in the holes and copies made whoever is marking.
THEOREM MetadataStaysExact == Spec => []MetadataExact
BY Invariant, MetadataFollows, PTL

\* What is allocated next is nobody's, and is zero (heap.rs, reserve, open_hole),
\* a large object taken from a hole included.
THEOREM HolesStayClean == Spec => []HolesAreClean
BY Invariant, HolesFollow, PTL

\* When everyone has reported, the live count is that of the objects and of the
\* lost copies taken for freed ones: it is off by those, and by nothing else
\* (heap.rs, Counters, free).
THEOREM StatsStayExact == Spec => []StatsExact
BY Invariant, StatsFollow, PTL
=============================================================================
